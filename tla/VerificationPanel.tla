------------------------- MODULE VerificationPanel -------------------------
(***************************************************************************)
(* How a tab of the web UI follows a verification (hooks/useVerification,  *)
(* VerificationPanel): started by the user, then asked for its progress    *)
(* every half second until it is completed, and given up when the dialog   *)
(* closes.  Requests are answered in any order, or not at all; the dialog  *)
(* may be opened anew meanwhile, other tabs start verifications, and the   *)
(* API, which has them in memory only, may restart.                        *)
(***************************************************************************)
EXTENDS Naturals

CONSTANTS
  Steps,         \* checks of a verification
  None,
  MaxOpenings, MaxJobs   \* bounds

\* What an instance has to satisfy.
PanelAssumption ==
  /\ Steps \in Nat \ {0} /\ MaxOpenings \in Nat /\ MaxJobs \in Nat
  /\ None \notin [id : Nat, from : Nat] \cup [id : Nat, done : Nat, from : Nat]

VARIABLES
  latest, steps, \* the API: the last verification, and the checks it has done
  forgotten,     \* those up to this one are not known any more
  active, generation,
  verification,  \* what is shown: its id, its checks done; ghost: who started it
  isStarting, alarm, \* alarm: error
  timer,         \* timer.current
  posts, polls   \* requests under way

server == <<latest, steps, forgotten>>
shownVars == <<verification, isStarting, alarm, timer>>
panelVars == <<server, active, generation, shownVars, posts, polls>>

Init ==
  /\ latest = 0 /\ steps = Steps /\ forgotten = 0
  /\ active = FALSE /\ generation = 1
  /\ verification = None /\ isStarting = FALSE /\ alarm = FALSE /\ timer = None
  /\ posts = {} /\ polls = {}

Running == isStarting \/ (verification # None /\ verification.done < Steps)

-----------------------------------------------------------------------------
(* The API, see Verification                                               *)

Busy == steps < Steps

NewJob == ~Busy /\ latest < MaxJobs /\ latest' = latest + 1 /\ steps' = 0 /\ UNCHANGED forgotten

StartElsewhere ==
  /\ NewJob
  /\ UNCHANGED <<active, generation, shownVars, posts, polls>>

Progress ==
  /\ Busy /\ steps' = steps + 1
  /\ UNCHANGED <<latest, forgotten, active, generation, shownVars, posts, polls>>

Restart ==
  /\ forgotten < latest /\ forgotten' = latest /\ steps' = Steps
  /\ UNCHANGED <<latest, active, generation, shownVars, posts, polls>>

Asked(id, from) == [id |-> id, from |-> from, answer |-> "asked", done |-> 0]

Answered(requests, p, answer, id) ==
  (requests \ {p}) \cup {[p EXCEPT !.answer = answer, !.id = id]}

\* POST /v1/verifications.
AnswerPost(p) ==
  /\ p.answer = "asked"
  /\ \/ /\ NewJob
        /\ \E answer \in {"started", "failed"} : posts' = Answered(posts, p, answer, latest')
     \/ /\ \/ posts' = Answered(posts, p, "failed", 0)
           \/ Busy /\ posts' = Answered(posts, p, "busy", 0)
        /\ UNCHANGED server
  /\ UNCHANGED <<active, generation, shownVars, polls>>

\* GET /v1/verifications/{id}: the checks done.
AnswerPoll(p) ==
  /\ p.answer = "asked"
  /\ \E answer \in {IF p.id <= forgotten THEN "notFound" ELSE "found", "failed"} :
       polls' = (polls \ {p}) \cup
                {[p EXCEPT !.answer = answer, !.done = IF p.id = latest THEN steps ELSE Steps]}
  /\ UNCHANGED <<server, active, generation, shownVars, posts>>

-----------------------------------------------------------------------------
(* The tab                                                                 *)

OpenDialog ==
  /\ ~active /\ generation <= MaxOpenings
  /\ active' = TRUE
  /\ UNCHANGED <<server, generation, shownVars, posts, polls>>

\* The effect of [active]: everything is dropped, with a new generation.
CloseDialog ==
  /\ active /\ active' = FALSE
  /\ generation' = generation + 1
  /\ verification' = None /\ isStarting' = FALSE /\ alarm' = FALSE /\ timer' = None
  /\ UNCHANGED <<server, posts, polls>>

\* start, by the button, which is disabled while one runs.
Start ==
  /\ active /\ ~Running
  /\ isStarting' = TRUE /\ alarm' = FALSE /\ timer' = None
  /\ posts' = posts \cup {Asked(0, generation)}
  /\ UNCHANGED <<server, active, generation, verification, polls>>

Scheduled(id) == [id |-> id, from |-> generation]

\* The answer to start, of this generation: another tab runs one, or a failure, or the
\* verification is under way.
Started(p) ==
  /\ p.answer # "asked" /\ posts' = posts \ {p}
  /\ IF p.from # generation THEN UNCHANGED shownVars
     ELSE /\ isStarting' = FALSE
          /\ IF p.answer \in {"busy", "failed"}
             THEN alarm' = TRUE /\ UNCHANGED <<verification, timer>>
             ELSE /\ verification' = [id |-> p.id, done |-> 0, from |-> p.from]
                  /\ timer' = Scheduled(p.id) /\ UNCHANGED alarm
  /\ UNCHANGED <<server, active, generation, polls>>

\* poll: the time is over, half a second after an answer or more after a failure.
Poll ==
  /\ timer # None /\ timer' = None
  /\ polls' = polls \cup {Asked(timer.id, timer.from)}
  /\ UNCHANGED <<server, active, generation, verification, isStarting, alarm, posts>>

Shown(p) ==
  CASE p.answer = "notFound" -> alarm' = TRUE /\ UNCHANGED <<verification, timer>>
    [] p.answer = "failed"   -> /\ alarm' = TRUE /\ timer' = Scheduled(p.id)
                                /\ UNCHANGED verification
    [] OTHER -> /\ alarm' = FALSE
                /\ verification' = [id |-> p.id, done |-> p.done, from |-> p.from]
                /\ timer' = IF p.done < Steps THEN Scheduled(p.id) ELSE timer

\* Mutant: an answer other than the progress is dropped.
PolledSilently(p) ==
  /\ p.answer # "asked" /\ polls' = polls \ {p}
  /\ IF p.from # generation \/ p.answer = "notFound" THEN UNCHANGED shownVars
     ELSE Shown(p) /\ UNCHANGED isStarting
  /\ UNCHANGED <<server, active, generation, posts>>

\* The answer to poll: it goes on after progress, and after a failure of the network.
Polled(p) ==
  /\ p.answer # "asked" /\ polls' = polls \ {p}
  /\ IF p.from # generation THEN UNCHANGED shownVars ELSE Shown(p) /\ UNCHANGED isStarting
  /\ UNCHANGED <<server, active, generation, posts>>

Next ==
  \/ StartElsewhere \/ Progress \/ Restart
  \/ \E p \in posts : AnswerPost(p) \/ Started(p)
  \/ \E p \in polls : AnswerPoll(p) \/ Polled(p)
  \/ OpenDialog \/ CloseDialog \/ Start \/ Poll

Spec == Init /\ [][Next]_panelVars

-----------------------------------------------------------------------------
(* Properties                                                              *)

\* What is shown is of a verification that was started in this opening of the dialog,
\* whenever the requests of earlier ones are answered (useVerification.ts:36).
ResultsOfThisOpening == verification # None => verification.from = generation

\* While the panel shows a verification as running, and no error, something is under way
\* that will change that: it does not stay so for ever, though the API may restart and
\* forget it, requests be lost, and earlier openings leave requests behind.
WatchedOrTold ==
  Running /\ ~alarm =>
    IF isStarting THEN \E r \in posts : r.from = generation
    ELSE \/ timer # None /\ timer = Scheduled(verification.id)
         \/ \E r \in polls : r.from = generation /\ r.id = verification.id

\* Both: what the panel says is of this opening, and it does not go on for ever.
PanelIsTrue == ResultsOfThisOpening /\ WatchedOrTold
=============================================================================
