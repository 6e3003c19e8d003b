--------------------------- MODULE CommandRunner ---------------------------
(***************************************************************************)
(* POST /exec of a runner (proxy/src/exec/exec-handler.ts) and the command *)
(* it executes (command-runner.ts): runCommand, which answers when the     *)
(* child has exited, and runDetachableCommand, which answers as soon as    *)
(* the output matches a pattern and leaves the child running.  Exit, data, *)
(* and three timers come in any order.                                     *)
(*                                                                         *)
(* The child writes its output in pieces; the pattern matches once the     *)
(* first MatchAt of them have been read.  -1 is "minusOne", null "running".*)
(***************************************************************************)
EXTENDS Naturals, Sequences

CONSTANTS
  Pieces,        \* pieces that the child, or its daemon, writes at most
  Daemon,        \* may a daemon hold the pipes open and write after the exit?
  Stubborn       \* may the child survive SIGTERM?

\* What an instance has to satisfy.
CommandAssumption == Pieces \in Nat /\ Daemon \in BOOLEAN /\ Stubborn \in BOOLEAN

VARIABLES
  kind,          \* "none" before the request, "plain", "detachable" or "refused"
  matchAt,       \* outside: where the pattern matches; Pieces + 1 is never
  proc,          \* outside: the child
  code,          \* outside: its exit code
  signal,        \* outside: the signal sent to it
  written,       \* outside: pieces in the pipe so far
  last,          \* outside: pieces written when it exited
  read,          \* pieces read (stdout)
  exitSeen,      \* the exit event was handled; detachable: exitedCode is set
  settled, timer, grace, back, backSettled,
  answer,        \* what the promise was resolved with
  notices,       \* calls of onBackgroundExit
  early          \* history: the grace ended before all that was written by the exit had been read

outside == <<matchAt, code, written, last>>
vars == <<kind, outside, proc, signal, read, exitSeen, settled, timer, grace, back, backSettled,
          answer, notices, early>>

ExitCodes == {"zero", "one", "minusOne"}
Answers   == ExitCodes \cup {"none", "running"}

Init ==
  /\ kind = "none" /\ matchAt \in 1 .. Pieces + 1
  /\ proc = "none" /\ code = "minusOne" /\ signal = "none"
  /\ written = 0 /\ last = 0 /\ read = 0
  /\ exitSeen = FALSE /\ settled = FALSE
  /\ timer = FALSE /\ grace = FALSE /\ back = FALSE /\ backSettled = FALSE
  /\ answer = "none" /\ notices = << >> /\ early = FALSE

Matches(n) == n >= matchAt

-----------------------------------------------------------------------------
(* The request                                                             *)

\* Not JSON, not of the right shape, or another binary: nothing is executed.
Refuse ==
  /\ kind = "none"
  /\ kind' = "refused"
  /\ UNCHANGED <<outside, proc, signal, read, exitSeen, settled, timer, grace, back, backSettled,
                 answer, notices, early>>

\* The child is spawned with its timer, or cannot be.
Spawn ==
  /\ kind = "none"
  /\ kind' \in {"plain", "detachable"}
  /\ proc' \in {"running", "failed"}
  /\ timer' = TRUE
  /\ UNCHANGED <<outside, signal, read, exitSeen, settled, grace, back, backSettled, answer, notices,
                 early>>

Resolve(a) == settled' = TRUE /\ answer' = a

\* The error event of a child that could not be spawned.
SpawnError ==
  /\ proc = "failed" /\ ~settled
  /\ Resolve("minusOne") /\ timer' = FALSE
  /\ UNCHANGED <<kind, outside, proc, signal, read, exitSeen, grace, back, backSettled, notices, early>>

\* timeoutMs has passed.
Timeout ==
  /\ timer
  /\ Resolve("minusOne") /\ timer' = FALSE
  /\ signal' = IF proc = "running" THEN "TERM" ELSE signal
  /\ UNCHANGED <<kind, outside, proc, read, exitSeen, grace, back, backSettled, notices, early>>

-----------------------------------------------------------------------------
(* Output                                                                  *)

\* The answer is that the process runs on; if its exit was seen already, that is
\* announced at once.
Match ==
  /\ Resolve("running") /\ timer' = FALSE
  /\ back' = ~exitSeen /\ backSettled' = exitSeen
  /\ notices' = IF exitSeen THEN Append(notices, [code |-> code, killed |-> FALSE]) ELSE notices

\* Some of what is in the pipe is read.
Data ==
  /\ kind \in {"plain", "detachable"}
  /\ \E n \in read + 1 .. written :
       /\ read' = n
       /\ IF kind = "detachable" /\ ~settled /\ Matches(n)
          THEN Match
          ELSE UNCHANGED <<settled, answer, timer, back, backSettled, notices>>
  /\ UNCHANGED <<kind, outside, proc, signal, exitSeen, grace, early>>

-----------------------------------------------------------------------------
(* The end of the child                                                    *)

\* Mutant: without the grace.
ExitEventAtOnce ==
  /\ proc = "exited" /\ ~exitSeen
  /\ exitSeen' = TRUE
  /\ IF settled THEN UNCHANGED <<settled, answer, timer>> ELSE Resolve(code) /\ timer' = FALSE
  /\ UNCHANGED <<kind, outside, proc, signal, read, grace, back, backSettled, notices, early>>

\* Mutant: an exit after a kill is announced again.
ExitEventTwice ==
  /\ proc = "exited" /\ ~exitSeen
  /\ exitSeen' = TRUE
  /\ IF kind = "detachable" /\ answer = "running"
     THEN /\ back' = FALSE
          /\ notices' = Append(notices, [code |-> code, killed |-> FALSE])
     ELSE UNCHANGED <<back, notices>>
  /\ grace' = (grace \/ ~settled)
  /\ settled' = (settled \/ kind = "plain")
  /\ timer' = (timer /\ kind = "detachable")
  /\ UNCHANGED <<kind, outside, proc, signal, read, backSettled, answer, early>>

\* The exit event.  A plain command is settled, with the answer to come after
\* the grace; a detachable one may still match, or time out, during the grace.
ExitEvent ==
  /\ proc = "exited" /\ ~exitSeen
  /\ exitSeen' = TRUE
  /\ IF settled
     THEN /\ IF kind = "detachable" /\ ~backSettled
             THEN /\ back' = FALSE /\ backSettled' = TRUE
                  /\ notices' = Append(notices, [code |-> code, killed |-> FALSE])
             ELSE UNCHANGED <<back, backSettled, notices>>
          /\ UNCHANGED <<grace, settled, timer>>
     ELSE /\ grace' = TRUE
          /\ settled' = (kind = "plain")
          /\ timer' = (kind = "detachable" /\ timer)
          /\ UNCHANGED <<back, backSettled, notices>>
  /\ UNCHANGED <<kind, outside, proc, signal, read, answer, early>>

\* 50 ms after the exit event, a time in which what the child wrote need not have arrived.
GraceEnds ==
  /\ grace
  /\ grace' = FALSE
  /\ IF kind = "plain" \/ ~settled
     THEN Resolve(code) /\ timer' = FALSE /\ early' = (read < last)
     ELSE UNCHANGED <<settled, answer, timer, early>>
  /\ UNCHANGED <<kind, outside, proc, signal, read, exitSeen, back, backSettled, notices>>

\* Mutant: a child that does not listen to SIGTERM stays.
BackTimeoutTerm ==
  /\ back /\ back' = FALSE
  /\ backSettled' = TRUE
  /\ signal' = IF proc = "running" THEN "TERM" ELSE signal
  /\ notices' = Append(notices, [code |-> "minusOne", killed |-> TRUE])
  /\ UNCHANGED <<kind, outside, proc, read, exitSeen, settled, timer, grace, answer, early>>

\* backgroundTimeoutMs has passed since the match.
BackTimeout ==
  /\ back /\ back' = FALSE
  /\ backSettled' = TRUE
  /\ signal' = IF proc = "running" THEN "KILL" ELSE signal
  /\ notices' = Append(notices, [code |-> "minusOne", killed |-> TRUE])
  /\ UNCHANGED <<kind, outside, proc, read, exitSeen, settled, timer, grace, answer, early>>

-----------------------------------------------------------------------------
(* The child                                                               *)

ours == <<kind, read, exitSeen, settled, timer, grace, back, backSettled, answer, notices, early>>

Write ==
  /\ proc = "running" \/ (proc = "exited" /\ Daemon)
  /\ written < Pieces
  /\ written' = written + 1
  /\ UNCHANGED <<ours, matchAt, proc, code, signal, last>>

Ends(c) ==
  /\ proc = "running"
  /\ proc' = "exited" /\ code' = c /\ last' = written
  /\ UNCHANGED <<ours, matchAt, signal, written>>

\* By itself, or by a signal of somebody else; or by the signal sent to it.
Exits == \E c \in ExitCodes : Ends(c)
Dies  == signal # "none" /\ Ends("minusOne")

Handlers ==
  \/ SpawnError \/ Timeout \/ Data \/ ExitEvent \/ GraceEnds \/ BackTimeout

Next == Refuse \/ Spawn \/ Handlers \/ Write \/ Exits \/ Dies

Spec == Init /\ [][Next]_vars

\* Timers fire, what is in the pipe is read and events are handled; a child is
\* only sure to die of SIGKILL, or of SIGTERM if it is not stubborn.
Fairness ==
  /\ WF_vars(SpawnError) /\ WF_vars(Timeout) /\ WF_vars(Data) /\ WF_vars(ExitEvent)
  /\ WF_vars(GraceEnds) /\ WF_vars(BackTimeout)
  /\ WF_vars((signal = "KILL" \/ ~Stubborn) /\ Dies)

-----------------------------------------------------------------------------
(* Properties                                                              *)

\* An exit code that is answered is that of the child, never a killed one's.  The
\* output that a detachable command wrote before its exit does not match then, though
\* exit may be handled before data (command-runner.ts:187-196), unless the 50 ms of
\* the grace were too short for reading all of it.
AnswerIsTrue ==
  answer \in {"zero", "one"} =>
    /\ proc = "exited" /\ code = answer
    /\ kind = "detachable" => ~Matches(last) \/ early

\* The background end is announced once and after the answer, whichever of exit, kill
\* and match comes first: as a kill if and only if the exit of the child had not been
\* seen, otherwise with the code that the child ended with.
AnnouncedTruly ==
  [][notices' # notices =>
       LET notice == notices'[Len(notices')] IN
       /\ notices = << >> /\ answer' # "none"
       /\ notice.killed <=> ~exitSeen'
       /\ ~notice.killed => proc = "exited" /\ notice.code = code]_vars

\* A command answered as running does not stay for ever, whatever it ignores.
DetachedEnds == answer = "running" ~> proc = "exited"
=============================================================================
