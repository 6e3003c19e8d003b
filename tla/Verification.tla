---------------------------- MODULE Verification ----------------------------
(***************************************************************************)
(* The check of the settings in operation: POST /v1/verifications, its     *)
(* execution one check after the other, and the results that are kept      *)
(* (api/src/verification/verification-service.ts, client-judgements.ts,    *)
(* check-catalog.ts, routes/verifications.ts), with the disposable name    *)
(* that the browser resolves and the relay records                         *)
(* (proxy/src/verification/check-nonces.ts).                               *)
(*                                                                         *)
(* Of the thirteen checks there are the three that depend on each other or *)
(* on the browser: tunnel-egress, client-egress and dns-redirect-path; the *)
(* others are asked of the gateway as tunnel-egress is.                    *)
(***************************************************************************)
EXTENDS Naturals, Sequences, FiniteSets, Functions

CONSTANTS
  Jobs,          \* bound: the number of verifications started
  Kept,          \* MAX_KEPT_VERIFICATIONS
  Entries,       \* MAX_ENTRIES of the names in the proxy
  Attempts,      \* fetches of a name's record
  Addresses,     \* egress addresses
  None,          \* no address: null of the browser, undefined of the tunnel
  Restarts       \* may the API and the proxy restart?

ASSUME BoundsAssumption ==
  /\ Jobs \in Nat /\ Kept \in Nat \ {0} /\ Entries \in Nat \ {0} /\ Attempts \in Nat \ {0}
ASSUME NoneAssumption   == None \notin Addresses /\ Restarts \in BOOLEAN

Ids    == 1 .. Jobs
Checks == <<"tunnel", "egress", "redirect">>
Names  == {"tunnel", "egress", "redirect"}
Results == {"pass", "fail", "unconfirmed"}

VARIABLES
  running,       \* VerificationService.running
  next,          \* the id of the next verification
  job,           \* VerificationService's jobs, by id
  kept,          \* the ids in VerificationService.jobs
  names,         \* CheckNonceRegistry.entries, by the id of the verification: the
                 \* names were registered in the order of the ids
  tunnel,        \* outside: the egress address of the VPN, if it is up
  seen,          \* history: egress addresses of the tunnel during each verification
  redirected     \* history: has any query been redirected?

vars == <<running, next, job, kept, names, tunnel, seen, redirected>>

\* phase: "none", "registering", "executing", "completed".  egress: the browser's
\* submission if submitted.  result: of the running check, published a little later.
NoJob == [phase |-> "none", status |-> [c \in Names |-> "pending"], probe |-> FALSE,
          submitted |-> FALSE, egress |-> None, tunnelIp |-> None, left |-> 0, result |-> "none"]

Init ==
  /\ running = FALSE /\ next = 1
  /\ job = [i \in Ids |-> NoJob]
  /\ kept = << >> /\ names = [i \in Ids |-> "absent"]
  /\ tunnel \in Addresses \cup {None}
  /\ seen = [i \in Ids |-> {}] /\ redirected = FALSE

At(i, c) == job[i].phase = "executing" /\ job[i].status[c] = "running" /\ job[i].result = "none"

-----------------------------------------------------------------------------
(* Start                                                                   *)

\* What the settings make a verification of: client-egress needs the transparent
\* gateway, tunnel-egress that or the explicit proxy, dns-redirect-path the relay.
Applicable(transparent, explicit, redirect) ==
  [c \in Names |->
     IF \/ c = "tunnel" /\ (transparent \/ explicit)
        \/ c = "egress" /\ transparent
        \/ c = "redirect" /\ redirect
     THEN "pending" ELSE "notApplicable"]

\* Mutant: the flag is not taken before the registration.
StartUnflagged ==
  /\ ~running /\ next \in Ids
  /\ \E transparent, explicit, redirect \in BOOLEAN :
       job' = [job EXCEPT ![next] = [NoJob EXCEPT
                 !.phase = "registering", !.status = Applicable(transparent, explicit, redirect)]]
  /\ next' = next + 1
  /\ seen' = [seen EXCEPT ![next] = {tunnel}]
  /\ UNCHANGED <<running, kept, names, tunnel, redirected>>

\* POST: refused with 409 while another runs.
Start ==
  /\ ~running /\ next \in Ids
  /\ running' = TRUE
  /\ \E transparent, explicit, redirect \in BOOLEAN :
       job' = [job EXCEPT ![next] = [NoJob EXCEPT
                 !.phase = "registering", !.status = Applicable(transparent, explicit, redirect)]]
  /\ next' = next + 1
  /\ seen' = [seen EXCEPT ![next] = {tunnel}]
  /\ UNCHANGED <<kept, names, tunnel, redirected>>

Keep(i) == IF Len(kept) >= Kept THEN Tail(Append(kept, i)) ELSE Append(kept, i)

Gone(i) == Range(kept) \ Range(Keep(i))

\* The names that have not expired.
Live == {i \in Ids : names[i] \in {"registered", "received", "redirected"}}

\* CheckNonceRegistry.register: expired names are removed, then the oldest if full.
Register(i) ==
  LET oldest == {j \in Live : \A k \in Live : j <= k}
      room   == IF Cardinality(Live) >= Entries THEN Live \ oldest ELSE Live
  IN [j \in Ids |-> IF j = i THEN "registered" ELSE IF j \in room THEN names[j] ELSE "absent"]

\* The name is registered if it is needed, which may fail; then the verification
\* is kept, begins to execute, and POST answers.
Registered(i) ==
  /\ job[i].phase = "registering"
  /\ kept' = Keep(i)
  /\ \E probe \in {FALSE, job[i].status["redirect"] = "pending"} :
       /\ names' = IF probe THEN Register(i) ELSE names
       /\ job' = [j \in Ids |->
            CASE j = i -> [job[i] EXCEPT !.phase = "executing", !.probe = probe]
              [] j \in Gone(i) -> NoJob
              [] OTHER -> job[j]]
  /\ seen' = [j \in Ids |-> IF j \in Gone(i) THEN {} ELSE seen[j]]
  /\ UNCHANGED <<running, next, tunnel, redirected>>

-----------------------------------------------------------------------------
(* Execution                                                               *)

Pending(i) == {n \in DOMAIN Checks : job[i].status[Checks[n]] = "pending"}

Resting(i) == job[i].phase = "executing" /\ \A c \in Names : job[i].status[c] # "running"

\* The next check is running.
Begin(i) ==
  /\ Resting(i)
  /\ \E n \in Pending(i) :
       /\ \A m \in Pending(i) : n <= m
       /\ job' = [job EXCEPT ![i].status[Checks[n]] = "running", ![i].left = Attempts]
  /\ UNCHANGED <<running, next, kept, names, tunnel, seen, redirected>>

Conclude(i, result) == job' = [job EXCEPT ![i].result = result]

\* The gateway looks for the egress of the tunnel, or does not answer in time.
TunnelEgress(i) ==
  /\ At(i, "tunnel")
  /\ IF tunnel # None
     THEN \/ job' = [job EXCEPT ![i].result = "pass", ![i].tunnelIp = tunnel]
          \/ Conclude(i, "unconfirmed")
     ELSE \E r \in {"fail", "unconfirmed"} : Conclude(i, r)
  /\ UNCHANGED <<running, next, kept, names, tunnel, seen, redirected>>

\* Mutant: null and undefined are compared as if they were addresses.
JudgeUnknown(submitted, browser, tunnelIp) ==
  IF browser = tunnelIp THEN "pass" ELSE "fail"

\* judgeClientEgress
JudgeClientEgress(submitted, browser, tunnelIp) ==
  IF ~submitted \/ browser = None \/ tunnelIp = None THEN "unconfirmed"
  ELSE IF browser = tunnelIp THEN "pass" ELSE "fail"

\* Mutant: only a submission ends the wait.
ClientEgressOnly(i) ==
  /\ At(i, "egress") /\ job[i].submitted
  /\ Conclude(i, JudgeClientEgress(job[i].submitted, job[i].egress, job[i].tunnelIp))
  /\ UNCHANGED <<running, next, kept, names, tunnel, seen, redirected>>

\* There is a submission, or 15 s have passed.
ClientEgress(i) ==
  /\ At(i, "egress")
  /\ Conclude(i, JudgeClientEgress(job[i].submitted, job[i].egress, job[i].tunnelIp))
  /\ UNCHANGED <<running, next, kept, names, tunnel, seen, redirected>>

Received(i) == names[i] \in {"received", "redirected"}

\* judgeDnsRedirect; recent says that somebody was redirected lately.
JudgeDnsRedirect(i, recent) ==
  IF names[i] = "redirected" \/ (i \in Live /\ recent) THEN "pass" ELSE "unconfirmed"

\* One fetch of the record: it fails, is the last, or is repeated after 500 ms.
DnsRedirectPath(i) ==
  /\ At(i, "redirect")
  /\ \/ Conclude(i, "unconfirmed")
     \/ /\ job[i].probe
        /\ IF Received(i) \/ job[i].left = 1
           THEN \E recent \in {FALSE, redirected} : Conclude(i, JudgeDnsRedirect(i, recent))
           ELSE job' = [job EXCEPT ![i].left = @ - 1]
  /\ UNCHANGED <<running, next, kept, names, tunnel, seen, redirected>>

\* The result is shown 400 ms after the check began at the earliest.
Publish(i) ==
  /\ job[i].result # "none"
  /\ job' = [job EXCEPT
       ![i].result = "none",
       ![i].status = [c \in Names |-> IF @[c] = "running" THEN job[i].result ELSE @[c]]]
  /\ UNCHANGED <<running, next, kept, names, tunnel, seen, redirected>>

Finish(i) ==
  /\ Resting(i) /\ Pending(i) = {}
  /\ job' = [job EXCEPT ![i].phase = "completed"]
  /\ running' = FALSE
  /\ UNCHANGED <<next, kept, names, tunnel, seen, redirected>>

Execute(i) ==
  \/ Registered(i) \/ Begin(i) \/ TunnelEgress(i) \/ ClientEgress(i) \/ DnsRedirectPath(i)
  \/ Publish(i) \/ Finish(i)

-----------------------------------------------------------------------------
(* Browsers, the tunnel, restarts                                          *)

\* PUT of the egress address: only the first is taken.
Submit(i, ip) ==
  /\ i \in Range(kept) /\ ~job[i].submitted
  /\ job' = [job EXCEPT ![i].submitted = TRUE, ![i].egress = ip]
  /\ UNCHANGED <<running, next, kept, names, tunnel, seen, redirected>>

\* A query for the name arrives, redirected or not (interceptQuery, markReceived).
Resolve(i, byRedirect) ==
  /\ job[i].probe /\ i \in Live
  /\ names' = [names EXCEPT ![i] = IF byRedirect THEN "redirected"
                                   ELSE IF @ = "registered" THEN "received" ELSE @]
  /\ redirected' = (redirected \/ byRedirect)
  /\ UNCHANGED <<running, next, job, kept, tunnel, seen>>

\* Another client is redirected.
Redirect ==
  /\ redirected' = TRUE
  /\ UNCHANGED <<running, next, job, kept, names, tunnel, seen>>

Expire(i) ==
  /\ i \in Live
  /\ names' = [names EXCEPT ![i] = "expired"]
  /\ UNCHANGED <<running, next, job, kept, tunnel, seen, redirected>>

TunnelChange ==
  /\ tunnel' \in Addresses \cup {None}
  /\ seen' = [i \in Ids |->
       IF job[i].phase \in {"registering", "executing"} THEN seen[i] \cup {tunnel'} ELSE seen[i]]
  /\ UNCHANGED <<running, next, job, kept, names, redirected>>

ProxyRestart ==
  /\ Restarts /\ \E i \in Ids : names[i] # "absent"
  /\ names' = [i \in Ids |-> "absent"]
  /\ UNCHANGED <<running, next, job, kept, tunnel, seen, redirected>>

\* The results are in memory only.
ApiRestart ==
  /\ Restarts /\ next > 1
  /\ running' = FALSE /\ kept' = << >>
  /\ job' = [i \in Ids |-> NoJob]
  /\ seen' = [i \in Ids |-> {}]
  /\ UNCHANGED <<next, names, tunnel, redirected>>

Next ==
  \/ Start
  \/ \E i \in Ids : Registered(i)
  \/ \E i \in Ids : Begin(i)
  \/ \E i \in Ids : TunnelEgress(i)
  \/ \E i \in Ids : ClientEgress(i)
  \/ \E i \in Ids : DnsRedirectPath(i)
  \/ \E i \in Ids : Publish(i)
  \/ \E i \in Ids : Finish(i)
  \/ \E i \in Ids, ip \in Addresses \cup {None} : Submit(i, ip)
  \/ \E i \in Ids, byRedirect \in BOOLEAN : Resolve(i, byRedirect)
  \/ Redirect
  \/ \E i \in Ids : Expire(i)
  \/ TunnelChange
  \/ ProxyRestart
  \/ ApiRestart

Spec == Init /\ [][Next]_vars

\* Every await of the execution is answered or times out; browsers, tunnels and
\* names are not fair.
FairSpec == Spec /\ \A i \in Ids : WF_vars(Execute(i))

-----------------------------------------------------------------------------
(* Properties                                                              *)

InProgress == {i \in Ids : job[i].phase \in {"registering", "executing"}}

\* At most one verification is in progress, and the flag that refuses others is
\* held exactly while one is.
OneAtATime ==
  /\ \A i, j \in InProgress : i = j
  /\ running <=> InProgress # {}

\* What is passed was so: the browser's address was the tunnel's during this
\* verification, and a query was redirected.
PassIsTrue ==
  \A i \in Ids :
    /\ job[i].status["egress"] = "pass" => job[i].egress \in seen[i] \ {None}
    /\ job[i].status["redirect"] = "pass" => redirected

\* A verification comes to its end, whether or not the browser, the gateway or
\* the name answer, and others can be started again.
Completes == running ~> ~running
=============================================================================
