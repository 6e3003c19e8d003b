---------------------------- MODULE SessionState ----------------------------
(***************************************************************************)
(* What the API knows of the vendor's account: the cached answer of the    *)
(* vendor's account command (api/src/session/session-probe.ts), the        *)
(* restrictions learned from refused commands                              *)
(* (api/src/capabilities/restriction-learner.ts), the operations that are  *)
(* offered from both (capability-evaluator.ts), and login and logout,      *)
(* which make the API forget them (api/src/routes/session.ts).  For one    *)
(* vendor; several requests are under way at a time.                       *)
(***************************************************************************)
EXTENDS FiniteSets

CONSTANTS
  Requests,      \* the requests that may be under way
  Methods,       \* loginMethod in the profiles: "credentials", "deviceUrl"
  Supported,     \* operations for which the profile has what they need
  Refused,       \* operations that the vendor refuses to the free plan
  Restricts      \* those of them that the profile lists for the free plan

Operations == {"login", "logout", "disconnect", "connectToLocation", "connectAuto",
               "locationList", "changeLocation", "locationFavorites", "pingMeasurement"}

\* The commands whose output shows that the plan does not allow them.
Learnable == {"connectToLocation", "connectAuto", "locationList"}

Plans    == {"free", "paid"}
Accounts == Plans \cup {"out"}

ASSUME RequestsAssumption   ==
  IsFiniteSet(Requests) /\ Requests \cap ({"cache", "probe"} \cup Operations) = {}
ASSUME MethodsAssumption    == Methods \subseteq {"credentials", "deviceUrl"}
ASSUME OperationsAssumption ==
  /\ {"disconnect"} \subseteq Supported /\ Supported \subseteq Operations
  /\ Refused \subseteq Learnable \cap Supported /\ Restricts \subseteq Refused

VARIABLES
  method,        \* the profile's loginMethod
  account,       \* outside: who is logged in to the vendor
  linked,        \* outside: a login command waits for the browser
  cache,         \* cachedByProvider of the vendor, "none" if absent or expired
  probe,         \* inFlightByProvider: "none", "asked", or what the command has read
  learned,       \* learnedByProvider of the vendor
  req,           \* the requests under way
  overtaken      \* history: what is known from before the account last changed

vars == <<method, account, linked, cache, probe, learned, req, overtaken>>

Idle == [kind |-> "idle", op |-> "none", phase |-> "none", result |-> "none"]

Init ==
  /\ method \in Methods /\ account \in Accounts /\ linked = FALSE
  /\ cache = "none" /\ probe = "none" /\ learned = {}
  /\ req = [r \in Requests |-> Idle]
  /\ overtaken = {}

-----------------------------------------------------------------------------
(* Which operations are offered                                            *)

Parent == [changeLocation |-> "connectToLocation",
           locationFavorites |-> "locationList", pingMeasurement |-> "locationList"]

RequiresLogin == {"logout", "connectToLocation", "connectAuto", "locationList"}

\* evaluateOwn: by itself; "unknown" restricts nothing.
Own(info, restrictions) ==
  {op \in Supported :
     /\ ~(info = "out" /\ op \in RequiresLogin)
     /\ ~(info = "free" /\ op \in Restricts)
     /\ op \notin restrictions}

Both == {"connectToLocation", "locationList"}

\* The list and the choice of a location need each other, the others their parent.
Available(info, restrictions) ==
  LET own   == Own(info, restrictions)
      roots == IF Both \subseteq own THEN own ELSE own \ Both
  IN {op \in roots : op \in DOMAIN Parent => Parent[op] \in roots}

-----------------------------------------------------------------------------
(* The account command and its cache                                       *)

\* What an answer offers that is given from a reading of the account.
Offered(info) == Available(info, learned)

Answer(rs) == req' = [r \in Requests |-> IF r \in rs THEN Idle ELSE req[r]]

\* GET: answered from the cache, or it waits for the command, which is run once
\* for all who wait.
Get(r) ==
  /\ req[r] = Idle
  /\ IF cache # "none"
     THEN Answer({r}) /\ UNCHANGED probe
     ELSE /\ req' = [req EXCEPT ![r].kind = "get", ![r].phase = "waiting"]
          /\ probe' = IF probe = "none" THEN "asked" ELSE probe
  /\ UNCHANGED <<method, account, linked, cache, learned, overtaken>>

\* The command reads the account, or fails.
ProbeRead ==
  /\ probe = "asked"
  /\ probe' \in {account, "unknown"}
  /\ UNCHANGED <<method, account, linked, cache, learned, req, overtaken>>

Waiting == {r \in Requests : req[r].phase = "waiting"}

\* Its output arrives and answers all who wait; what is unknown is not cached.
ProbeEnd ==
  /\ probe \in Accounts \cup {"unknown"}
  /\ cache' = IF probe = "unknown" THEN cache ELSE probe
  /\ probe' = "none"
  /\ overtaken' = IF probe = "unknown" THEN overtaken \ {"probe"}
                  ELSE (overtaken \ {"probe", "cache"})
                         \cup (IF "probe" \in overtaken THEN {"cache"} ELSE {})
  /\ Answer(Waiting)
  /\ UNCHANGED <<method, account, linked, learned>>

\* Mutant: who is logged in is remembered for good.
ExpireLoggedOut ==
  /\ cache = "out"
  /\ cache' = "none" /\ overtaken' = overtaken \ {"cache"}
  /\ UNCHANGED <<method, account, linked, probe, learned, req>>

\* 30 s have passed.
Expire ==
  /\ cache # "none"
  /\ cache' = "none" /\ overtaken' = overtaken \ {"cache"}
  /\ UNCHANGED <<method, account, linked, probe, learned, req>>

-----------------------------------------------------------------------------
(* Login, logout and the commands that a plan may not allow                *)

Begin(r, kind, op) ==
  /\ req[r] = Idle
  /\ req' = [req EXCEPT ![r] = [kind |-> kind, op |-> op, phase |-> "running", result |-> "none"]]
  /\ UNCHANGED <<method, account, linked, cache, probe, learned, overtaken>>

Ran(r, result) == req' = [req EXCEPT ![r].phase = "ran", ![r].result = result]

\* The account is another from now on: what was read or refused before is old.
Become(a) ==
  /\ account' = a
  /\ overtaken' = IF a = account THEN overtaken
                  ELSE overtaken
                         \cup (IF probe \in Accounts THEN {"probe"} ELSE {})
                         \cup {r \in Requests : req[r].phase = "ran" /\ req[r].kind = "use"}

\* The account changes behind the back of the API, which may keep what it knows.
BecomeUnseen(a) ==
  /\ account' = a
  /\ overtaken' = IF a = account THEN overtaken
                  ELSE overtaken \cup learned
                         \cup (IF cache # "none" THEN {"cache"} ELSE {})
                         \cup (IF probe \in Accounts THEN {"probe"} ELSE {})
                         \cup {r \in Requests : req[r].phase = "ran" /\ req[r].kind = "use"}

\* The vendor's login command: it logs in or fails; with a URL it leaves that to
\* the browser, unless somebody is logged in already.
RunLogin(r) ==
  /\ req[r].kind = "login" /\ req[r].phase = "running"
  /\ \/ Ran(r, "failed") /\ UNCHANGED linked
        /\ \E a \in Plans \cup {account} : BecomeUnseen(a)
     \/ /\ method = "credentials"
        /\ Ran(r, "done") /\ (\E a \in Plans : Become(a)) /\ UNCHANGED linked
     \/ /\ method = "deviceUrl" /\ account = "out"
        /\ Ran(r, "url") /\ linked' = TRUE /\ UNCHANGED <<account, overtaken>>
     \/ /\ method = "deviceUrl" /\ account # "out"
        /\ Ran(r, "done") /\ UNCHANGED <<account, linked, overtaken>>
  /\ UNCHANGED <<method, cache, probe, learned>>

RunLogout(r) ==
  /\ req[r].kind = "logout" /\ req[r].phase = "running"
  /\ \/ Ran(r, "failed")
        /\ \E a \in {"out", account} : BecomeUnseen(a)
     \/ Ran(r, "done") /\ Become("out")
  /\ UNCHANGED <<method, linked, cache, probe, learned>>

\* A connection or a list is asked for: refused because of the plan, or not.
RunUse(r) ==
  /\ req[r].kind = "use" /\ req[r].phase = "running"
  /\ IF account = "free" /\ req[r].op \in Refused
     THEN Ran(r, "restricted") ELSE \E result \in {"done", "failed"} : Ran(r, result)
  /\ UNCHANGED <<method, account, linked, cache, probe, learned, overtaken>>

\* Mutant: the cache alone is dropped.
ResetCache ==
  /\ cache' = "none" /\ overtaken' = overtaken \ {"cache"}
  /\ UNCHANGED learned

\* Mutant: what was learned alone is dropped.
ResetLearned ==
  /\ learned' = {} /\ overtaken' = overtaken \ Learnable
  /\ UNCHANGED cache

\* resetSessionDerivedState
Reset ==
  /\ cache' = "none" /\ learned' = {}
  /\ overtaken' = overtaken \ ({"cache"} \cup Learnable)

\* POST and DELETE are answered: only a command that ended well makes the API forget.
EndSession(r) ==
  /\ req[r].kind \in {"login", "logout"} /\ req[r].phase = "ran"
  /\ IF req[r].result = "done" THEN Reset ELSE UNCHANGED <<cache, learned, overtaken>>
  /\ req' = [req EXCEPT ![r] = Idle]
  /\ UNCHANGED <<method, account, linked, probe>>

\* throwCommandFailure: the operation of a command refused because of the plan is
\* learned.
EndUse(r) ==
  /\ req[r].kind = "use" /\ req[r].phase = "ran"
  /\ IF req[r].result = "restricted"
     THEN /\ learned' = learned \cup {req[r].op}
          /\ overtaken' = (overtaken \ {r}) \cup (IF r \in overtaken THEN {req[r].op} ELSE {})
     ELSE /\ overtaken' = overtaken \ {r}
          /\ UNCHANGED learned
  /\ req' = [req EXCEPT ![r] = Idle]
  /\ UNCHANGED <<method, account, linked, cache, probe>>

-----------------------------------------------------------------------------
(* Outside                                                                 *)

\* The user logs in with the browser, or the login command gives up.
FinishLink ==
  /\ linked /\ linked' = FALSE
  /\ \E a \in Plans \cup {account} : BecomeUnseen(a)
  /\ UNCHANGED <<method, cache, probe, learned, req>>

\* The vendor ends the session or changes the plan.
Drift ==
  /\ \E a \in Accounts : a # account /\ BecomeUnseen(a)
  /\ UNCHANGED <<method, linked, cache, probe, learned, req>>

Next ==
  \/ \E r \in Requests : Get(r)
  \/ ProbeRead
  \/ ProbeEnd
  \/ Expire
  \/ \E r \in Requests, kind \in {"login", "logout"} : Begin(r, kind, "none")
  \/ \E r \in Requests, op \in Learnable \cap Supported : Begin(r, "use", op)
  \/ \E r \in Requests : RunLogin(r)
  \/ \E r \in Requests : RunLogout(r)
  \/ \E r \in Requests : RunUse(r)
  \/ \E r \in Requests : EndSession(r)
  \/ \E r \in Requests : EndUse(r)
  \/ FinishLink
  \/ Drift

Spec == Init /\ [][Next]_vars

\* The account command is answered or times out, and time passes; nobody has to ask.
FairSpec == Spec /\ WF_vars(ProbeRead) /\ WF_vars(ProbeEnd) /\ WF_vars(Expire)

-----------------------------------------------------------------------------
(* Properties                                                              *)

\* A login or logout has succeeded and is about to be concluded.
Changing ==
  \E r \in Requests : req[r].kind \in {"login", "logout"} /\ req[r].phase = "ran" /\ req[r].result = "done"

\* What is cached is true of the vendor's account and what was learned is refused
\* to it, except between a login or logout and its conclusion, for answers that
\* were under way when the account changed, and if it changed behind the back of
\* the API: a login and a logout that succeed leave nothing else stale behind
\* (resetSessionDerivedState, session.ts:33-36).
KnownIsRight ==
  Changing \/
    /\ cache \in {"none", account} \/ "cache" \in overtaken
    /\ \A op \in learned \ overtaken : account = "free" /\ op \in Refused

\* The vendor refuses the operation to account a, or one that the API makes it
\* depend on; or the profile lacks that one.
Denied(a, op) ==
  \/ a = "out" /\ op \in {"logout"} \cup Learnable \cup DOMAIN Parent
  \/ a = "free" /\ op \in Refused
  \/ /\ (a = "free" /\ Both \cap Refused # {}) \/ ~(Both \subseteq Supported)
     /\ op \in Both \cup DOMAIN Parent

\* What is withheld if operation o was refused: o, and what depends on it.
Without(o) == {o} \cup (IF o \in Both THEN Both \cup DOMAIN Parent ELSE {})

\* Readings of the account that a GET is answered from: the cache, or the
\* command that is under way, by what it has read.
Reading == [cache |-> cache, probe |-> probe]

\* Whatever reading a GET is answered from, each supported operation that the
\* answer withholds (evaluateCapabilities, capability-evaluator.ts:105-126)
\*   - is one that the vendor refuses to the account of the moment; or
\*   - was refused to the account that was read, which has changed since: by a
\*     login or logout of the API that is not yet concluded, under the command
\*     that reads it, or where the API could not see it; or
\*   - depends on a refusal learned from before such a change.
\* So nothing is withheld by mistake but what is known too late, disconnect and
\* login never, and after a reading that failed only what the vendor refused.
WithheldIsDenied ==
  \A source \in {"cache", "probe"} :
    LET info == Reading[source] IN
    info \in Accounts \cup {"unknown"} =>
      \A op \in Supported \ Offered(info) :
        \/ Denied(account, op)
        \/ (source \in overtaken \/ (source = "cache" /\ Changing)) /\ Denied(info, op)
        \/ \E o \in learned : (o \in overtaken \/ Changing) /\ op \in Without(o)

\* Once the account stays as it is, the cache agrees with it for ever after some
\* time, even if no command of the API made it so.
Heals == \A a \in Accounts : <>[](account = a) => <>[](cache \in {"none", a})
=============================================================================
