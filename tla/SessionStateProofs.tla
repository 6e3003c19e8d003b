------------------------- MODULE SessionStateProofs -------------------------
(***************************************************************************)
(* Proofs about what the API knows of the vendor's account, for any number *)
(* of requests and any profile: what it knows is right, and what an answer *)
(* withholds the vendor refuses, or refused before a change that the API   *)
(* is concluding, reads beside, or cannot see.                             *)
(***************************************************************************)
EXTENDS SessionState, TLAPS

USE RequestsAssumption, MethodsAssumption, OperationsAssumption

Answers == Accounts \cup {"none"}

RequestStates ==
  [kind : {"idle", "get", "login", "logout", "use"}, op : {"none"} \cup Operations,
   phase : {"none", "waiting", "running", "ran"},
   result : {"none", "done", "failed", "url", "restricted"}]

TypeOK ==
  /\ method \in Methods /\ account \in Accounts /\ linked \in BOOLEAN
  /\ cache \in Answers /\ probe \in Answers \cup {"asked", "unknown"}
  /\ learned \subseteq Learnable
  /\ req \in [Requests -> RequestStates]
  /\ overtaken \subseteq {"cache", "probe"} \cup Operations \cup Requests

Ended(q) == q.phase = "ran"

\* What the running account command has read is the account's, or old.
ProbeIsRight == probe \in Accounts => probe = account \/ "probe" \in overtaken

\* A command refused because of the plan was refused to account a, or is old.
RefusalIsRight(q, r, a, old) ==
  Ended(q) /\ q.kind = "use" /\ q.result = "restricted" => r \in old \/ (a = "free" /\ q.op \in Refused)

RefusalsAreRight == \A r \in Requests : RefusalIsRight(req[r], r, account, overtaken)

\* The uses are of operations that can be learned.
UsesLearnable == \A r \in Requests : req[r].kind = "use" => req[r].op \in Learnable

\* A login or logout has ended well and the API has not yet forgotten.
Forgets(q) == q.kind \in {"login", "logout"} /\ Ended(q) /\ q.result = "done"

Forgetting == \E r \in Requests : Forgets(req[r])

CacheIsRight   == cache \in {"none", account} \/ "cache" \in overtaken
LearnedIsRight == \A op \in learned \ overtaken : account = "free" /\ op \in Refused

SessionInv ==
  /\ TypeOK /\ ProbeIsRight /\ RefusalsAreRight /\ UsesLearnable
  /\ Forgetting \/ (CacheIsRight /\ LearnedIsRight)

-----------------------------------------------------------------------------
(* Requests                                                                *)

LEMMA NamesDiffer ==
  /\ \A r \in Requests : r \notin {"cache", "probe"} \cup Operations
  /\ {"cache", "probe"} \cap Operations = {} /\ Learnable \subseteq Operations /\ "cache" # "probe"
  /\ Refused \subseteq Operations
BY DEF Operations, Learnable

LEMMA IdleType == Idle \in RequestStates /\ Idle.kind = "idle" /\ Idle.phase = "none"
BY DEF Idle, RequestStates

\* A request moves.
LEMMA RequestMoves ==
  ASSUME TypeOK, NEW r \in Requests, NEW e \in RequestStates, req' = [req EXCEPT ![r] = e]
  PROVE  req' \in [Requests -> RequestStates] /\ req'[r] = e /\ \A k \in Requests \ {r} : req'[k] = req[k]
BY DEF TypeOK

\* Everyone in rs is answered.
LEMMA AnswerMoves ==
  ASSUME TypeOK, NEW rs \in SUBSET Requests, Answer(rs)
  PROVE  /\ req' \in [Requests -> RequestStates]
         /\ \A k \in Requests : req'[k] = IF k \in rs THEN Idle ELSE req[k]
BY IdleType DEF Answer, TypeOK

\* What refuses, uses and forgets stays so if the requests that have ended and the
\* uses stay.
LEMMA EndedStay ==
  ASSUME RefusalsAreRight, UsesLearnable, UNCHANGED <<account, overtaken>>,
         \A k \in Requests : \/ req'[k] = req[k]
                             \/ ~Ended(req'[k]) /\ ~Ended(req[k])
                                  /\ (req'[k].kind = "use" => req'[k].op \in Learnable)
  PROVE  RefusalsAreRight' /\ UsesLearnable' /\ (Forgetting => Forgetting')
<1>1. ASSUME NEW k \in Requests
      PROVE  RefusalIsRight(req'[k], k, account, overtaken)
  BY DEF RefusalsAreRight, RefusalIsRight
<1>2. RefusalsAreRight'
  BY <1>1 DEF RefusalsAreRight
<1>3. UsesLearnable'
  BY DEF UsesLearnable
<1>4. Forgetting => Forgetting'
  BY DEF Forgetting, Forgets
<1> QED
  BY <1>2, <1>3, <1>4

-----------------------------------------------------------------------------
(* The steps that leave the account as it is                               *)

LEMMA GetStep ==
  ASSUME SessionInv, NEW r \in Requests, Get(r)
  PROVE  SessionInv'
<1> USE DEF SessionInv
<1>1. UNCHANGED <<method, account, linked, cache, learned, overtaken>> /\ req[r] = Idle
  BY DEF Get
<1>2. CASE cache # "none"
  <2>1. Answer({r}) /\ probe' = probe
    BY <1>2 DEF Get
  <2>2. /\ req' \in [Requests -> RequestStates]
        /\ \A k \in Requests : req'[k] = req[k]
    <3>1. {r} \in SUBSET Requests
      OBVIOUS
    <3> QED
      BY <1>1, <2>1, <3>1, AnswerMoves
  <2>3. RefusalsAreRight' /\ UsesLearnable' /\ (Forgetting => Forgetting')
    BY <1>1, <2>2, EndedStay
  <2> QED
    BY <1>1, <2>1, <2>2, <2>3 DEF TypeOK, ProbeIsRight, CacheIsRight, LearnedIsRight
<1>3. CASE cache = "none"
  <2>1. /\ req' = [req EXCEPT ![r].kind = "get", ![r].phase = "waiting"]
        /\ probe' = IF probe = "none" THEN "asked" ELSE probe
    BY <1>3 DEF Get
  <2> DEFINE e == [req[r] EXCEPT !.kind = "get", !.phase = "waiting"]
  <2>2. req[r] \in RequestStates
    BY DEF TypeOK
  <2>3. /\ e \in RequestStates /\ e.kind = "get" /\ e.phase = "waiting"
        /\ req' = [req EXCEPT ![r] = e]
    <3>1. e \in RequestStates /\ e.kind = "get" /\ e.phase = "waiting"
      BY <2>2 DEF RequestStates
    <3>2. req' = [req EXCEPT ![r] = e]
      BY <2>1 DEF TypeOK
    <3> QED
      BY <3>1, <3>2
  <2> HIDE DEF e
  <2>4. req' \in [Requests -> RequestStates] /\ req'[r] = e /\ \A k \in Requests \ {r} : req'[k] = req[k]
    BY <2>3, RequestMoves
  <2>5. RefusalsAreRight' /\ UsesLearnable' /\ (Forgetting => Forgetting')
    BY <1>1, <2>3, <2>4, IdleType, EndedStay DEF Ended
  <2>6. TypeOK' /\ ProbeIsRight'
    BY <1>1, <2>1, <2>4 DEF TypeOK, ProbeIsRight, Accounts, Plans
  <2> QED
    BY <1>1, <2>5, <2>6 DEF CacheIsRight, LearnedIsRight
<1> QED
  BY <1>2, <1>3

LEMMA ProbeReadStep ==
  ASSUME SessionInv, ProbeRead
  PROVE  SessionInv'
<1> USE DEF SessionInv
<1>1. probe' \in {account, "unknown"} /\ UNCHANGED <<method, account, linked, cache, learned, req, overtaken>>
  BY DEF ProbeRead
<1>2. RefusalsAreRight' /\ UsesLearnable' /\ (Forgetting => Forgetting')
  BY <1>1, EndedStay
<1>3. TypeOK' /\ ProbeIsRight'
  BY <1>1 DEF TypeOK, ProbeIsRight, Accounts, Plans, Answers
<1> QED
  BY <1>1, <1>2, <1>3 DEF CacheIsRight, LearnedIsRight

\* What the command has read is cached and is as old there as it was.
LEMMA ProbeEndStep ==
  ASSUME SessionInv, ProbeEnd
  PROVE  SessionInv'
<1> USE DEF SessionInv
<1>1. /\ probe \in Accounts \cup {"unknown"} /\ probe' = "none"
      /\ cache' = IF probe = "unknown" THEN cache ELSE probe
      /\ Answer(Waiting) /\ UNCHANGED <<method, account, linked, learned>>
  BY DEF ProbeEnd
<1>2. /\ \A x : x # "probe" /\ x # "cache" => (x \in overtaken' <=> x \in overtaken)
      /\ probe = "unknown" => ("cache" \in overtaken' <=> "cache" \in overtaken)
      /\ probe # "unknown" => ("cache" \in overtaken' <=> "probe" \in overtaken)
      /\ overtaken' \subseteq overtaken \cup {"cache"}
  BY DEF ProbeEnd
<1>3. /\ req' \in [Requests -> RequestStates]
      /\ \A k \in Requests : req'[k] = IF k \in Waiting THEN Idle ELSE req[k]
  BY <1>1, AnswerMoves DEF Waiting
<1>4. ASSUME NEW k \in Requests
      PROVE  /\ Ended(req'[k]) => req'[k] = req[k]
             /\ Ended(req[k]) => req'[k] = req[k]
             /\ req'[k].kind = "use" => req'[k] = req[k]
  BY <1>3, IdleType DEF Waiting, Ended
<1>5. RefusalsAreRight'
  <2>1. ASSUME NEW k \in Requests
        PROVE  RefusalIsRight(req'[k], k, account', overtaken')
    <3>1. k \in overtaken' <=> k \in overtaken
      BY <1>2, NamesDiffer
    <3> QED
      BY <1>1, <1>4, <3>1 DEF RefusalsAreRight, RefusalIsRight
  <2> QED
    BY <2>1 DEF RefusalsAreRight
<1>6. UsesLearnable' /\ (Forgetting => Forgetting')
  BY <1>4 DEF UsesLearnable, Forgetting, Forgets
<1>7. TypeOK' /\ ProbeIsRight'
  BY <1>1, <1>2, <1>3 DEF TypeOK, ProbeIsRight, Accounts, Plans, Answers
<1>8. CacheIsRight /\ LearnedIsRight => CacheIsRight' /\ LearnedIsRight'
  <2>1. CacheIsRight => CacheIsRight'
    BY <1>1, <1>2 DEF CacheIsRight, ProbeIsRight
  <2>2. learned \ overtaken' = learned \ overtaken
    BY <1>2, NamesDiffer DEF TypeOK
  <2> QED
    BY <1>1, <2>1, <2>2 DEF LearnedIsRight
<1> QED
  BY <1>5, <1>6, <1>7, <1>8

LEMMA ExpireStep ==
  ASSUME SessionInv, Expire
  PROVE  SessionInv'
<1> USE DEF SessionInv
<1>1. /\ cache' = "none" /\ overtaken' = overtaken \ {"cache"}
      /\ UNCHANGED <<method, account, linked, probe, learned, req>>
  BY DEF Expire
<1>2. \A x : x # "cache" => (x \in overtaken' <=> x \in overtaken)
  BY <1>1
<1>3. RefusalsAreRight'
  BY <1>1, <1>2, NamesDiffer DEF RefusalsAreRight, RefusalIsRight
<1>4. TypeOK' /\ ProbeIsRight' /\ CacheIsRight'
  BY <1>1, <1>2, NamesDiffer DEF TypeOK, ProbeIsRight, CacheIsRight, Answers
<1>5. LearnedIsRight => LearnedIsRight'
  BY <1>1, <1>2, NamesDiffer DEF TypeOK, LearnedIsRight
<1> QED
  BY <1>1, <1>3, <1>4, <1>5 DEF UsesLearnable, Forgetting, Forgets

LEMMA BeginStep ==
  ASSUME SessionInv, NEW r \in Requests, NEW kind \in {"login", "logout", "use"},
         NEW op \in {"none"} \cup Operations, kind = "use" => op \in Learnable, Begin(r, kind, op)
  PROVE  SessionInv'
<1> USE DEF SessionInv
<1> DEFINE e == [kind |-> kind, op |-> op, phase |-> "running", result |-> "none"]
<1>1. /\ UNCHANGED <<method, account, linked, cache, probe, learned, overtaken>> /\ req[r] = Idle
      /\ req' = [req EXCEPT ![r] = e]
  BY DEF Begin
<1>2. e \in RequestStates /\ e.kind = kind /\ e.op = op /\ e.phase = "running"
  BY DEF RequestStates
<1> HIDE DEF e
<1>3. req' \in [Requests -> RequestStates] /\ req'[r] = e /\ \A k \in Requests \ {r} : req'[k] = req[k]
  BY <1>1, <1>2, RequestMoves
<1>4. RefusalsAreRight' /\ UsesLearnable' /\ (Forgetting => Forgetting')
  BY <1>1, <1>2, <1>3, IdleType, EndedStay DEF Ended
<1>5. TypeOK' /\ ProbeIsRight'
  BY <1>1, <1>3 DEF TypeOK, ProbeIsRight
<1> QED
  BY <1>1, <1>4, <1>5 DEF CacheIsRight, LearnedIsRight

-----------------------------------------------------------------------------
(* The steps that may change the account                                   *)

LEMMA RanMoves ==
  ASSUME TypeOK, NEW r \in Requests, NEW result \in {"done", "failed", "url", "restricted"}, Ran(r, result)
  PROVE  /\ req' \in [Requests -> RequestStates] /\ \A k \in Requests \ {r} : req'[k] = req[k]
         /\ req'[r].phase = "ran" /\ req'[r].result = result
         /\ req'[r].kind = req[r].kind /\ req'[r].op = req[r].op
<1> DEFINE e == [req[r] EXCEPT !.phase = "ran", !.result = result]
<1>1. req[r] \in RequestStates
  BY DEF TypeOK
<1>2. /\ e \in RequestStates /\ e.phase = "ran" /\ e.result = result
      /\ e.kind = req[r].kind /\ e.op = req[r].op
  BY <1>1 DEF RequestStates
<1>3. req' = [req EXCEPT ![r] = e]
  BY DEF Ran, TypeOK
<1> HIDE DEF e
<1>4. req' \in [Requests -> RequestStates] /\ req'[r] = e /\ \A k \in Requests \ {r} : req'[k] = req[k]
  BY <1>2, <1>3, RequestMoves
<1> QED
  BY <1>2, <1>4

\* The account becomes another: what was read or refused is old.
LEMMA BecomeMoves ==
  ASSUME SessionInv, NEW a \in Accounts, Become(a) \/ BecomeUnseen(a), UNCHANGED <<cache, probe, learned>>
  PROVE  /\ account' \in Accounts /\ overtaken' \subseteq {"cache", "probe"} \cup Operations \cup Requests
         /\ ProbeIsRight'
         /\ \A k \in Requests : RefusalIsRight(req[k], k, account', overtaken')
<1> USE DEF SessionInv
<1>1. account' = a
  BY DEF Become, BecomeUnseen
<1>2. CASE a = account
  <2>1. overtaken' = overtaken
    BY <1>2 DEF Become, BecomeUnseen
  <2> QED
    BY <1>1, <1>2, <2>1 DEF TypeOK, ProbeIsRight, RefusalsAreRight
<1>3. CASE a # account
  <2> DEFINE old == {k \in Requests : req[k].phase = "ran" /\ req[k].kind = "use"}
  <2>1. /\ old \subseteq overtaken'
        /\ probe \in Accounts => "probe" \in overtaken'
        /\ overtaken' \subseteq overtaken \cup {"cache", "probe"} \cup learned \cup Requests
    BY <1>3 DEF Become, BecomeUnseen
  <2>2. overtaken' \subseteq {"cache", "probe"} \cup Operations \cup Requests
    BY <2>1, NamesDiffer DEF TypeOK
  <2>3. \A k \in Requests : RefusalIsRight(req[k], k, account', overtaken')
    BY <2>1 DEF RefusalIsRight, Ended
  <2> QED
    BY <1>1, <2>1, <2>2, <2>3 DEF ProbeIsRight
<1> QED
  BY <1>2, <1>3

\* If it changes unseen, all that is known is old.
LEMMA UnseenMoves ==
  ASSUME SessionInv, NEW a \in Accounts, BecomeUnseen(a), UNCHANGED <<cache, probe, learned>>
  PROVE  CacheIsRight /\ LearnedIsRight => CacheIsRight' /\ LearnedIsRight'
<1>1. CASE a = account
  BY <1>1 DEF BecomeUnseen, CacheIsRight, LearnedIsRight
<1>2. CASE a # account
  <2>1. learned \subseteq overtaken' /\ (cache # "none" => "cache" \in overtaken')
    BY <1>2 DEF BecomeUnseen
  <2> QED
    BY <2>1 DEF CacheIsRight, LearnedIsRight
<1> QED
  BY <1>1, <1>2

\* A command has run that asked for a login or logout: it ended well, or the account
\* is another unseen or the same.
LEMMA CommandStep ==
  ASSUME SessionInv, NEW r \in Requests, NEW result \in {"done", "failed", "url"}, Ran(r, result),
         req[r].kind \in {"login", "logout"}, req[r].phase = "running",
         UNCHANGED <<method, cache, probe, learned>>, linked' \in BOOLEAN,
         \/ UNCHANGED <<account, overtaken>>
         \/ \E a \in Accounts : BecomeUnseen(a)
         \/ result = "done" /\ \E a \in Accounts : Become(a)
  PROVE  SessionInv'
<1> USE DEF SessionInv
<1>1. /\ req' \in [Requests -> RequestStates] /\ \A k \in Requests \ {r} : req'[k] = req[k]
      /\ req'[r].phase = "ran" /\ req'[r].result = result /\ req'[r].kind = req[r].kind
  BY RanMoves
<1>2. /\ account' \in Accounts /\ overtaken' \subseteq {"cache", "probe"} \cup Operations \cup Requests
      /\ ProbeIsRight'
      /\ \A k \in Requests : RefusalIsRight(req[k], k, account', overtaken')
  <2>1. CASE UNCHANGED <<account, overtaken>>
    BY <2>1 DEF TypeOK, ProbeIsRight, RefusalsAreRight
  <2> QED
    BY <2>1, BecomeMoves
<1>3. RefusalsAreRight' /\ UsesLearnable'
  <2>1. ASSUME NEW k \in Requests
        PROVE  /\ RefusalIsRight(req'[k], k, account', overtaken')
               /\ req'[k].kind = "use" => req'[k].op \in Learnable
    BY <1>1, <1>2 DEF RefusalIsRight, UsesLearnable
  <2> QED
    BY <2>1 DEF RefusalsAreRight, UsesLearnable
<1>4. TypeOK'
  BY <1>1, <1>2 DEF TypeOK
<1>5. CASE result = "done"
  BY <1>1, <1>2, <1>3, <1>4, <1>5 DEF Forgetting, Forgets, Ended
<1>6. CASE result # "done"
  <2>1. CacheIsRight /\ LearnedIsRight => CacheIsRight' /\ LearnedIsRight'
    <3>1. CASE UNCHANGED <<account, overtaken>>
      BY <3>1 DEF CacheIsRight, LearnedIsRight
    <3> QED
      BY <1>6, <3>1, UnseenMoves
  <2>2. Forgetting => Forgetting'
    BY <1>1 DEF Forgetting, Forgets, Ended
  <2> QED
    BY <1>2, <1>3, <1>4, <2>1, <2>2
<1> QED
  BY <1>5, <1>6

LEMMA CommandsStep ==
  ASSUME SessionInv, NEW r \in Requests, RunLogin(r) \/ RunLogout(r)
  PROVE  SessionInv'
<1>1. account \in Accounts /\ Plans \cup {account} \subseteq Accounts /\ {"out", account} \subseteq Accounts
      /\ linked \in BOOLEAN
  BY DEF SessionInv, TypeOK, Accounts
<1>2. CASE RunLogin(r)
  BY <1>1, <1>2, CommandStep DEF RunLogin
<1>3. CASE RunLogout(r)
  BY <1>1, <1>3, CommandStep DEF RunLogout
<1> QED
  BY <1>2, <1>3

\* The account changes by itself.
LEMMA OutsideStep ==
  ASSUME SessionInv, FinishLink \/ Drift
  PROVE  SessionInv'
<1> USE DEF SessionInv
<1>1. /\ UNCHANGED <<method, cache, probe, learned, req>> /\ linked' \in BOOLEAN
      /\ \E a \in Accounts : BecomeUnseen(a)
  BY DEF FinishLink, Drift, TypeOK, Accounts
<1>2. PICK a \in Accounts : BecomeUnseen(a)
  BY <1>1
<1>3. /\ account' \in Accounts /\ overtaken' \subseteq {"cache", "probe"} \cup Operations \cup Requests
      /\ ProbeIsRight'
      /\ \A k \in Requests : RefusalIsRight(req[k], k, account', overtaken')
  BY <1>1, <1>2, BecomeMoves
<1>4. CacheIsRight /\ LearnedIsRight => CacheIsRight' /\ LearnedIsRight'
  BY <1>1, <1>2, UnseenMoves
<1>5. TypeOK' /\ RefusalsAreRight' /\ UsesLearnable' /\ (Forgetting => Forgetting')
  BY <1>1, <1>3 DEF TypeOK, RefusalsAreRight, UsesLearnable, Forgetting
<1> QED
  BY <1>3, <1>4, <1>5

-----------------------------------------------------------------------------
(* What is learned and forgotten                                           *)

LEMMA RunUseStep ==
  ASSUME SessionInv, NEW r \in Requests, RunUse(r)
  PROVE  SessionInv'
<1> USE DEF SessionInv
<1>1. /\ req[r].kind = "use" /\ req[r].phase = "running"
      /\ UNCHANGED <<method, account, linked, cache, probe, learned, overtaken>>
  BY DEF RunUse
<1>2. PICK result \in {"done", "failed", "restricted"} :
        Ran(r, result) /\ (result = "restricted" => account = "free" /\ req[r].op \in Refused)
  BY DEF RunUse
<1>3. /\ req' \in [Requests -> RequestStates] /\ \A k \in Requests \ {r} : req'[k] = req[k]
      /\ req'[r].phase = "ran" /\ req'[r].result = result
      /\ req'[r].kind = req[r].kind /\ req'[r].op = req[r].op
  BY <1>2, RanMoves
<1>4. RefusalsAreRight' /\ UsesLearnable'
  <2>1. ASSUME NEW k \in Requests
        PROVE  /\ RefusalIsRight(req'[k], k, account, overtaken)
               /\ req'[k].kind = "use" => req'[k].op \in Learnable
    BY <1>2, <1>3 DEF RefusalIsRight, RefusalsAreRight, UsesLearnable
  <2> QED
    BY <1>1, <2>1 DEF RefusalsAreRight, UsesLearnable
<1>5. Forgetting => Forgetting'
  BY <1>1, <1>3 DEF Forgetting, Forgets, Ended
<1>6. TypeOK' /\ ProbeIsRight'
  BY <1>1, <1>3 DEF TypeOK, ProbeIsRight
<1> QED
  BY <1>1, <1>4, <1>5, <1>6 DEF CacheIsRight, LearnedIsRight

\* A login or logout is concluded: one that ended well leaves nothing to be wrong.
LEMMA EndSessionStep ==
  ASSUME SessionInv, NEW r \in Requests, EndSession(r)
  PROVE  SessionInv'
<1> USE DEF SessionInv
<1>1. /\ req[r].kind \in {"login", "logout"} /\ req[r].phase = "ran" /\ req' = [req EXCEPT ![r] = Idle]
      /\ UNCHANGED <<method, account, linked, probe>>
      /\ IF req[r].result = "done" THEN Reset ELSE UNCHANGED <<cache, learned, overtaken>>
  BY DEF EndSession
<1>2. req' \in [Requests -> RequestStates] /\ req'[r] = Idle /\ \A k \in Requests \ {r} : req'[k] = req[k]
  BY <1>1, IdleType, RequestMoves
<1>3. UsesLearnable'
  BY <1>2, IdleType DEF UsesLearnable
<1>4. CASE req[r].result = "done"
  <2>1. cache' = "none" /\ learned' = {} /\ overtaken' = overtaken \ ({"cache"} \cup Learnable)
    BY <1>1, <1>4 DEF Reset
  <2>2. \A x : x \notin {"cache"} \cup Operations => (x \in overtaken' <=> x \in overtaken)
    BY <2>1, NamesDiffer
  <2>3. RefusalsAreRight'
    <3>1. ASSUME NEW k \in Requests
          PROVE  RefusalIsRight(req'[k], k, account, overtaken')
      BY <1>2, <2>2, IdleType, NamesDiffer DEF RefusalIsRight, RefusalsAreRight, Ended
    <3> QED
      BY <1>1, <3>1 DEF RefusalsAreRight
  <2>4. ProbeIsRight'
    BY <1>1, <2>2, NamesDiffer DEF ProbeIsRight
  <2>5. TypeOK'
    BY <1>1, <1>2, <2>1 DEF TypeOK, Answers
  <2> QED
    BY <1>3, <2>1, <2>3, <2>4, <2>5 DEF CacheIsRight, LearnedIsRight
<1>5. CASE req[r].result # "done"
  <2>1. UNCHANGED <<cache, learned, overtaken>>
    BY <1>1, <1>5
  <2>2. RefusalsAreRight'
    <3>1. ASSUME NEW k \in Requests
          PROVE  RefusalIsRight(req'[k], k, account, overtaken)
      BY <1>2, IdleType DEF RefusalIsRight, RefusalsAreRight, Ended
    <3> QED
      BY <1>1, <2>1, <3>1 DEF RefusalsAreRight
  <2>3. Forgetting => Forgetting'
    BY <1>2, <1>5 DEF Forgetting, Forgets
  <2>4. TypeOK' /\ ProbeIsRight'
    BY <1>1, <1>2, <2>1 DEF TypeOK, ProbeIsRight
  <2> QED
    BY <1>1, <1>3, <2>1, <2>2, <2>3, <2>4 DEF CacheIsRight, LearnedIsRight
<1> QED
  BY <1>4, <1>5

\* A refusal is learned, and is as old as the command that met it.
LEMMA EndUseStep ==
  ASSUME SessionInv, NEW r \in Requests, EndUse(r)
  PROVE  SessionInv'
<1> USE DEF SessionInv
<1>1. /\ req[r].kind = "use" /\ req[r].phase = "ran" /\ req' = [req EXCEPT ![r] = Idle]
      /\ UNCHANGED <<method, account, linked, cache, probe>>
      /\ req[r].op \in Learnable /\ RefusalIsRight(req[r], r, account, overtaken)
  BY DEF EndUse, UsesLearnable, RefusalsAreRight
<1>2. req' \in [Requests -> RequestStates] /\ req'[r] = Idle /\ \A k \in Requests \ {r} : req'[k] = req[k]
  BY <1>1, IdleType, RequestMoves
<1>3. /\ \A x : x # r /\ x \in overtaken => x \in overtaken'
      /\ overtaken' \subseteq overtaken \cup {req[r].op}
      /\ learned' \subseteq learned \cup {req[r].op}
  BY DEF EndUse
<1>4. \A op \in learned' \ overtaken' :
        op \in learned \ overtaken \/ (account = "free" /\ op \in Refused)
  <2> SUFFICES ASSUME NEW op \in learned', op \notin overtaken', ~(account = "free" /\ op \in Refused)
               PROVE  op \in learned /\ op \notin overtaken
    OBVIOUS
  <2>1. op \in Learnable /\ op # r
    BY <1>1, <1>3, NamesDiffer DEF TypeOK
  <2>2. op \notin overtaken
    BY <1>3, <2>1
  <2>3. CASE req[r].result = "restricted" /\ op = req[r].op
    <3>1. r \in overtaken
      BY <1>1, <2>3 DEF RefusalIsRight, Ended
    <3> QED
      BY <2>3, <3>1 DEF EndUse
  <2>4. CASE ~(req[r].result = "restricted" /\ op = req[r].op)
    BY <2>2, <2>4 DEF EndUse
  <2> QED
    BY <2>3, <2>4
<1>5. RefusalsAreRight' /\ UsesLearnable'
  <2>1. ASSUME NEW k \in Requests
        PROVE  /\ RefusalIsRight(req'[k], k, account, overtaken')
               /\ req'[k].kind = "use" => req'[k].op \in Learnable
    BY <1>2, <1>3, IdleType DEF RefusalIsRight, RefusalsAreRight, UsesLearnable, Ended
  <2> QED
    BY <1>1, <2>1 DEF RefusalsAreRight, UsesLearnable
<1>6. Forgetting => Forgetting'
  BY <1>1, <1>2 DEF Forgetting, Forgets
<1>7. TypeOK'
  <2>1. learned' \subseteq Learnable /\ overtaken' \subseteq {"cache", "probe"} \cup Operations \cup Requests
    BY <1>1, <1>3, NamesDiffer DEF TypeOK
  <2> QED
    BY <1>1, <1>2, <2>1 DEF TypeOK
<1>8. /\ ProbeIsRight'
      /\ CacheIsRight => CacheIsRight'
      /\ LearnedIsRight => LearnedIsRight'
  <2>1. r # "probe" /\ r # "cache"
    BY NamesDiffer
  <2>2. /\ "probe" \in overtaken => "probe" \in overtaken'
        /\ "cache" \in overtaken => "cache" \in overtaken'
    BY <1>3, <2>1
  <2>3. LearnedIsRight => LearnedIsRight'
    BY <1>1, <1>4 DEF LearnedIsRight
  <2> QED
    BY <1>1, <2>2, <2>3 DEF ProbeIsRight, CacheIsRight
<1> QED
  BY <1>5, <1>6, <1>7, <1>8

-----------------------------------------------------------------------------
(* What is known is right                                                  *)

LEMMA SessionStep == SessionInv /\ [Next]_vars => SessionInv'
<1> SUFFICES ASSUME SessionInv, [Next]_vars
             PROVE  SessionInv'
  OBVIOUS
<1>1. CASE UNCHANGED vars
  BY <1>1 DEF vars, SessionInv, TypeOK, ProbeIsRight, RefusalsAreRight, UsesLearnable, Forgetting,
     CacheIsRight, LearnedIsRight
<1>2. ASSUME NEW r \in Requests, NEW kind \in {"login", "logout"}, Begin(r, kind, "none")
      PROVE  SessionInv'
  BY <1>2, BeginStep
<1>3. ASSUME NEW r \in Requests, NEW op \in Learnable \cap Supported, Begin(r, "use", op)
      PROVE  SessionInv'
  <2>1. op \in Learnable /\ op \in Operations
    BY NamesDiffer
  <2> QED
    BY <1>3, <2>1, BeginStep
<1>4. CASE Next
  BY <1>2, <1>3, <1>4, GetStep, ProbeReadStep, ProbeEndStep, ExpireStep, CommandsStep, RunUseStep,
     EndSessionStep, EndUseStep, OutsideStep DEF Next
<1> QED
  BY <1>1, <1>4

LEMMA SessionInvHolds == Spec => []SessionInv
<1>1. Init => SessionInv
  <2> SUFFICES ASSUME Init
               PROVE  SessionInv
    OBVIOUS
  <2>1. \A r \in Requests : req[r] = Idle
    BY DEF Init
  <2>2. TypeOK
    BY IdleType DEF Init, TypeOK, Answers
  <2>3. RefusalsAreRight /\ UsesLearnable
    BY <2>1, IdleType DEF RefusalsAreRight, RefusalIsRight, UsesLearnable
  <2> QED
    BY <2>2, <2>3 DEF Init, SessionInv, ProbeIsRight, CacheIsRight, LearnedIsRight, Accounts, Plans
<1> QED
  BY <1>1, SessionStep, PTL DEF Spec

LEMMA ForgettingChanges == Forgetting => Changing
BY DEF Forgetting, Forgets, Ended, Changing

\* What is cached is true of the vendor's account and what was learned is refused to
\* it, but for answers that were under way and for changes behind the API's back:
\* a login and a logout that succeed leave nothing else stale.
THEOREM KnownIsRightHolds == Spec => []KnownIsRight
<1>1. SessionInv => KnownIsRight
  BY ForgettingChanges DEF SessionInv, KnownIsRight, CacheIsRight, LearnedIsRight
<1> QED
  BY <1>1, SessionInvHolds, PTL

-----------------------------------------------------------------------------
(* What is withheld would be refused, or is known too late                 *)

LEMMA ParentIs ==
  /\ DOMAIN Parent = {"changeLocation", "locationFavorites", "pingMeasurement"}
  /\ Parent["changeLocation"] = "connectToLocation"
  /\ Parent["locationFavorites"] = "locationList" /\ Parent["pingMeasurement"] = "locationList"
BY DEF Parent

\* An operation that is not offered by itself is refused to the account that was
\* read, or was refused before.
LEMMA OwnIsDenied ==
  ASSUME NEW info \in Accounts \cup {"unknown"}, NEW restrictions,
         NEW op \in Supported, op \notin Own(info, restrictions)
  PROVE  \/ info = "out" /\ op \in {"logout"} \cup Learnable
         \/ info = "free" /\ op \in Refused
         \/ op \in restrictions
<1>1. RequiresLogin \subseteq {"logout"} \cup Learnable
  BY DEF RequiresLogin, Learnable
<1> QED
  BY <1>1 DEF Own

\* So is one that lacks what it depends on.
LEMMA WithheldDenied ==
  ASSUME NEW info \in Accounts \cup {"unknown"}, NEW restrictions,
         NEW op \in Supported, op \notin Available(info, restrictions)
  PROVE  \/ Denied(info, op)
         \/ \E o \in restrictions : op \in Without(o)
<1> DEFINE own   == Own(info, restrictions)
           roots == IF Both \subseteq own THEN own ELSE own \ Both
<1>1. op \notin own \/ (op \in Both /\ ~(Both \subseteq own))
        \/ (op \in DOMAIN Parent /\ Parent[op] \notin roots)
  BY DEF Available
<1>2. CASE op \notin own
  BY <1>2, OwnIsDenied DEF Denied, Without
<1>3. ASSUME op \in Both \cup DOMAIN Parent, ~(Both \subseteq own)
      PROVE  Denied(info, op) \/ \E o \in restrictions : op \in Without(o)
  <2>1. CASE ~(Both \subseteq Supported)
    BY <1>3, <2>1 DEF Denied
  <2>2. CASE Both \subseteq Supported
    <3>1. PICK b \in Both : b \in Supported /\ b \notin own
      BY <1>3, <2>2
    <3>2. \/ info = "out" /\ b \in {"logout"} \cup Learnable
          \/ info = "free" /\ b \in Refused
          \/ b \in restrictions
      BY <3>1, OwnIsDenied
    <3>3. Both \subseteq Learnable
      BY DEF Both, Learnable
    <3>4. b \in restrictions => op \in Without(b)
      BY <1>3, <3>1 DEF Without
    <3> QED
      BY <1>3, <3>1, <3>2, <3>3, <3>4 DEF Denied
  <2> QED
    BY <2>1, <2>2
<1>4. CASE op \in DOMAIN Parent /\ Parent[op] \notin roots /\ op \in own
  <2>1. Parent[op] \in Both
    BY <1>4, ParentIs DEF Both
  <2>2. CASE ~(Both \subseteq own)
    BY <1>3, <1>4, <2>2
  <2>3. CASE Both \subseteq own
    BY <1>4, <2>1, <2>3
  <2> QED
    BY <2>2, <2>3
<1> QED
  BY <1>1, <1>2, <1>3, <1>4

\* What was refused to a free account is denied to it, with what depends on it.
LEMMA RefusedDenied ==
  ASSUME NEW o \in Refused, account = "free", NEW op \in Without(o)
  PROVE  Denied(account, op)
BY DEF Without, Denied

LEMMA SessionWithheld == SessionInv => WithheldIsDenied
<1> SUFFICES ASSUME SessionInv,
                    NEW source \in {"cache", "probe"}, Reading[source] \in Accounts \cup {"unknown"},
                    NEW op \in Supported \ Offered(Reading[source])
             PROVE  \/ Denied(account, op)
                    \/ /\ source \in overtaken \/ (source = "cache" /\ Changing)
                       /\ Denied(Reading[source], op)
                    \/ \E o \in learned : (o \in overtaken \/ Changing) /\ op \in Without(o)
  BY DEF WithheldIsDenied
<1> DEFINE info == Reading[source]
<1>1. Denied(info, op) \/ \E o \in learned : op \in Without(o)
  BY WithheldDenied DEF Offered
<1>2. CASE Denied(info, op)
  <2>1. source \in overtaken \/ (source = "cache" /\ Changing) \/ info \in {account, "unknown"}
    BY ForgettingChanges DEF Reading, SessionInv, TypeOK, ProbeIsRight, CacheIsRight, Answers, Accounts, Plans
  <2>2. Denied("unknown", op) => Denied(account, op)
    BY DEF Denied
  <2> QED
    BY <1>2, <2>1, <2>2
<1>3. ASSUME NEW o \in learned, op \in Without(o)
      PROVE  Denied(account, op) \/ o \in overtaken \/ Changing
  <2>1. Changing \/ o \in overtaken \/ (account = "free" /\ o \in Refused)
    BY ForgettingChanges DEF SessionInv, LearnedIsRight
  <2> QED
    BY <1>3, <2>1, RefusedDenied
<1> QED
  BY <1>1, <1>2, <1>3

\* Whatever reading a GET is answered from, what the answer withholds the vendor
\* refuses to the account of the moment, or it was refused to the account that was
\* read before a change that the API is concluding, had under way or could not see,
\* or it depends on a refusal from before such a change.
THEOREM WithheldIsDeniedHolds == Spec => []WithheldIsDenied
BY SessionInvHolds, SessionWithheld, PTL
=============================================================================
