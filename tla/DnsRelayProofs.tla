--------------------------- MODULE DnsRelayProofs ---------------------------
(***************************************************************************)
(* Proofs about the DNS relay for any settings and any number of queries:  *)
(* when no reconcile is under way it is what it tells, and no query goes   *)
(* out in plain text but as its own configuration allows.                  *)
(***************************************************************************)
EXTENDS DnsRelay, TLAPS

USE ConfigsAssumption, BoundAssumption

ServerLists == {NoServers} \cup {c.servers : c \in Configs}

QueryStates ==
  [at : {"none", "client", "plain", "upstream", "register"}, conf : Configs, servers : ServerLists]

TypeOK ==
  /\ settings \in Configs /\ config \in Configs
  /\ hasApplied \in BOOLEAN /\ listening \in BOOLEAN /\ open \in BOOLEAN /\ portFree \in BOOLEAN
  /\ state \in States /\ step \in Steps /\ upstream \in Upstreams
  /\ waiting \in Nat
  /\ tcp \in {"none", "idle", "busy"}
  /\ query \in [Queries -> QueryStates]

\* What the controller believes of its sockets, at each await.
SocketsKnown ==
  /\ step = "none" => listening = open /\ (state = "active" <=> open)
  /\ step \in {"start", "unwind"} => ~listening /\ ~open
  /\ step \in {"stopped", "unconfigured"} => listening /\ ~open

\* The running reconcile does what the settings of now want, unless others wait.
LastReconcileFits ==
  waiting = 0 =>
    /\ step \in {"start", "unwind"} => Wanted /\ config = settings
    /\ step \in {"stopped", "unconfigured"} => ~Wanted /\ step = Resting(settings)

\* Nothing is done before the first settings.
NothingYet == ~hasApplied => waiting = 0 /\ step = "none" /\ state = "stopped"

RelayInv == TypeOK /\ SocketsKnown /\ LastReconcileFits /\ NothingYet /\ SettledAsTold

-----------------------------------------------------------------------------
(* Queries                                                                 *)

\* A query moves; nothing else of the controller does.
LEMMA QueryMoves ==
  ASSUME TypeOK, NEW q \in Queries, NEW s \in QueryStates, query' = [query EXCEPT ![q] = s],
         NeverMixed,
         s.at = "plain" => /\ s.conf.url = NoUrl \/ s.conf.mode = "fallback"
                           /\ s.servers = s.conf.servers
  PROVE  query' \in [Queries -> QueryStates] /\ NeverMixed'
<1>1. query'[q] = s /\ \A k \in Queries \ {q} : query'[k] = query[k]
  BY DEF TypeOK
<1>2. query' \in [Queries -> QueryStates]
  BY DEF TypeOK
<1>3. NeverMixed'
  BY <1>1 DEF NeverMixed
<1> QED
  BY <1>2, <1>3

LEMMA NoQueryType == NoQuery \in QueryStates /\ NoQuery.at = "none"
BY DEF NoQuery, QueryStates, ServerLists

\* The end of a lookup is the end of the query, or the registration of its answer.
LEMMA AnsweredMoves ==
  ASSUME TypeOK, NeverMixed, NEW q \in Queries, Answered(q)
  PROVE  query' \in [Queries -> QueryStates] /\ NeverMixed'
<1> DEFINE s == [query[q] EXCEPT !.at = "register"]
<1>1. s \in QueryStates /\ s.at = "register"
  BY DEF TypeOK, QueryStates
<1>2. query' = [query EXCEPT ![q] = s] \/ query' = [query EXCEPT ![q] = NoQuery]
  BY DEF Answered
<1> QED
  BY <1>1, <1>2, NoQueryType, QueryMoves

\* What a step of a query does.
LEMMA QueriesMove ==
  ASSUME TypeOK, NeverMixed, NEW q \in Queries,
         \/ Ask(q) \/ Intercepted(q) \/ Forward(q) \/ UpstreamAnswers(q) \/ UpstreamFails(q)
         \/ PlainEnds(q) \/ Registered(q)
  PROVE  /\ query' \in [Queries -> QueryStates] /\ NeverMixed'
         /\ UNCHANGED <<settings, hasApplied, state, listening, waiting, step, config, open, portFree, tcp>>
         /\ upstream' \in Upstreams
<1>1. /\ UNCHANGED <<settings, hasApplied, state, listening, waiting, step, config, open, portFree, tcp>>
      /\ upstream' \in Upstreams
  BY DEF Ask, Intercepted, Forward, UpstreamAnswers, UpstreamFails, PlainEnds, Registered, controller, relay,
         network, TypeOK, Upstreams
<1>2. CASE Ask(q)
  <2> DEFINE s == [query[q] EXCEPT !.at = "client"]
  <2>1. s \in QueryStates /\ s.at = "client"
    BY DEF TypeOK, QueryStates
  <2>2. query' = [query EXCEPT ![q] = s]
    BY <1>2 DEF Ask
  <2> QED
    BY <1>1, <2>1, <2>2, QueryMoves
<1>3. CASE query' = [query EXCEPT ![q] = NoQuery]
  BY <1>1, <1>3, NoQueryType, QueryMoves
<1>4. CASE Forward(q)
  <2> DEFINE plain == [at |-> "plain", conf |-> config, servers |-> config.servers]
             doh   == [at |-> "upstream", conf |-> config, servers |-> NoServers]
  <2>1. plain \in QueryStates /\ doh \in QueryStates
    BY DEF TypeOK, QueryStates, ServerLists
  <2>2. /\ config.url = NoUrl => query' = [query EXCEPT ![q] = plain]
        /\ config.url # NoUrl => query' = [query EXCEPT ![q] = doh]
    BY <1>4 DEF Forward
  <2>3. CASE config.url = NoUrl
    BY <1>1, <2>1, <2>2, <2>3, QueryMoves
  <2>4. CASE config.url # NoUrl
    BY <1>1, <2>1, <2>2, <2>4, QueryMoves
  <2> QED
    BY <2>3, <2>4
<1>5. CASE UpstreamFails(q)
  <2> DEFINE s == [query[q] EXCEPT !.at = "plain", !.servers = Fallback(q).servers]
  <2>1. query[q] \in QueryStates /\ Fallback(q) = query[q].conf
    BY DEF TypeOK, Fallback
  <2>2. s \in QueryStates /\ s.conf = query[q].conf /\ s.servers = s.conf.servers
    BY <2>1 DEF QueryStates, ServerLists
  <2>3. query' = [query EXCEPT ![q] = IF FallsBack(q) THEN s ELSE NoQuery]
    BY <1>5 DEF UpstreamFails
  <2>4. CASE FallsBack(q)
    <3>1. s.conf.mode = "fallback"
      BY <2>1, <2>2, <2>4 DEF FallsBack
    <3> QED
      BY <1>1, <2>2, <2>3, <2>4, <3>1, QueryMoves
  <2>5. CASE ~FallsBack(q)
    BY <1>3, <2>3, <2>5
  <2> QED
    BY <2>4, <2>5
<1>6. CASE Answered(q)
  BY <1>1, <1>6, AnsweredMoves
<1> QED
  BY <1>2, <1>3, <1>4, <1>5, <1>6 DEF Intercepted, UpstreamAnswers, PlainEnds, Registered

-----------------------------------------------------------------------------
(* The controller                                                          *)

\* Nothing of the controller changes.
LEMMA ControllerRests ==
  ASSUME RelayInv, TypeOK',
         UNCHANGED <<settings, hasApplied, state, listening, waiting, step, config, open>>
  PROVE  RelayInv'
<1>1. (Wanted' <=> Wanted) /\ Resting(settings)' = Resting(settings)
  BY DEF Wanted, Resting
<1>2. SocketsKnown' /\ NothingYet'
  BY DEF RelayInv, SocketsKnown, NothingYet
<1>3. LastReconcileFits'
  BY <1>1 DEF RelayInv, LastReconcileFits
<1>4. SettledAsTold'
  BY <1>1 DEF RelayInv, SettledAsTold
<1> QED
  BY <1>2, <1>3, <1>4 DEF RelayInv

LEMMA RestingIsTold == ASSUME NEW c PROVE Resting(c) \in {"stopped", "unconfigured"}
BY DEF Resting

LEMMA RelayStep == RelayInv /\ NeverMixed /\ [Next]_vars => RelayInv' /\ NeverMixed'
<1> SUFFICES ASSUME RelayInv, NeverMixed, [Next]_vars
             PROVE  RelayInv' /\ NeverMixed'
  OBVIOUS
<1>0. TypeOK
  BY DEF RelayInv
<1>1. ASSUME NEW q \in Queries,
             \/ Ask(q) \/ Intercepted(q) \/ Forward(q) \/ UpstreamAnswers(q) \/ UpstreamFails(q)
             \/ PlainEnds(q) \/ Registered(q)
      PROVE  RelayInv' /\ NeverMixed'
  <2>1. /\ query' \in [Queries -> QueryStates] /\ NeverMixed'
        /\ UNCHANGED <<settings, hasApplied, state, listening, waiting, step, config, open, portFree, tcp>>
        /\ upstream' \in Upstreams
    BY <1>0, <1>1, QueriesMove
  <2>2. TypeOK'
    BY <1>0, <2>1 DEF TypeOK
  <2> QED
    BY <2>1, <2>2, ControllerRests
<1>2. ASSUME Connect \/ Disconnect \/ PortChange \/ UNCHANGED vars
      PROVE  RelayInv' /\ NeverMixed'
  <2>1. /\ UNCHANGED <<settings, hasApplied, state, listening, waiting, step, config, open, upstream, query>>
        /\ tcp' \in {"none", "idle", "busy"} /\ portFree' \in BOOLEAN
    BY <1>0, <1>2 DEF Connect, Disconnect, PortChange, vars, controller, relay, network, TypeOK
  <2>2. TypeOK' /\ NeverMixed'
    BY <1>0, <2>1 DEF TypeOK, NeverMixed
  <2> QED
    BY <2>1, <2>2, ControllerRests
<1>3. ASSUME NEW c \in Configs, ApplySettings(c)
      PROVE  RelayInv' /\ NeverMixed'
  <2>1. UNCHANGED <<state, listening, step, config, upstream, open, portFree, tcp, query>>
    BY <1>3 DEF ApplySettings, relay, network
  <2>2. CASE UNCHANGED <<settings, hasApplied, waiting>>
    BY <1>0, <2>1, <2>2, ControllerRests DEF TypeOK, NeverMixed
  <2>3. CASE settings' = c /\ hasApplied' = TRUE /\ waiting' = waiting + 1
    <3>1. waiting' \in Nat /\ waiting' # 0
      BY <1>0, <2>3 DEF TypeOK
    <3>2. TypeOK' /\ NeverMixed'
      BY <1>0, <2>1, <2>3, <3>1 DEF TypeOK, NeverMixed
    <3>3. SocketsKnown' /\ LastReconcileFits' /\ NothingYet' /\ SettledAsTold'
      BY <2>1, <2>3, <3>1 DEF RelayInv, SocketsKnown, LastReconcileFits, NothingYet, SettledAsTold
    <3> QED
      BY <3>2, <3>3 DEF RelayInv
  <2> QED
    BY <1>3, <2>2, <2>3 DEF ApplySettings
<1>4. CASE Reconcile
  <2>1. /\ waiting > 0 /\ step = "none" /\ waiting' = waiting - 1 /\ waiting' \in Nat
        /\ UNCHANGED <<settings, hasApplied, listening, upstream, portFree, tcp, query>> /\ hasApplied
        /\ listening = open /\ (state = "active" <=> open)
    BY <1>0, <1>4 DEF Reconcile, TypeOK, RelayInv, NothingYet, SocketsKnown
  <2>2. (Wanted' <=> Wanted) /\ Resting(settings)' = Resting(settings)
    BY <2>1 DEF Wanted, Resting
  <2>3. NeverMixed' /\ NothingYet'
    BY <2>1 DEF NeverMixed, NothingYet
  <2>4. CASE Wanted /\ listening
    <3>1. config' = settings /\ state' = "active" /\ step' = "none" /\ open' = open
      BY <1>4, <2>1, <2>4 DEF Reconcile
    <3>2. TypeOK'
      BY <1>0, <2>1, <3>1 DEF TypeOK, States
    <3> QED
      BY <2>1, <2>2, <2>3, <2>4, <3>1, <3>2 DEF RelayInv, SocketsKnown, LastReconcileFits, SettledAsTold
  <2>5. CASE Wanted /\ ~listening
    <3>1. config' = settings /\ state' = state /\ step' = "start" /\ open' = open
      BY <1>4, <2>1, <2>5 DEF Reconcile
    <3>2. TypeOK'
      BY <1>0, <2>1, <3>1 DEF TypeOK, Steps
    <3> QED
      BY <2>1, <2>2, <2>3, <2>5, <3>1, <3>2 DEF RelayInv, SocketsKnown, LastReconcileFits, SettledAsTold
  <2>6. CASE ~Wanted /\ listening
    <3>1. config' = config /\ state' = state /\ step' = Resting(settings) /\ open' = FALSE
      BY <1>4, <2>1, <2>6 DEF Reconcile
    <3>2. TypeOK'
      BY <1>0, <2>1, <3>1, RestingIsTold DEF TypeOK, Steps
    <3> QED
      BY <2>1, <2>2, <2>3, <2>6, <3>1, <3>2, RestingIsTold
         DEF RelayInv, SocketsKnown, LastReconcileFits, SettledAsTold
  <2>7. CASE ~Wanted /\ ~listening
    <3>1. config' = config /\ state' = Resting(settings) /\ step' = "none" /\ open' = open
      BY <1>4, <2>1, <2>7 DEF Reconcile
    <3>2. TypeOK'
      BY <1>0, <2>1, <3>1, RestingIsTold DEF TypeOK, States
    <3> QED
      BY <2>1, <2>2, <2>3, <2>7, <3>1, <3>2, RestingIsTold
         DEF RelayInv, SocketsKnown, LastReconcileFits, SettledAsTold
  <2> QED
    BY <2>4, <2>5, <2>6, <2>7
<1>5. CASE StartSucceeds
  <2>1. /\ step = "start" /\ step' = "none" /\ listening' = TRUE /\ open' = TRUE /\ state' = "active"
        /\ UNCHANGED <<settings, hasApplied, waiting, config, upstream, portFree, tcp, query>>
    BY <1>5 DEF StartSucceeds, relay
  <2>2. TypeOK' /\ NeverMixed' /\ (Wanted' <=> Wanted)
    BY <1>0, <2>1 DEF TypeOK, States, Steps, NeverMixed, Wanted
  <2> QED
    BY <2>1, <2>2 DEF RelayInv, SocketsKnown, LastReconcileFits, NothingYet, SettledAsTold
<1>6. CASE StartFails
  <2>1. /\ step = "start" /\ step' = "unwind"
        /\ UNCHANGED <<settings, hasApplied, state, listening, waiting, config, upstream, open, portFree, tcp, query>>
    BY <1>6 DEF StartFails, relay, network
  <2>2. TypeOK' /\ NeverMixed' /\ (Wanted' <=> Wanted)
    BY <1>0, <2>1 DEF TypeOK, Steps, NeverMixed, Wanted
  <2> QED
    BY <2>1, <2>2 DEF RelayInv, SocketsKnown, LastReconcileFits, NothingYet, SettledAsTold
<1>7. CASE Unwound
  <2>1. /\ step = "unwind" /\ step' = "none" /\ state' = "error"
        /\ UNCHANGED <<settings, hasApplied, listening, waiting, config, upstream, open, portFree, tcp, query>>
    BY <1>7 DEF Unwound, relay, network
  <2>2. TypeOK' /\ NeverMixed' /\ (Wanted' <=> Wanted)
    BY <1>0, <2>1 DEF TypeOK, States, Steps, NeverMixed, Wanted
  <2>3. SocketsKnown' /\ LastReconcileFits' /\ NothingYet'
    <3>1. open = FALSE /\ listening = FALSE /\ hasApplied
      BY <2>1, <1>0 DEF RelayInv, TypeOK, SocketsKnown, NothingYet
    <3> QED
      BY <2>1, <3>1 DEF SocketsKnown, LastReconcileFits, NothingYet
  <2>4. waiting = 0 => Wanted
    BY <2>1 DEF RelayInv, LastReconcileFits
  <2>5. SettledAsTold'
    BY <2>1, <2>2, <2>3, <2>4 DEF SocketsKnown, SettledAsTold
  <2> QED
    BY <2>2, <2>3, <2>5 DEF RelayInv
<1>8. CASE Stopped
  <2>1. /\ step \in {"stopped", "unconfigured"} /\ step' = "none" /\ listening' = FALSE /\ state' = step
        /\ UNCHANGED <<settings, hasApplied, waiting, config, upstream, open, portFree, tcp, query>>
    BY <1>8 DEF Stopped, relay, network
  <2>2. (Wanted' <=> Wanted) /\ Resting(settings)' = Resting(settings)
    BY <2>1 DEF Wanted, Resting
  <2>3. TypeOK' /\ NeverMixed'
    BY <1>0, <2>1 DEF TypeOK, States, Steps, NeverMixed
  <2>4. SocketsKnown' /\ LastReconcileFits' /\ NothingYet'
    <3>1. open = FALSE /\ hasApplied
      BY <2>1, <1>0 DEF RelayInv, TypeOK, SocketsKnown, NothingYet
    <3> QED
      BY <2>1, <3>1 DEF SocketsKnown, LastReconcileFits, NothingYet
  <2>5. waiting = 0 => ~Wanted /\ state' = Resting(settings)
    BY <2>1 DEF RelayInv, LastReconcileFits
  <2>6. SettledAsTold'
    BY <2>1, <2>2, <2>4, <2>5 DEF SocketsKnown, SettledAsTold
  <2> QED
    BY <2>3, <2>4, <2>6 DEF RelayInv
<1> QED
  BY <1>1, <1>2, <1>3, <1>4, <1>5, <1>6, <1>7, <1>8 DEF Next

LEMMA RelayInvHolds == Spec => [](RelayInv /\ NeverMixed)
<1>1. Init => RelayInv /\ NeverMixed
  <2> SUFFICES ASSUME Init
               PROVE  RelayInv /\ NeverMixed
    OBVIOUS
  <2>1. TypeOK
    BY NoQueryType DEF Init, TypeOK, States, Steps, Upstreams
  <2>2. NeverMixed
    BY NoQueryType DEF Init, NeverMixed
  <2> QED
    BY <2>1, <2>2 DEF Init, RelayInv, SocketsKnown, LastReconcileFits, NothingYet, SettledAsTold
<1> QED
  BY <1>1, RelayStep, PTL DEF Spec

\* When no reconcile is under way, what the controller believes, what it tells and
\* what is open agree, and an active relay answers with the settings last applied.
THEOREM SettledAsToldHolds == Spec => []SettledAsTold
<1>1. RelayInv => SettledAsTold
  BY DEF RelayInv
<1> QED
  BY <1>1, RelayInvHolds, PTL

\* A query goes out in plain text only as the one configuration under which it was
\* begun allows, and to the servers of that configuration.
THEOREM NeverMixedHolds == Spec => []NeverMixed
BY RelayInvHolds, PTL
=============================================================================
