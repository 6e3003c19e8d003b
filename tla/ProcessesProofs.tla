-------------------------- MODULE ProcessesProofs --------------------------
(***************************************************************************)
(* Proofs about the components that Processes puts side by side, for any   *)
(* number of clients, queries, notifications, configurations, processes    *)
(* and pieces of output: names never mixed, commands answered truly,       *)
(* controllers that agree, and one 3proxy that serves what was set last.   *)
(***************************************************************************)
EXTENDS Processes, Sequences, FiniteSetTheorems, SequenceTheorems, TLAPS

-----------------------------------------------------------------------------
(* ClientIds                                                               *)

\* A cache that fits, each entry the identifier of its own client.
CacheIsOwn(map) ==
  /\ map \in [DOMAIN map -> C!Identifiers] /\ DOMAIN map \subseteq Clients
  /\ Cardinality(DOMAIN map) <= MaxEntries
  /\ \A c \in DOMAIN map : map[c].client = c

\* A query waits for the lookup of its own client, or has that client's identifier.
AsksForItself(asking, lookups) ==
  \/ asking = C!Nobody
  \/ \E c \in lookups : asking = C!Waiting(c, c)
  \/ \E id \in C!Identifiers : asking = C!Identified(id.client, id)

NamesInv ==
  /\ source \in Sources \cup {None}
  /\ CacheIsOwn(cache) /\ expired \subseteq DOMAIN cache
  /\ pending \in [DOMAIN pending -> Sources \cup {None}] /\ DOMAIN pending \subseteq Clients
  /\ DOMAIN query = Queries
  /\ \A q \in Queries : AsksForItself(query[q], DOMAIN pending)

\* The instance counts as everybody does.
LEMMA SameCount == \A S : C!Cardinality(S) = Cardinality(S)
BY DEF C!Cardinality, Cardinality

\* What ClientIdsAssumption says, in terms of this module.
LEMMA ClientsAreFinite == IsFiniteSet(Clients) /\ None \notin Sources /\ MaxEntries \in Nat \ {0}
<1>1. C!IsFiniteSet(Clients) <=> IsFiniteSet(Clients)
  BY DEF C!IsFiniteSet, IsFiniteSet
<1> QED
  BY <1>1, ClientIdsAssumption DEF C!ClientIdsAssumption

\* A new resolver knows no name.
LEMMA NamesInit == C!Init => NamesInv
<1> SUFFICES ASSUME C!Init
             PROVE  NamesInv
  OBVIOUS
<1>1. DOMAIN cache = {} /\ DOMAIN pending = {}
  BY DEF C!Init
<1>2. Cardinality({}) <= MaxEntries
  BY FS_EmptySet, ClientsAreFinite
<1>3. CacheIsOwn(cache)
  BY <1>1, <1>2 DEF CacheIsOwn
<1> QED
  BY <1>1, <1>3 DEF C!Init, NamesInv, AsksForItself

\* A lookup that ends: the identifier is kept and told to its own client's queries.
LEMMA CacheKeeps ==
  ASSUME NamesInv, NEW c \in Clients, NEW id \in C!Identifiers, id.client = c, C!Keep(c, id)
  PROVE  CacheIsOwn(cache') /\ expired' \subseteq DOMAIN cache'
<1> DEFINE old == IF C!Full THEN << >> ELSE cache
<1>1. old \in [DOMAIN old -> C!Identifiers] /\ DOMAIN old \subseteq Clients
      /\ \A d \in DOMAIN old : old[d].client = d
  BY DEF NamesInv, CacheIsOwn
<1>2. /\ cache' \in [DOMAIN old \cup {c} -> C!Identifiers] /\ cache'[c] = id
      /\ \A d \in DOMAIN old : d # c => cache'[d] = old[d]
  <2>1. cache' = C!Put(old, c, id)
    BY DEF C!Keep
  <2> HIDE DEF old
  <2> QED
    BY <1>1, <2>1 DEF C!Put
<1>3. Cardinality(DOMAIN old \cup {c}) <= MaxEntries
  <2>1. CASE C!Full
    <3>1. DOMAIN old \cup {c} = {c}
      BY <2>1
    <3> QED
      BY <3>1, FS_Singleton, ClientsAreFinite
  <2>2. CASE ~C!Full
    <3>1. IsFiniteSet(DOMAIN cache)
      BY FS_Subset, ClientsAreFinite DEF NamesInv, CacheIsOwn
    <3>2. Cardinality(DOMAIN cache \cup {c}) <= Cardinality(DOMAIN cache) + 1
          /\ Cardinality(DOMAIN cache) \in Nat /\ Cardinality(DOMAIN cache \cup {c}) \in Nat
      <4>1. Cardinality(DOMAIN cache \cup {c}) \in {Cardinality(DOMAIN cache), Cardinality(DOMAIN cache) + 1}
        BY <3>1, FS_AddElement
      <4>2. Cardinality(DOMAIN cache) \in Nat
        BY <3>1, FS_CardinalityType
      <4> QED
        BY <4>1, <4>2
    <3> QED
      BY <2>2, <3>2, SameCount, ClientsAreFinite DEF C!Full
  <2> QED
    BY <2>1, <2>2
<1>4. CacheIsOwn(cache')
  BY <1>1, <1>2, <1>3 DEF CacheIsOwn
<1>5. expired' \subseteq DOMAIN cache'
  BY <1>2 DEF C!Keep, NamesInv
<1> QED
  BY <1>4, <1>5

LEMMA NamesStep == NamesInv /\ [C!Next]_(C!vars) => NamesInv'
<1> SUFFICES ASSUME NamesInv, [C!Next]_(C!vars)
             PROVE  NamesInv'
  OBVIOUS
<1>1. ASSUME NEW q \in Queries, NEW c \in Clients, C!Resolve(q, c)
      PROVE  NamesInv'
  <2>1. UNCHANGED <<source, cache, expired>>
    BY <1>1 DEF C!Resolve
  <2>2. /\ pending' \in [DOMAIN pending' -> Sources \cup {None}]
        /\ DOMAIN pending \subseteq DOMAIN pending' /\ DOMAIN pending' \subseteq Clients
        /\ C!Miss(q, c) => c \in DOMAIN pending'
    <3>1. CASE C!Miss(q, c)
      <4>1. CASE c \in DOMAIN pending
        BY <3>1, <4>1 DEF C!Miss, NamesInv
      <4>2. CASE c \notin DOMAIN pending
        BY <3>1, <4>2 DEF C!Miss, C!Put, NamesInv
      <4> QED
        BY <4>1, <4>2
    <3>2. CASE ~C!Miss(q, c)
      BY <1>1, <3>2 DEF C!Resolve, C!Fixed, C!Hit, NamesInv
    <3> QED
      BY <3>1, <3>2
  <2>3. /\ DOMAIN query' = Queries /\ \A k \in Queries \ {q} : query'[k] = query[k]
        /\ AsksForItself(query'[q], DOMAIN pending')
    <3>1. CASE C!Fixed(q, c)
      BY <3>1 DEF C!Fixed, NamesInv, AsksForItself, C!Id, C!Identifiers, C!Identified
    <3>2. CASE C!Hit(q, c)
      BY <3>2 DEF C!Hit, NamesInv, AsksForItself, CacheIsOwn
    <3>3. CASE C!Miss(q, c)
      BY <2>2, <3>3 DEF C!Miss, NamesInv, AsksForItself
    <3> QED
      BY <1>1, <3>1, <3>2, <3>3 DEF C!Resolve
  <2>4. \A k \in Queries : AsksForItself(query'[k], DOMAIN pending')
    BY <2>2, <2>3 DEF NamesInv, AsksForItself
  <2> QED
    BY <2>1, <2>2, <2>3, <2>4 DEF NamesInv, CacheIsOwn
<1>2. ASSUME NEW q \in Queries, C!Forward(q)
      PROVE  NamesInv'
  BY <1>2 DEF C!Forward, NamesInv, AsksForItself, CacheIsOwn
<1>3. ASSUME NEW c \in Clients, C!Lookup(c)
      PROVE  NamesInv'
  <2>1. PICK id \in {C!Id(c, pending[c]), C!Id(c, None)} : C!Keep(c, id) /\ C!Tell(c, id)
    BY <1>3 DEF C!Lookup
  <2>2. id \in C!Identifiers /\ id.client = c
    BY <1>3, <2>1 DEF C!Lookup, C!Id, C!Identifiers, NamesInv
  <2>3. CacheIsOwn(cache') /\ expired' \subseteq DOMAIN cache'
    BY <2>1, <2>2, CacheKeeps
  <2>4. /\ DOMAIN pending' = DOMAIN pending \ {c} /\ source' = source
        /\ pending' \in [DOMAIN pending' -> Sources \cup {None}]
    BY <1>3 DEF C!Lookup, C!Restrict, NamesInv
  <2>5. ASSUME NEW q \in Queries
        PROVE  AsksForItself(query'[q], DOMAIN pending')
    <3>1. query'[q] = IF query[q].phase = "waiting" /\ query[q].lookup = c
                      THEN C!Identified(query[q].client, id) ELSE query[q]
      BY <2>1 DEF C!Tell
    <3>2. CASE \E d \in DOMAIN pending : query[q] = C!Waiting(d, d)
      BY <2>2, <2>4, <3>1, <3>2 DEF AsksForItself, C!Waiting
    <3>3. CASE query[q] = C!Nobody
      BY <3>1, <3>3 DEF AsksForItself, C!Nobody
    <3>4. CASE \E i \in C!Identifiers : query[q] = C!Identified(i.client, i)
      BY <3>1, <3>4 DEF AsksForItself, C!Identified
    <3> QED
      BY <3>2, <3>3, <3>4 DEF NamesInv, AsksForItself
  <2>6. DOMAIN query' = Queries
    BY <2>1 DEF C!Tell
  <2> QED
    BY <2>3, <2>4, <2>5, <2>6 DEF NamesInv
<1>4. ASSUME NEW c \in Clients, C!Expire(c)
      PROVE  NamesInv'
  BY <1>4 DEF C!Expire, NamesInv, CacheIsOwn
<1>5. ASSUME NEW s \in Sources \cup {None}, C!UpdateConfig(s)
      PROVE  NamesInv'
  <2>1. CASE s # source
    <3>1. DOMAIN cache' = {} /\ cache' = << >> /\ expired' = {}
      BY <1>5, <2>1 DEF C!UpdateConfig
    <3>2. Cardinality({}) <= MaxEntries
      BY FS_EmptySet, ClientsAreFinite
    <3>3. CacheIsOwn(cache')
      BY <3>1, <3>2 DEF CacheIsOwn
    <3> QED
      BY <1>5, <3>1, <3>3 DEF C!UpdateConfig, NamesInv
  <2>2. CASE s = source
    BY <1>5, <2>2 DEF C!UpdateConfig, NamesInv, CacheIsOwn
  <2> QED
    BY <2>1, <2>2
<1>6. CASE UNCHANGED C!vars
  BY <1>6 DEF C!vars, NamesInv, CacheIsOwn
<1> QED
  BY <1>1, <1>2, <1>3, <1>4, <1>5, <1>6 DEF C!Next

\* Every query is forwarded in the name of its own client, whoever asks at the same time
\* and whichever lookups they share, and the cache stays within its bound
\* (client-id.ts, resolve and remember).
THEOREM NamesNeverMixedHolds == C!Spec => []NamesNeverMixed
<1>1. NamesInv => NamesNeverMixed
  <2> SUFFICES ASSUME NamesInv, NEW q \in Queries
               PROVE  \/ query[q] = C!Nobody
                      \/ \E d \in DOMAIN pending : query[q] = C!Waiting(query[q].client, d)
                      \/ query[q].phase = "identified" /\ query[q].id.client = query[q].client
    BY SameCount DEF NamesInv, CacheIsOwn, NamesNeverMixed, C!NeverMixed
  <2> QED
    BY DEF NamesInv, AsksForItself, C!Waiting, C!Identified
<1> QED
  BY <1>1, NamesInit, NamesStep, PTL DEF C!Spec

-----------------------------------------------------------------------------
(* CommandRunner                                                           *)

\* Pieces are counted, and the exit of a child is seen after it.
CommandType ==
  /\ matchAt \in 1 .. Pieces + 1 /\ code \in R!ExitCodes
  /\ written \in Nat /\ last \in Nat /\ read \in Nat
  /\ settled \in BOOLEAN /\ exitSeen \in BOOLEAN /\ timer \in BOOLEAN /\ grace \in BOOLEAN
  /\ back \in BOOLEAN /\ backSettled \in BOOLEAN /\ early \in BOOLEAN
  /\ kind = "none" => read = 0 /\ ~settled /\ ~exitSeen /\ ~timer /\ ~grace
                      /\ answer = "none" /\ proc = "none"
  /\ exitSeen \/ grace => proc = "exited"

\* A match that was read is answered, and a detachable command that is settled has its answer.
ReadIsAnswered ==
  /\ kind = "detachable" /\ read >= matchAt => settled
  /\ kind = "detachable" /\ settled => answer # "none"
  /\ AnswerIsTrue

\* What is awaited in the background was not announced, and what was is awaited no more.
AnnouncedOnce ==
  /\ back => /\ kind = "detachable" /\ settled
             /\ ~backSettled /\ ~exitSeen /\ notices = << >>
  /\ notices # << >> => settled /\ backSettled
  /\ kind = "none" => ~back /\ notices = << >>

CommandInv == CommandType /\ ReadIsAnswered /\ AnnouncedOnce

LEMMA CommandInit == R!Init => CommandInv
<1> SUFFICES ASSUME R!Init
             PROVE  CommandInv
  OBVIOUS
<1>1. CommandType
  BY DEF R!Init, CommandType, R!ExitCodes
<1>2. ReadIsAnswered
  BY DEF R!Init, ReadIsAnswered, AnswerIsTrue, R!AnswerIsTrue
<1>3. AnnouncedOnce
  BY DEF R!Init, AnnouncedOnce
<1> QED
  BY <1>1, <1>2, <1>3 DEF CommandInv

\* What AnnouncedTruly says of a step.
Announced ==
  notices' # notices =>
    LET notice == notices'[Len(notices')] IN
    /\ notices = << >> /\ answer' # "none"
    /\ notice.killed <=> ~exitSeen'
    /\ ~notice.killed => proc = "exited" /\ notice.code = code

\* A step keeps the invariant, and what it announces it announces once and truly.
LEMMA CommandStep ==
  ASSUME CommandInv, [R!Next]_(R!vars)
  PROVE  CommandInv' /\ Announced
<1> USE DEF CommandInv, CommandType, ReadIsAnswered, AnswerIsTrue, R!AnswerIsTrue, AnnouncedOnce,
            R!Matches, R!outside, R!Resolve, R!ExitCodes, Announced
<1>0. \A e : Append(<< >>, e) = <<e>> /\ Len(<<e>>) = 1 /\ <<e>>[1] = e /\ <<e>> # << >>
  OBVIOUS
<1>1. CASE R!Refuse
  BY <1>1 DEF R!Refuse
<1>2. CASE R!Spawn
  BY <1>2 DEF R!Spawn
<1>3. CASE R!SpawnError
  BY <1>3 DEF R!SpawnError
<1>4. CASE R!Timeout
  <2>1. CommandType'
    BY <1>4 DEF R!Timeout
  <2>2. ReadIsAnswered'
    BY <1>4 DEF R!Timeout
  <2>3. AnnouncedOnce'
    BY <1>4 DEF R!Timeout
  <2>4. Announced
    BY <1>4 DEF R!Timeout
  <2> QED
    BY <2>1, <2>2, <2>3, <2>4
<1>5. CASE R!Data
  <2>1. PICK n \in read + 1 .. written :
          /\ read' = n
          /\ IF kind = "detachable" /\ ~settled /\ R!Matches(n)
             THEN R!Match
             ELSE UNCHANGED <<settled, answer, timer, back, backSettled, notices>>
    BY <1>5 DEF R!Data
  <2>2. UNCHANGED <<kind, matchAt, code, written, last, proc, signal, exitSeen, grace, early>> /\ kind # "none"
    BY <1>5 DEF R!Data
  <2>3. CASE kind = "detachable" /\ ~settled /\ R!Matches(n)
    <3>0. /\ read' \in Nat /\ settled' = TRUE /\ timer' = FALSE
          /\ back' \in BOOLEAN /\ backSettled' \in BOOLEAN
      BY <2>1, <2>3 DEF R!Match
    <3>1. CommandType'
      BY <2>2, <3>0
    <3>2. ReadIsAnswered'
      BY <2>1, <2>2, <2>3 DEF R!Match
    <3>3. AnnouncedOnce'
      BY <1>0, <2>1, <2>2, <2>3 DEF R!Match
    <3>4. Announced
      BY <1>0, <2>1, <2>2, <2>3 DEF R!Match
    <3> QED
      BY <3>1, <3>2, <3>3, <3>4
  <2>4. CASE ~(kind = "detachable" /\ ~settled /\ R!Matches(n))
    BY <2>1, <2>2, <2>4
  <2> QED
    BY <2>3, <2>4
<1>6. CASE R!ExitEvent
  <2>1. CommandType'
    BY <1>6 DEF R!ExitEvent
  <2>2. ReadIsAnswered'
    BY <1>6 DEF R!ExitEvent
  <2>3. AnnouncedOnce'
    BY <1>0, <1>6 DEF R!ExitEvent
  <2>4. Announced
    BY <1>0, <1>6 DEF R!ExitEvent
  <2> QED
    BY <2>1, <2>2, <2>3, <2>4
<1>7. CASE R!GraceEnds
  <2>0. /\ early' \in BOOLEAN
        /\ kind = "plain" \/ ~settled => (early' <=> read < last)
    <3>1. CASE kind = "plain" \/ ~settled
      <4>1. early' = (read < last)
        BY <1>7, <3>1 DEF R!GraceEnds
      <4>2. CASE read < last
        BY <4>1, <4>2
      <4>3. CASE ~(read < last)
        BY <4>1, <4>3
      <4> QED
        BY <4>2, <4>3
    <3>2. CASE ~(kind = "plain" \/ ~settled)
      BY <1>7, <3>2 DEF R!GraceEnds
    <3> QED
      BY <3>1, <3>2
  <2>1. CommandType'
    BY <1>7, <2>0 DEF R!GraceEnds
  <2>2. ReadIsAnswered'
    <3>1. CASE kind = "plain" \/ ~settled
      <4>1. /\ settled' = TRUE /\ answer' = code /\ grace
            /\ UNCHANGED <<kind, matchAt, code, last, proc, read>>
        BY <1>7, <3>1 DEF R!GraceEnds
      <4>2. kind = "detachable" => ~(last >= matchAt) \/ early'
        BY <2>0, <3>1
      <4> QED
        BY <4>1, <4>2
    <3>2. CASE ~(kind = "plain" \/ ~settled)
      BY <1>7, <3>2 DEF R!GraceEnds
    <3> QED
      BY <3>1, <3>2
  <2>3. AnnouncedOnce'
    BY <1>7 DEF R!GraceEnds
  <2>4. Announced
    BY <1>7 DEF R!GraceEnds
  <2> QED
    BY <2>1, <2>2, <2>3, <2>4
<1>8. CASE R!BackTimeout
  <2>1. CommandType'
    BY <1>8 DEF R!BackTimeout
  <2>2. ReadIsAnswered'
    BY <1>8 DEF R!BackTimeout
  <2>3. AnnouncedOnce'
    BY <1>0, <1>8 DEF R!BackTimeout
  <2>4. Announced
    BY <1>0, <1>8 DEF R!BackTimeout
  <2> QED
    BY <2>1, <2>2, <2>3, <2>4
<1>9. CASE R!Write
  BY <1>9 DEF R!Write, R!ours
<1>10. CASE R!Exits \/ R!Dies
  BY <1>10 DEF R!Exits, R!Dies, R!Ends, R!ours
<1>11. CASE UNCHANGED R!vars
  BY <1>11 DEF R!vars
<1> QED
  BY <1>1, <1>2, <1>3, <1>4, <1>5, <1>6, <1>7, <1>8, <1>9, <1>10, <1>11 DEF R!Next, R!Handlers

\* An exit code that is answered is that of the child, and a match that was written before
\* its exit was overlooked only if the grace ended before it was read, in whatever order
\* exit, data and timers come (command-runner.ts:187-196).
THEOREM AnswerIsTrueHolds == R!Spec => []AnswerIsTrue
<1>1. CommandInv /\ [R!Next]_(R!vars) => CommandInv'
  BY CommandStep
<1>2. CommandInv => AnswerIsTrue
  BY DEF CommandInv, ReadIsAnswered
<1> QED
  BY <1>1, <1>2, CommandInit, PTL DEF R!Spec

\* The background end is announced at most once and after the answer, as a kill if and only
\* if the exit had not been seen and with the code of the child otherwise, whichever of exit,
\* kill and match comes first (command-runner.ts:176-220).
THEOREM AnnouncedTrulyHolds == R!Spec => AnnouncedTruly
<1>1. CommandInv /\ [R!Next]_(R!vars) => CommandInv'
  BY CommandStep
<1>2. CommandInv /\ [R!Next]_(R!vars) => [Announced]_(R!vars)
  BY CommandStep
<1> QED
  BY <1>1, <1>2, CommandInit, PTL DEF R!Spec, Announced, AnnouncedTruly, R!AnnouncedTruly

-----------------------------------------------------------------------------
(* SettingsSync                                                            *)

Bodies == [other : Others \cup {None}, relay : BOOLEAN]
Pushes == [body : [other : Others, relay : BOOLEAN], left : Nat]

\* A relay is stopped, active or failed; it awaits a start, a stop or nothing.
RelayStates == [want : BOOLEAN, applied : BOOLEAN, state : {"stopped", "active", "error"},
                step : {"none", "start", "stop"}, line : Seq(Requests), work : SUBSET Requests]
GatewayStates == [rules : N!Rules, ok : BOOLEAN, missed : BOOLEAN, nft : N!Rules, busy : BOOLEAN,
                  line : Seq(Requests), work : SUBSET Requests]
RequestStates == [at : {"none", "sent", "relay", "gateway"}, body : Bodies, active : BOOLEAN]

SyncType ==
  /\ stored \in [other : Others, relay : BOOLEAN] /\ push \in Pushes
  /\ latest \in Bodies
  /\ request \in [Requests -> RequestStates]
  /\ relay \in RelayStates
  /\ gateway \in GatewayStates
  /\ kernel \in N!Rules

LastOf(q) == q[Len(q)]

\* A line holds the handlers that wait at one place, each once; those with work are in it.
InLine(reqs, q, work, at) ==
  /\ \A i \in 1 .. Len(q) : reqs[q[i]].at = at
  /\ \A i, j \in 1 .. Len(q) : q[i] = q[j] => i = j
  /\ \A r \in work : \E i \in 1 .. Len(q) : q[i] = r

\* The one whose step is awaited is first in line.
Lines ==
  /\ InLine(request, relay.line, relay.work, "relay")
  /\ InLine(request, gateway.line, gateway.work, "gateway")
  /\ relay.step # "none" => relay.line # << >> /\ Head(relay.line) \in relay.work
  /\ gateway.busy => gateway.line # << >> /\ Head(gateway.line) \in gateway.work

\* The relay is told what was received last; before the first notification nobody waits.
RelayFollows ==
  /\ relay.applied => relay.want = latest.relay
  /\ ~relay.applied => relay.line = << >> /\ gateway.line = << >>

\* The newest notification is the last in line, wherever it is, and what it passed has its
\* settings, as long as none is behind it.
NewestIsLast ==
  relay.applied =>
    /\ relay.line # << >> => request[LastOf(relay.line)].body = latest
    /\ relay.line = << >> =>
         /\ gateway.rules.other = latest.other
         /\ gateway.rules.redirect <=> relay.state = "active"
         /\ gateway.line # << >> => /\ request[LastOf(gateway.line)].body = latest
                                    /\ request[LastOf(gateway.line)].active <=> relay.state = "active"
         /\ gateway.line = << >> => /\ explicit.other = latest.other
                                    /\ explicit.named <=> relay.state = "active"

\* What nobody is going to do any more is done, or is what is awaited.
RelayWaiting   == IF relay.step = "none" THEN relay.work ELSE relay.work \ {Head(relay.line)}
GatewayWaiting == IF gateway.busy THEN gateway.work \ {Head(gateway.line)} ELSE gateway.work

RelayDone ==
  RelayWaiting = {} =>
    /\ relay.step = "start" => relay.want
    /\ relay.step = "stop" => ~relay.want
    /\ relay.step = "none" => (relay.want <=> relay.state # "stopped")
GatewayDone ==
  GatewayWaiting = {} =>
    /\ gateway.busy => gateway.nft = gateway.rules
    /\ ~gateway.busy /\ gateway.ok => N!InForce(gateway.rules)

SyncInv == SyncType /\ Lines /\ RelayFollows /\ NewestIsLast /\ RelayDone /\ GatewayDone

LEMMA Appended ==
  ASSUME NEW S, NEW q \in Seq(S), NEW x \in S
  PROVE  /\ Append(q, x) \in Seq(S) /\ Append(q, x) # << >>
         /\ Len(q) \in Nat /\ Len(Append(q, x)) = Len(q) + 1
         /\ \A i \in 1 .. Len(q) : Append(q, x)[i] = q[i]
         /\ Append(q, x)[Len(q) + 1] = x
         /\ q # << >> => Head(Append(q, x)) = Head(q)
  BY AppendProperties, LenProperties, HeadTailAppend

LEMMA Tailed ==
  ASSUME NEW S, NEW q \in Seq(S), q # << >>
  PROVE  /\ Tail(q) \in Seq(S) /\ Head(q) \in S /\ Head(q) = q[1]
         /\ Len(q) \in Nat /\ Len(q) >= 1 /\ Len(Tail(q)) = Len(q) - 1
         /\ \A i \in 1 .. Len(q) - 1 : Tail(q)[i] = q[i + 1]
         /\ Tail(q) = << >> <=> Len(q) = 1
<1>1. Len(q) \in Nat /\ Len(q) # 0
  BY LenProperties, EmptySeq
<1>2. Tail(q) \in Seq(S) /\ Head(q) \in S /\ Len(Tail(q)) = Len(q) - 1
      /\ \A i \in 1 .. Len(Tail(q)) : Tail(q)[i] = q[i + 1]
  BY HeadTailProperties
<1>3. Tail(q) = << >> <=> Len(Tail(q)) = 0
  BY <1>2, EmptySeq
<1>4. Head(q) = q[1]
  OBVIOUS
<1> QED
  BY <1>1, <1>2, <1>3, <1>4

\* A handler that is elsewhere is not in line.
LEMMA NotInLine ==
  ASSUME NEW q \in Seq(Requests), NEW r \in Requests, NEW work, NEW at,
         NEW f \in [Requests -> RequestStates], InLine(f, q, work, at), f[r].at # at
  PROVE  r \notin work
  BY DEF InLine

LEMMA JoinsLast ==
  ASSUME NEW q \in Seq(Requests), NEW r \in Requests
  PROVE  LastOf(Append(q, r)) = r
  BY Appended DEF LastOf

\* The last in line is where the others are.
LEMMA LastInLine ==
  ASSUME NEW q \in Seq(Requests), q # << >>, NEW work, NEW at, NEW f, InLine(f, q, work, at)
  PROVE  LastOf(q) \in Requests /\ f[LastOf(q)].at = at
<1>1. Len(q) \in 1 .. Len(q)
  BY Tailed
<1> QED
  BY <1>1 DEF InLine, LastOf

\* A handler that comes to a place joins its line.
LEMMA Joins ==
  ASSUME NEW q \in Seq(Requests), NEW r \in Requests, NEW work, NEW more, NEW at,
         NEW f \in [Requests -> RequestStates], NEW g \in [Requests -> RequestStates],
         InLine(f, q, work, at), f[r].at # at, g[r].at = at,
         \A s \in Requests \ {r} : g[s].at = f[s].at,
         more \subseteq work \cup {r}
  PROVE  InLine(g, Append(q, r), more, at)
<1> DEFINE p == Append(q, r)
<1>1. /\ p \in Seq(Requests) /\ Len(q) \in Nat /\ Len(p) = Len(q) + 1
      /\ \A i \in 1 .. Len(q) : p[i] = q[i] /\ q[i] \in Requests
      /\ p[Len(q) + 1] = r
  BY Appended
<1>2. \A i \in 1 .. Len(q) : q[i] # r
  BY <1>1 DEF InLine
<1> HIDE DEF p
<1>3. \A i \in 1 .. Len(p) : g[p[i]].at = at
  BY <1>1, <1>2 DEF InLine
<1>4. \A i, j \in 1 .. Len(p) : p[i] = p[j] => i = j
  BY <1>1, <1>2 DEF InLine
<1>5. \A s \in more : \E i \in 1 .. Len(p) : p[i] = s
  BY <1>1 DEF InLine
<1> QED
  BY <1>3, <1>4, <1>5 DEF InLine, p

\* The first in line leaves; the last stays the last.
LEMMA Leaves ==
  ASSUME NEW q \in Seq(Requests), q # << >>, NEW work, NEW rest, NEW at,
         NEW f \in [Requests -> RequestStates], NEW g \in [Requests -> RequestStates],
         InLine(f, q, work, at),
         \A s \in Requests \ {Head(q)} : g[s].at = f[s].at,
         rest \subseteq work \ {Head(q)}
  PROVE  /\ InLine(g, Tail(q), rest, at)
         /\ Tail(q) # << >> => LastOf(Tail(q)) = LastOf(q) /\ LastOf(q) \in Requests \ {Head(q)}
         /\ Tail(q) = << >> => LastOf(q) = Head(q) /\ rest = {}
<1> DEFINE p == Tail(q)
           h == Head(q)
<1>1. /\ p \in Seq(Requests) /\ h = q[1] /\ h \in Requests /\ Len(q) \in Nat /\ Len(q) >= 1 /\ Len(p) = Len(q) - 1
      /\ \A i \in 1 .. Len(p) : p[i] = q[i + 1]
      /\ \A i \in 1 .. Len(q) : q[i] \in Requests
      /\ p = << >> <=> Len(q) = 1
  BY Tailed
<1>2. \A i \in 2 .. Len(q) : q[i] # h
  BY <1>1 DEF InLine
<1> HIDE DEF p, h
<1>3. \A i \in 1 .. Len(p) : g[p[i]].at = at
  BY <1>1, <1>2 DEF InLine, h
<1>4. \A i, j \in 1 .. Len(p) : p[i] = p[j] => i = j
  <2> SUFFICES ASSUME NEW i \in 1 .. Len(p), NEW j \in 1 .. Len(p), p[i] = p[j]
               PROVE  i = j
    OBVIOUS
  <2>1. q[i + 1] = q[j + 1] /\ i + 1 \in 1 .. Len(q) /\ j + 1 \in 1 .. Len(q)
    BY <1>1
  <2> QED
    BY <2>1 DEF InLine
<1>5. ASSUME NEW s \in rest
      PROVE  \E i \in 1 .. Len(p) : p[i] = s
  <2>1. PICK i \in 1 .. Len(q) : q[i] = s /\ s # h
    BY <1>5 DEF InLine, h
  <2>2. i - 1 \in 1 .. Len(p) /\ p[i - 1] = s
    BY <1>1, <2>1
  <2> QED
    BY <2>2
<1>6. ASSUME p # << >>
      PROVE  LastOf(p) = LastOf(q) /\ LastOf(q) \in Requests \ {h}
  <2>1. Len(q) \in 2 .. Len(q) /\ Len(p) \in 1 .. Len(p) /\ Len(p) + 1 = Len(q)
    BY <1>1, <1>6
  <2> QED
    BY <1>1, <1>2, <2>1 DEF LastOf
<1>7. ASSUME p = << >>
      PROVE  LastOf(q) = h /\ rest = {}
  <2>1. Len(q) = 1 /\ Len(p) = 0
    BY <1>1, <1>7
  <2> QED
    BY <1>1, <1>5, <2>1 DEF LastOf
<1> QED
  BY <1>3, <1>4, <1>5, <1>6, <1>7 DEF InLine, p, h

\* Requests that are elsewhere do not matter to a line.
LEMMA StaysInLine ==
  ASSUME NEW q \in Seq(Requests), NEW work, NEW at,
         NEW f, NEW g,
         InLine(f, q, work, at),
         \A s \in Requests : f[s].at = at => g[s].at = at
  PROVE  InLine(g, q, work, at)
<1>1. \A i \in 1 .. Len(q) : q[i] \in Requests
  OBVIOUS
<1> QED
  BY <1>1 DEF InLine

LEMMA SyncInit == N!Init => SyncInv
<1> SUFFICES ASSUME N!Init
             PROVE  SyncInv
  OBVIOUS
<1> USE DEF N!Init, N!NoRelay, N!NoGateway, N!NoRules, N!NoRequest, N!Default
<1>0. << >> \in Seq(Requests) /\ Len(<< >>) = 0
  OBVIOUS
<1>1. SyncType
  <2>1. stored \in [other : Others, relay : BOOLEAN]
    BY DEF N!Settings
  <2>2. relay \in RelayStates /\ gateway \in GatewayStates
    BY <1>0 DEF RelayStates, GatewayStates, N!Rules
  <2>3. request \in [Requests -> RequestStates] /\ latest \in Bodies /\ kernel \in N!Rules
    BY DEF RequestStates, Bodies, N!Rules
  <2>4. push \in Pushes
    BY <2>1, SyncAssumption DEF Pushes, N!SyncAssumption
  <2> QED
    BY <2>1, <2>2, <2>3, <2>4 DEF SyncType
<1>2. Lines
  BY <1>0 DEF Lines, InLine
<1>3. RelayFollows /\ NewestIsLast
  BY DEF RelayFollows, NewestIsLast
<1>4. RelayDone /\ GatewayDone
  BY DEF RelayDone, GatewayDone, RelayWaiting, GatewayWaiting
<1> QED
  BY <1>1, <1>2, <1>3, <1>4 DEF SyncInv

\* What the API sends, or what gets lost, is not being handled yet.
LEMMA Unhandled ==
  ASSUME SyncInv, UNCHANGED <<latest, relay, gateway, kernel, explicit>>,
         stored' \in [other : Others, relay : BOOLEAN], push' \in Pushes,
         request' \in [Requests -> RequestStates],
         \A r \in Requests : request[r].at \in {"relay", "gateway"} => request'[r] = request[r]
  PROVE  SyncInv'
<1> USE DEF SyncInv
<1>1. SyncType'
  BY DEF SyncType
<1>2. Lines'
  <2>1. /\ relay.line \in Seq(Requests) /\ gateway.line \in Seq(Requests)
        /\ \A r \in Requests : request[r].at = "relay" => request'[r].at = "relay"
        /\ \A r \in Requests : request[r].at = "gateway" => request'[r].at = "gateway"
    BY DEF SyncType, RelayStates, GatewayStates
  <2>2. InLine(request', relay.line, relay.work, "relay")
    BY <2>1, StaysInLine DEF Lines
  <2>3. InLine(request', gateway.line, gateway.work, "gateway")
    BY <2>1, StaysInLine DEF Lines
  <2> QED
    BY <2>2, <2>3 DEF Lines
<1>3. RelayFollows' /\ RelayDone' /\ GatewayDone'
  BY DEF RelayFollows, RelayDone, GatewayDone, RelayWaiting, GatewayWaiting, N!InForce
<1>4. NewestIsLast'
  <2>1. ASSUME relay.line # << >>
        PROVE  request'[LastOf(relay.line)] = request[LastOf(relay.line)]
    <3>1. relay.line \in Seq(Requests)
      BY DEF SyncType, RelayStates
    <3>2. Len(relay.line) \in 1 .. Len(relay.line)
      BY <2>1, <3>1, Tailed
    <3> QED
      BY <3>1, <3>2 DEF Lines, InLine, LastOf
  <2>2. ASSUME gateway.line # << >>
        PROVE  request'[LastOf(gateway.line)] = request[LastOf(gateway.line)]
    <3>1. gateway.line \in Seq(Requests)
      BY DEF SyncType, GatewayStates
    <3>2. Len(gateway.line) \in 1 .. Len(gateway.line)
      BY <2>2, <3>1, Tailed
    <3> QED
      BY <3>1, <3>2 DEF Lines, InLine, LastOf
  <2> QED
    BY <2>1, <2>2 DEF NewestIsLast
<1> QED
  BY <1>1, <1>2, <1>3, <1>4

\* The relay is given the newest settings, and the handler joins its line.
LEMMA ReceiveKeeps ==
  ASSUME SyncInv, NEW r \in Requests, N!Receive(r)
  PROVE  SyncInv'
<1> DEFINE body == request[r].body
           same == relay.applied /\ relay.state # "error" /\ body.relay = relay.want
<1> USE DEF SyncInv
<1>0. /\ relay \in RelayStates /\ gateway \in GatewayStates /\ request \in [Requests -> RequestStates]
      /\ relay.line \in Seq(Requests) /\ gateway.line \in Seq(Requests)
      /\ request[r].at = "sent" /\ body \in Bodies /\ body.relay \in BOOLEAN
  BY DEF SyncType, RelayStates, GatewayStates, RequestStates, Bodies, N!Receive
<1>1. /\ latest' = body /\ UNCHANGED <<stored, push, gateway, kernel, explicit>>
      /\ request' = [request EXCEPT ![r].at = "relay"]
      /\ relay' = [relay EXCEPT !.want = body.relay, !.applied = TRUE, !.line = Append(relay.line, r),
                                !.work = IF same THEN relay.work ELSE relay.work \cup {r}]
  BY DEF N!Receive, N!ForRelay, N!Body
<1>2. /\ request' \in [Requests -> RequestStates]
      /\ request'[r].at = "relay" /\ request'[r].body = body
      /\ \A s \in Requests \ {r} : request'[s] = request[s]
  BY <1>0, <1>1 DEF RequestStates
<1>3. Append(relay.line, r) \in Seq(Requests) /\ Append(relay.line, r) # << >>
      /\ (relay.line # << >> => Head(Append(relay.line, r)) = Head(relay.line))
  BY <1>0, Appended
<1>4. /\ relay' \in RelayStates
      /\ relay'.want = body.relay /\ relay'.applied /\ relay'.line = Append(relay.line, r)
      /\ relay'.work = IF same THEN relay.work ELSE relay.work \cup {r}
      /\ relay'.state = relay.state /\ relay'.step = relay.step
  BY <1>0, <1>1, <1>3 DEF RelayStates
<1> HIDE DEF body, same
<1>5. /\ InLine(request', relay'.line, relay'.work, "relay") /\ LastOf(relay'.line) = r
      /\ r \notin relay.work
  <2>1. \A s \in Requests \ {r} : request'[s].at = request[s].at
    BY <1>2
  <2>2. relay'.work \subseteq relay.work \cup {r}
    BY <1>4
  <2>3. InLine(request, relay.line, relay.work, "relay") /\ request[r].at # "relay" /\ request'[r].at = "relay"
    BY <1>0, <1>2 DEF Lines
  <2>0. relay.line \in Seq(Requests) /\ request \in [Requests -> RequestStates]
        /\ request' \in [Requests -> RequestStates]
    BY <1>0, <1>2
  <2>4. InLine(request', Append(relay.line, r), relay'.work, "relay")
    BY <2>0, <2>1, <2>2, <2>3, Joins
  <2>5. LastOf(Append(relay.line, r)) = r
    BY <2>0, JoinsLast
  <2>6. r \notin relay.work
    BY <2>0, <2>3, NotInLine
  <2> QED
    BY <1>4, <2>4, <2>5, <2>6
<1>6. InLine(request', gateway.line, gateway.work, "gateway")
  <2>1. \A s \in Requests : request[s].at = "gateway" => request'[s].at = "gateway"
    BY <1>0, <1>2
  <2>2. InLine(request, gateway.line, gateway.work, "gateway")
    BY DEF Lines
  <2> QED
    BY <1>0, <2>1, <2>2, StaysInLine
<1>7. SyncType'
  BY <1>0, <1>1, <1>2, <1>4 DEF SyncType
<1>8. Lines'
  BY <1>1, <1>3, <1>4, <1>5, <1>6 DEF Lines
<1>9. RelayFollows'
  BY <1>1, <1>4 DEF RelayFollows
<1>10. NewestIsLast'
  BY <1>1, <1>2, <1>3, <1>4, <1>5 DEF NewestIsLast
<1>11. RelayDone'
  <2> SUFFICES ASSUME RelayWaiting' = {}
               PROVE  RelayDone'
    BY DEF RelayDone
  <2>1. relay'.step # "none" => Head(relay'.line) = Head(relay.line) /\ Head(relay.line) \in relay.work
    BY <1>3, <1>4 DEF Lines
  <2>2. same
    BY <1>4, <1>5, <2>1 DEF RelayWaiting
  <2>3. RelayWaiting = {}
    BY <1>4, <2>1, <2>2 DEF RelayWaiting
  <2>4. relay'.want = relay.want
    BY <1>4, <2>2 DEF same
  <2> QED
    BY <1>4, <2>3, <2>4 DEF RelayDone
<1>12. GatewayDone'
  BY <1>1 DEF GatewayDone, GatewayWaiting, N!InForce
<1> QED
  BY <1>7, <1>8, <1>9, <1>10, <1>11, <1>12

\* The handler that was first at the relay goes on to the gateway.
LEMMA ToGatewayKeeps ==
  ASSUME SyncInv, relay.line # << >>, NEW state, state \in {"stopped", "active", "error"},
         relay.work \ {Head(relay.line)} = {} => (relay.want <=> state # "stopped"),
         N!ToGateway(Head(relay.line), state), UNCHANGED <<latest, stored, push, kernel, explicit>>
  PROVE  SyncInv'
<1> DEFINE r == Head(relay.line)
           rules == [other |-> request[r].body.other, redirect |-> request[r].body.relay /\ state = "active"]
           same == gateway.ok /\ rules = gateway.rules
<1> USE DEF SyncInv
<1>0. /\ relay \in RelayStates /\ gateway \in GatewayStates /\ request \in [Requests -> RequestStates]
      /\ relay.line \in Seq(Requests) /\ gateway.line \in Seq(Requests)
  BY DEF SyncType, RelayStates, GatewayStates
<1>1. /\ Tail(relay.line) \in Seq(Requests) /\ r \in Requests /\ r = relay.line[1]
      /\ 1 \in 1 .. Len(relay.line)
  BY <1>0, Tailed
<1>2. request[r].at = "relay" /\ request[r].body \in Bodies /\ rules \in N!Rules
      /\ request[r].body.relay \in BOOLEAN
  <2>1. request[r].at = "relay"
    BY <1>1 DEF Lines, InLine
  <2>2. request[r].body \in Bodies
    BY <1>0, <1>1 DEF RequestStates
  <2> HIDE DEF r
  <2>3. rules \in N!Rules /\ request[r].body.relay \in BOOLEAN
    BY <2>2 DEF Bodies, N!Rules
  <2> QED
    BY <2>1, <2>2, <2>3
<1>3. /\ relay' = [relay EXCEPT !.state = state, !.step = "none", !.line = Tail(relay.line),
                                !.work = relay.work \ {r}]
      /\ request' = [request EXCEPT ![r].at = "gateway", ![r].active = (state = "active")]
      /\ gateway' = [gateway EXCEPT !.rules = rules, !.line = Append(gateway.line, r),
                                    !.work = IF same THEN gateway.work ELSE gateway.work \cup {r}]
  BY DEF N!ToGateway, N!Body, N!Redirect
<1> HIDE DEF r, rules
<1>4. /\ request' \in [Requests -> RequestStates]
      /\ request'[r].at = "gateway" /\ request'[r].body = request[r].body
      /\ request'[r].active = (state = "active")
      /\ \A s \in Requests \ {r} : request'[s] = request[s]
  BY <1>0, <1>1, <1>3 DEF RequestStates
<1>5. Append(gateway.line, r) \in Seq(Requests) /\ Append(gateway.line, r) # << >>
      /\ (gateway.line # << >> => Head(Append(gateway.line, r)) = Head(gateway.line))
  BY <1>0, <1>1, Appended
<1>6. /\ relay' \in RelayStates
      /\ relay'.want = relay.want /\ relay'.applied = relay.applied /\ relay'.line = Tail(relay.line)
      /\ relay'.work = relay.work \ {r} /\ relay'.state = state /\ relay'.step = "none"
  BY <1>0, <1>1, <1>3 DEF RelayStates
<1>7. /\ gateway' \in GatewayStates
      /\ gateway'.rules = rules /\ gateway'.line = Append(gateway.line, r)
      /\ gateway'.work = (IF same THEN gateway.work ELSE gateway.work \cup {r})
      /\ gateway'.ok = gateway.ok /\ gateway'.nft = gateway.nft /\ gateway'.busy = gateway.busy
      /\ gateway'.missed = gateway.missed
  BY <1>0, <1>1, <1>2, <1>3, <1>5 DEF GatewayStates
<1>8. \A s \in Requests \ {r} : request'[s].at = request[s].at
  BY <1>4
<1>9. /\ InLine(request', relay'.line, relay'.work, "relay")
      /\ relay'.line # << >> => LastOf(relay'.line) = LastOf(relay.line)
                                /\ LastOf(relay.line) \in Requests \ {r}
      /\ relay'.line = << >> => LastOf(relay.line) = r /\ relay'.work = {}
  <2>1. InLine(request, relay.line, relay.work, "relay")
    BY DEF Lines
  <2>2. relay'.work \subseteq relay.work \ {Head(relay.line)}
        /\ \A s \in Requests \ {Head(relay.line)} : request'[s].at = request[s].at
    BY <1>6, <1>8 DEF r
  <2>3. /\ InLine(request', Tail(relay.line), relay'.work, "relay")
        /\ Tail(relay.line) # << >> => LastOf(Tail(relay.line)) = LastOf(relay.line)
                                       /\ LastOf(relay.line) \in Requests \ {Head(relay.line)}
        /\ Tail(relay.line) = << >> => LastOf(relay.line) = Head(relay.line) /\ relay'.work = {}
    BY <1>0, <1>4, <2>1, <2>2, Leaves
  <2> QED
    BY <1>6, <2>3 DEF r
<1>10. /\ InLine(request', gateway'.line, gateway'.work, "gateway") /\ LastOf(gateway'.line) = r
       /\ r \notin gateway.work
  <2>1. InLine(request, gateway.line, gateway.work, "gateway") /\ request[r].at # "gateway"
        /\ request'[r].at = "gateway"
    BY <1>2, <1>4 DEF Lines
  <2>0. gateway.line \in Seq(Requests) /\ request \in [Requests -> RequestStates] /\ r \in Requests
        /\ request' \in [Requests -> RequestStates]
    BY <1>0, <1>1, <1>4
  <2>2. gateway'.work \subseteq gateway.work \cup {r}
    BY <1>7
  <2>3. InLine(request', Append(gateway.line, r), gateway'.work, "gateway")
    BY <1>8, <2>0, <2>1, <2>2, Joins
  <2>4. LastOf(Append(gateway.line, r)) = r
    BY <2>0, JoinsLast
  <2>5. r \notin gateway.work
    BY <2>0, <2>1, NotInLine
  <2> QED
    BY <1>7, <2>3, <2>4, <2>5
<1>11. SyncType'
  BY <1>0, <1>4, <1>6, <1>7 DEF SyncType
<1>12. Lines'
  BY <1>5, <1>6, <1>7, <1>9, <1>10 DEF Lines
<1>13. RelayFollows'
  BY <1>6 DEF RelayFollows
<1>14. RelayDone'
  <2>1. relay.work \ {r} = {} => (relay.want <=> state # "stopped")
    BY DEF r
  <2> QED
    BY <1>6, <2>1 DEF RelayDone, RelayWaiting
<1>15. NewestIsLast'
  <2> SUFFICES ASSUME relay'.applied
               PROVE  NewestIsLast'
    BY DEF NewestIsLast
  <2>0. relay.applied /\ request[LastOf(relay.line)].body = latest /\ relay.want = latest.relay
    BY <1>6 DEF NewestIsLast, RelayFollows
  <2>1. CASE relay'.line # << >>
    <3>1. request'[LastOf(relay'.line)].body = latest'
      BY <1>4, <1>9, <2>0, <2>1
    <3> QED
      BY <2>1, <3>1 DEF NewestIsLast
  <2>2. CASE relay'.line = << >>
    <3>1. request[r].body = latest /\ latest' = latest
      BY <1>9, <2>0, <2>2
    <3>2. relay.want <=> state # "stopped"
      BY <1>6, <1>9, <2>2 DEF r
    <3>3. rules.other = latest.other /\ (rules.redirect <=> state = "active")
      BY <1>2, <2>0, <3>1, <3>2 DEF rules
    <3>4. /\ gateway'.rules.other = latest'.other
          /\ gateway'.rules.redirect <=> relay'.state = "active"
      BY <1>6, <1>7, <3>1, <3>3
    <3>5. /\ gateway'.line # << >> /\ request'[LastOf(gateway'.line)].body = latest'
          /\ request'[LastOf(gateway'.line)].active <=> relay'.state = "active"
      BY <1>4, <1>5, <1>6, <1>7, <1>10, <3>1
    <3> QED
      BY <2>2, <3>4, <3>5 DEF NewestIsLast
  <2> QED
    BY <2>1, <2>2
<1>16. GatewayDone'
  <2> SUFFICES ASSUME GatewayWaiting' = {}
               PROVE  GatewayDone'
    BY DEF GatewayDone
  <2> HIDE DEF same
  <2>1. gateway'.busy => Head(gateway'.line) = Head(gateway.line) /\ Head(gateway.line) \in gateway.work
    BY <1>5, <1>7 DEF Lines
  <2>2. same
    BY <1>7, <1>10, <2>1 DEF GatewayWaiting
  <2>3. GatewayWaiting = {}
    BY <1>7, <2>1, <2>2 DEF GatewayWaiting
  <2>4. gateway'.rules = gateway.rules
    BY <1>7, <2>2 DEF same
  <2> QED
    BY <1>7, <2>3, <2>4 DEF GatewayDone, N!InForce
<1> QED
  BY <1>11, <1>12, <1>13, <1>14, <1>15, <1>16

\* The handler that was first at the gateway sets the explicit proxy and is done.
LEMMA ToExplicitKeeps ==
  ASSUME SyncInv, gateway.line # << >>, gateway' \in GatewayStates, gateway'.busy = FALSE,
         gateway'.rules = gateway.rules, gateway'.line = Tail(gateway.line),
         gateway'.work = gateway.work \ {Head(gateway.line)},
         kernel' \in N!Rules, GatewayDone',
         N!ToExplicit(Head(gateway.line)), UNCHANGED <<latest, stored, push, relay>>
  PROVE  SyncInv'
<1> DEFINE r == Head(gateway.line)
<1> USE DEF SyncInv
<1>0. /\ relay \in RelayStates /\ gateway \in GatewayStates /\ request \in [Requests -> RequestStates]
      /\ relay.line \in Seq(Requests) /\ gateway.line \in Seq(Requests)
  BY DEF SyncType, RelayStates, GatewayStates
<1>1. /\ Tail(gateway.line) \in Seq(Requests) /\ r \in Requests /\ r = gateway.line[1]
      /\ 1 \in 1 .. Len(gateway.line)
  BY <1>0, Tailed
<1>2. request[r].at = "gateway"
  BY <1>1 DEF Lines, InLine
<1>3. /\ explicit' = [other |-> request[r].body.other, named |-> request[r].active]
      /\ request' = [request EXCEPT ![r] = N!NoRequest]
  BY DEF N!ToExplicit, N!Body
<1>4. /\ gateway' \in GatewayStates
      /\ gateway'.rules = gateway.rules /\ gateway'.line = Tail(gateway.line)
      /\ gateway'.work = gateway.work \ {r} /\ gateway'.busy = FALSE
  OBVIOUS
<1>5. InLine(request, gateway.line, gateway.work, "gateway")
  BY DEF Lines
<1>6. /\ request' \in [Requests -> RequestStates]
      /\ \A s \in Requests \ {r} : request'[s] = request[s]
  <2>1. N!NoRequest \in RequestStates
    BY DEF N!NoRequest, N!Default, RequestStates, Bodies
  <2> HIDE DEF r
  <2> QED
    BY <1>0, <1>1, <1>3, <2>1
<1>7. /\ InLine(request', gateway'.line, gateway'.work, "gateway")
      /\ gateway'.line # << >> => LastOf(gateway'.line) = LastOf(gateway.line)
                                  /\ LastOf(gateway.line) \in Requests \ {r}
      /\ gateway'.line = << >> => LastOf(gateway.line) = r
  <2>1. gateway'.work \subseteq gateway.work \ {Head(gateway.line)}
        /\ \A s \in Requests \ {Head(gateway.line)} : request'[s].at = request[s].at
    BY <1>4, <1>6
  <2>2. /\ InLine(request', Tail(gateway.line), gateway'.work, "gateway")
        /\ Tail(gateway.line) # << >> => LastOf(Tail(gateway.line)) = LastOf(gateway.line)
                                         /\ LastOf(gateway.line) \in Requests \ {Head(gateway.line)}
        /\ Tail(gateway.line) = << >> => LastOf(gateway.line) = Head(gateway.line) /\ gateway'.work = {}
    BY <1>0, <1>5, <1>6, <2>1, Leaves
  <2> QED
    BY <1>4, <2>2
<1> HIDE DEF r
<1>8. InLine(request', relay.line, relay.work, "relay")
  <2>1. \A s \in Requests : request[s].at = "relay" => request'[s].at = "relay"
    BY <1>2, <1>6
  <2>2. InLine(request, relay.line, relay.work, "relay")
    BY DEF Lines
  <2> QED
    BY <1>0, <2>1, <2>2, StaysInLine
<1>9. SyncType'
  BY <1>0, <1>4, <1>6 DEF SyncType
<1>10. Lines'
  BY <1>4, <1>7, <1>8 DEF Lines
<1>11. RelayFollows' /\ RelayDone'
  BY <1>4 DEF RelayFollows, RelayDone, RelayWaiting
<1>12. NewestIsLast'
  <2> SUFFICES ASSUME relay'.applied
               PROVE  NewestIsLast'
    BY DEF NewestIsLast
  <2>1. CASE relay.line # << >>
    <3>1. request[LastOf(relay.line)].at = "relay" /\ LastOf(relay.line) \in Requests
      BY <1>0, <2>1, LastInLine DEF Lines
    <3>2. request'[LastOf(relay.line)] = request[LastOf(relay.line)]
      BY <1>2, <1>6, <3>1
    <3> QED
      BY <2>1, <3>2 DEF NewestIsLast
  <2>2. CASE relay.line = << >>
    <3>1. /\ gateway.rules.other = latest.other
          /\ gateway.rules.redirect <=> relay.state = "active"
          /\ request[LastOf(gateway.line)].body = latest
          /\ request[LastOf(gateway.line)].active <=> relay.state = "active"
      BY <2>2 DEF NewestIsLast
    <3>2. gateway'.line # << >> => request'[LastOf(gateway'.line)] = request[LastOf(gateway.line)]
      BY <1>6, <1>7
    <3>3. gateway'.line = << >> => explicit'.other = latest.other
                                   /\ (explicit'.named <=> relay.state = "active")
      BY <1>3, <1>7, <3>1
    <3> QED
      BY <1>4, <2>2, <3>1, <3>2, <3>3 DEF NewestIsLast
  <2> QED
    BY <2>1, <2>2
<1> QED
  BY <1>9, <1>10, <1>11, <1>12

LEMMA SyncStep ==
  ASSUME SyncInv, [N!Next]_(N!vars)
  PROVE  SyncInv'
<1>0. /\ relay \in RelayStates /\ gateway \in GatewayStates /\ request \in [Requests -> RequestStates]
      /\ relay.line \in Seq(Requests) /\ gateway.line \in Seq(Requests)
      /\ relay.state \in {"stopped", "active", "error"} /\ relay.want \in BOOLEAN
      /\ latest \in Bodies
      /\ stored \in [other : Others, relay : BOOLEAN] /\ push \in Pushes
  BY DEF SyncInv, SyncType, RelayStates, GatewayStates
<1>a. ASSUME NEW r \in Requests, NEW body \in [other : Others, relay : BOOLEAN], N!Send(r, body),
             UNCHANGED <<latest, relay, gateway, kernel, explicit>>,
             stored' \in [other : Others, relay : BOOLEAN], push' \in Pushes
      PROVE  SyncInv'
  <2>1. request[r].at = "none" /\ request' = [request EXCEPT ![r] = [N!NoRequest EXCEPT !.at = "sent", !.body = body]]
    BY <1>a DEF N!Send
  <2>2. [N!NoRequest EXCEPT !.at = "sent", !.body = body] \in RequestStates
    BY DEF N!NoRequest, N!Default, RequestStates, Bodies
  <2>3. request' \in [Requests -> RequestStates]
        /\ \A s \in Requests : request[s].at \in {"relay", "gateway"} => request'[s] = request[s]
    BY <1>0, <2>1, <2>2
  <2> QED
    BY <1>a, <2>3, Unhandled
<1>1. ASSUME NEW r \in Requests, NEW patch \in N!Patches, N!Put(r, patch)
      PROVE  SyncInv'
  <2>1. stored' = [item \in DOMAIN stored |-> IF item \in DOMAIN patch THEN patch[item] ELSE stored[item]]
    BY <1>1 DEF N!Put, N!Save
  <2>2. stored' \in [other : Others, relay : BOOLEAN]
    <3>1. CASE patch \in [other : Others]
      BY <1>0, <2>1, <3>1
    <3>2. CASE patch \in [relay : BOOLEAN]
      BY <1>0, <2>1, <3>2
    <3>3. CASE patch \in [other : Others, relay : BOOLEAN]
      BY <1>0, <2>1, <3>3
    <3> QED
      BY <3>1, <3>2, <3>3 DEF N!Patches
  <2>3. N!Send(r, stored') /\ UNCHANGED <<latest, push, relay, gateway, kernel, explicit>>
    BY <1>1 DEF N!Put, N!proxy
  <2> QED
    BY <1>0, <1>a, <2>2, <2>3
<1>2. ASSUME NEW r \in Requests, N!Resync(r)
      PROVE  SyncInv'
  <2>1. N!Send(r, stored) /\ UNCHANGED <<latest, stored, push, relay, gateway, kernel, explicit>>
    BY <1>2 DEF N!Resync, N!proxy
  <2> QED
    BY <1>0, <1>a, <2>1
<1>3. ASSUME NEW r \in Requests, N!PushAtStartup(r)
      PROVE  SyncInv'
  <2>1. N!Send(r, push.body) /\ UNCHANGED <<latest, stored, relay, gateway, kernel, explicit>>
        /\ push' \in {[push EXCEPT !.left = @ - 1], [push EXCEPT !.left = 0]}
    BY <1>3 DEF N!PushAtStartup, N!proxy
  <2>2. push' \in Pushes /\ push.body \in [other : Others, relay : BOOLEAN]
    BY <1>0, <1>3, <2>1 DEF N!PushAtStartup, Pushes
  <2> QED
    BY <1>0, <1>a, <2>1, <2>2
<1>4. ASSUME NEW r \in Requests, N!Lose(r)
      PROVE  SyncInv'
  <2>1. request[r].at = "sent" /\ request' = [request EXCEPT ![r] = N!NoRequest]
        /\ UNCHANGED <<latest, stored, push, relay, gateway, kernel, explicit>>
    BY <1>4 DEF N!Lose, N!proxy
  <2>2. N!NoRequest \in RequestStates
    BY DEF N!NoRequest, N!Default, RequestStates, Bodies
  <2>3. request' \in [Requests -> RequestStates]
        /\ \A s \in Requests : request[s].at \in {"relay", "gateway"} => request'[s] = request[s]
    BY <1>0, <2>1, <2>2
  <2> QED
    BY <1>0, <2>1, <2>3, Unhandled
<1>5. ASSUME NEW r \in Requests, N!Receive(r)
      PROVE  SyncInv'
  BY <1>5, ReceiveKeeps
<1>6. CASE N!RelayTurn
  <2>1. relay.line # << >> /\ relay.step = "none" /\ Head(relay.line) \in relay.work
        /\ relay' = [relay EXCEPT !.step = IF relay.want THEN "start" ELSE "stop"]
        /\ UNCHANGED <<stored, push, latest, request, gateway, kernel, explicit>>
    BY <1>6 DEF N!RelayTurn
  <2>2. /\ relay' \in RelayStates
        /\ relay'.step = (IF relay.want THEN "start" ELSE "stop")
        /\ relay'.want = relay.want /\ relay'.applied = relay.applied /\ relay'.state = relay.state
        /\ relay'.line = relay.line /\ relay'.work = relay.work
    BY <1>0, <2>1 DEF RelayStates
  <2>3. SyncType'
    BY <2>1, <2>2 DEF SyncInv, SyncType
  <2>4. Lines'
    BY <2>1, <2>2 DEF SyncInv, Lines
  <2>5. RelayFollows' /\ NewestIsLast'
    BY <2>1, <2>2 DEF SyncInv, RelayFollows, NewestIsLast
  <2>6. RelayDone'
    BY <1>0, <2>2 DEF RelayDone
  <2>7. GatewayDone'
    BY <2>1 DEF SyncInv, GatewayDone, GatewayWaiting, N!InForce
  <2> QED
    BY <2>3, <2>4, <2>5, <2>6, <2>7 DEF SyncInv
<1>7. CASE N!RelayPass
  <2> DEFINE r == Head(relay.line)
  <2>0. relay.line # << >> /\ relay.step = "none" /\ UNCHANGED <<latest, stored, push, kernel, explicit>>
    BY <1>7 DEF N!RelayPass
  <2>1. CASE r \notin relay.work /\ N!ToGateway(r, relay.state)
    <3>1. relay.work \ {r} = {} => (relay.want <=> relay.state # "stopped")
      BY <2>0, <2>1 DEF SyncInv, RelayDone, RelayWaiting
    <3> QED
      BY <1>0, <2>0, <2>1, <3>1, ToGatewayKeeps
  <2>2. CASE relay.want /\ N!ToGateway(r, "active")
    BY <2>0, <2>2, ToGatewayKeeps
  <2>3. CASE ~relay.want /\ N!ToGateway(r, "stopped")
    BY <2>0, <2>3, ToGatewayKeeps
  <2> QED
    BY <1>7, <1>0, <2>1, <2>2, <2>3 DEF N!RelayPass
<1>8. CASE N!RelayStarts
  <2>0. relay.line # << >> /\ relay.step = "start" /\ UNCHANGED <<latest, stored, push, kernel, explicit>>
    BY <1>8 DEF N!RelayStarts, SyncInv, Lines
  <2>1. relay.work \ {Head(relay.line)} = {} => relay.want
    BY <2>0 DEF SyncInv, RelayDone, RelayWaiting
  <2>2. CASE N!ToGateway(Head(relay.line), "active")
    BY <2>0, <2>1, <2>2, ToGatewayKeeps
  <2>3. CASE N!ToGateway(Head(relay.line), "error")
    BY <2>0, <2>1, <2>3, ToGatewayKeeps
  <2> QED
    BY <1>8, <2>2, <2>3 DEF N!RelayStarts
<1>9. CASE N!RelayStops
  <2>0. relay.line # << >> /\ relay.step = "stop" /\ UNCHANGED <<latest, stored, push, kernel, explicit>>
        /\ N!ToGateway(Head(relay.line), "stopped")
    BY <1>9 DEF N!RelayStops, SyncInv, Lines
  <2>1. relay.work \ {Head(relay.line)} = {} => ~relay.want
    BY <2>0 DEF SyncInv, RelayDone, RelayWaiting
  <2> QED
    BY <2>0, <2>1, ToGatewayKeeps
<1>10. CASE N!GatewayTurn
  <2> DEFINE r == Head(gateway.line)
  <2>0. gateway.line # << >> /\ ~gateway.busy /\ UNCHANGED <<latest, stored, push, relay, kernel>>
    BY <1>10 DEF N!GatewayTurn
  <2>1. CASE /\ r \in gateway.work
             /\ gateway' = [gateway EXCEPT !.busy = TRUE, !.nft = gateway.rules]
             /\ UNCHANGED <<request, explicit>>
    <3>1. /\ gateway' \in GatewayStates
          /\ gateway'.busy = TRUE /\ gateway'.nft = gateway.rules
          /\ gateway'.rules = gateway.rules /\ gateway'.ok = gateway.ok
          /\ gateway'.line = gateway.line /\ gateway'.work = gateway.work
      BY <1>0, <2>1 DEF GatewayStates
    <3>2. SyncType'
      BY <2>0, <2>1, <3>1 DEF SyncInv, SyncType
    <3>3. Lines'
      BY <2>0, <2>1, <3>1 DEF SyncInv, Lines
    <3>4. RelayFollows' /\ NewestIsLast'
      BY <2>0, <2>1, <3>1 DEF SyncInv, RelayFollows, NewestIsLast
    <3>5. RelayDone'
      BY <2>0 DEF SyncInv, RelayDone, RelayWaiting
    <3>6. GatewayDone'
      BY <3>1 DEF GatewayDone
    <3> QED
      BY <3>2, <3>3, <3>4, <3>5, <3>6 DEF SyncInv
  <2>2. CASE /\ r \notin gateway.work
             /\ gateway' = [gateway EXCEPT !.line = Tail(gateway.line)]
             /\ N!ToExplicit(r)
    <3>0. Tail(gateway.line) \in Seq(Requests)
      BY <1>0, <2>0, Tailed
    <3>1. /\ gateway' \in GatewayStates /\ gateway'.busy = FALSE /\ gateway'.line = Tail(gateway.line)
          /\ gateway'.ok = gateway.ok /\ gateway'.missed = gateway.missed
          /\ gateway'.rules = gateway.rules /\ gateway'.work = gateway.work
      BY <1>0, <2>0, <2>2, <3>0 DEF GatewayStates
    <3>2. gateway'.work = gateway.work \ {Head(gateway.line)}
      BY <2>2, <3>1
    <3>3. GatewayDone'
      BY <2>0, <3>1 DEF SyncInv, GatewayDone, GatewayWaiting, N!InForce
    <3>4. kernel' \in N!Rules
      BY <2>0 DEF SyncInv, SyncType
    <3> QED
      BY <2>0, <2>2, <3>1, <3>2, <3>3, <3>4, ToExplicitKeeps
  <2> QED
    BY <1>10, <2>1, <2>2 DEF N!GatewayTurn
<1>11. ASSUME NEW ok \in BOOLEAN, N!NftEnds(ok)
       PROVE  SyncInv'
  <2>0. gateway.busy /\ gateway.line # << >> /\ kernel' = (IF ok THEN N!Installed(gateway.nft) ELSE kernel)
        /\ gateway' = [gateway EXCEPT !.ok = ok \/ N!Teardown(gateway.nft),
                                      !.missed = ~ok /\ N!Teardown(gateway.nft),
                                      !.busy = FALSE, !.nft = N!NoRules,
                                      !.line = Tail(gateway.line), !.work = gateway.work \ {Head(gateway.line)}]
        /\ N!ToExplicit(Head(gateway.line)) /\ UNCHANGED <<latest, stored, push, relay>>
    BY <1>11 DEF N!NftEnds, SyncInv, Lines
  <2>1. N!NoRules \in N!Rules /\ kernel' \in N!Rules
    BY <1>0, <2>0 DEF N!NoRules, N!Installed, N!Rules, SyncInv, SyncType, GatewayStates
  <2>2. gateway.work \ {Head(gateway.line)} = {} => gateway.nft = gateway.rules
    BY <2>0 DEF SyncInv, GatewayDone, GatewayWaiting
  <2>3. /\ gateway' \in GatewayStates /\ gateway'.busy = FALSE /\ gateway'.line = Tail(gateway.line)
        /\ gateway'.rules = gateway.rules /\ gateway'.work = gateway.work \ {Head(gateway.line)}
        /\ gateway'.ok = (ok \/ N!Teardown(gateway.nft))
        /\ gateway'.missed = (~ok /\ N!Teardown(gateway.nft))
    <3>1. Tail(gateway.line) \in Seq(Requests)
      BY <1>0, <2>0, Tailed
    <3>2. (ok \/ N!Teardown(gateway.nft)) \in BOOLEAN /\ (~ok /\ N!Teardown(gateway.nft)) \in BOOLEAN
      OBVIOUS
    <3> QED
      BY <1>0, <2>0, <2>1, <3>1, <3>2 DEF GatewayStates
  <2>4. GatewayDone'
    <3>1. ok => kernel' = N!Installed(gateway.nft)
      BY <2>0
    <3>2. gateway'.missed <=> ~ok /\ N!Teardown(gateway.nft)
      BY <2>3
    <3>3. gateway'.ok => ok \/ N!Teardown(gateway.nft)
      BY <2>3
    <3> QED
      BY <2>2, <2>3, <3>1, <3>2, <3>3 DEF GatewayDone, GatewayWaiting, N!InForce
  <2> QED
    BY <2>0, <2>1, <2>3, <2>4, ToExplicitKeeps
<1>12. CASE N!ApiRestart
  <2>1. push' \in Pushes /\ UNCHANGED <<latest, stored, request, relay, gateway, kernel, explicit>>
    BY <1>0, <1>12, SyncAssumption DEF N!ApiRestart, N!proxy, Pushes, N!SyncAssumption
  <2> QED
    BY <1>0, <2>1, Unhandled
<1>13. CASE N!ProxyRestart
  <2> USE DEF N!NoRelay, N!NoGateway, N!NoRules, N!NoRequest, N!Default
  <2>0. << >> \in Seq(Requests) /\ Len(<< >>) = 0
    OBVIOUS
  <2>1. /\ relay' = N!NoRelay /\ gateway' = N!NoGateway /\ request' = [r \in Requests |-> N!NoRequest]
        /\ UNCHANGED <<latest, stored, push, kernel>>
    BY <1>13 DEF N!ProxyRestart
  <2>2. relay' \in RelayStates /\ gateway' \in GatewayStates
    BY <2>0, <2>1 DEF RelayStates, GatewayStates, N!Rules
  <2>3. request' \in [Requests -> RequestStates]
    BY <2>1 DEF RequestStates, Bodies
  <2>4. SyncType'
    BY <2>1, <2>2, <2>3 DEF SyncInv, SyncType
  <2>5. Lines'
    BY <2>0, <2>1 DEF Lines, InLine
  <2>6. RelayFollows' /\ NewestIsLast'
    BY <2>1 DEF RelayFollows, NewestIsLast
  <2>7. RelayDone' /\ GatewayDone'
    BY <2>1 DEF RelayDone, GatewayDone, RelayWaiting, GatewayWaiting
  <2> QED
    BY <2>4, <2>5, <2>6, <2>7 DEF SyncInv
<1>14. CASE N!PortChange
  <2>1. UNCHANGED <<latest, stored, push, request, relay, gateway, kernel, explicit>>
    BY <1>14 DEF N!PortChange, N!proxy
  <2> QED
    BY <1>0, <2>1, Unhandled
<1>15. CASE UNCHANGED N!vars
  <2>1. UNCHANGED <<latest, stored, push, request, relay, gateway, kernel, explicit>>
    BY <1>15 DEF N!vars, N!proxy
  <2> QED
    BY <1>0, <2>1, Unhandled
<1> QED
  BY <1>1, <1>2, <1>3, <1>4, <1>5, <1>6, <1>7, <1>8, <1>9, <1>10, <1>11, <1>12, <1>13, <1>14, <1>15 DEF N!Next

LEMMA SyncSettles == SyncInv => SettledAgree
<1> SUFFICES ASSUME SyncInv, relay.applied, relay.line = << >>, gateway.line = << >>
             PROVE  /\ relay.want = latest.relay
                    /\ gateway.rules.other = latest.other /\ explicit.other = latest.other
                    /\ gateway.ok => N!InForce(gateway.rules)
                    /\ gateway.rules.redirect <=> relay.state = "active"
                    /\ explicit.named <=> relay.state = "active"
                    /\ relay.want <=> relay.state # "stopped"
  BY DEF SettledAgree, N!SettledAgree
<1>1. relay.work = {} /\ gateway.work = {} /\ relay.step = "none" /\ ~gateway.busy
  <2>1. relay.step \in {"none", "start", "stop"} /\ Len(<< >>) = 0
    BY DEF SyncInv, SyncType, RelayStates
  <2>2. relay.work = {}
    BY <2>1 DEF SyncInv, Lines, InLine
  <2>3. gateway.work = {}
    BY <2>1 DEF SyncInv, Lines, InLine
  <2> QED
    BY <2>1, <2>2, <2>3 DEF SyncInv, Lines
<1>2. (relay.want <=> relay.state # "stopped") /\ (gateway.ok => N!InForce(gateway.rules))
  BY <1>1 DEF SyncInv, RelayDone, GatewayDone, RelayWaiting, GatewayWaiting
<1>3. relay.want = latest.relay
  BY DEF SyncInv, RelayFollows
<1>4. /\ gateway.rules.other = latest.other /\ explicit.other = latest.other
      /\ gateway.rules.redirect <=> relay.state = "active"
      /\ explicit.named <=> relay.state = "active"
  BY DEF SyncInv, NewestIsLast
<1> QED
  BY <1>2, <1>3, <1>4

\* When no notification is being handled, the relay, the gateway and the explicit proxy have
\* the settings received last, whatever overtook what at the two awaits of the handler and
\* whatever was lost or restarted (proxy/src/server.ts:198-216); and so has the kernel if the
\* gateway believes it, except after a teardown that failed (gateway-controller.ts:241-244).
THEOREM SettledAgreeHolds == N!Spec => []SettledAgree
<1>1. N!Init => SyncInv
  BY SyncInit
<1>2. SyncInv /\ [N!Next]_(N!vars) => SyncInv'
  BY SyncStep
<1>3. SyncInv => SettledAgree
  BY SyncSettles
<1> QED
  BY <1>1, <1>2, <1>3, PTL DEF N!Spec

-----------------------------------------------------------------------------
(* ExplicitProxy                                                           *)

\* What the count of failures can become.
LEMMA Counts ==
  /\ 0 \in 0 .. Threshold /\ 1 \in 0 .. Threshold
  /\ \A n \in 0 .. Threshold : n < Threshold => n + 1 \in 0 .. Threshold
BY ThresholdAssumption

\* Neither an identity nor a state of a process is mistaken for another.
LEMMA Distinct ==
  /\ NoProc \notin Procs /\ NoCidrs \notin Configs
  /\ "free" \notin Configs /\ "echo" \notin Configs
  /\ "dead" \notin Configs /\ "starting" \notin Configs
BY ProcsAssumption, ConfigsAssumption

USE Counts, Distinct

\* The current process has not been reported dead yet.
ChildIsThere == child # NoProc => procs[child] \notin {"free", "echo"}

\* Whenever a process is wanted the file is the one of the settings, and there
\* is a file whenever there is a process to read it.
FileIsReady ==
  /\ Wanted => file = settings.conf
  /\ child # NoProc => file \in Configs

\* NeverForgotten without the detour by the status.
IsKept == Wanted => child # NoProc \/ restartTimer

Inv == TypeOK /\ ChildIsThere /\ FileIsReady /\ OneProxy /\ ServesLatest /\ IsKept /\ StopIsEnforced

\* A new controller has no process.
LEMMA InitInv == Init => Inv
<1> SUFFICES ASSUME Init
             PROVE  Inv
  OBVIOUS
<1>1. TypeOK
  BY DEF Init, TypeOK, Settings, ProcStates
<1>2. ~Wanted /\ child = NoProc
  BY DEF Init, Wanted, IsRunnable
<1>3. ASSUME NEW q \in Procs
      PROVE  ~Alive(q)
  BY DEF Init, Alive
<1>4. ChildIsThere /\ FileIsReady /\ OneProxy /\ ServesLatest /\ IsKept
  BY <1>2, <1>3 DEF ChildIsThere, FileIsReady, OneProxy, ServesLatest, IsKept
<1>5. StopIsEnforced
  BY DEF Init, StopIsEnforced
<1> QED
  BY <1>1, <1>4, <1>5 DEF Inv

\* A status of active or crashLoop means that a process is wanted, and conversely.
LEMMA StateWanted == State \in {"active", "crashLoop"} <=> Wanted
BY DEF State, Wanted, IsRunnable

\* Steps of processes and timers that leave settings, child and expected exits alone:
\* no process comes to life, and one that goes on may have read the file.
LEMMA CalmInv ==
  ASSUME Inv, TypeOK', ChildIsThere', UNCHANGED <<control, child, expected, restartTimer>>,
         \A q \in Procs : Alive(q)' => /\ Alive(q) /\ procs'[q] \in {procs[q], file}
                                       /\ q \in expected => killTimer' = killTimer
  PROVE  Inv'
<1>1. Wanted' = Wanted /\ file' = file /\ settings' = settings /\ child' = child
      /\ expected' = expected /\ restartTimer' = restartTimer
  BY DEF control, Wanted
<1>2. FileIsReady' /\ IsKept'
  BY <1>1 DEF Inv, FileIsReady, IsKept
<1>3. OneProxy'
  BY <1>1 DEF Inv, OneProxy
<1>4. StopIsEnforced'
  <2> SUFFICES ASSUME NEW q \in expected, Alive(q)'
               PROVE  killTimer' = q
    BY <1>1 DEF StopIsEnforced
  <2> QED
    BY DEF Inv, TypeOK, StopIsEnforced
<1>5. ServesLatest'
  <2> SUFFICES ASSUME NEW q \in Procs, Alive(q)', q \notin expected
               PROVE  Wanted /\ file = settings.conf /\ procs'[q] \in {"starting", settings.conf}
    BY <1>1 DEF ServesLatest
  <2> QED
    BY DEF Inv, ServesLatest
<1> QED
  BY <1>2, <1>3, <1>4, <1>5 DEF Inv

\* A process that has just been started is the only one, and not asked to stop.
LEMMA FreshInv ==
  ASSUME NEW p \in Procs, TypeOK', child' = p, procs'[p] = "starting", p \notin expected',
         \A q \in Procs : Alive(q)' => q = p,
         Wanted', file' = settings'.conf, file' \in Configs
  PROVE  Inv'
<1>1. ChildIsThere' /\ FileIsReady' /\ OneProxy' /\ IsKept'
  BY DEF ChildIsThere, FileIsReady, OneProxy, IsKept
<1>2. ServesLatest'
  BY DEF ServesLatest
<1>3. StopIsEnforced'
  BY DEF StopIsEnforced, TypeOK
<1> QED
  BY <1>1, <1>2, <1>3 DEF Inv

\* Nothing is alive any more.
LEMMA QuietInv ==
  ASSUME TypeOK', child' = NoProc, FileIsReady', IsKept', \A q \in Procs : ~Alive(q)'
  PROVE  Inv'
<1>1. ChildIsThere' /\ OneProxy' /\ ServesLatest'
  BY DEF ChildIsThere, OneProxy, ServesLatest
<1>2. StopIsEnforced'
  BY DEF StopIsEnforced, TypeOK
<1> QED
  BY <1>1, <1>2 DEF Inv

\* The current process is asked to stop; nothing happens to it yet.
LEMMA StoppingInv ==
  ASSUME Inv, TypeOK', StopChild, FileIsReady', IsKept'
  PROVE  Inv'
<1>1. child' = child /\ procs' = procs
  BY DEF StopChild
<1>2. \A q \in Procs : Alive(q)' <=> Alive(q)
  BY <1>1 DEF Alive
<1>3. ChildIsThere' /\ OneProxy'
  BY <1>1, <1>2 DEF Inv, ChildIsThere, OneProxy
<1>4. \A q \in Procs : Alive(q)' => q \in expected' /\ killTimer' = q
  BY <1>2 DEF Inv, OneProxy, StopChild
<1>5. ServesLatest'
  BY <1>4 DEF ServesLatest
<1>6. StopIsEnforced'
  BY <1>4 DEF StopIsEnforced, TypeOK
<1> QED
  BY <1>3, <1>5, <1>6 DEF Inv

\* New settings: nothing to do, a stop, or a replacement.
LEMMA ApplyInv ==
  ASSUME Inv, NEW s \in Settings, ApplySettings(s)
  PROVE  Inv'
<1>0. TypeOK /\ settings' = s /\ hasApplied' = TRUE
  BY DEF ApplySettings, Inv
<1>1. CASE Unchanged(s) /\ UNCHANGED <<configFailed, file, child, expected, timers, ripe, failures, procs>>
  <2>1. UNCHANGED <<control, child, expected, timers, ripe, failures, procs>>
    BY <1>0, <1>1 DEF Unchanged, control
  <2>2. TypeOK'
    BY <1>0, <2>1 DEF TypeOK, control, timers
  <2>3. ChildIsThere'
    BY <2>1 DEF Inv, ChildIsThere
  <2>4. \A q \in Procs : Alive(q)' => Alive(q) /\ procs'[q] = procs[q] /\ killTimer' = killTimer
    BY <2>1 DEF Alive, timers
  <2> QED
    BY <2>1, <2>2, <2>3, <2>4, CalmInv DEF timers
<1>2. ASSUME ~IsRunnable(s), configFailed' = FALSE, StopChild, UNCHANGED file,
             failures' = 0, restartTimer' = FALSE
      PROVE  Inv'
  <2>1. ~Wanted'
    BY <1>0, <1>2 DEF Wanted, IsRunnable
  <2>2. TypeOK'
    BY <1>0, <1>2 DEF StopChild, TypeOK
  <2>3. FileIsReady' /\ IsKept'
    BY <1>2, <2>1 DEF Inv, FileIsReady, IsKept, StopChild
  <2> QED
    BY <1>2, <2>2, <2>3, StoppingInv
<1>3. ASSUME WriteFails(s), failures' = 0, restartTimer' = FALSE
      PROVE  Inv'
  <2>1. ~Wanted' /\ StopChild /\ file' = file /\ configFailed' = TRUE
    BY <1>3 DEF WriteFails, Wanted
  <2>2. TypeOK'
    BY <1>0, <1>3, <2>1 DEF StopChild, TypeOK
  <2>3. FileIsReady' /\ IsKept'
    BY <2>1 DEF Inv, FileIsReady, IsKept, StopChild
  <2> QED
    BY <2>1, <2>2, <2>3, StoppingInv
<1>4. ASSUME IsRunnable(s), WriteSucceeds(s), failures' = 0, restartTimer' = FALSE
      PROVE  Inv'
  <2>1. file' = s.conf /\ s.conf \in Configs /\ configFailed' = FALSE
    BY <1>4 DEF WriteSucceeds, IsRunnable, Settings
  <2>2. Wanted' /\ FileIsReady'
    BY <1>0, <1>4, <2>1 DEF Wanted, IsRunnable, FileIsReady
  <2>3. CASE child # NoProc /\ StopChild
    <3>1. TypeOK'
      BY <1>0, <1>4, <2>1, <2>3 DEF StopChild, TypeOK
    <3>2. IsKept'
      BY <2>3 DEF IsKept, StopChild
    <3> QED
      BY <2>2, <2>3, <3>1, <3>2, StoppingInv
  <2>4. CASE child = NoProc /\ StartChild(procs) /\ UNCHANGED killTimer
    <3>1. PICK p \in Procs : procs[p] = "free" /\ child' = p /\ procs' = [procs EXCEPT ![p] = "starting"]
                             /\ expected' = expected \ {p} /\ stableTimer' = TRUE /\ ripe' = FALSE
      BY <2>4 DEF StartChild
    <3>2. procs' \in [Procs -> ProcStates]
      BY <1>0, <3>1 DEF TypeOK, ProcStates
    <3>3. TypeOK'
      BY <1>0, <1>4, <2>1, <2>4, <3>1, <3>2 DEF TypeOK
    <3>4. procs'[p] = "starting" /\ p \notin expected'
      BY <1>0, <3>1 DEF TypeOK
    <3>5. ASSUME NEW q \in Procs, Alive(q)'
          PROVE  q = p
      BY <1>0, <2>4, <3>1, <3>5 DEF Alive, Inv, OneProxy, TypeOK
    <3> QED
      BY <1>0, <2>1, <2>2, <3>1, <3>3, <3>4, <3>5, FreshInv
  <2> QED
    BY <1>4, <2>3, <2>4 DEF WriteSucceeds, Replace
<1> QED
  BY <1>1, <1>2, <1>3, <1>4 DEF ApplySettings

\* A process is started after the one before it was reported, or by the timer.
LEMMA StartInv ==
  ASSUME Inv, NEW ps \in [Procs -> ProcStates], StartChild(ps), Wanted,
         \A q \in Procs : ps[q] \notin Configs \cup {"starting"},
         UNCHANGED control, restartTimer' \in BOOLEAN,
         killTimer' \in {killTimer, NoProc}, failures' = failures
  PROVE  Inv'
<1>1. PICK p \in Procs : ps[p] = "free" /\ child' = p /\ procs' = [ps EXCEPT ![p] = "starting"]
                         /\ expected' = expected \ {p} /\ stableTimer' = TRUE /\ ripe' = FALSE
  BY DEF StartChild
<1>2. Wanted' /\ file' = settings'.conf /\ file' \in Configs
  BY DEF control, Wanted, Inv, FileIsReady, IsRunnable, TypeOK, Settings
<1>3. procs' \in [Procs -> ProcStates] /\ procs'[p] = "starting" /\ p \notin expected'
  BY <1>1 DEF ProcStates
<1>4. TypeOK'
  BY <1>1, <1>3 DEF Inv, TypeOK, control
<1>5. ASSUME NEW q \in Procs, Alive(q)'
      PROVE  q = p
  BY <1>1, <1>5 DEF Alive
<1> QED
  BY <1>1, <1>2, <1>3, <1>4, <1>5, FreshInv

\* A process that died and was reported leaves the others as they were.
LEMMA ReportedStates ==
  ASSUME Inv, NEW p \in Procs, procs[p] \in {"dead", "echo"}, NEW ps \in Reported(p)
  PROVE  /\ ps \in [Procs -> ProcStates]
         /\ \A q \in Procs : q # p => ps[q] = procs[q]
         /\ ps[p] \in {"free", "echo"}
BY DEF Inv, TypeOK, Reported, ProcStates

\* A process that has ended is reported, by the one event or by both.
LEMMA TerminationInv ==
  ASSUME Inv, NEW p \in Procs, HandleTermination(p)
  PROVE  Inv'
<1>0. TypeOK
  BY DEF Inv
<1>1. procs[p] \in {"dead", "echo"} /\ UNCHANGED control
  BY DEF HandleTermination
<1>2. PICK ps \in Reported(p) :
        \/ AboutChild(p) /\ (ExpectedExit(ps) \/ Crash(ps))
        \/ ~AboutChild(p) /\ procs' = ps /\ UNCHANGED <<child, expected, timers, ripe, failures>>
  BY DEF HandleTermination
<1>3. /\ ps \in [Procs -> ProcStates]
      /\ \A q \in Procs : q # p => ps[q] = procs[q]
      /\ ps[p] \in {"free", "echo"}
  BY <1>1, ReportedStates
<1>4. Wanted' = Wanted /\ file' = file /\ settings' = settings
  BY <1>1 DEF control, Wanted
<1>5. CASE AboutChild(p)
  <2>1. ASSUME NEW q \in Procs
        PROVE  ps[q] \notin Configs \cup {"starting"}
    BY <1>3, <1>5 DEF Inv, OneProxy, AboutChild, Alive
  <2>2. CASE ExpectedExit(ps) /\ Wanted
    BY <1>0, <1>1, <1>3, <2>1, <2>2, StartInv DEF ExpectedExit, TypeOK
  <2>3. CASE ExpectedExit(ps) /\ ~Wanted
    <3>1. child' = NoProc /\ procs' = ps
      BY <2>3 DEF ExpectedExit
    <3>2. TypeOK'
      BY <1>0, <1>1, <1>3, <2>3 DEF ExpectedExit, TypeOK, control
    <3>3. FileIsReady' /\ IsKept'
      BY <1>4, <2>3, <3>1 DEF FileIsReady, IsKept
    <3>4. ASSUME NEW q \in Procs
          PROVE  ~Alive(q)'
      BY <2>1, <3>1 DEF Alive
    <3> QED
      BY <3>1, <3>2, <3>3, <3>4, QuietInv
  <2>4. CASE Crash(ps)
    <3>1. child' = NoProc /\ procs' = ps /\ restartTimer' = TRUE
      BY <2>4 DEF Crash
    <3>2. failures' \in 0 .. Threshold
      BY <1>0, <2>4 DEF Crash, TypeOK
    <3>3. TypeOK'
      BY <1>0, <1>1, <1>3, <2>4, <3>2 DEF Crash, TypeOK, control
    <3>4. FileIsReady' /\ IsKept'
      BY <1>4, <3>1 DEF Inv, FileIsReady, IsKept
    <3>5. ASSUME NEW q \in Procs
          PROVE  ~Alive(q)'
      BY <2>1, <3>1 DEF Alive
    <3> QED
      BY <3>1, <3>3, <3>4, <3>5, QuietInv
  <2> QED
    BY <1>2, <1>5, <2>2, <2>3, <2>4
<1>6. CASE ~AboutChild(p)
  <2>1. procs' = ps /\ UNCHANGED <<child, expected, timers, ripe, failures>>
    BY <1>2, <1>6
  <2>2. TypeOK'
    BY <1>0, <1>1, <1>3, <2>1 DEF TypeOK, control, timers
  <2>3. ChildIsThere'
    BY <1>0, <1>3, <1>6, <2>1 DEF Inv, ChildIsThere, AboutChild, TypeOK
  <2>4. ASSUME NEW q \in Procs, Alive(q)'
        PROVE  Alive(q) /\ procs'[q] = procs[q] /\ killTimer' = killTimer
    BY <1>3, <2>1, <2>4 DEF Alive, timers
  <2> QED
    BY <1>1, <2>1, <2>2, <2>3, <2>4, CalmInv DEF timers
<1> QED
  BY <1>5, <1>6

\* Every step keeps the invariant.
LEMMA StepInv == Inv /\ [Next]_vars => Inv'
<1> SUFFICES ASSUME Inv, [Next]_vars
             PROVE  Inv'
  OBVIOUS
<1>0. TypeOK
  BY DEF Inv
<1>1. ASSUME NEW s \in Settings, ApplySettings(s)
      PROVE  Inv'
  BY <1>1, ApplyInv
<1>2. ASSUME NEW p \in Procs, HandleTermination(p)
      PROVE  Inv'
  BY <1>2, TerminationInv
<1>3. CASE RestartFires
  <2>1. CASE Wanted /\ child = NoProc
    <3>1. ASSUME NEW q \in Procs
          PROVE  procs[q] \notin Configs \cup {"starting"}
      BY <2>1 DEF Inv, OneProxy, Alive
    <3>2. procs \in [Procs -> ProcStates]
      BY <1>0 DEF TypeOK
    <3> QED
      BY <1>3, <2>1, <3>1, <3>2, StartInv DEF RestartFires
  <2>2. CASE ~(Wanted /\ child = NoProc)
    <3>1. UNCHANGED <<control, killTimer, failures, child, procs, expected, stableTimer, ripe>>
          /\ restartTimer' = FALSE
      BY <1>3, <2>2 DEF RestartFires
    <3>2. Wanted' = Wanted /\ TypeOK'
      BY <1>0, <3>1 DEF control, Wanted, TypeOK
    <3>3. ChildIsThere' /\ FileIsReady' /\ IsKept'
      BY <2>2, <3>1, <3>2 DEF Inv, ChildIsThere, FileIsReady, IsKept, control
    <3>4. OneProxy' /\ ServesLatest' /\ StopIsEnforced'
      BY <3>1, <3>2 DEF Inv, OneProxy, ServesLatest, StopIsEnforced, Alive, control
    <3> QED
      BY <3>2, <3>3, <3>4 DEF Inv
  <2> QED
    BY <2>1, <2>2
<1>4. CASE Ripen \/ StableFires
  <2>1. UNCHANGED <<control, child, expected, restartTimer, killTimer, procs>>
    BY <1>4 DEF Ripen, StableFires, timers
  <2>2. TypeOK'
    BY <1>0, <1>4, <2>1 DEF Ripen, StableFires, TypeOK, control, timers
  <2>3. ChildIsThere'
    BY <2>1 DEF Inv, ChildIsThere
  <2>4. ASSUME NEW q \in Procs, Alive(q)'
        PROVE  Alive(q) /\ procs'[q] = procs[q]
    BY <2>1, <2>4 DEF Alive
  <2> QED
    BY <2>1, <2>2, <2>3, <2>4, CalmInv
<1>5. CASE KillFires
  <2>1. UNCHANGED <<control, child, expected, restartTimer, stableTimer, ripe, failures>>
        /\ killTimer' = NoProc /\ killTimer \in Procs
    BY <1>0, <1>5 DEF KillFires, TypeOK
  <2>2. /\ procs' \in [Procs -> ProcStates]
        /\ \A q \in Procs : q # killTimer => procs'[q] = procs[q]
        /\ procs'[killTimer] = (IF Alive(killTimer) THEN "dead" ELSE procs[killTimer])
    BY <1>0, <1>5, <2>1 DEF KillFires, TypeOK, ProcStates
  <2>3. TypeOK'
    BY <1>0, <2>1, <2>2 DEF TypeOK, control
  <2>4. ChildIsThere'
    BY <1>0, <2>1, <2>2 DEF Inv, ChildIsThere, TypeOK
  <2>5. ASSUME NEW q \in Procs, Alive(q)'
        PROVE  Alive(q) /\ procs'[q] = procs[q] /\ q \notin expected
    <3>1. q # killTimer
      BY <2>2, <2>5 DEF Alive
    <3> QED
      BY <2>2, <2>5, <3>1 DEF Alive, Inv, StopIsEnforced
  <2> QED
    BY <2>1, <2>3, <2>4, <2>5, CalmInv
<1>6. ASSUME NEW p \in Procs, LoadConfig(p)
      PROVE  Inv'
  <2>1. UNCHANGED <<control, child, expected, timers, ripe, failures>> /\ procs[p] = "starting"
        /\ procs' = [procs EXCEPT ![p] = file]
    BY <1>6 DEF LoadConfig
  <2>2. child = p /\ file \in Configs
    BY <2>1 DEF Inv, OneProxy, Alive, FileIsReady
  <2>3. procs' \in [Procs -> ProcStates] /\ procs'[p] = file
        /\ \A q \in Procs : q # p => procs'[q] = procs[q]
    BY <1>0, <2>1, <2>2 DEF TypeOK, ProcStates
  <2>4. TypeOK'
    BY <1>0, <2>1, <2>3 DEF TypeOK, control, timers
  <2>5. ChildIsThere'
    BY <2>1, <2>2, <2>3 DEF ChildIsThere
  <2>6. ASSUME NEW q \in Procs, Alive(q)'
        PROVE  Alive(q) /\ procs'[q] \in {procs[q], file} /\ killTimer' = killTimer
    BY <2>1, <2>3, <2>6 DEF Alive, timers
  <2> QED
    BY <2>1, <2>4, <2>5, <2>6, CalmInv DEF timers
<1>7. ASSUME NEW p \in Procs, Exit(p)
      PROVE  Inv'
  <2>1. UNCHANGED <<control, child, expected, timers, ripe, failures>> /\ Alive(p)
        /\ procs' = [procs EXCEPT ![p] = "dead"]
    BY <1>7 DEF Exit
  <2>2. procs' \in [Procs -> ProcStates] /\ procs'[p] = "dead"
        /\ \A q \in Procs : q # p => procs'[q] = procs[q]
    BY <1>0, <2>1 DEF TypeOK, ProcStates
  <2>3. TypeOK'
    BY <1>0, <2>1, <2>2 DEF TypeOK, control, timers
  <2>4. ChildIsThere'
    BY <1>0, <2>1, <2>2 DEF Inv, ChildIsThere, TypeOK
  <2>5. ASSUME NEW q \in Procs, Alive(q)'
        PROVE  Alive(q) /\ procs'[q] = procs[q] /\ killTimer' = killTimer
    BY <2>1, <2>2, <2>5 DEF Alive, timers
  <2> QED
    BY <2>1, <2>3, <2>4, <2>5, CalmInv DEF timers
<1>8. CASE UNCHANGED vars
  <2>1. UNCHANGED <<control, child, expected, timers, ripe, failures, procs>>
    BY <1>8 DEF vars
  <2>2. TypeOK'
    BY <1>0, <2>1 DEF TypeOK, control, timers
  <2>3. ChildIsThere'
    BY <2>1 DEF Inv, ChildIsThere
  <2>4. ASSUME NEW q \in Procs, Alive(q)'
        PROVE  Alive(q) /\ procs'[q] = procs[q] /\ killTimer' = killTimer
    BY <2>1, <2>4 DEF Alive, timers
  <2> QED
    BY <2>1, <2>2, <2>3, <2>4, CalmInv DEF timers
<1> QED
  BY <1>1, <1>2, <1>3, <1>4, <1>5, <1>6, <1>7, <1>8 DEF Next

\* The inductive invariant holds throughout.
LEMMA InvHolds == Spec => []Inv
<1>1. Init => Inv
  BY InitInv
<1>2. Inv /\ [Next]_vars => Inv'
  BY StepInv
<1> QED
  BY <1>1, <1>2, PTL DEF Spec

\* The controller's state always has its types.
THEOREM TypeHolds == Spec => []TypeOK
BY InvHolds, PTL DEF Inv

\* Never two 3proxy processes, whatever is notified while one is being stopped
\* (explicit-proxy-controller.ts:167).
THEOREM OneProxyHolds == Spec => []OneProxy
BY InvHolds, PTL DEF Inv

\* What is left running serves the settings last notified.
THEOREM ServesLatestHolds == Spec => []ServesLatest
BY InvHolds, PTL DEF Inv

\* A wanted proxy has a process or a scheduled restart.
THEOREM NeverForgottenHolds == Spec => []NeverForgotten
<1>1. Inv => NeverForgotten
  BY StateWanted DEF Inv, IsKept, NeverForgotten
<1> QED
  BY <1>1, InvHolds, PTL

\* A process that was asked to stop has a timer that kills it.
THEOREM StopIsEnforcedHolds == Spec => []StopIsEnforced
BY InvHolds, PTL DEF Inv

-----------------------------------------------------------------------------
(* Side by side                                                            *)

allVars == <<part, proxyVars, syncVars, clientVars, commandVars>>

\* Each of the four behaves as it does alone.
LEMMA EachIsItself == PartsSpec => Spec /\ N!Spec /\ C!Spec /\ R!Spec
<1>1. PartsInit => Init /\ N!Init /\ C!Init /\ R!Init
  BY DEF PartsInit
<1>2. [PartsNext]_allVars => [Next]_vars
  BY DEF PartsNext, allVars, proxyVars, vars, control, timers
<1>3. [PartsNext]_allVars => [N!Next]_(N!vars)
  BY DEF PartsNext, allVars, syncVars, N!vars, N!proxy
<1>4. [PartsNext]_allVars => [C!Next]_(C!vars)
  BY DEF PartsNext, allVars, clientVars, C!vars
<1>5. [PartsNext]_allVars => [R!Next]_(R!vars)
  BY DEF PartsNext, allVars, commandVars, R!vars, R!outside
<1> QED
  BY <1>1, <1>2, <1>3, <1>4, <1>5, PTL DEF PartsSpec, allVars, Spec, N!Spec, C!Spec, R!Spec

\* What is proved of each of them holds of the processes of the proxy together.
THEOREM ProcessesSafe ==
  PartsSpec => /\ [](OneProxy /\ ServesLatest /\ StopIsEnforced)
               /\ []SettledAgree /\ []NamesNeverMixed /\ []AnswerIsTrue
               /\ AnnouncedTruly
BY EachIsItself, OneProxyHolds, ServesLatestHolds, StopIsEnforcedHolds, SettledAgreeHolds,
   NamesNeverMixedHolds, AnswerIsTrueHolds, AnnouncedTrulyHolds, PTL
=============================================================================
