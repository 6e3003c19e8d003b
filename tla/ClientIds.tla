----------------------------- MODULE ClientIds -----------------------------
(***************************************************************************)
(* The names under which the relay shows its clients to the upstream       *)
(* server: ClientIdResolver (proxy/src/dns-relay/client-id.ts), a cache of *)
(* reverse lookups that is bounded, is shared by the queries of a client,  *)
(* and is cleared when the servers that know the names change              *)
(* (relay.ts, updateConfig and lookupClientName).                          *)
(*                                                                         *)
(* An identifier is the client it names and where the name is from: a      *)
(* source, or None for one made of the address.                            *)
(***************************************************************************)
EXTENDS Naturals, FiniteSets, Functions

CONSTANTS
  Clients,       \* addresses on the LAN
  Own,           \* those among them that are the gateway's, which have fixed names
  Queries,       \* queries that may wait at a time
  Sources,       \* lists of name servers (clientNameServers)
  None,          \* the empty list
  MaxEntries     \* MAX_CACHE_ENTRIES

\* What an instance has to satisfy.
ClientIdsAssumption ==
  /\ IsFiniteSet(Clients) /\ Own \subseteq Clients
  /\ None \notin Sources /\ MaxEntries \in Nat \ {0}

Identifiers == [client : Clients, from : Sources \cup {None, "fixed"}]

VARIABLES
  source,        \* config.clientNameServers
  cache,         \* the cached identifier of some clients
  expired,       \* clients whose entry has expired; it still takes its place
  pending,       \* lookups under way: the servers asked, by client
  query          \* the queries: whose they are, and the identifier once known

vars == <<source, cache, expired, pending, query>>

Nobody == [phase |-> "idle"]

Init ==
  /\ source \in Sources \cup {None}
  /\ cache = << >> /\ expired = {} /\ pending = << >>
  /\ query = [q \in Queries |-> Nobody]

\* A query of c that waits for the lookup of d.
Waiting(c, d)    == [phase |-> "waiting", client |-> c, lookup |-> d]
Identified(c, i) == [phase |-> "identified", client |-> c, id |-> i]
Id(c, s)         == [client |-> c, from |-> s]

\* map.set(c, x)
Put(map, c, x) == [d \in DOMAIN map \cup {c} |-> IF d = c THEN x ELSE map[d]]

-----------------------------------------------------------------------------
(* resolve                                                                 *)

Fixed(q, c) ==
  /\ c \in Own
  /\ query' = [query EXCEPT ![q] = Identified(c, Id(c, "fixed"))]
  /\ UNCHANGED pending

Hit(q, c) ==
  /\ c \notin Own /\ c \in DOMAIN cache \ expired
  /\ query' = [query EXCEPT ![q] = Identified(c, cache[c])]
  /\ UNCHANGED pending

\* Mutant: whoever asks while a lookup is under way waits for that one.
MissAny(q, c) ==
  /\ c \notin Own /\ c \notin DOMAIN cache \ expired
  /\ LET d == IF pending = << >> THEN c ELSE CHOOSE x \in DOMAIN pending : TRUE
     IN /\ query' = [query EXCEPT ![q] = Waiting(c, d)]
        /\ pending' = IF pending = << >> THEN Put(pending, c, source) ELSE pending

\* The queries of a client share one lookup, which asks the servers of the moment.
Miss(q, c) ==
  /\ c \notin Own /\ c \notin DOMAIN cache \ expired
  /\ query' = [query EXCEPT ![q] = Waiting(c, c)]
  /\ pending' = IF c \in DOMAIN pending THEN pending ELSE Put(pending, c, source)

Resolve(q, c) ==
  /\ query[q] = Nobody
  /\ Fixed(q, c) \/ Hit(q, c) \/ Miss(q, c)
  /\ UNCHANGED <<source, cache, expired>>

\* The query goes to the upstream server, and is answered.
Forward(q) ==
  /\ query[q].phase = "identified"
  /\ query' = [query EXCEPT ![q] = Nobody]
  /\ UNCHANGED <<source, cache, expired, pending>>

-----------------------------------------------------------------------------
(* lookup                                                                  *)

Full == Cardinality(DOMAIN cache) >= MaxEntries

\* The identifier is kept, after all entries were dropped if there are too many, be
\* they expired or the client's own.
Keep(c, id) ==
  /\ cache'   = Put(IF Full THEN << >> ELSE cache, c, id)
  /\ expired' = IF Full THEN {} ELSE expired \ {c}

\* All queries that wait for the lookup go on with its result.
Tell(c, id) ==
  query' = [q \in Queries |->
    IF query[q].phase = "waiting" /\ query[q].lookup = c
    THEN Identified(query[q].client, id) ELSE query[q]]

\* The servers tell a name, or know none, fail, or do not answer within a second.
Lookup(c) ==
  /\ c \in DOMAIN pending
  /\ \E id \in {Id(c, pending[c]), Id(c, None)} :
       /\ Keep(c, id)
       /\ Tell(c, id)
  /\ pending' = Restrict(pending, DOMAIN pending \ {c})
  /\ UNCHANGED source

\* Mutant: only names expire, not the identifiers made of addresses.
ExpireAddress(c) ==
  /\ c \in DOMAIN cache \ expired /\ cache[c].from = None
  /\ expired' = expired \cup {c}
  /\ UNCHANGED <<source, cache, pending, query>>

\* Two minutes for an address, ten for a name.
Expire(c) ==
  /\ c \in DOMAIN cache \ expired
  /\ expired' = expired \cup {c}
  /\ UNCHANGED <<source, cache, pending, query>>

-----------------------------------------------------------------------------
\* updateConfig, and clear if the servers are others.
UpdateConfig(s) ==
  /\ source' = s
  /\ IF s # source THEN cache' = << >> /\ expired' = {} ELSE UNCHANGED <<cache, expired>>
  /\ UNCHANGED <<pending, query>>

Next ==
  \/ \E q \in Queries, c \in Clients : Resolve(q, c)
  \/ \E q \in Queries : Forward(q)
  \/ \E c \in Clients : Lookup(c)
  \/ \E c \in Clients : Expire(c)
  \/ \E s \in Sources \cup {None} : UpdateConfig(s)

Spec == Init /\ [][Next]_vars

\* A lookup ends within a second, and entries expire; nobody has to ask.
Fairness == \A c \in Clients : WF_vars(Lookup(c)) /\ WF_vars(Expire(c))

-----------------------------------------------------------------------------
(* Properties                                                              *)

\* Every query is forwarded in the name of its own client, also if several clients
\* ask at the same time for the first time; no other name is kept; the cache stays
\* within its bound, and who waits has a lookup that will tell it
\* (client-id.ts, resolve and remember).
NeverMixed ==
  /\ Cardinality(DOMAIN cache) <= MaxEntries /\ expired \subseteq DOMAIN cache
  /\ \A c \in DOMAIN cache : cache[c] \in Identifiers /\ cache[c].client = c
  /\ \A q \in Queries :
       \/ query[q] = Nobody
       \/ \E d \in DOMAIN pending : query[q] = Waiting(query[q].client, d)
       \/ query[q].phase = "identified" /\ query[q].id.client = query[q].client

\* Once the servers stay the same, no name of others is used any more, after some
\* time, not even one that was looked up before the cache was cleared.
Heals ==
  \A s \in Sources \cup {None} :
    <>[](source = s) =>
      <>[](\A c \in DOMAIN cache \ expired : cache[c].from \in {s, None})
=============================================================================
