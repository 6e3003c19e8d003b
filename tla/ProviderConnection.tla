------------------------- MODULE ProviderConnection -------------------------
(***************************************************************************)
(* What the API does to VPN connections: PUT and GET /v1/connection        *)
(* (routes/connection.ts, connection-state/apply-connection.ts), logout    *)
(* (routes/session.ts), switching the provider                             *)
(* (providers/provider-switcher.ts), and the restoration at startup        *)
(* (connection-state/restore-connection.ts), with the location that is     *)
(* stored for each provider (connection-state/connection-state-store.ts).  *)
(* Every command of a vendor's CLI is an await; nothing but the switching  *)
(* flag keeps requests apart.                                              *)
(*                                                                         *)
(* A location stands for its id, country and city; the CLI reports the     *)
(* city of every location.  Automatic connection is one more of them: it   *)
(* differs in that no list of locations is fetched.                        *)
(***************************************************************************)
EXTENDS Naturals, FiniteSets

CONSTANTS
  Providers,     \* ids of enabled VPN providers
  Locations,
  None,          \* nothing stored, not connected, no answer
  Requests,      \* slots for requests in progress
  Failures,      \* may commands fail, time out after their effect, or say nothing?
  Unreachable,   \* may a runner be out of reach when a switch asks for its status?
  Drops,         \* may a connection end by itself?
  Restarts,      \* may the API, or the whole host, restart?
  MaxLeft        \* bound: kinds of commands that go on though nobody waits for them

ASSUME NoneAssumption     == None \notin Locations \cup Providers
ASSUME RequestsAssumption == IsFiniteSet(Requests)
ASSUME SwitchesAssumption ==
  /\ Failures \in BOOLEAN /\ Unreachable \in BOOLEAN
  /\ Drops \in BOOLEAN /\ Restarts \in BOOLEAN
ASSUME MaxLeftAssumption  == MaxLeft \in Nat

VARIABLES
  active,        \* the provider selected (active-provider-store)
  switching,     \* provider-switcher's flag
  stored,        \* the location stored for each provider
  tunnel,        \* outside: the location each provider is connected to
  left,          \* outside: commands that runners go on with though nobody waits for them
  request        \* requests in progress

vars == <<active, switching, stored, tunnel, left, request>>

Changes == {"connect", "disconnect", "logout"}
Kinds   == Changes \cup {"get", "switch", "restore", "none"}

\* at: the await the request is in.  seen: what the CLI said of the connection.
Idle == [kind |-> "none", at |-> "none", provider |-> None, to |-> None, seen |-> None, ok |-> FALSE]

Points == {"none", "locate", "health", "status", "decide", "command", "check"}

Init ==
  /\ active \in Providers
  /\ switching = FALSE
  /\ stored = [p \in Providers |-> None]
  /\ tunnel = [p \in Providers |-> None]
  /\ left = {}
  /\ request = [r \in Requests |-> Idle]

-----------------------------------------------------------------------------
(* The runner of a provider, and the file of the location it connected to  *)

\* executeVendorCommand: the runner replies in time, or the request gets an error.
Replies == IF Failures THEN BOOLEAN ELSE {TRUE}

\* checkRunnerHealth: a runner that does not reply in time is not available.
HealthReplies == Replies

\* fetchLocations: without a list that can be read the request fails.
Lists == Replies

\* parseConnectionOutput: connected, with the city, or not connected.
Observed(p) == tunnel[p]

\* saveConnectedLocation
Saved(p, l) == [stored EXCEPT ![p] = l]

\* clearConnectedLocation
Cleared(p) == [stored EXCEPT ![p] = None]

-----------------------------------------------------------------------------
(* Requests begin                                                          *)

Start(r, kind, point, to) ==
  /\ request[r].kind = "none"
  /\ request' = [request EXCEPT ![r] =
       [Idle EXCEPT !.kind = kind, !.at = point, !.provider = active, !.to = to]]
  /\ UNCHANGED <<active, switching, stored, tunnel, left>>

At(r, kinds, point) == request[r].kind \in kinds /\ request[r].at = point

Goto(r, point) == request' = [request EXCEPT ![r].at = point]
End(r)         == request' = [request EXCEPT ![r] = Idle]

Connect(r, l)  == ~switching /\ Start(r, "connect", "locate", l)
Disconnect(r)  == ~switching /\ Start(r, "disconnect", "command", None)
Logout(r)      == ~switching /\ Start(r, "logout", "command", None)
Get(r)         == Start(r, "get", "status", None)
Switch(r, p)   == ~switching /\ p # active /\ Start(r, "switch", "health", p)

-----------------------------------------------------------------------------
(* Steps of a request                                                      *)

\* The list holds the location, or the request fails.
Locate(r) ==
  /\ At(r, {"connect", "restore"}, "locate")
  /\ \E listed \in Lists : IF listed THEN Goto(r, "command") ELSE End(r)
  /\ UNCHANGED <<active, switching, stored, tunnel, left>>

\* The runner is available, or the request ends; only a switch takes the flag.
Health(r) ==
  /\ At(r, {"switch", "restore"}, "health")
  /\ \E available \in HealthReplies :
       /\ IF available THEN Goto(r, "status") ELSE End(r)
       /\ switching' = (switching \/ (available /\ request[r].kind = "switch"))
  /\ UNCHANGED <<active, stored, tunnel, left>>

\* The CLI's status command.  A failure ends a GET, and a switch with its flag;
\* a restoration goes on as if not connected, and so does a switch if the runner
\* is out of reach or the command reports an error.
Status(r) ==
  /\ At(r, {"get", "switch", "restore"}, "status")
  /\ \/ /\ request' = [request EXCEPT ![r].at = "decide", ![r].seen = Observed(request[r].provider)]
        /\ UNCHANGED switching
     \/ /\ FALSE \in Replies /\ request[r].kind # "restore"
        /\ End(r)
        /\ switching' = (switching /\ request[r].kind # "switch")
     \/ /\ \/ Unreachable /\ request[r].kind = "switch"
           \/ FALSE \in Replies /\ request[r].kind = "restore"
        /\ request' = [request EXCEPT ![r].at = "decide", ![r].seen = None]
        /\ UNCHANGED switching
  /\ UNCHANGED <<active, stored, tunnel, left>>

\* reconcileLocation: the connection is not the stored one.
Mismatch(p, seen) == stored[p] # None /\ stored[p] # seen

\* GET answers: what was stored is forgotten if it was not seen.
Answer(r) ==
  LET p == request[r].provider seen == request[r].seen IN
  /\ At(r, {"get"}, "decide")
  /\ stored' = IF seen = None \/ Mismatch(p, seen) THEN Cleared(p) ELSE stored
  /\ End(r)
  /\ UNCHANGED <<active, switching, tunnel, left>>

\* The restoration connects again unless there is a connection.
Restore(r) ==
  /\ At(r, {"restore"}, "decide")
  /\ IF request[r].seen # None THEN End(r) ELSE Goto(r, "locate")
  /\ UNCHANGED <<active, switching, stored, tunnel, left>>

\* The switch disconnects the provider if it is connected.
MustDisconnect(r) ==
  /\ At(r, {"switch"}, "decide")
  /\ request[r].seen # None
  /\ Goto(r, "command")
  /\ UNCHANGED <<active, switching, stored, tunnel, left>>

\* The new provider is saved and the flag given back.
Select(r) ==
  /\ active' = request[r].to
  /\ switching' = FALSE
  /\ End(r)
  /\ UNCHANGED <<tunnel, left>>

\* The provider is not connected, or it is not known.
SelectAtOnce(r) ==
  /\ At(r, {"switch"}, "decide")
  /\ request[r].seen = None
  /\ Select(r)
  /\ UNCHANGED stored

\* The tunnel after a command: a connection, or none.
Wish(r) == IF request[r].kind \in {"connect", "restore"} THEN request[r].to ELSE None

\* What a runner is left with when nobody waits for the command any more.
Orphan(r) == [provider |-> request[r].provider, to |-> Wish(r)]

\* connect, disconnect or logout of the CLI takes effect; if it fails it may
\* have had its effect, none, or have ended the connection.  If only its answer
\* is lost on the way, the runner goes on with it.
Command(r) ==
  LET p == request[r].provider IN
  /\ request[r].at = "command"
  /\ \/ /\ tunnel' = [tunnel EXCEPT ![p] = Wish(r)]
        /\ request' = [request EXCEPT ![r].at = "check", ![r].ok = TRUE, ![r].seen = Wish(r)]
        /\ UNCHANGED left
     \/ /\ Failures
        /\ tunnel' \in {tunnel, [tunnel EXCEPT ![p] = Wish(r)], [tunnel EXCEPT ![p] = None]}
        /\ request' \in {[request EXCEPT ![r].at = "check", ![r].ok = ok, ![r].seen = None] :
                           ok \in {FALSE, request[r].kind \in {"connect", "restore"}}}
        /\ UNCHANGED left
     \/ /\ Failures
        /\ left' = left \cup {Orphan(r)} /\ Cardinality(left') <= MaxLeft
        /\ request' = [request EXCEPT ![r].at = "check", ![r].ok = FALSE, ![r].seen = None]
        /\ UNCHANGED tunnel
  /\ UNCHANGED <<active, switching, stored>>

\* Mutant: the provider is selected although the other could not be left.
ConcludeSwitchAnyway(r) ==
  /\ At(r, {"switch"}, "check")
  /\ stored' = Cleared(request[r].provider)
  /\ Select(r)

\* Mutant: a switch that fails keeps its flag.
ConcludeSwitchFlagged(r) ==
  /\ At(r, {"switch"}, "check")
  /\ \/ /\ request[r].ok
        /\ stored' = Cleared(request[r].provider)
        /\ Select(r)
     \/ /\ ~request[r].ok
        /\ End(r)
        /\ UNCHANGED <<active, switching, stored, tunnel, left>>

\* The disconnection of a switch: only if it succeeded is the other selected.
ConcludeSwitch(r) ==
  /\ At(r, {"switch"}, "check")
  /\ \/ /\ request[r].ok
        /\ stored' = Cleared(request[r].provider)
        /\ Select(r)
     \/ /\ ~request[r].ok
        /\ switching' = FALSE
        /\ End(r)
        /\ UNCHANGED <<active, stored, tunnel, left>>

\* What a successful command leaves in the store: the location if the output
\* says connected.
ToStore(r) ==
  LET p == request[r].provider IN
  IF request[r].seen = None THEN Cleared(p) ELSE Saved(p, request[r].to)

\* A change ends, after the gateway was asked to look; a failed one throws.
ConcludeChange(r) ==
  /\ At(r, Changes \cup {"restore"}, "check")
  /\ stored' = IF request[r].ok THEN ToStore(r) ELSE stored
  /\ End(r)
  /\ UNCHANGED <<active, switching, tunnel, left>>

-----------------------------------------------------------------------------
(* The outside                                                             *)

Drop(p) ==
  /\ Drops /\ tunnel[p] # None
  /\ tunnel' = [tunnel EXCEPT ![p] = None]
  /\ UNCHANGED <<active, switching, stored, left, request>>

\* A command that was left goes on: it has its effect, none, or ends the
\* connection, and it is done, or there is more to come of it or of its like.
LeftEnds(c) ==
  /\ tunnel' \in {tunnel, [tunnel EXCEPT ![c.provider] = c.to], [tunnel EXCEPT ![c.provider] = None]}
  /\ left' \in {left, left \ {c}}
  /\ UNCHANGED <<active, switching, stored, request>>

\* Mutant: nothing is restored.
RestoredNever(r) == Idle

\* What a restart begins with: the restoration of what is stored.
Restored(r) ==
  IF stored[active] = None THEN Idle
  ELSE [Idle EXCEPT !.kind = "restore", !.at = "health", !.provider = active, !.to = stored[active]]

\* The API starts again, with the host or alone; if alone, the runners go on with
\* the commands that it had sent them.
Restart ==
  /\ Restarts
  /\ switching' = FALSE
  /\ \E r \in Requests : request' = [k \in Requests |-> IF k = r THEN Restored(r) ELSE Idle]
  /\ \/ tunnel' = [p \in Providers |-> None] /\ left' = {}
     \/ /\ \E sent \in SUBSET {k \in Requests : request[k].at = "command"} :
             left' = left \cup {Orphan(k) : k \in sent}
        /\ Cardinality(left') <= MaxLeft
        /\ UNCHANGED tunnel
  /\ UNCHANGED <<active, stored>>

Next ==
  \/ \E r \in Requests, l \in Locations : Connect(r, l)
  \/ \E r \in Requests : Disconnect(r)
  \/ \E r \in Requests : Logout(r)
  \/ \E r \in Requests : Get(r)
  \/ \E r \in Requests, p \in Providers : Switch(r, p)
  \/ \E r \in Requests : Locate(r)
  \/ \E r \in Requests : Health(r)
  \/ \E r \in Requests : Status(r)
  \/ \E r \in Requests : Answer(r)
  \/ \E r \in Requests : Restore(r)
  \/ \E r \in Requests : MustDisconnect(r)
  \/ \E r \in Requests : SelectAtOnce(r)
  \/ \E r \in Requests : Command(r)
  \/ \E r \in Requests : ConcludeSwitch(r)
  \/ \E r \in Requests : ConcludeChange(r)
  \/ \E p \in Providers : Drop(p)
  \/ \E c \in left : LeftEnds(c)
  \/ Restart

Spec == Init /\ [][Next]_vars

-----------------------------------------------------------------------------
(* Properties                                                              *)

\* The switching flag belongs to a switch that has taken it and is still under
\* way: whatever fails, provider operations are not refused with 409 for ever
\* (provider-switcher.ts:93-108).
FlagIsHeld ==
  switching => \E r \in Requests : request[r].kind = "switch" /\ request[r].at # "health"

Settled == \A r \in Requests : request[r].kind = "none"

\* No provider is connected but the one that is selected.
OnlyActive == \A p \in Providers : tunnel[p] # None => p = active

\* A provider for which a location is stored is connected.
Kept == \A p \in Providers : stored[p] # None => tunnel[p] # None
=============================================================================
