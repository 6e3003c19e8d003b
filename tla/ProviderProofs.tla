--------------------------- MODULE ProviderProofs ---------------------------
(***************************************************************************)
(* Proofs about VPN connections for any providers, locations and numbers   *)
(* of requests: the switching flag is never left behind, and what          *)
(* ProviderPromises states of orderly and of smooth use holds.             *)
(***************************************************************************)
EXTENDS ProviderPromises, FiniteSetTheorems, TLAPS

USE NoneAssumption, SwitchesAssumption, RequestsAssumption

Busy(r) == request[r].kind # "none"

\* The awaits each kind of request passes.
Stages ==
  [none       |-> {"none"},
   connect    |-> {"locate", "command", "check"},
   disconnect |-> {"command", "check"},
   logout     |-> {"command", "check"},
   get        |-> {"status", "decide"},
   switch     |-> {"health", "status", "decide", "command", "check"},
   restore    |-> {"health", "status", "decide", "locate", "command", "check"}]

RequestStates ==
  [kind : Kinds, at : Points, provider : Providers \cup {None},
   to : Providers \cup Locations \cup {None}, seen : Locations \cup {None}, ok : BOOLEAN]

\* What a runner may be left with.
Lefts == [provider : Providers, to : Locations \cup {None}]

\* What a request is about fits its kind.
Fits(q) ==
  /\ q.at \in Stages[q.kind]
  /\ q.kind # "none" => q.provider \in Providers
  /\ q.kind \in {"connect", "restore"} => q.to \in Locations
  /\ q.kind = "switch" => q.to \in Providers
  /\ q.kind \in {"disconnect", "logout"} => q.to = None

TypeOK ==
  /\ active \in Providers
  /\ switching \in BOOLEAN
  /\ stored \in [Providers -> Locations \cup {None}]
  /\ tunnel \in [Providers -> Locations \cup {None}]
  /\ left \subseteq Lefts
  /\ request \in [Requests -> RequestStates]
  /\ \A r \in Requests : Fits(request[r])

-----------------------------------------------------------------------------
(* What holds at every await of a request that is alone.                   *)

\* A switch that is about to leave a provider knows that its connection has ended.
LeavesNothing(r) ==
  /\ request[r].kind = "switch"
  /\ \/ request[r].at = "decide" /\ request[r].seen = None
     \/ request[r].at = "check" /\ request[r].ok
  => tunnel[active] = None

\* The provider a request began with is still selected, and no other is connected
\* or will be by a command that was left.
OrderlyInv ==
  orderly =>
    /\ \A r, s \in Requests : Busy(r) /\ Busy(s) => r = s
    /\ OnlyActive
    /\ LeftForActive
    /\ Apart
    /\ \A r \in Requests : Busy(r) => request[r].provider = active /\ LeavesNothing(r)

\* The request that will connect again, or forget the location.
WillSettle(r) ==
  \/ request[r].kind = "restore" /\ request[r].at # "check"
  \/ request[r].kind \in {"disconnect", "logout", "switch"} /\ request[r].at = "check"

\* What a request has seen, and what its command has done.
Tells(r) ==
  /\ request[r].at = "check" =>
       request[r].ok /\ request[r].seen = Wish(r) /\ tunnel[active] = Wish(r)
  /\ request[r].kind = "restore" /\ request[r].at = "decide" => request[r].seen = tunnel[active]

StoredForActive == \A p \in Providers : stored[p] # None => p = active

\* A restoration that has not decided yet.
Looks(r) == request[r].kind = "restore" /\ request[r].at \in {"health", "status"}

\* A location is stored for the selected provider only; if that one is not
\* connected a request is under way that will settle it, and if a command is left
\* that may end its connection, a restoration will still look.
SmoothInv ==
  smooth =>
    /\ orderly
    /\ StoredForActive
    /\ Undisturbed
    /\ left # {} /\ stored[active] # None => \E r \in Requests : Looks(r)
    /\ stored[active] # None /\ tunnel[active] = None => \E r \in Requests : WillSettle(r)
    /\ \A r \in Requests : Tells(r)

PInv == TypeOK /\ FlagIsHeld /\ OrderlyInv /\ SmoothInv

-----------------------------------------------------------------------------
(* Types                                                                   *)

\* A request that moves on to something that fits, and a store and tunnels
\* that hold locations, keep the types.
LEMMA StepType ==
  ASSUME TypeOK, NEW r \in Requests, NEW q \in RequestStates, Fits(q),
         request' = [request EXCEPT ![r] = q],
         active' \in Providers, switching' \in BOOLEAN,
         stored' \in [Providers -> Locations \cup {None}],
         tunnel' \in [Providers -> Locations \cup {None}], left' \subseteq Lefts
  PROVE  TypeOK'
BY DEF TypeOK

LEMMA IdleFits == Idle \in RequestStates /\ Fits(Idle)
BY DEF Idle, RequestStates, Fits, Stages, Kinds, Changes, Points

\* The awaits of each kind, one by one.
LEMMA StagesOf ==
  /\ Stages["none"] = {"none"}
  /\ Stages["connect"] = {"locate", "command", "check"}
  /\ Stages["disconnect"] = {"command", "check"}
  /\ Stages["logout"] = {"command", "check"}
  /\ Stages["get"] = {"status", "decide"}
  /\ Stages["switch"] = {"health", "status", "decide", "command", "check"}
  /\ Stages["restore"] = {"health", "status", "decide", "locate", "command", "check"}
BY DEF Stages

\* A request that ends.
LEMMA EndType ==
  ASSUME TypeOK, NEW r \in Requests, End(r),
         active' \in Providers, switching' \in BOOLEAN,
         stored' \in [Providers -> Locations \cup {None}],
         tunnel' \in [Providers -> Locations \cup {None}], left' \subseteq Lefts
  PROVE  TypeOK'
BY StepType, IdleFits DEF End

\* A request that goes to another await of its kind.
LEMMA GotoType ==
  ASSUME TypeOK, NEW r \in Requests, NEW point \in Points, Goto(r, point),
         point \in Stages[request[r].kind],
         active' \in Providers, switching' \in BOOLEAN,
         stored' \in [Providers -> Locations \cup {None}],
         tunnel' \in [Providers -> Locations \cup {None}], left' \subseteq Lefts
  PROVE  TypeOK'
<1> DEFINE q == [request[r] EXCEPT !.at = point]
<1>1. q \in RequestStates /\ Fits(q)
  BY DEF TypeOK, RequestStates, Fits
<1>2. request' = [request EXCEPT ![r] = q]
  BY DEF Goto
<1> QED
  BY <1>1, <1>2, StepType

\* A request that begins.
LEMMA StartType ==
  ASSUME TypeOK, NEW r \in Requests, NEW kind \in Kinds, NEW point \in Stages[kind], NEW to,
         kind \in {"switch"} => to \in Providers,
         kind \in {"connect", "restore"} => to \in Locations,
         kind \notin {"switch", "connect", "restore"} => to = None,
         Start(r, kind, point, to)
  PROVE  TypeOK'
<1> DEFINE q == [Idle EXCEPT !.kind = kind, !.at = point, !.provider = active, !.to = to]
<1>1. point \in Points /\ active \in Providers
  BY StagesOf DEF Kinds, Changes, Points, TypeOK
<1>2. /\ q.kind = kind /\ q.at = point /\ q.provider = active /\ q.to = to
  BY DEF Idle
<1>3. to \in Providers \cup Locations \cup {None}
  OBVIOUS
<1>4. q \in RequestStates
  BY <1>1, <1>3 DEF RequestStates, Idle
<1>5. Fits(q)
  <2>1. kind \in {"disconnect", "logout"} => to = None
    OBVIOUS
  <2>2. kind = "switch" => to \in Providers
    OBVIOUS
  <2>3. kind \in {"connect", "restore"} => to \in Locations
    OBVIOUS
  <2> HIDE DEF q
  <2> QED
    BY <1>1, <1>2, <2>1, <2>2, <2>3 DEF Fits
<1>6. request' = [request EXCEPT ![r] = q]
  BY DEF Start
<1> QED
  BY <1>4, <1>5, <1>6, StepType DEF Start, TypeOK

LEMMA TypeStep == TypeOK /\ [Next]_vars => TypeOK'
<1> SUFFICES ASSUME TypeOK, [Next]_vars
             PROVE  TypeOK'
  OBVIOUS
<1>1. ASSUME NEW r \in Requests, NEW l \in Locations, Connect(r, l)
      PROVE  TypeOK'
  BY <1>1, StartType, StagesOf DEF Connect, Kinds, Changes
<1>2. ASSUME NEW r \in Requests, Disconnect(r) \/ Logout(r) \/ Get(r)
      PROVE  TypeOK'
  BY <1>2, StartType, StagesOf DEF Disconnect, Logout, Get, Kinds, Changes
<1>3. ASSUME NEW r \in Requests, NEW p \in Providers, Switch(r, p)
      PROVE  TypeOK'
  BY <1>3, StartType, StagesOf DEF Switch, Kinds, Changes
<1>4. ASSUME NEW r \in Requests, Locate(r)
      PROVE  TypeOK'
  BY <1>4, EndType, GotoType, StagesOf DEF Locate, At, Points, TypeOK
<1>5. ASSUME NEW r \in Requests, Health(r)
      PROVE  TypeOK'
  BY <1>5, EndType, GotoType, StagesOf DEF Health, At, Points, TypeOK, HealthReplies, Replies
<1>6. ASSUME NEW r \in Requests, Status(r)
      PROVE  TypeOK'
  <2>1. request[r] \in RequestStates /\ Fits(request[r])
    BY DEF TypeOK
  <2>2. /\ request[r].kind \in {"get", "switch", "restore"} /\ switching' \in BOOLEAN
        /\ active' = active /\ stored' = stored /\ tunnel' = tunnel /\ left' = left
    BY <1>6 DEF Status, At, TypeOK
  <2>3. ASSUME NEW seen \in Locations \cup {None},
               request' = [request EXCEPT ![r].at = "decide", ![r].seen = seen]
        PROVE  TypeOK'
    <3> DEFINE q == [request[r] EXCEPT !.at = "decide", !.seen = seen]
    <3>1. q \in RequestStates /\ Fits(q)
      BY <2>1, <2>2, StagesOf DEF RequestStates, Fits, Points
    <3>2. request' = [request EXCEPT ![r] = q]
      BY <2>3
    <3> QED
      BY <2>2, <3>1, <3>2, StepType DEF TypeOK
  <2>4. Observed(request[r].provider) \in Locations \cup {None}
    BY <2>1, <2>2 DEF Observed, TypeOK, Fits
  <2> QED
    BY <1>6, <2>2, <2>3, <2>4, EndType DEF Status, TypeOK
<1>7. ASSUME NEW r \in Requests, Answer(r)
      PROVE  TypeOK'
  BY <1>7, EndType DEF Answer, Cleared, TypeOK
<1>8. ASSUME NEW r \in Requests, Restore(r)
      PROVE  TypeOK'
  BY <1>8, EndType, GotoType, StagesOf DEF Restore, At, Points, TypeOK
<1>9. ASSUME NEW r \in Requests, MustDisconnect(r)
      PROVE  TypeOK'
  BY <1>9, GotoType, StagesOf DEF MustDisconnect, At, Points, TypeOK
<1>10. ASSUME NEW r \in Requests, SelectAtOnce(r)
       PROVE  TypeOK'
  BY <1>10, EndType DEF SelectAtOnce, Select, At, TypeOK, Fits
<1>11. ASSUME NEW r \in Requests, Command(r)
       PROVE  TypeOK'
  <2>1. request[r] \in RequestStates /\ Fits(request[r]) /\ request[r].at = "command"
    BY <1>11 DEF TypeOK, Command
  <2>2. Wish(r) \in Locations \cup {None} /\ request[r].provider \in Providers
    BY <2>1, StagesOf DEF Wish, Fits, RequestStates
  <2>3. /\ tunnel' \in [Providers -> Locations \cup {None}]
        /\ active' = active /\ stored' = stored /\ switching' = switching
        /\ left' \subseteq Lefts
    BY <1>11, <2>2 DEF Command, TypeOK, Orphan, Lefts
  <2>4. ASSUME NEW seen \in Locations \cup {None}, NEW ok \in BOOLEAN,
               request' = [request EXCEPT ![r].at = "check", ![r].ok = ok, ![r].seen = seen]
        PROVE  TypeOK'
    <3> DEFINE q == [request[r] EXCEPT !.at = "check", !.ok = ok, !.seen = seen]
    <3>1. q \in RequestStates
      BY <2>1 DEF RequestStates, Points
    <3>2. /\ q.kind = request[r].kind /\ q.at = "check" /\ q.to = request[r].to
          /\ q.provider = request[r].provider
      BY <2>1 DEF RequestStates
    <3>3. "check" \in Stages[request[r].kind]
      BY <2>1, StagesOf DEF RequestStates, Fits, Kinds, Changes
    <3>4. Fits(q)
      BY <2>1, <3>2, <3>3 DEF Fits
    <3>5. request' = [request EXCEPT ![r] = q]
      BY <2>4
    <3> QED
      BY <2>3, <3>1, <3>4, <3>5, StepType DEF TypeOK
  <2>5. \E seen \in Locations \cup {None}, ok \in BOOLEAN :
          request' = [request EXCEPT ![r].at = "check", ![r].ok = ok, ![r].seen = seen]
    <3>1. None \in Locations \cup {None} /\ TRUE \in BOOLEAN /\ FALSE \in BOOLEAN
      OBVIOUS
    <3>2. CASE request' = [request EXCEPT ![r].at = "check", ![r].ok = TRUE, ![r].seen = Wish(r)]
      BY <2>2, <3>1, <3>2, Zenon
    <3>3. CASE \E ok \in {FALSE, request[r].kind \in {"connect", "restore"}} :
                 request' = [request EXCEPT ![r].at = "check", ![r].ok = ok, ![r].seen = None]
      <4>1. PICK ok \in {FALSE, request[r].kind \in {"connect", "restore"}} :
              request' = [request EXCEPT ![r].at = "check", ![r].ok = ok, ![r].seen = None]
        BY <3>3, Zenon
      <4>2. ok \in BOOLEAN
        <5>1. (request[r].kind \in {"connect", "restore"}) \in BOOLEAN
          OBVIOUS
        <5>2. ok = FALSE \/ ok = (request[r].kind \in {"connect", "restore"})
          BY Zenon
        <5> QED
          BY <5>1, <5>2, Zenon
      <4> QED
        BY <3>1, <4>1, <4>2, Zenon
    <3>4. CASE request' = [request EXCEPT ![r].at = "check", ![r].ok = FALSE, ![r].seen = None]
      BY <3>1, <3>4, Zenon
    <3> QED
      BY <1>11, <3>2, <3>3, <3>4, Zenon DEF Command
  <2> QED
    BY <2>4, <2>5, Zenon
<1>12. ASSUME NEW r \in Requests, ConcludeSwitch(r)
       PROVE  TypeOK'
  <2>1. request[r].to \in Providers
    BY <1>12 DEF ConcludeSwitch, At, TypeOK, Fits
  <2>2. /\ End(r) /\ tunnel' = tunnel /\ left' = left /\ switching' = FALSE
        /\ active' \in {active, request[r].to}
    BY <1>12 DEF ConcludeSwitch, Select
  <2>3. stored' \in [Providers -> Locations \cup {None}]
    BY <1>12 DEF ConcludeSwitch, Cleared, TypeOK
  <2> QED
    BY <2>1, <2>2, <2>3, EndType DEF TypeOK
<1>13. ASSUME NEW r \in Requests, ConcludeChange(r)
       PROVE  TypeOK'
  <2>1. /\ request[r] \in RequestStates /\ Fits(request[r])
        /\ request[r].at = "check" /\ request[r].kind \in Changes \cup {"restore"}
    BY <1>13 DEF TypeOK, ConcludeChange, At
  <2>2. /\ End(r) /\ tunnel' = tunnel /\ left' = left /\ switching' = switching /\ active' = active
        /\ stored' = IF request[r].ok THEN ToStore(r) ELSE stored
    BY <1>13 DEF ConcludeChange
  <2>3. request[r].to \in Locations \cup {None} /\ request[r].provider \in Providers
    BY <2>1 DEF Fits, Changes
  <2>4. ToStore(r) \in [Providers -> Locations \cup {None}]
    BY <2>3 DEF ToStore, Cleared, Saved, TypeOK
  <2> QED
    BY <2>2, <2>4, EndType DEF TypeOK
<1>14. ASSUME NEW p \in Providers, Drop(p)
       PROVE  TypeOK'
  BY <1>14 DEF Drop, TypeOK
<1>15. CASE Restart
  <2>1. PICK r \in Requests : request' = [k \in Requests |-> IF k = r THEN Restored(r) ELSE Idle]
    BY <1>15 DEF Restart
  <2>2. Restored(r) \in RequestStates /\ Fits(Restored(r))
    <3> DEFINE q == [Idle EXCEPT !.kind = "restore", !.at = "health", !.provider = active,
                                 !.to = stored[active]]
    <3>1. CASE stored[active] = None
      BY <3>1, IdleFits DEF Restored
    <3>2. CASE stored[active] # None
      <4>1. stored[active] \in Locations /\ active \in Providers
        BY <3>2 DEF TypeOK
      <4>2. q.kind = "restore" /\ q.at = "health" /\ q.provider = active /\ q.to = stored[active]
        BY DEF Idle
      <4>3. q \in RequestStates
        BY <4>1 DEF RequestStates, Kinds, Points, Idle
      <4>4. Restored(r) = q
        BY <3>2 DEF Restored
      <4> HIDE DEF q
      <4>5. Fits(q)
        BY <4>1, <4>2, StagesOf DEF Fits
      <4> QED
        BY <4>3, <4>4, <4>5
    <3> QED
      BY <3>1, <3>2
  <2>3. request' \in [Requests -> RequestStates] /\ \A k \in Requests : Fits(request'[k])
    BY <2>1, <2>2, IdleFits
  <2>4. \A k \in Requests : request[k].at = "command" => Wish(k) \in Locations \cup {None}
    BY StagesOf DEF Wish, Fits, TypeOK
  <2>5. tunnel' \in [Providers -> Locations \cup {None}]
    BY <1>15 DEF Restart, TypeOK
  <2>6. \A k \in Requests : request[k].at = "command" => Orphan(k) \in Lefts
    BY <2>4, StagesOf DEF Orphan, Lefts, TypeOK, Fits
  <2>7. left' \subseteq Lefts
    BY <1>15, <2>6 DEF Restart, TypeOK
  <2> QED
    BY <1>15, <2>3, <2>5, <2>7 DEF Restart, TypeOK
<1>16. ASSUME NEW c \in left, LeftEnds(c)
       PROVE  TypeOK'
  <2>1. c \in Lefts
    BY DEF TypeOK
  <2> QED
    BY <1>16, <2>1 DEF LeftEnds, Lefts, TypeOK
<1>17. CASE UNCHANGED vars
  BY <1>17 DEF vars, TypeOK
<1> QED
  BY <1>1, <1>2, <1>3, <1>4, <1>5, <1>6, <1>7, <1>8, <1>9, <1>10, <1>11, <1>12, <1>13, <1>14,
     <1>15, <1>16, <1>17 DEF Next

-----------------------------------------------------------------------------
(* The switching flag                                                      *)

\* A flag that was held stays so if its switch was not touched or goes on.
LEMMA FlagKept ==
  ASSUME TypeOK, FlagIsHeld, NEW r \in Requests, switching' => switching,
         \A k \in Requests \ {r} : request'[k] = request[k],
         \/ request[r].kind # "switch" \/ request[r].at = "health"
         \/ request'[r].kind = "switch" /\ request'[r].at # "health"
  PROVE  FlagIsHeld'
BY DEF FlagIsHeld

\* What a move does to the record of the request, and that it does nothing to
\* others.
LEMMA StartMoved ==
  ASSUME TypeOK, NEW r \in Requests, NEW kind, NEW point, NEW to, Start(r, kind, point, to)
  PROVE  /\ \A k \in Requests \ {r} : request'[k] = request[k]
         /\ request[r].kind = "none"
         /\ request'[r].at = point /\ request'[r].kind = kind
         /\ request'[r].provider = active /\ request'[r].to = to
         /\ active' = active /\ switching' = switching /\ stored' = stored /\ tunnel' = tunnel
         /\ left' = left
BY DEF Start, TypeOK, Idle

LEMMA GotoMoved ==
  ASSUME TypeOK, NEW r \in Requests, NEW point, Goto(r, point)
  PROVE  /\ \A k \in Requests \ {r} : request'[k] = request[k]
         /\ request'[r].at = point /\ request'[r].kind = request[r].kind
         /\ request'[r].provider = request[r].provider /\ request'[r].to = request[r].to
         /\ request'[r].seen = request[r].seen /\ request'[r].ok = request[r].ok
BY DEF Goto, TypeOK, RequestStates

LEMMA EndMoved ==
  ASSUME TypeOK, NEW r \in Requests, End(r)
  PROVE  /\ \A k \in Requests \ {r} : request'[k] = request[k]
         /\ request'[r] = Idle
         /\ request'[r].kind = "none" /\ request'[r].at = "none"
BY DEF End, TypeOK, Idle

\* The answer to the status command.
LEMMA StatusMoved ==
  ASSUME TypeOK, NEW r \in Requests, Status(r)
  PROVE  /\ \A k \in Requests \ {r} : request'[k] = request[k]
         /\ request[r].kind \in {"get", "switch", "restore"} /\ request[r].at = "status"
         /\ active' = active /\ stored' = stored /\ tunnel' = tunnel /\ left' = left
         /\ \/ /\ End(r) /\ request[r].kind # "restore"
               /\ switching' = (switching /\ request[r].kind # "switch")
            \/ /\ switching' = switching
               /\ request'[r].at = "decide" /\ request'[r].kind = request[r].kind
               /\ request'[r].provider = request[r].provider /\ request'[r].to = request[r].to
               /\ \/ request'[r].seen = tunnel[request[r].provider]
                  \/ request'[r].seen = None /\ request[r].kind \in {"switch", "restore"}
<1>1. /\ request[r].kind \in {"get", "switch", "restore"} /\ request[r].at = "status"
      /\ active' = active /\ stored' = stored /\ tunnel' = tunnel /\ left' = left
  BY DEF Status, At
<1>2. ASSUME NEW seen, request' = [request EXCEPT ![r].at = "decide", ![r].seen = seen]
      PROVE  /\ \A k \in Requests \ {r} : request'[k] = request[k]
             /\ request'[r].at = "decide" /\ request'[r].kind = request[r].kind
             /\ request'[r].provider = request[r].provider /\ request'[r].to = request[r].to
             /\ request'[r].seen = seen
  BY <1>2 DEF TypeOK, RequestStates
<1>3. CASE /\ request' = [request EXCEPT ![r].at = "decide", ![r].seen = Observed(request[r].provider)]
           /\ UNCHANGED switching
  BY <1>1, <1>2, <1>3 DEF Observed
<1>4. CASE End(r) /\ request[r].kind # "restore" /\ switching' = (switching /\ request[r].kind # "switch")
  BY <1>1, <1>4, EndMoved
<1>5. CASE /\ request' = [request EXCEPT ![r].at = "decide", ![r].seen = None]
           /\ UNCHANGED switching /\ request[r].kind \in {"switch", "restore"}
  BY <1>1, <1>2, <1>5
<1> QED
  BY <1>3, <1>4, <1>5 DEF Status

\* A command of the vendor's CLI.
LEMMA CommandMoved ==
  ASSUME TypeOK, NEW r \in Requests, Command(r)
  PROVE  /\ \A k \in Requests \ {r} : request'[k] = request[k]
         /\ request[r].at = "command"
         /\ active' = active /\ stored' = stored /\ switching' = switching
         /\ request'[r].at = "check" /\ request'[r].kind = request[r].kind
         /\ request'[r].provider = request[r].provider /\ request'[r].to = request[r].to
         /\ \/ /\ tunnel' = [tunnel EXCEPT ![request[r].provider] = Wish(r)]
               /\ request'[r].ok = TRUE /\ request'[r].seen = Wish(r)
               /\ left' = left
            \/ /\ tunnel' \in {tunnel, [tunnel EXCEPT ![request[r].provider] = Wish(r)],
                               [tunnel EXCEPT ![request[r].provider] = None]}
               /\ request'[r].ok => request[r].kind \in {"connect", "restore"}
               /\ request'[r].seen = None
               /\ left' = left
            \/ /\ tunnel' = tunnel
               /\ request'[r].ok = FALSE /\ request'[r].seen = None
               /\ left' = left \cup {Orphan(r)}
<1>1. request[r].at = "command" /\ active' = active /\ stored' = stored /\ switching' = switching
  BY DEF Command
<1>2. ASSUME NEW ok, NEW seen,
             request' = [request EXCEPT ![r].at = "check", ![r].ok = ok, ![r].seen = seen]
      PROVE  /\ \A k \in Requests \ {r} : request'[k] = request[k]
             /\ request'[r].at = "check" /\ request'[r].kind = request[r].kind
             /\ request'[r].provider = request[r].provider /\ request'[r].to = request[r].to
             /\ request'[r].ok = ok /\ request'[r].seen = seen
  BY <1>2 DEF TypeOK, RequestStates
<1>3. CASE /\ tunnel' = [tunnel EXCEPT ![request[r].provider] = Wish(r)] /\ left' = left
           /\ request' = [request EXCEPT ![r].at = "check", ![r].ok = TRUE, ![r].seen = Wish(r)]
  BY <1>1, <1>2, <1>3, Zenon
<1>4. ASSUME tunnel' \in {tunnel, [tunnel EXCEPT ![request[r].provider] = Wish(r)],
                          [tunnel EXCEPT ![request[r].provider] = None]},
             NEW ok \in {FALSE, request[r].kind \in {"connect", "restore"}},
             request' = [request EXCEPT ![r].at = "check", ![r].ok = ok, ![r].seen = None],
             left' = left
      PROVE  /\ \A k \in Requests \ {r} : request'[k] = request[k]
             /\ request'[r].at = "check" /\ request'[r].kind = request[r].kind
             /\ request'[r].provider = request[r].provider /\ request'[r].to = request[r].to
             /\ request'[r].ok => request[r].kind \in {"connect", "restore"}
             /\ request'[r].seen = None
  <2>1. ok => request[r].kind \in {"connect", "restore"}
    BY Zenon
  <2> QED
    BY <1>2, <1>4, <2>1, Zenon
<1>5. CASE /\ request' = [request EXCEPT ![r].at = "check", ![r].ok = FALSE, ![r].seen = None]
           /\ tunnel' = tunnel /\ left' = left \cup {Orphan(r)}
  BY <1>1, <1>2, <1>5, Zenon
<1> QED
  BY <1>1, <1>3, <1>4, <1>5, Zenon DEF Command

LEMMA FlagStep == TypeOK /\ FlagIsHeld /\ [Next]_vars => FlagIsHeld'
<1> SUFFICES ASSUME TypeOK, FlagIsHeld, [Next]_vars
             PROVE  FlagIsHeld'
  OBVIOUS
<1>1. ASSUME NEW r \in Requests, NEW l \in Locations, Connect(r, l)
      PROVE  FlagIsHeld'
  BY <1>1, StartMoved, FlagKept DEF Connect
<1>2. ASSUME NEW r \in Requests, Disconnect(r) \/ Logout(r) \/ Get(r)
      PROVE  FlagIsHeld'
  BY <1>2, StartMoved, FlagKept DEF Disconnect, Logout, Get
<1>3. ASSUME NEW r \in Requests, NEW p \in Providers, Switch(r, p)
      PROVE  FlagIsHeld'
  BY <1>3, StartMoved, FlagKept DEF Switch
<1>4. ASSUME NEW r \in Requests, Locate(r)
      PROVE  FlagIsHeld'
  BY <1>4, GotoMoved, EndMoved, FlagKept DEF Locate, At
<1>5. ASSUME NEW r \in Requests, Health(r)
      PROVE  FlagIsHeld'
  <2>1. PICK available \in HealthReplies :
          /\ IF available THEN Goto(r, "status") ELSE End(r)
          /\ switching' = (switching \/ (available /\ request[r].kind = "switch"))
    BY <1>5 DEF Health
  <2>2. request[r].at = "health" /\ \A k \in Requests \ {r} : request'[k] = request[k]
    BY <1>5, <2>1, GotoMoved, EndMoved DEF Health, At
  <2>3. CASE switching
    BY <2>2, <2>3, FlagKept
  <2>4. CASE ~switching /\ available /\ request[r].kind = "switch"
    <3>1. request'[r].kind = "switch" /\ request'[r].at = "status"
      BY <2>1, <2>4, GotoMoved
    <3> QED
      BY <3>1 DEF FlagIsHeld
  <2>5. CASE ~switching /\ ~(available /\ request[r].kind = "switch")
    BY <2>1, <2>5 DEF FlagIsHeld
  <2> QED
    BY <2>3, <2>4, <2>5
<1>6. ASSUME NEW r \in Requests, Status(r)
      PROVE  FlagIsHeld'
  <2>1. CASE End(r)
    <3>1. \/ switching' = (switching /\ request[r].kind # "switch")
          \/ request'[r].at = "decide"
      BY <1>6, StatusMoved
    <3>2. request'[r].at = "none"
      BY <2>1, EndMoved
    <3>3. CASE request[r].kind = "switch"
      BY <3>1, <3>2, <3>3 DEF FlagIsHeld
    <3>4. CASE request[r].kind # "switch"
      BY <1>6, <3>1, <3>2, <3>4, StatusMoved, FlagKept
    <3> QED
      BY <3>3, <3>4
  <2>2. CASE ~End(r)
    BY <1>6, <2>2, StatusMoved, FlagKept
  <2> QED
    BY <2>1, <2>2
<1>7. ASSUME NEW r \in Requests, Answer(r)
      PROVE  FlagIsHeld'
  BY <1>7, EndMoved, FlagKept DEF Answer, At
<1>8. ASSUME NEW r \in Requests, Restore(r)
      PROVE  FlagIsHeld'
  BY <1>8, GotoMoved, EndMoved, FlagKept DEF Restore, At
<1>9. ASSUME NEW r \in Requests, MustDisconnect(r)
      PROVE  FlagIsHeld'
  BY <1>9, GotoMoved, FlagKept DEF MustDisconnect, At
<1>10. ASSUME NEW r \in Requests, SelectAtOnce(r) \/ ConcludeSwitch(r)
       PROVE  FlagIsHeld'
  BY <1>10 DEF SelectAtOnce, ConcludeSwitch, Select, FlagIsHeld
<1>11. ASSUME NEW r \in Requests, Command(r)
       PROVE  FlagIsHeld'
  <2>1. /\ switching' = switching /\ \A k \in Requests \ {r} : request'[k] = request[k]
        /\ request'[r].kind = request[r].kind /\ request'[r].at = "check"
    BY <1>11, CommandMoved, Zenon
  <2> QED
    BY <2>1, FlagKept
<1>12. ASSUME NEW r \in Requests, ConcludeChange(r)
       PROVE  FlagIsHeld'
  <2>1. End(r) /\ switching' = switching /\ request[r].kind # "switch"
    BY <1>12 DEF ConcludeChange, At, Changes
  <2> QED
    BY <2>1, EndMoved, FlagKept
<1>13. CASE Restart
  BY <1>13 DEF Restart, FlagIsHeld
<1>14. ASSUME NEW p \in Providers, Drop(p)
       PROVE  FlagIsHeld'
  BY <1>14 DEF Drop, FlagIsHeld
<1>15. ASSUME NEW c \in left, LeftEnds(c)
       PROVE  FlagIsHeld'
  BY <1>15 DEF LeftEnds, FlagIsHeld
<1>16. CASE UNCHANGED vars
  BY <1>16 DEF vars, FlagIsHeld
<1> QED
  BY <1>1, <1>2, <1>3, <1>4, <1>5, <1>6, <1>7, <1>8, <1>9, <1>10, <1>11, <1>12, <1>13, <1>14,
     <1>15, <1>16 DEF Next

\* Whatever fails, the flag that refuses provider operations belongs to a switch
\* that is still under way.
THEOREM FlagIsHeldHolds == Spec => []FlagIsHeld
<1>1. Init => TypeOK /\ FlagIsHeld
  BY IdleFits DEF Init, TypeOK, FlagIsHeld
<1>2. TypeOK /\ FlagIsHeld /\ [Next]_vars => (TypeOK /\ FlagIsHeld)'
  BY TypeStep, FlagStep
<1> QED
  BY <1>1, <1>2, PTL DEF Spec

-----------------------------------------------------------------------------
(* Orderly use: no provider but the selected one is connected.             *)

\* One at a time is none but one.
Alone == \A r, s \in Requests : Busy(r) /\ Busy(s) => r = s

LEMMA OneIsAlone == OneAtATime => Alone
<1> DEFINE B == {k \in Requests : request[k].kind # "none"}
<1> SUFFICES ASSUME OneAtATime, NEW r \in Requests, NEW s \in Requests, Busy(r), Busy(s), r # s
             PROVE  FALSE
  BY DEF Alone
<1>1. Cardinality(B) <= 1
  BY DEF OneAtATime
<1>2. B \in SUBSET Requests /\ {r, s} \in SUBSET B
  BY DEF Busy
<1>3. s \in {s} /\ r \notin {s} /\ {s} \cup {r} = {r, s}
  OBVIOUS
<1> HIDE DEF B
<1>4. IsFiniteSet(B)
  BY <1>2, FS_Subset, Zenon
<1>5. Cardinality({r, s}) <= Cardinality(B)
  BY <1>2, <1>4, FS_Subset, Zenon
<1>6. IsFiniteSet({s}) /\ Cardinality({s}) = 1
  BY FS_Singleton, Zenon
<1>7. Cardinality({s} \cup {r}) = Cardinality({s}) + 1
  BY <1>3, <1>6, FS_AddElement, Zenon
<1>8. Cardinality(B) \in Nat
  BY <1>4, FS_CardinalityType, Zenon
<1> QED
  BY <1>1, <1>3, <1>5, <1>6, <1>7, <1>8

\* While one request moves the others are idle.
LEMMA OthersIdle ==
  ASSUME OrderlyInv, orderly, OneAtATime', NEW r \in Requests, Busy(r) \/ Busy(r)',
         \A k \in Requests \ {r} : request'[k] = request[k]
  PROVE  \A k \in Requests \ {r} : request'[k].kind = "none" /\ ~Busy(k)
<1> SUFFICES ASSUME NEW k \in Requests \ {r}
             PROVE  request'[k].kind = "none" /\ ~Busy(k)
  OBVIOUS
<1>1. CASE Busy(r)
  BY <1>1 DEF OrderlyInv, Busy
<1>2. CASE Busy(r)'
  <2>1. (OneAtATime => Alone)'
    BY OneIsAlone, PTL
  <2> QED
    BY <1>2, <2>1 DEF Alone, Busy
<1> QED
  BY <1>1, <1>2

\* So it is enough to look at the one that moves.
LEMMA OrderlyMove ==
  ASSUME OrderlyInv, orderly, OneAtATime', NEW r \in Requests, Busy(r) \/ Busy(r)',
         \A k \in Requests \ {r} : request'[k] = request[k],
         OnlyActive', LeftForActive', Apart',
         Busy(r)' => request'[r].provider = active' /\ LeavesNothing(r)'
  PROVE  OrderlyInv'
<1>1. Alone'
  <2>1. (OneAtATime => Alone)'
    BY OneIsAlone, PTL
  <2> QED
    BY <2>1
<1>2. \A k \in Requests \ {r} : ~Busy(k)'
  BY OthersIdle DEF Busy
<1> QED
  BY <1>1, <1>2 DEF OrderlyInv, Alone

\* Moves that leave the providers, the tunnels and what was left alone.
LEMMA OrderlyQuiet ==
  ASSUME OrderlyInv, orderly, OneAtATime', Apart', NEW r \in Requests, Busy(r) \/ Busy(r)',
         \A k \in Requests \ {r} : request'[k] = request[k],
         active' = active, tunnel' = tunnel, left' = left,
         Busy(r)' => request'[r].provider = IF Busy(r) THEN request[r].provider ELSE active,
         request'[r].kind = "switch" /\ request'[r].at \in {"decide", "check"}
           => tunnel[active] = None \/ (request'[r].at = "decide" /\ request'[r].seen # None)
  PROVE  OrderlyInv'
<1>1. OnlyActive' /\ LeftForActive'
  BY DEF OrderlyInv, OnlyActive, LeftForActive
<1>2. Busy(r)' => request'[r].provider = active'
  BY DEF OrderlyInv
<1>3. LeavesNothing(r)'
  BY DEF LeavesNothing
<1> QED
  BY <1>1, <1>2, <1>3, OrderlyMove

\* The steps of Next, while requests come one after the other.
LEMMA OrderlyGoesOn ==
  ASSUME TypeOK, TypeOK', OrderlyInv, orderly, OneAtATime', Apart', Next,
         \A r \in Requests : ~Unanswered(r)
  PROVE  OrderlyInv'
<1>1. ASSUME NEW r \in Requests, NEW l \in Locations, Connect(r, l)
      PROVE  OrderlyInv'
  <2>1. Start(r, "connect", "locate", l)
    BY <1>1 DEF Connect
  <2> QED
    BY <2>1, StartMoved, OrderlyQuiet DEF Busy
<1>2. ASSUME NEW r \in Requests, Disconnect(r) \/ Logout(r) \/ Get(r)
      PROVE  OrderlyInv'
  <2>1. \/ Start(r, "disconnect", "command", None)
        \/ Start(r, "logout", "command", None)
        \/ Start(r, "get", "status", None)
    BY <1>2 DEF Disconnect, Logout, Get
  <2> QED
    BY <2>1, StartMoved, OrderlyQuiet DEF Busy
<1>3. ASSUME NEW r \in Requests, NEW p \in Providers, Switch(r, p)
      PROVE  OrderlyInv'
  <2>1. Start(r, "switch", "health", p)
    BY <1>3 DEF Switch
  <2> QED
    BY <2>1, StartMoved, OrderlyQuiet DEF Busy
<1>4. ASSUME NEW r \in Requests, NEW point \in {"command", "locate", "status"}, Goto(r, point), Busy(r),
             active' = active, tunnel' = tunnel, left' = left
      PROVE  OrderlyInv'
  BY <1>4, GotoMoved, OrderlyQuiet DEF Busy
<1>5. ASSUME NEW r \in Requests, End(r), Busy(r), active' = active, tunnel' = tunnel, left' = left
      PROVE  OrderlyInv'
  BY <1>5, EndMoved, OrderlyQuiet DEF Busy
<1>6. ASSUME NEW r \in Requests, Locate(r) \/ Restore(r) \/ MustDisconnect(r)
      PROVE  OrderlyInv'
  <2>1. Busy(r) /\ active' = active /\ tunnel' = tunnel /\ left' = left
    BY <1>6 DEF Locate, Restore, MustDisconnect, At, Busy
  <2>2. End(r) \/ Goto(r, "command") \/ Goto(r, "locate")
    BY <1>6 DEF Locate, Restore, MustDisconnect
  <2> QED
    BY <1>4, <1>5, <2>1, <2>2
<1>7. ASSUME NEW r \in Requests, Health(r)
      PROVE  OrderlyInv'
  <2>1. Busy(r) /\ active' = active /\ tunnel' = tunnel /\ left' = left /\ (End(r) \/ Goto(r, "status"))
    BY <1>7 DEF Health, At, Busy
  <2> QED
    BY <1>4, <1>5, <2>1
<1>8. ASSUME NEW r \in Requests, Answer(r) \/ ConcludeChange(r)
      PROVE  OrderlyInv'
  <2>1. Busy(r) /\ active' = active /\ tunnel' = tunnel /\ left' = left /\ End(r)
    BY <1>8 DEF Answer, ConcludeChange, At, Busy, Changes
  <2> QED
    BY <1>5, <2>1
<1>9. ASSUME NEW r \in Requests, Status(r)
      PROVE  OrderlyInv'
  <2>1. Busy(r) /\ active' = active /\ tunnel' = tunnel /\ left' = left
    BY <1>9 DEF Status, At, Busy
  <2>2. CASE End(r)
    BY <1>5, <2>1, <2>2
  <2>3. CASE ~End(r)
    <3>1. /\ request'[r].at = "decide" /\ request'[r].kind = request[r].kind
          /\ request'[r].provider = request[r].provider /\ request[r].at = "status"
          /\ \A k \in Requests \ {r} : request'[k] = request[k]
      BY <1>9, <2>3, StatusMoved
    <3>2. request[r].provider = active
      BY <2>1 DEF OrderlyInv
    <3>3. request'[r].kind = "switch" => request'[r].seen = tunnel[active]
      BY <3>1, <3>2 DEF Unanswered
    <3>4. OnlyActive' /\ LeftForActive'
      BY <2>1 DEF OrderlyInv, OnlyActive, LeftForActive
    <3>5. LeavesNothing(r)'
      BY <2>1, <3>1, <3>3, Zenon DEF LeavesNothing
    <3> QED
      BY <2>1, <3>1, <3>2, <3>4, <3>5, OrderlyMove
  <2> QED
    BY <2>2, <2>3
<1>10. ASSUME NEW r \in Requests, request[r].kind = "switch", Select(r), tunnel[active] = None
       PROVE  OrderlyInv'
  <2>1. OnlyActive' /\ ~Busy(r)' /\ \A k \in Requests \ {r} : request'[k] = request[k]
    BY <1>10, EndMoved DEF Select, OrderlyInv, OnlyActive, Busy
  <2>2. LeftForActive' /\ Busy(r)
    BY <1>10 DEF Select, OrderlyInv, Apart, LeftForActive, Busy
  <2> QED
    BY <2>1, <2>2, OrderlyMove
<1>11. ASSUME NEW r \in Requests, SelectAtOnce(r)
       PROVE  OrderlyInv'
  <2>1. request[r].kind = "switch" /\ Select(r) /\ tunnel[active] = None
    BY <1>11 DEF SelectAtOnce, At, Busy, OrderlyInv, LeavesNothing
  <2> QED
    BY <1>10, <2>1
<1>12. ASSUME NEW r \in Requests, ConcludeSwitch(r)
       PROVE  OrderlyInv'
  <2>1. CASE request[r].ok
    <3>1. request[r].kind = "switch" /\ Select(r) /\ tunnel[active] = None
      BY <1>12, <2>1 DEF ConcludeSwitch, At, Busy, OrderlyInv, LeavesNothing
    <3> QED
      BY <1>10, <3>1
  <2>2. CASE ~request[r].ok
    <3>1. Busy(r) /\ End(r) /\ tunnel' = tunnel /\ active' = active /\ left' = left
      BY <1>12, <2>2 DEF ConcludeSwitch, At, Busy
    <3> QED
      BY <1>5, <3>1
  <2> QED
    BY <2>1, <2>2
<1>13. ASSUME NEW r \in Requests, Command(r)
       PROVE  OrderlyInv'
  <2>1. request[r].at = "command" /\ Busy(r) /\ request[r].provider = active /\ active' = active
    BY <1>13, StagesOf DEF Command, Busy, TypeOK, Fits, OrderlyInv
  <2>2. OnlyActive'
    BY <1>13, <2>1, CommandMoved DEF OrderlyInv, OnlyActive, TypeOK
  <2>3. LeavesNothing(r)'
    <3> SUFFICES ASSUME request'[r].kind = "switch", request'[r].ok
                 PROVE  tunnel'[active] = None
      BY <1>13, <2>1, CommandMoved DEF LeavesNothing
    <3>1. request[r].kind = "switch" /\ Wish(r) = None
      BY <1>13, CommandMoved DEF Wish
    <3>2. request[r].kind \notin {"connect", "restore"}
      BY <3>1
    <3>3. ~(request'[r].ok => request[r].kind \in {"connect", "restore"})
      BY <3>2
    <3>4. tunnel' = [tunnel EXCEPT ![request[r].provider] = Wish(r)]
      BY <1>13, <3>3, CommandMoved, Zenon
    <3> QED
      BY <2>1, <3>1, <3>4 DEF TypeOK
  <2>4. request'[r].provider = active' /\ \A k \in Requests \ {r} : request'[k] = request[k]
    BY <1>13, <2>1, CommandMoved
  <2>5. LeftForActive'
    <3>1. left' = left \/ left' = left \cup {Orphan(r)}
      BY <1>13, CommandMoved
    <3>2. Orphan(r).provider = active
      BY <2>1 DEF Orphan
    <3> QED
      BY <2>1, <3>1, <3>2 DEF OrderlyInv, LeftForActive
  <2> QED
    BY <2>1, <2>2, <2>3, <2>4, <2>5, OrderlyMove
<1>14. ASSUME NEW p \in Providers, Drop(p)
       PROVE  OrderlyInv'
  BY <1>14 DEF Drop, OrderlyInv, OnlyActive, LeftForActive, LeavesNothing, Busy, TypeOK
\* What a command that was left does to other providers is to end a connection,
\* and while a switch is under way it does no more to any.
<1>15. ASSUME NEW c \in left, LeftEnds(c)
       PROVE  OrderlyInv'
  <2>1. /\ active' = active /\ request' = request /\ left' \subseteq left
        /\ c.provider \in Providers /\ (c.to # None => c.provider = active)
        /\ \/ tunnel' = tunnel
           \/ \E t \in {None, c.to} : tunnel' = [tunnel EXCEPT ![c.provider] = t]
    BY <1>15 DEF LeftEnds, TypeOK, Lefts, OrderlyInv, LeftForActive
  <2>2. OnlyActive' /\ LeftForActive'
    BY <2>1 DEF OrderlyInv, OnlyActive, LeftForActive, TypeOK
  <2>3. ASSUME NEW r \in Requests
        PROVE  LeavesNothing(r)'
    <3> SUFFICES ASSUME request[r].kind = "switch", tunnel[active] = None
                 PROVE  tunnel'[active] = None
      BY <2>1 DEF OrderlyInv, LeavesNothing, Busy
    <3>1. c.to = None
      BY DEF OrderlyInv, Apart
    <3> QED
      BY <2>1, <3>1 DEF TypeOK
  <2> QED
    BY <2>1, <2>2, <2>3 DEF OrderlyInv, Busy
<1>16. CASE Restart
  <2>1. PICK r \in Requests : request' = [k \in Requests |-> IF k = r THEN Restored(r) ELSE Idle]
    BY <1>16 DEF Restart
  <2>2. Restored(r).kind \in {"none", "restore"} /\ (Restored(r).kind = "restore" => Restored(r).provider = active)
    BY DEF Restored, Idle
  <2>3. active' = active /\ OnlyActive' /\ LeftForActive'
    <3>1. ASSUME NEW q \in Requests, request[q].at = "command"
          PROVE  Orphan(q).provider = active
      BY <3>1, StagesOf DEF Orphan, OrderlyInv, TypeOK, Fits, Busy
    <3>2. active' = active /\ OnlyActive'
      BY <1>16 DEF Restart, OrderlyInv, OnlyActive
    <3>3. \A c \in left' : c \in left \/ \E q \in Requests : request[q].at = "command" /\ c = Orphan(q)
      BY <1>16 DEF Restart
    <3> QED
      BY <3>1, <3>2, <3>3 DEF OrderlyInv, LeftForActive
  <2>4. \A k \in Requests : Busy(k)' => k = r /\ request'[k].kind = "restore" /\ request'[k].provider = active
    BY <2>1, <2>2 DEF Busy, Idle
  <2> QED
    BY <2>3, <2>4 DEF OrderlyInv, LeavesNothing
<1> QED
  BY <1>1, <1>2, <1>3, <1>6, <1>7, <1>8, <1>9, <1>11, <1>12, <1>13, <1>14, <1>15, <1>16 DEF Next

\* Every step of ProviderPromises.
LEMMA OrderlyStep == TypeOK /\ TypeOK' /\ OrderlyInv /\ [PNext]_pvars => OrderlyInv'
<1> SUFFICES ASSUME TypeOK, TypeOK', OrderlyInv, [PNext]_pvars, orderly'
             PROVE  OrderlyInv'
  BY DEF OrderlyInv
<1>1. CASE UNCHANGED pvars
  BY <1>1 DEF pvars, vars, OrderlyInv, OnlyActive, LeftForActive, Apart, LeavesNothing, Busy
<1>2. CASE PNext /\ (Settled /\ OnlyActive /\ LeftForActive)'
  BY <1>2 DEF OrderlyInv, Settled, Apart, LeavesNothing, Busy
<1>3. CASE PNext /\ orderly /\ OneAtATime' /\ Apart' /\ \A r \in Requests : ~Unanswered(r)
  BY <1>3, OrderlyGoesOn DEF PNext
<1> QED
  BY <1>1, <1>2, <1>3 DEF PNext, PromisesNext

LEMMA PStep == [PNext]_pvars => [Next]_vars
BY DEF PNext, pvars

\* From a state in order on, while requests come one after the other, no provider
\* but the selected one is connected when nothing is in progress.
THEOREM ActiveOnlyHolds == PSpec => []ActiveOnly
<1>1. PInit => TypeOK /\ OrderlyInv
  <2> SUFFICES ASSUME Init
               PROVE  TypeOK /\ OrderlyInv
    BY DEF PInit
  <2>1. TypeOK
    BY IdleFits DEF Init, TypeOK
  <2>2. \A r \in Requests : request[r].kind = "none"
    BY DEF Init, Idle
  <2>3. OnlyActive /\ LeftForActive /\ Apart
    BY DEF Init, OnlyActive, LeftForActive, Apart
  <2> QED
    BY <2>1, <2>2, <2>3 DEF OrderlyInv, Busy
<1>2. (TypeOK /\ OrderlyInv) /\ [PNext]_pvars => (TypeOK /\ OrderlyInv)'
  BY PStep, TypeStep, OrderlyStep
<1>3. OrderlyInv => ActiveOnly
  BY DEF OrderlyInv, ActiveOnly
<1> QED
  BY <1>1, <1>2, <1>3, PTL DEF PSpec

-----------------------------------------------------------------------------
(* Smooth use: what is stored is connected.                                *)

\* The request that moves decides.
LEMMA SmoothMove ==
  ASSUME TypeOK', orderly', NEW r \in Requests, \A k \in Requests \ {r} : request'[k].kind = "none",
         StoredForActive', Undisturbed',
         left' # {} /\ stored'[active'] # None => Looks(r)',
         stored'[active'] # None => tunnel'[active'] # None \/ WillSettle(r)',
         Tells(r)'
  PROVE  SmoothInv'
<1>1. \A k \in Requests \ {r} : request'[k].at = "none"
  BY StagesOf DEF TypeOK, Fits
<1>2. \A k \in Requests \ {r} : Tells(k)'
  BY <1>1 DEF Tells
<1>3. stored'[active'] # None /\ tunnel'[active'] = None => \E k \in Requests : WillSettle(k)'
  OBVIOUS
<1>4. \A k \in Requests : Tells(k)'
  BY <1>2, Zenon
<1> QED
  BY <1>3, <1>4 DEF SmoothInv

\* While one request moves, also in a step that begins or ends it, the others
\* are idle.
LEMMA OthersRest ==
  ASSUME OrderlyInv, orderly, OrderlyInv', orderly', NEW r \in Requests, Busy(r) \/ Busy(r)',
         \A k \in Requests \ {r} : request'[k] = request[k]
  PROVE  \A k \in Requests \ {r} : request[k].kind = "none" /\ request'[k].kind = "none"
BY DEF OrderlyInv, Busy

\* A provider that is stored is connected unless the request that moves settles it.
LEMMA KeptUnless ==
  ASSUME SmoothInv, smooth, NEW r \in Requests, \A k \in Requests \ {r} : request[k].kind = "none",
         ~WillSettle(r)
  PROVE  stored[active] # None => tunnel[active] # None
BY DEF SmoothInv, WillSettle

\* A restoration that looks while a command is left goes on looking.
LEMMA LooksOn ==
  ASSUME SmoothInv, smooth, Undisturbed', NEW r \in Requests,
         \A k \in Requests \ {r} : request[k].kind = "none",
         active' = active, stored' = stored, left' = left,
         Looks(r) => Busy(r)'
  PROVE  left' # {} /\ stored'[active'] # None => Looks(r)'
BY DEF SmoothInv, Undisturbed, Looks, Busy

\* Any other request is under way only while no command is left.
LEMMA NothingLeft ==
  ASSUME SmoothInv, smooth, NEW r \in Requests, Busy(r), ~Looks(r)
  PROVE  left = {}
BY DEF SmoothInv, Undisturbed, Looks, Busy

\* Moves that leave providers, store, tunnels and what was left alone.
LEMMA SmoothQuiet ==
  ASSUME TypeOK', OrderlyInv, orderly, OrderlyInv', orderly', SmoothInv, smooth, Undisturbed',
         NEW r \in Requests, Busy(r) \/ Busy(r)',
         \A k \in Requests \ {r} : request'[k] = request[k],
         active' = active, stored' = stored, tunnel' = tunnel, left' = left, Looks(r) => Busy(r)',
         ~WillSettle(r) \/ WillSettle(r)', Tells(r)'
  PROVE  SmoothInv'
<1>1. \A k \in Requests \ {r} : request[k].kind = "none" /\ request'[k].kind = "none"
  BY OthersRest
<1>2. StoredForActive'
  BY DEF SmoothInv, StoredForActive
<1>3. stored'[active'] # None => tunnel'[active'] # None \/ WillSettle(r)'
  BY <1>1, KeptUnless
<1>4. left' # {} /\ stored'[active'] # None => Looks(r)'
  BY <1>1, LooksOn
<1> QED
  BY <1>1, <1>2, <1>3, <1>4, SmoothMove

LEMMA SmoothGoesOn ==
  ASSUME TypeOK, TypeOK', OrderlyInv, orderly, OrderlyInv', orderly', SmoothInv, smooth, Next,
         ~Dropped, Undisturbed', \A r \in Requests : ~Failed(r)
  PROVE  SmoothInv'
<1>1. ASSUME NEW r \in Requests, NEW kind \in Changes \cup {"get", "switch"},
             NEW point \in {"locate", "command", "status", "health"}, NEW to, Start(r, kind, point, to)
      PROVE  SmoothInv'
  <2>1. /\ request'[r].at = point /\ request'[r].kind = kind /\ request[r].kind = "none"
        /\ \A k \in Requests \ {r} : request'[k] = request[k]
        /\ active' = active /\ stored' = stored /\ tunnel' = tunnel /\ left' = left
    BY <1>1, StartMoved
  <2>2. Busy(r)' /\ ~WillSettle(r) /\ Tells(r)'
    BY <2>1 DEF Busy, WillSettle, Tells, Changes
  <2> QED
    BY <2>1, <2>2, SmoothQuiet
<1>2. ASSUME NEW r \in Requests,
             \/ Disconnect(r) \/ Logout(r) \/ Get(r)
             \/ \E l \in Locations : Connect(r, l)
             \/ \E p \in Providers : Switch(r, p)
      PROVE  SmoothInv'
  BY <1>1, <1>2 DEF Connect, Disconnect, Logout, Get, Switch, Changes
<1>3. ASSUME NEW r \in Requests, Busy(r), active' = active, stored' = stored, tunnel' = tunnel,
             left' = left, request[r].at # "check", NEW point \in {"command", "locate", "status"}, Goto(r, point)
      PROVE  SmoothInv'
  <2>1. /\ request'[r].at = point /\ request'[r].kind = request[r].kind
        /\ \A k \in Requests \ {r} : request'[k] = request[k]
    BY <1>3, GotoMoved
  <2>2. Tells(r)' /\ (~WillSettle(r) \/ WillSettle(r)') /\ Busy(r)'
    BY <1>3, <2>1 DEF Tells, WillSettle, Busy
  <2> QED
    BY <1>3, <2>1, <2>2, SmoothQuiet
<1>4. ASSUME NEW r \in Requests, Busy(r), active' = active, stored' = stored, tunnel' = tunnel,
             left' = left, request[r].at # "check", request[r].kind # "restore", End(r)
      PROVE  SmoothInv'
  <2>1. /\ request'[r].at = "none" /\ request'[r].kind = "none"
        /\ \A k \in Requests \ {r} : request'[k] = request[k]
    BY <1>4, EndMoved
  <2>2. Tells(r)' /\ ~WillSettle(r) /\ ~Looks(r)
    BY <1>4, <2>1 DEF Tells, WillSettle, Looks
  <2> QED
    BY <1>4, <2>1, <2>2, SmoothQuiet
<1>5. ASSUME NEW r \in Requests, Locate(r)
      PROVE  SmoothInv'
  <2>1. /\ Busy(r) /\ active' = active /\ stored' = stored /\ tunnel' = tunnel /\ left' = left
        /\ request[r].at = "locate" /\ (End(r) \/ Goto(r, "command"))
    BY <1>5 DEF Locate, At, Busy
  <2>2. End(r) => request[r].kind # "restore"
    BY <2>1, EndMoved DEF Failed
  <2> QED
    BY <1>3, <1>4, <2>1, <2>2
<1>6. ASSUME NEW r \in Requests, Health(r)
      PROVE  SmoothInv'
  <2>1. /\ Busy(r) /\ active' = active /\ stored' = stored /\ tunnel' = tunnel /\ left' = left
        /\ request[r].at = "health" /\ (End(r) \/ Goto(r, "status"))
    BY <1>6 DEF Health, At, Busy
  <2>2. End(r) => request[r].kind # "restore"
    BY <2>1, EndMoved DEF Failed
  <2> QED
    BY <1>3, <1>4, <2>1, <2>2
<1>7. ASSUME NEW r \in Requests, MustDisconnect(r)
      PROVE  SmoothInv'
  <2>1. /\ Busy(r) /\ active' = active /\ stored' = stored /\ tunnel' = tunnel /\ left' = left
        /\ request[r].at = "decide" /\ Goto(r, "command")
    BY <1>7 DEF MustDisconnect, At, Busy
  <2> QED
    BY <1>3, <2>1
<1>8. ASSUME NEW r \in Requests, Restore(r)
      PROVE  SmoothInv'
  <2>1. /\ Busy(r) /\ active' = active /\ stored' = stored /\ tunnel' = tunnel /\ left' = left
        /\ request[r].at = "decide" /\ request[r].kind = "restore"
        /\ IF request[r].seen # None THEN End(r) ELSE Goto(r, "locate")
    BY <1>8 DEF Restore, At, Busy
  <2>2. CASE request[r].seen # None
    <3>1. tunnel'[active'] # None
      BY <2>1, <2>2 DEF SmoothInv, Tells
    <3>2. /\ request'[r].at = "none" /\ request'[r].kind = "none"
          /\ \A k \in Requests \ {r} : request'[k] = request[k]
      BY <2>1, <2>2, EndMoved
    <3>3. \A k \in Requests \ {r} : request'[k].kind = "none"
      BY <2>1, <3>2, OthersRest
    <3>4. StoredForActive' /\ Tells(r)'
      BY <2>1, <3>2 DEF SmoothInv, StoredForActive, Tells
    <3>5. left = {}
      BY <2>1, NothingLeft DEF Looks
    <3> QED
      BY <2>1, <3>1, <3>3, <3>4, <3>5, SmoothMove
  <2>3. CASE request[r].seen = None
    BY <1>3, <2>1, <2>3
  <2> QED
    BY <2>2, <2>3
<1>9. ASSUME NEW r \in Requests, Status(r)
      PROVE  SmoothInv'
  <2>1. /\ Busy(r) /\ active' = active /\ stored' = stored /\ tunnel' = tunnel /\ left' = left
        /\ request[r].at = "status"
    BY <1>9 DEF Status, At, Busy
  <2>2. CASE End(r) /\ request[r].kind # "restore"
    BY <1>4, <2>1, <2>2
  <2>3. CASE ~(End(r) /\ request[r].kind # "restore")
    <3>1. /\ request'[r].at = "decide" /\ request'[r].kind = request[r].kind
          /\ request'[r].provider = request[r].provider
          /\ \A k \in Requests \ {r} : request'[k] = request[k]
      BY <1>9, <2>3, StatusMoved
    <3>2. request[r].provider = active
      BY <2>1 DEF OrderlyInv
    <3>3. request'[r].kind = "restore" => request'[r].seen = tunnel'[active']
      BY <2>1, <3>1, <3>2, Zenon DEF Failed
    <3>4. Tells(r)'
      BY <3>1, <3>3 DEF Tells
    <3>5. (~WillSettle(r) \/ WillSettle(r)') /\ Busy(r)'
      BY <2>1, <3>1 DEF WillSettle, Busy
    <3> QED
      BY <2>1, <3>1, <3>4, <3>5, SmoothQuiet
  <2> QED
    BY <2>2, <2>3
\* What ends with a provider that is not stored, or is connected.
<1>10. ASSUME NEW r \in Requests, Busy(r), End(r), StoredForActive', ~Looks(r), left' = left,
              stored'[active'] # None => tunnel'[active'] # None
       PROVE  SmoothInv'
  <2>1. /\ request'[r].at = "none" /\ request'[r].kind = "none"
        /\ \A k \in Requests \ {r} : request'[k] = request[k]
    BY <1>10, EndMoved
  <2>2. \A k \in Requests \ {r} : request'[k].kind = "none"
    BY <1>10, <2>1, OthersRest
  <2>3. Tells(r)' /\ left' = {}
    BY <1>10, <2>1, NothingLeft DEF Tells
  <2> QED
    BY <1>10, <2>2, <2>3, SmoothMove
<1>11. ASSUME NEW r \in Requests, Busy(r), \A k \in Requests \ {r} : request'[k] = request[k],
              ~WillSettle(r)
       PROVE  stored[active] # None => tunnel[active] # None
  BY <1>11, OthersRest, KeptUnless
<1>12. ASSUME NEW r \in Requests, Answer(r)
       PROVE  SmoothInv'
  <2>1. /\ Busy(r) /\ End(r) /\ active' = active /\ tunnel' = tunnel /\ ~WillSettle(r)
        /\ request[r].provider \in Providers /\ left' = left /\ ~Looks(r)
        /\ stored' \in {stored, Cleared(request[r].provider)}
    BY <1>12 DEF Answer, At, Busy, WillSettle, Looks, TypeOK, Fits
  <2>2. stored[active] # None => tunnel[active] # None
    BY <1>11, <2>1, EndMoved
  <2>3. \A p \in Providers : stored'[p] # None => stored[p] # None
    BY <2>1 DEF Cleared, TypeOK
  <2>4. active \in Providers /\ StoredForActive
    BY DEF TypeOK, SmoothInv
  <2> QED
    BY <1>10, <2>1, <2>2, <2>3, <2>4 DEF StoredForActive
<1>13. ASSUME NEW r \in Requests, SelectAtOnce(r)
       PROVE  SmoothInv'
  <2>1. /\ Busy(r) /\ End(r) /\ tunnel' = tunnel /\ stored' = stored /\ ~WillSettle(r)
        /\ tunnel[active] = None /\ left' = left /\ ~Looks(r)
    BY <1>13 DEF SelectAtOnce, Select, At, Busy, WillSettle, Looks, OrderlyInv, LeavesNothing
  <2>2. stored[active] = None
    BY <1>11, <2>1, EndMoved
  <2>3. \A p \in Providers : stored'[p] = None
    BY <2>1, <2>2 DEF SmoothInv, StoredForActive
  <2>4. active' \in Providers
    BY DEF TypeOK
  <2> QED
    BY <1>10, <2>1, <2>3, <2>4 DEF StoredForActive
<1>14. ASSUME NEW r \in Requests, ConcludeSwitch(r)
       PROVE  SmoothInv'
  <2>1. /\ Busy(r) /\ End(r) /\ tunnel' = tunnel /\ stored' = Cleared(request[r].provider)
        /\ left' = left /\ ~Looks(r)
    BY <1>14 DEF ConcludeSwitch, Select, At, Busy, Looks, SmoothInv, Tells
  <2>2. request[r].provider = active
    BY <2>1 DEF OrderlyInv
  <2>3. \A p \in Providers : stored'[p] = None
    BY <2>1, <2>2 DEF Cleared, SmoothInv, StoredForActive, TypeOK
  <2>4. active' \in Providers
    BY DEF TypeOK
  <2> QED
    BY <1>10, <2>1, <2>3, <2>4 DEF StoredForActive
<1>15. ASSUME NEW r \in Requests, ConcludeChange(r)
       PROVE  SmoothInv'
  <2>1. /\ Busy(r) /\ End(r) /\ tunnel' = tunnel /\ active' = active /\ stored' = ToStore(r)
        /\ request[r].at = "check" /\ request[r].seen = Wish(r) /\ tunnel[active] = Wish(r)
        /\ left' = left /\ ~Looks(r)
    BY <1>15 DEF ConcludeChange, At, Busy, Looks, SmoothInv, Tells, Changes
  <2>2. request[r].provider = active /\ active \in Providers
    BY <2>1 DEF OrderlyInv, TypeOK
  <2>3. CASE Wish(r) = None
    BY <1>10, <2>1, <2>2, <2>3 DEF ToStore, Cleared, SmoothInv, StoredForActive, TypeOK
  <2>4. CASE Wish(r) # None
    BY <1>10, <2>1, <2>2, <2>4 DEF ToStore, Saved, SmoothInv, StoredForActive, TypeOK
  <2> QED
    BY <2>3, <2>4
<1>16. ASSUME NEW r \in Requests, Command(r)
       PROVE  SmoothInv'
  <2>1. /\ Busy(r) /\ request[r].at = "command" /\ request'[r].at = "check" /\ request'[r].kind = request[r].kind
        /\ request'[r].to = request[r].to
        /\ active' = active /\ stored' = stored /\ \A k \in Requests \ {r} : request'[k] = request[k]
    BY <1>16, CommandMoved, StagesOf DEF Busy, TypeOK, Fits
  <2>2. request[r].provider = active /\ active \in Providers
    BY <2>1 DEF OrderlyInv, TypeOK
  <2>3. request'[r].ok /\ request'[r].seen = Wish(r)
    BY <2>1 DEF Failed
  <2>4. request[r].kind \in {"connect", "restore"} => Wish(r) # None
    BY <2>1 DEF Wish, TypeOK, Fits
  <2>5. tunnel'[active] = Wish(r)
    BY <1>16, <2>1, <2>2, <2>3, <2>4, CommandMoved DEF TypeOK
  <2>6. Wish(r)' = Wish(r)
    BY <2>1 DEF Wish
  <2>7. Tells(r)'
    BY <2>1, <2>3, <2>5, <2>6 DEF Tells
  <2>8. Wish(r) # None \/ WillSettle(r)'
    BY <2>1, <2>4, StagesOf DEF WillSettle, TypeOK, Fits, RequestStates, Kinds, Changes
  <2>9. StoredForActive'
    BY <2>1 DEF SmoothInv, StoredForActive
  <2>10. \A k \in Requests \ {r} : request'[k].kind = "none"
    BY <2>1, OthersRest
  <2>11. left' = {}
    <3>1. left = {}
      BY <2>1, NothingLeft DEF Looks
    <3>2. left' = left
      BY <1>16, <2>3, CommandMoved
    <3> QED
      BY <3>1, <3>2
  <2> QED
    BY <2>1, <2>5, <2>7, <2>8, <2>9, <2>10, <2>11, SmoothMove
\* A connection that ends, or a command that was left goes on.
<1>17. ASSUME \/ \E p \in Providers : Drop(p)
              \/ \E c \in left : LeftEnds(c)
       PROVE  SmoothInv'
  <2>1. active' = active /\ stored' = stored /\ request' = request /\ left' \subseteq left
    BY <1>17 DEF Drop, LeftEnds
  <2>2. left # {}
    BY <1>17 DEF Drop, Dropped, TypeOK
  <2>3. \A r \in Requests : request[r].kind = "none" \/ Looks(r)
    BY <2>2 DEF SmoothInv, Undisturbed, Looks
  <2>4. \A r \in Requests : Tells(r)'
    BY <2>1, <2>3, StagesOf DEF Tells, Looks, TypeOK, Fits
  <2>5. stored[active] # None => \E r \in Requests : Looks(r)
    BY <2>2 DEF SmoothInv
  <2>6. \A r \in Requests : Looks(r) => Looks(r)' /\ WillSettle(r)'
    BY <2>1 DEF Looks, WillSettle
  <2> QED
    BY <2>1, <2>4, <2>5, <2>6 DEF SmoothInv, StoredForActive
<1>18. CASE Restart
  <2>1. PICK r \in Requests : request' = [k \in Requests |-> IF k = r THEN Restored(r) ELSE Idle]
    BY <1>18 DEF Restart
  <2>2. active' = active /\ stored' = stored /\ active \in Providers
    BY <1>18 DEF Restart, TypeOK
  <2>3. \A k \in Requests \ {r} : request'[k].kind = "none"
    BY <2>1 DEF Idle
  <2>4. stored[active] # None => request'[r].kind = "restore" /\ request'[r].at = "health"
    BY <2>1 DEF Restored, Idle
  <2>5. request'[r].at \in {"none", "health"}
    BY <2>1 DEF Restored, Idle
  <2>6. StoredForActive' /\ Tells(r)'
    BY <2>2, <2>5 DEF SmoothInv, StoredForActive, Tells
  <2>7. stored'[active'] # None => WillSettle(r)' /\ Looks(r)'
    BY <2>2, <2>4 DEF WillSettle, Looks
  <2> QED
    BY <2>3, <2>6, <2>7, SmoothMove
<1> QED
  BY <1>2, <1>5, <1>6, <1>7, <1>8, <1>9, <1>12, <1>13, <1>14, <1>15, <1>16, <1>17, <1>18 DEF Next

LEMMA SmoothStep ==
  TypeOK /\ TypeOK' /\ OrderlyInv /\ OrderlyInv' /\ SmoothInv /\ [PNext]_pvars => SmoothInv'
<1> SUFFICES ASSUME TypeOK, TypeOK', OrderlyInv, OrderlyInv', SmoothInv, [PNext]_pvars, smooth'
             PROVE  SmoothInv'
  BY DEF SmoothInv
<1>1. CASE UNCHANGED pvars
  BY <1>1 DEF pvars, vars, SmoothInv, StoredForActive, Undisturbed, Looks, Tells, WillSettle, Wish
<1>2. CASE PNext /\ (Settled /\ OnlyActive /\ Kept /\ left = {})'
  <2>1. orderly' /\ StoredForActive' /\ Undisturbed' /\ active' \in Providers
    BY <1>2 DEF PNext, PromisesNext, Settled, OnlyActive, LeftForActive, Kept, StoredForActive,
                Undisturbed, TypeOK
  <2>2. \A r \in Requests : request'[r].at = "none"
    BY <1>2, StagesOf DEF Settled, TypeOK, Fits
  <2>3. \A r \in Requests : Tells(r)'
    BY <2>2 DEF Tells
  <2> QED
    BY <1>2, <2>1, <2>3 DEF SmoothInv, Kept
<1>3. CASE PNext /\ smooth /\ orderly' /\ ~Dropped /\ Undisturbed' /\ \A r \in Requests : ~Failed(r)
  BY <1>3, SmoothGoesOn DEF PNext, SmoothInv
<1> QED
  BY <1>1, <1>2, <1>3 DEF PNext, PromisesNext

\* If also no command fails and no connection ends by itself, a provider for which
\* a location is stored is connected when nothing is in progress.
THEOREM StoredIsConnectedHolds == PSpec => []StoredIsConnected
<1>1. PInit => TypeOK /\ OrderlyInv /\ SmoothInv
  <2> SUFFICES ASSUME PInit
               PROVE  TypeOK /\ OrderlyInv /\ SmoothInv
    OBVIOUS
  <2>1. TypeOK /\ \A r \in Requests : request[r].kind = "none" /\ request[r].at = "none"
    BY IdleFits DEF PInit, Init, TypeOK, Idle
  <2>2. /\ OnlyActive /\ StoredForActive /\ left = {}
        /\ LeftForActive /\ Apart /\ Undisturbed /\ \A p \in Providers : stored[p] = None
    BY DEF PInit, Init, OnlyActive, StoredForActive, LeftForActive, Apart, Undisturbed
  <2>3. \A r \in Requests : Tells(r)
    BY <2>1 DEF Tells
  <2> QED
    BY <2>1, <2>2, <2>3 DEF OrderlyInv, SmoothInv, Busy, TypeOK, PInit
<1>2. TypeOK /\ OrderlyInv /\ SmoothInv /\ [PNext]_pvars => (TypeOK /\ OrderlyInv /\ SmoothInv)'
  BY PStep, TypeStep, OrderlyStep, SmoothStep
<1>3. TypeOK /\ SmoothInv => StoredIsConnected
  BY DEF TypeOK, SmoothInv, StoredIsConnected, StoredForActive, Settled, Kept, WillSettle
<1> QED
  BY <1>1, <1>2, <1>3, PTL DEF PSpec
=============================================================================
