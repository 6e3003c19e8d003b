------------------------ MODULE PolicyRoutingProofs ------------------------
(***************************************************************************)
(* Proofs about the policy routing for any gateways and any number of      *)
(* overlapping connection checks: what the queue says is in order is in    *)
(* force, and no check waits for tasks that do not exist.                  *)
(***************************************************************************)
EXTENDS PolicyRouting, TLAPS

USE GatewaysAssumption, PrefixedAssumption, CallersAssumption, SwitchAssumption

\* Where a caller that installs, and one that removes, may be.
Installing == {"nftOn", "detect", "table", "replace", "rules", "add", "concluded"}
Removing   == {"nftOff", "del", "flush", "flushed"}

TypeOK ==
  /\ active \in BOOLEAN /\ installed \in BOOLEAN /\ lastSync \in BOOLEAN /\ rule \in BOOLEAN
  /\ waiting \in Nat
  /\ lastGateway \in Gateways \cup {NoGateway}
  /\ route \in Gateways \cup {NoGateway}
  /\ main \in Gateways \cup {NoGateway}
  /\ pc \in [Callers -> Points]
  /\ gateway \in [Callers -> Gateways \cup {NoGateway}]
  /\ ahead \in [Checks -> Nat]

\* Only the queue waits for nft or removes anything.
ChecksRefresh == \A c \in Checks : pc[c] \notin Removing \cup {"nftOn"}

\* Who looks at the table or replaces the route has a gateway.
GatewayKnown == \A c \in Callers : pc[c] \in {"table", "replace"} => gateway[c] \in Gateways

\* Nothing waits behind an idle queue, and the last task does what the settings want.
LastTaskFits ==
  /\ QueueIdle => waiting = 0
  /\ waiting = 0 /\ pc[Queue] \in Installing => active
  /\ waiting = 0 /\ pc[Queue] \in Removing => ~active

\* What the running task has arranged stays.
TaskArranges ==
  /\ pc[Queue] \in {"rules", "add", "concluded"} => route # NoGateway
  /\ pc[Queue] = "concluded" => rule

\* A check that waits does so for tasks that are there.
WaitsForTasks ==
  \A c \in Checks : pc[c] = "wait" => ~QueueIdle /\ ahead[c] \in 1 .. waiting + 1

RoutingInv ==
  TypeOK /\ ChecksRefresh /\ GatewayKnown /\ LastTaskFits /\ TaskArranges /\ WaitsForTasks /\ InForce

\* What the kernel and the process have, they keep.
NothingLost == (rule => rule') /\ (route # NoGateway => route' # NoGateway) /\ (installed => installed')

\* The variables that no caller's progress touches have their types.
RestTyped ==
  /\ active' = active /\ installed' \in BOOLEAN /\ rule' \in BOOLEAN
  /\ lastGateway' \in Gateways \cup {NoGateway}
  /\ route' \in Gateways \cup {NoGateway}
  /\ main' \in Gateways \cup {NoGateway}

-----------------------------------------------------------------------------
(* What the ends of the steps have in common                               *)

LEMMA PointsOfCallers ==
  /\ Queue \in Callers /\ Checks \subseteq Callers /\ Queue \notin Checks
  /\ "idle" \in Points /\ "wait" \in Points /\ RefreshPoint \in {"detect", "idle"}
  /\ \A on \in BOOLEAN : FirstPoint(on) \in IF on THEN {"nftOn"} ELSE {"nftOff"}
  /\ Installing \subseteq Points /\ Removing \subseteq Points /\ Installing \cap Removing = {}
  /\ {"idle", "wait"} \cap (Installing \cup Removing) = {}
BY DEF Callers, Points, RefreshPoint, FirstPoint, Installing, Removing

\* The refresh of a check ends.
LEMMA CheckReturns ==
  ASSUME RoutingInv, NEW c \in Checks, NEW ok, Return(c, ok), pc[c] # "wait",
         RestTyped, gateway' = gateway, NothingLost
  PROVE  RoutingInv'
<1>1. /\ pc' = [pc EXCEPT ![c] = "idle"]
      /\ waiting' = waiting /\ ahead' = ahead /\ lastSync' = lastSync
  BY PointsOfCallers DEF Return
<1>2. pc'[c] = "idle" /\ \A k \in Callers \ {c} : pc'[k] = pc[k]
  BY <1>1, PointsOfCallers DEF RoutingInv, TypeOK
<1>3. pc'[Queue] = pc[Queue]
  BY <1>2, PointsOfCallers
<1>4. TypeOK'
  BY <1>1, PointsOfCallers DEF RoutingInv, TypeOK, RestTyped
<1>5. ChecksRefresh'
  BY <1>2, PointsOfCallers DEF RoutingInv, ChecksRefresh, Removing
<1>6. GatewayKnown'
  BY <1>2 DEF RoutingInv, GatewayKnown
<1>7. LastTaskFits' /\ TaskArranges' /\ InForce'
  BY <1>1, <1>3 DEF RoutingInv, LastTaskFits, TaskArranges, InForce, QueueIdle, NothingLost, RestTyped
<1>8. WaitsForTasks'
  BY <1>1, <1>2, <1>3, PointsOfCallers DEF RoutingInv, WaitsForTasks, QueueIdle
<1> QED
  BY <1>4, <1>5, <1>6, <1>7, <1>8 DEF RoutingInv

\* A task ends: the next one starts with the settings of now, and the checks that
\* waited for this one go on.
LEMMA TaskReturns ==
  ASSUME RoutingInv, NEW ok \in BOOLEAN, Return(Queue, ok), ~QueueIdle,
         RestTyped, gateway' = gateway,
         waiting = 0 /\ active /\ ok => rule' /\ route' # NoGateway /\ installed'
  PROVE  RoutingInv'
<1>1. /\ lastSync' = ok
      /\ waiting' = IF waiting > 0 THEN waiting - 1 ELSE 0
      /\ ahead' = [k \in Checks |-> IF pc[k] = "wait" THEN ahead[k] - 1 ELSE ahead[k]]
      /\ pc' = [k \in Callers |->
                 IF k = Queue THEN IF waiting > 0 THEN FirstPoint(active) ELSE "idle"
                 ELSE IF pc[k] = "wait" /\ ahead[k] = 1 THEN RefreshPoint ELSE pc[k]]
  BY DEF Return
<1>2. /\ active \in BOOLEAN /\ waiting \in Nat /\ ahead \in [Checks -> Nat]
      /\ pc \in [Callers -> Points]
  BY DEF RoutingInv, TypeOK
<1>3. pc'[Queue] = IF waiting > 0 THEN FirstPoint(active) ELSE "idle"
  BY <1>1, PointsOfCallers
<1>4. \A k \in Checks : pc'[k] = IF pc[k] = "wait" /\ ahead[k] = 1 THEN RefreshPoint ELSE pc[k]
  BY <1>1, PointsOfCallers
<1>5. waiting' \in Nat
  BY <1>1, <1>2
<1>6. ahead' \in [Checks -> Nat]
  <2>1. \A k \in Checks : pc[k] = "wait" => ahead[k] - 1 \in Nat
    BY <1>2 DEF RoutingInv, WaitsForTasks
  <2> QED
    BY <1>1, <1>2, <2>1
<1>7. pc' \in [Callers -> Points]
  BY <1>1, <1>2, PointsOfCallers DEF Installing, Removing, Points
<1>8. TypeOK'
  BY <1>1, <1>5, <1>6, <1>7 DEF RoutingInv, TypeOK, RestTyped
<1>9. ChecksRefresh'
  BY <1>4, PointsOfCallers DEF RoutingInv, ChecksRefresh, Removing
<1>10. GatewayKnown'
  <2>1. \A k \in Checks : pc'[k] \in {"table", "replace"} => gateway'[k] \in Gateways
    BY <1>4, PointsOfCallers DEF RoutingInv, GatewayKnown
  <2>2. pc'[Queue] \notin {"table", "replace"}
    BY <1>2, <1>3, PointsOfCallers
  <2> QED
    BY <2>1, <2>2 DEF GatewayKnown, Callers
<1>11. LastTaskFits' /\ TaskArranges'
  <2>1. CASE waiting > 0
    <3>1. pc'[Queue] = IF active THEN "nftOn" ELSE "nftOff"
      BY <1>2, <1>3, <2>1 DEF FirstPoint
    <3>2. active' = active
      BY DEF RestTyped
    <3> QED
      BY <1>2, <3>1, <3>2 DEF LastTaskFits, TaskArranges, QueueIdle, Installing, Removing
  <2>2. CASE waiting = 0
    <3>1. pc'[Queue] = "idle" /\ waiting' = 0
      BY <1>1, <1>3, <2>2
    <3> QED
      BY <3>1 DEF LastTaskFits, TaskArranges, QueueIdle, Installing, Removing
  <2> QED
    BY <1>2, <2>1, <2>2
<1>12. InForce'
  <2>1. QueueIdle' => waiting = 0
    <3>1. FirstPoint(active) # "idle"
      BY DEF FirstPoint
    <3> QED
      BY <1>2, <1>3, <3>1 DEF QueueIdle
  <2>2. active' = active /\ lastSync' = ok
    BY <1>1 DEF RestTyped
  <2> QED
    BY <2>1, <2>2 DEF InForce
<1>13. WaitsForTasks'
  <2> SUFFICES ASSUME NEW k \in Checks, pc'[k] = "wait"
               PROVE  ~QueueIdle' /\ ahead'[k] \in 1 .. waiting' + 1
    BY DEF WaitsForTasks
  <2>1. pc[k] = "wait" /\ ahead[k] # 1
    BY <1>4, PointsOfCallers
  <2>2. ahead[k] \in 2 .. waiting + 1
    BY <1>2, <2>1 DEF RoutingInv, WaitsForTasks
  <2>3. waiting > 0 /\ waiting' = waiting - 1 /\ ahead'[k] = ahead[k] - 1
    BY <1>1, <1>2, <2>1, <2>2
  <2>4. ~QueueIdle'
    BY <1>2, <1>3, <2>3, PointsOfCallers DEF QueueIdle
  <2> QED
    BY <1>2, <2>2, <2>3, <2>4
<1> QED
  BY <1>8, <1>9, <1>10, <1>11, <1>12, <1>13 DEF RoutingInv

\* A caller goes on with its sync.
LEMMA GoesOn ==
  ASSUME RoutingInv, NEW c \in Callers, NEW point \in Points, Goto(c, point), pc[c] # "wait", pc[c] # "idle",
         RestTyped, gateway' \in [Callers -> Gateways \cup {NoGateway}],
         \A k \in Callers \ {c} : gateway'[k] = gateway[k],
         point \in {"table", "replace"} => gateway'[c] \in Gateways,
         point \in IF pc[c] \in Installing THEN Installing \ {"nftOn"} ELSE Removing,
         c = Queue /\ point \in {"rules", "add", "concluded"} => route' # NoGateway,
         c = Queue /\ point = "concluded" => rule',
         c # Queue => NothingLost
  PROVE  RoutingInv'
<1>1. /\ pc' = [pc EXCEPT ![c] = point]
      /\ waiting' = waiting /\ ahead' = ahead /\ lastSync' = lastSync
  BY DEF Goto
<1>2. pc'[c] = point /\ \A k \in Callers \ {c} : pc'[k] = pc[k]
  BY <1>1 DEF RoutingInv, TypeOK
<1>3. point \notin {"idle", "wait"} /\ (c \in Checks => point \notin Removing \cup {"nftOn"})
  BY PointsOfCallers DEF RoutingInv, ChecksRefresh, TypeOK, Points, Installing, Removing
<1>4. TypeOK'
  BY <1>1 DEF RoutingInv, TypeOK, RestTyped
<1>5. ChecksRefresh'
  BY <1>2, <1>3, PointsOfCallers DEF RoutingInv, ChecksRefresh
<1>6. GatewayKnown'
  BY <1>2 DEF RoutingInv, GatewayKnown
<1>7. CASE c = Queue
  <2>1. pc'[Queue] = point /\ ~QueueIdle /\ ~QueueIdle'
    BY <1>2, <1>3, <1>7 DEF QueueIdle
  <2>2. LastTaskFits'
    BY <1>1, <1>7, <2>1, PointsOfCallers
       DEF RoutingInv, LastTaskFits, RestTyped, QueueIdle, Installing, Removing, TypeOK, Points
  <2>3. TaskArranges' /\ InForce'
    BY <1>7, <2>1 DEF TaskArranges, InForce
  <2>4. WaitsForTasks'
    BY <1>1, <1>2, <1>7, <2>1, PointsOfCallers DEF RoutingInv, WaitsForTasks
  <2> QED
    BY <1>4, <1>5, <1>6, <2>2, <2>3, <2>4 DEF RoutingInv
<1>8. CASE c # Queue
  <2>1. pc'[Queue] = pc[Queue]
    BY <1>2, <1>8, PointsOfCallers
  <2>2. LastTaskFits' /\ TaskArranges' /\ InForce'
    BY <1>1, <1>8, <2>1
       DEF RoutingInv, LastTaskFits, TaskArranges, InForce, QueueIdle, NothingLost, RestTyped
  <2>3. WaitsForTasks'
    BY <1>1, <1>2, <1>3, <2>1, PointsOfCallers DEF RoutingInv, WaitsForTasks, QueueIdle
  <2> QED
    BY <1>4, <1>5, <1>6, <2>2, <2>3 DEF RoutingInv
<1> QED
  BY <1>7, <1>8

-----------------------------------------------------------------------------
(* The steps                                                               *)

LEMMA RoutingStep == RoutingInv /\ [Next]_vars => RoutingInv'
<1> SUFFICES ASSUME RoutingInv, [Next]_vars
             PROVE  RoutingInv'
  OBVIOUS
<1>0. /\ TypeOK /\ pc \in [Callers -> Points] /\ waiting \in Nat
      /\ gateway \in [Callers -> Gateways \cup {NoGateway}]
  BY DEF RoutingInv, TypeOK
<1>1. ASSUME NEW on \in BOOLEAN, Notify(on)
      PROVE  RoutingInv'
  <2>1. /\ active' = on /\ UNCHANGED <<installed, lastGateway, gateway, ahead, lastSync, kernel, main>>
    BY <1>1 DEF Notify
  <2>2. CASE on = active /\ UNCHANGED <<waiting, pc>>
    BY <2>1, <2>2
       DEF RoutingInv, TypeOK, ChecksRefresh, GatewayKnown, LastTaskFits, TaskArranges, WaitsForTasks,
           InForce, QueueIdle, kernel
  <2>3. CASE Enqueue(on) /\ QueueIdle
    <3>1. /\ pc' = [pc EXCEPT ![Queue] = FirstPoint(on)] /\ waiting' = waiting /\ waiting = 0
      BY <2>3 DEF Enqueue, RoutingInv, LastTaskFits
    <3>2. /\ pc'[Queue] = (IF on THEN "nftOn" ELSE "nftOff")
          /\ \A k \in Checks : pc'[k] = pc[k]
      BY <1>0, <3>1, PointsOfCallers DEF FirstPoint
    <3>3. TypeOK'
      BY <2>1, <3>1, PointsOfCallers DEF RoutingInv, TypeOK, kernel, Installing, Removing
    <3>4. ChecksRefresh' /\ GatewayKnown'
      BY <2>1, <3>2, PointsOfCallers DEF RoutingInv, ChecksRefresh, GatewayKnown, Callers
    <3>5. LastTaskFits' /\ TaskArranges' /\ InForce'
      BY <2>1, <3>2 DEF LastTaskFits, TaskArranges, InForce, QueueIdle, Installing, Removing
    <3>6. WaitsForTasks'
      BY <2>1, <2>3, <3>2 DEF RoutingInv, WaitsForTasks
    <3> QED
      BY <3>3, <3>4, <3>5, <3>6 DEF RoutingInv
  <2>4. CASE Enqueue(on) /\ ~QueueIdle
    <3>1. waiting' = waiting + 1 /\ pc' = pc
      BY <2>4 DEF Enqueue
    <3>2. TypeOK' /\ ChecksRefresh' /\ GatewayKnown'
      BY <1>0, <2>1, <3>1 DEF RoutingInv, TypeOK, ChecksRefresh, GatewayKnown, kernel
    <3>3. LastTaskFits' /\ TaskArranges' /\ InForce'
      BY <1>0, <2>1, <2>4, <3>1 DEF RoutingInv, LastTaskFits, TaskArranges, InForce, QueueIdle, kernel
    <3>4. WaitsForTasks'
      BY <1>0, <2>1, <3>1 DEF RoutingInv, WaitsForTasks, QueueIdle, TypeOK
    <3> QED
      BY <3>2, <3>3, <3>4 DEF RoutingInv
  <2> QED
    BY <1>1, <2>2, <2>3, <2>4 DEF Notify
<1>2. ASSUME NEW c \in Checks, Check(c)
      PROVE  RoutingInv'
  <2>1. /\ pc[c] = "idle" /\ UNCHANGED <<active, waiting, installed, lastGateway, gateway, lastSync, kernel, main>>
    BY <1>2 DEF Check
  <2>2. ASSUME NEW point \in {"detect", "idle", "wait"}, pc' = [pc EXCEPT ![c] = point],
               ahead' \in [Checks -> Nat], \A k \in Checks \ {c} : ahead'[k] = ahead[k],
               point = "wait" => ~QueueIdle /\ ahead'[c] = waiting + 1
        PROVE  RoutingInv'
    <3>1. /\ pc'[Queue] = pc[Queue] /\ pc'[c] = point
          /\ \A k \in Callers \ {c} : pc'[k] = pc[k]
      BY <1>0, <2>2, PointsOfCallers
    <3>2. TypeOK'
      BY <2>1, <2>2, PointsOfCallers DEF RoutingInv, TypeOK, kernel, Installing
    <3>3. ChecksRefresh' /\ GatewayKnown'
      BY <2>1, <2>2, <3>1, PointsOfCallers DEF RoutingInv, ChecksRefresh, GatewayKnown, Removing
    <3>4. LastTaskFits' /\ TaskArranges' /\ InForce'
      BY <2>1, <3>1 DEF RoutingInv, LastTaskFits, TaskArranges, InForce, QueueIdle, kernel
    <3>5. WaitsForTasks'
      BY <1>0, <2>1, <2>2, <3>1, PointsOfCallers DEF RoutingInv, WaitsForTasks, QueueIdle
    <3> QED
      BY <3>2, <3>3, <3>4, <3>5 DEF RoutingInv
  <2>3. CASE QueueIdle
    <3>1. pc' = [pc EXCEPT ![c] = RefreshPoint] /\ ahead' = ahead
      BY <1>2, <2>3 DEF Check
    <3> QED
      BY <2>2, <3>1, PointsOfCallers DEF RoutingInv, TypeOK
  <2>4. CASE ~QueueIdle
    <3>1. pc' = [pc EXCEPT ![c] = "wait"] /\ ahead' = [ahead EXCEPT ![c] = waiting + 1]
      BY <1>2, <2>4 DEF Check
    <3>2. /\ ahead' \in [Checks -> Nat] /\ ahead'[c] = waiting + 1
          /\ \A k \in Checks \ {c} : ahead'[k] = ahead[k]
      BY <3>1 DEF RoutingInv, TypeOK
    <3> QED
      BY <2>2, <2>4, <3>1, <3>2
  <2> QED
    BY <2>3, <2>4
<1>3. CASE FinishNft
  <2>1. RestTyped /\ NothingLost /\ gateway' = gateway
    BY <1>3 DEF FinishNft, RestTyped, NothingLost, RoutingInv, TypeOK, kernel
  <2>2. CASE pc[Queue] = "nftOn" /\ Goto(Queue, "detect")
    BY <1>0, <2>1, <2>2, GoesOn, PointsOfCallers DEF Installing
  <2>3. CASE pc[Queue] = "nftOff" /\ Goto(Queue, "del")
    BY <1>0, <2>1, <2>3, GoesOn, PointsOfCallers DEF Installing, Removing
  <2>4. CASE pc[Queue] = "nftOff" /\ Return(Queue, TRUE)
    <3>1. waiting = 0 => ~active
      BY <2>4 DEF RoutingInv, LastTaskFits, Removing
    <3> QED
      BY <2>1, <2>4, <3>1, TaskReturns DEF QueueIdle
  <2> QED
    BY <1>3, <2>2, <2>3, <2>4 DEF FinishNft
\* A sync that fails, at any of its commands.
<1>4. ASSUME NEW c \in Callers, Return(c, FALSE), pc[c] \in Installing,
             RestTyped, NothingLost, gateway' = gateway
      PROVE  RoutingInv'
  <2>1. CASE c = Queue
    BY <1>4, <2>1, TaskReturns DEF QueueIdle, Installing
  <2>2. CASE c # Queue
    BY <1>4, <2>2, CheckReturns DEF Callers, Installing
  <2> QED
    BY <2>1, <2>2
<1>5. ASSUME NEW c \in Callers, Detect(c)
      PROVE  RoutingInv'
  <2>1. pc[c] = "detect" /\ active' = active /\ installed' = installed /\ rule' = rule /\ route' = route
          /\ main' = main
    BY <1>5 DEF Detect, kernel
  <2>2. CASE Return(c, FALSE) /\ UNCHANGED <<lastGateway, gateway>>
    <3>1. RestTyped /\ NothingLost
      BY <2>1, <2>2 DEF RestTyped, NothingLost, RoutingInv, TypeOK
    <3> QED
      BY <1>4, <2>1, <2>2, <3>1 DEF Installing
  <2>3. ASSUME NEW found \in Gateways \cup {NoGateway}, found # NoGateway, lastGateway' = found,
               gateway' = [gateway EXCEPT ![c] = found], Goto(c, "table")
        PROVE  RoutingInv'
    <3>1. RestTyped /\ NothingLost
      BY <2>1, <2>3 DEF RestTyped, NothingLost, RoutingInv, TypeOK
    <3>2. /\ gateway' \in [Callers -> Gateways \cup {NoGateway}] /\ gateway'[c] \in Gateways
          /\ \A k \in Callers \ {c} : gateway'[k] = gateway[k]
      BY <1>0, <2>3
    <3> QED
      BY <2>1, <2>3, <3>1, <3>2, GoesOn DEF Installing, Points
  <2>4. (IF main # NoGateway THEN main ELSE lastGateway) \in Gateways \cup {NoGateway}
    BY DEF RoutingInv, TypeOK
  <2> QED
    BY <1>5, <2>2, <2>3, <2>4 DEF Detect
<1>6. ASSUME NEW c \in Callers, Table(c)
      PROVE  RoutingInv'
  <2>1. /\ pc[c] = "table" /\ gateway' = gateway /\ route' = route /\ RestTyped /\ NothingLost
        /\ Goto(c, IF Shows(gateway[c]) THEN "rules" ELSE "replace")
    BY <1>6 DEF Table, RestTyped, NothingLost, RoutingInv, TypeOK, kernel
  <2>2. gateway[c] \in Gateways
    BY <2>1 DEF RoutingInv, GatewayKnown
  <2>3. CASE Shows(gateway[c])
    <3>1. route # NoGateway
      BY <2>2, <2>3 DEF Shows
    <3> QED
      BY <1>0, <2>1, <2>3, <3>1, GoesOn DEF Installing, Points
  <2>4. CASE ~Shows(gateway[c])
    BY <1>0, <2>1, <2>2, <2>4, GoesOn DEF Installing, Points
  <2> QED
    BY <2>3, <2>4
<1>7. ASSUME NEW c \in Callers, ReplaceRoute(c)
      PROVE  RoutingInv'
  <2>1. pc[c] = "replace" /\ gateway' = gateway /\ gateway[c] \in Gateways
    BY <1>7 DEF ReplaceRoute, RoutingInv, GatewayKnown
  <2>2. CASE route' = gateway[c] /\ Goto(c, "rules")
    <3>1. RestTyped /\ NothingLost /\ route' # NoGateway
      BY <1>7, <2>1, <2>2 DEF ReplaceRoute, RestTyped, NothingLost, RoutingInv, TypeOK
    <3> QED
      BY <1>0, <2>1, <2>2, <3>1, GoesOn DEF Installing, Points
  <2>3. CASE Return(c, FALSE) /\ UNCHANGED route
    <3>1. RestTyped /\ NothingLost
      BY <1>7, <2>1, <2>3 DEF ReplaceRoute, RestTyped, NothingLost, RoutingInv, TypeOK
    <3> QED
      BY <1>4, <2>1, <2>3, <3>1 DEF Installing
  <2> QED
    BY <1>7, <2>2, <2>3 DEF ReplaceRoute
<1>8. ASSUME NEW c \in Callers, Rules(c)
      PROVE  RoutingInv'
  <2>1. /\ pc[c] = "rules" /\ gateway' = gateway /\ route' = route /\ rule' = rule
        /\ RestTyped /\ NothingLost /\ Goto(c, IF rule THEN "concluded" ELSE "add")
    BY <1>8 DEF Rules, RestTyped, NothingLost, RoutingInv, TypeOK, kernel
  <2>2. c = Queue => route # NoGateway
    BY <2>1 DEF RoutingInv, TaskArranges
  <2>3. CASE rule
    BY <1>0, <2>1, <2>2, <2>3, GoesOn DEF Installing, Points
  <2>4. CASE ~rule
    BY <1>0, <2>1, <2>2, <2>4, GoesOn DEF Installing, Points
  <2> QED
    BY <2>3, <2>4
<1>9. ASSUME NEW c \in Callers, AddRule(c)
      PROVE  RoutingInv'
  <2>1. pc[c] = "add" /\ gateway' = gateway /\ route' = route /\ (c = Queue => route # NoGateway)
    BY <1>9 DEF AddRule, RoutingInv, TaskArranges
  <2>2. RestTyped /\ NothingLost
    BY <1>9 DEF AddRule, RestTyped, NothingLost, RoutingInv, TypeOK
  <2>3. CASE rule' = TRUE /\ Goto(c, "concluded")
    BY <1>0, <2>1, <2>2, <2>3, GoesOn DEF Installing, Points
  <2>4. CASE Return(c, FALSE)
    BY <1>4, <2>1, <2>2, <2>4 DEF Installing
  <2> QED
    BY <1>9, <2>3, <2>4 DEF AddRule
<1>10. ASSUME NEW c \in Callers, Conclude(c)
       PROVE  RoutingInv'
  <2>1. /\ pc[c] = "concluded" /\ installed' = TRUE /\ Return(c, TRUE) /\ gateway' = gateway
        /\ RestTyped /\ NothingLost /\ rule' = rule /\ route' = route
    BY <1>10 DEF Conclude, RestTyped, NothingLost, RoutingInv, TypeOK, kernel
  <2>2. CASE c = Queue
    <3>1. rule /\ route # NoGateway
      BY <2>1, <2>2 DEF RoutingInv, TaskArranges
    <3> QED
      BY <2>1, <2>2, <3>1, TaskReturns DEF QueueIdle
  <2>3. CASE c # Queue
    BY <2>1, <2>3, CheckReturns DEF Callers
  <2> QED
    BY <2>2, <2>3
<1>11. CASE DelRule(Queue)
  <2>1. pc[Queue] = "del" /\ Goto(Queue, "flush") /\ gateway' = gateway /\ RestTyped
    BY <1>11 DEF DelRule, RestTyped, RoutingInv, TypeOK
  <2> QED
    BY <1>0, <2>1, GoesOn, PointsOfCallers DEF Installing, Removing, Points
<1>12. CASE FlushTable(Queue)
  <2>1. pc[Queue] = "flush" /\ Goto(Queue, "flushed") /\ gateway' = gateway /\ RestTyped
    BY <1>12 DEF FlushTable, RestTyped, RoutingInv, TypeOK
  <2> QED
    BY <1>0, <2>1, GoesOn, PointsOfCallers DEF Installing, Removing, Points
<1>13. CASE Forget(Queue)
  <2>1. pc[Queue] = "flushed" /\ Return(Queue, TRUE) /\ gateway' = gateway /\ RestTyped
    BY <1>13 DEF Forget, RestTyped, RoutingInv, TypeOK, kernel
  <2>2. waiting = 0 => ~active
    BY <2>1 DEF RoutingInv, LastTaskFits, Removing
  <2> QED
    BY <2>1, <2>2, TaskReturns DEF QueueIdle
<1>14. CASE GatewayChange
  BY <1>14 DEF GatewayChange, RoutingInv, TypeOK, ChecksRefresh, GatewayKnown, LastTaskFits, TaskArranges,
               WaitsForTasks, InForce, QueueIdle, program, kernel
<1>15. CASE Restart
  BY <1>15, PointsOfCallers
     DEF Restart, RoutingInv, TypeOK, ChecksRefresh, GatewayKnown, LastTaskFits, TaskArranges, WaitsForTasks,
         InForce, QueueIdle, kernel, Installing, Removing
<1>16. CASE UNCHANGED vars
  BY <1>16 DEF vars, program, kernel, RoutingInv, TypeOK, ChecksRefresh, GatewayKnown, LastTaskFits,
               TaskArranges, WaitsForTasks, InForce, QueueIdle
<1> QED
  BY <1>1, <1>2, <1>3, <1>5, <1>6, <1>7, <1>8, <1>9, <1>10, <1>11, <1>12, <1>13, <1>14, <1>15, <1>16
     DEF Next

LEMMA RoutingInvHolds == Spec => []RoutingInv
<1>1. Init => RoutingInv
  <2> SUFFICES ASSUME Init
               PROVE  RoutingInv
    OBVIOUS
  <2>1. pc[Queue] = "idle" /\ \A c \in Callers : pc[c] = "idle"
    BY PointsOfCallers DEF Init
  <2>2. TypeOK
    BY PointsOfCallers DEF Init, TypeOK
  <2>3. ChecksRefresh /\ GatewayKnown /\ WaitsForTasks
    BY <2>1, PointsOfCallers DEF ChecksRefresh, GatewayKnown, WaitsForTasks, Removing
  <2>4. LastTaskFits /\ TaskArranges /\ InForce
    BY <2>1 DEF Init, LastTaskFits, TaskArranges, InForce, Installing, Removing
  <2> QED
    BY <2>2, <2>3, <2>4 DEF RoutingInv
<1> QED
  BY <1>1, RoutingStep, PTL DEF Spec

\* When the queue has caught up with settings that want the bypass, and said that
\* routing is in order, rule and route are there and the process knows of them.
THEOREM InForceHolds == Spec => []InForce
<1>1. RoutingInv => InForce
  BY DEF RoutingInv
<1> QED
  BY <1>1, RoutingInvHolds, PTL

\* A connection check that waits for the queue does so for a task that runs or
\* waits, so it never waits for ever behind an idle queue.
THEOREM WaitsForTasksHolds == Spec => []WaitsForTasks
<1>1. RoutingInv => WaitsForTasks
  BY DEF RoutingInv
<1> QED
  BY <1>1, RoutingInvHolds, PTL
=============================================================================
