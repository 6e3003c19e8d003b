--------------------------- MODULE PolicyRouting ---------------------------
(***************************************************************************)
(* The policy routing of the domain bypass                                 *)
(* (proxy/src/network/policy-routing.ts) and its two callers: the          *)
(* reconcile tasks of the gateway controller, which run one after another, *)
(* and the connection checks, which wait for the tasks queued before them  *)
(* and then refresh outside the queue.  Every `ip` command is an await: it *)
(* takes effect, and what follows it runs, while the other callers go on.  *)
(*                                                                         *)
(* The LAN interface is configured and has a valid name: without one sync  *)
(* does nothing.                                                           *)
(***************************************************************************)
EXTENDS Naturals, FiniteSets

CONSTANTS
  Gateways,      \* addresses of default gateways
  NoGateway,
  Prefixed,      \* pairs <<g, h>>: the text of g is a proper prefix of that of h
  Checks,        \* connection checks that may run at the same time
  Queue,         \* the promise chain, as a caller of sync
  MaxWaiting,    \* bound: tasks waiting behind the running one
  Faults,        \* may an ip command that changes something fail?
  Restarts       \* may the proxy process restart?

ASSUME GatewaysAssumption == NoGateway \notin Gateways
ASSUME PrefixedAssumption == Prefixed \subseteq Gateways \X Gateways
ASSUME CallersAssumption  == IsFiniteSet(Checks) /\ Queue \notin Checks
ASSUME BoundAssumption    == MaxWaiting \in Nat
ASSUME SwitchAssumption   == Faults \in BOOLEAN /\ Restarts \in BOOLEAN

Callers == Checks \cup {Queue}

VARIABLES
  active,        \* isBypassActive: the settings want the bypass
  waiting,       \* reconcile tasks behind the running one
  installed,     \* PolicyRouting.installed
  lastGateway,   \* PolicyRouting.lastGateway
  pc,            \* where each caller is
  gateway,       \* the local variable of each sync(true)
  ahead,         \* tasks a connection check still waits for
  lastSync,      \* history: what the last sync of the queue returned
  rule, route,   \* the kernel: the fwmark rule, the default route of table 100
  main           \* the default gateway that the main table shows

program == <<active, waiting, installed, lastGateway, pc, gateway, ahead, lastSync>>
kernel  == <<rule, route>>
vars    == <<program, kernel, main>>

\* "nftOn", "nftOff": a task waits for nft, having read the settings; "wait": a
\* check waits for the queue; the others name the command under way, or the
\* assignment that follows it.
Points == {"idle", "wait", "nftOn", "nftOff", "detect", "table", "replace",
           "rules", "add", "concluded", "del", "flush", "flushed"}

QueueIdle == pc[Queue] = "idle"

Init ==
  /\ active = FALSE
  /\ waiting = 0
  /\ installed = FALSE
  /\ lastGateway = NoGateway
  /\ pc = [c \in Callers |-> "idle"]
  /\ gateway = [c \in Callers |-> NoGateway]
  /\ ahead = [c \in Checks |-> 0]
  /\ lastSync = FALSE
  /\ rule \in BOOLEAN
  /\ route \in Gateways \cup {NoGateway}
  /\ rule => route # NoGateway
  /\ main \in Gateways \cup {NoGateway}

-----------------------------------------------------------------------------
(* The queue and the checks that wait for it                               *)

FirstPoint(on) == IF on THEN "nftOn" ELSE "nftOff"

\* A reconcile with the settings on: it starts at once if nothing runs.
Enqueue(on) ==
  IF QueueIdle
  THEN pc' = [pc EXCEPT ![Queue] = FirstPoint(on)] /\ UNCHANGED waiting
  ELSE waiting < MaxWaiting /\ waiting' = waiting + 1 /\ UNCHANGED pc

\* New settings; those that leave the bypass as it is may also be repeated
\* ones, which do nothing, and a change of tunnel only reconciles.
Notify(on) ==
  /\ active' = on
  /\ \/ on = active /\ UNCHANGED <<waiting, pc>>
     \/ Enqueue(on)
  /\ UNCHANGED <<installed, lastGateway, gateway, ahead, lastSync, kernel, main>>

\* refreshPolicyRouting begins, if the settings still want the bypass.
RefreshPoint == IF active THEN "detect" ELSE "idle"

\* A connection check waits for the tasks it finds and refreshes.
Check(c) ==
  /\ c \in Checks /\ pc[c] = "idle"
  /\ IF QueueIdle
     THEN pc' = [pc EXCEPT ![c] = RefreshPoint] /\ UNCHANGED ahead
     ELSE pc' = [pc EXCEPT ![c] = "wait"] /\ ahead' = [ahead EXCEPT ![c] = waiting + 1]
  /\ UNCHANGED <<active, waiting, installed, lastGateway, gateway, lastSync, kernel, main>>

\* The sync of a caller returns ok.  The end of a task starts the next one,
\* with the settings of now, and releases the checks that waited for it.
Return(c, ok) ==
  IF c # Queue
  THEN /\ pc' = [pc EXCEPT ![c] = "idle"]
       /\ UNCHANGED <<waiting, ahead, lastSync>>
  ELSE /\ lastSync' = ok
       /\ waiting' = IF waiting > 0 THEN waiting - 1 ELSE 0
       /\ ahead' = [k \in Checks |-> IF pc[k] = "wait" THEN ahead[k] - 1 ELSE ahead[k]]
       /\ pc' = [k \in Callers |->
                  IF k = Queue THEN IF waiting > 0 THEN FirstPoint(active) ELSE "idle"
                  ELSE IF pc[k] = "wait" /\ ahead[k] = 1 THEN RefreshPoint
                  ELSE pc[k]]

Goto(c, point) ==
  /\ pc' = [pc EXCEPT ![c] = point]
  /\ UNCHANGED <<waiting, ahead, lastSync>>

-----------------------------------------------------------------------------
(* sync                                                                    *)

\* nft has ended, well or not; sync(false) has nothing to do if nothing was
\* installed by this process.
FinishNft ==
  /\ \/ pc[Queue] = "nftOn" /\ Goto(Queue, "detect")
     \/ pc[Queue] = "nftOff" /\ installed /\ Goto(Queue, "del")
     \/ pc[Queue] = "nftOff" /\ ~installed /\ Return(Queue, TRUE)
  /\ UNCHANGED <<active, installed, lastGateway, gateway, kernel, main>>

\* `ip route show default dev`: the last gateway is used when none is shown.
Detect(c) ==
  LET found == IF main # NoGateway THEN main ELSE lastGateway IN
  /\ pc[c] = "detect"
  /\ \/ found = NoGateway /\ Return(c, FALSE) /\ UNCHANGED <<lastGateway, gateway>>
     \/ /\ found # NoGateway
        /\ lastGateway' = found
        /\ gateway' = [gateway EXCEPT ![c] = found]
        /\ Goto(c, "table")
  /\ UNCHANGED <<active, installed, kernel, main>>

\* Mutant: any default route will do.
ShowsAny(g) == route # NoGateway

\* The text of the route includes "default via g".
Shows(g) == route = g \/ <<g, route>> \in Prefixed

\* `ip route show table`.
Table(c) ==
  /\ pc[c] = "table"
  /\ Goto(c, IF Shows(gateway[c]) THEN "rules" ELSE "replace")
  /\ UNCHANGED <<active, installed, lastGateway, gateway, kernel, main>>

\* `ip route replace`.
ReplaceRoute(c) ==
  /\ pc[c] = "replace"
  /\ \/ route' = gateway[c] /\ Goto(c, "rules")
     \/ Faults /\ Return(c, FALSE) /\ UNCHANGED route
  /\ UNCHANGED <<active, installed, lastGateway, gateway, rule, main>>

\* `ip rule show`.
Rules(c) ==
  /\ pc[c] = "rules"
  /\ Goto(c, IF rule THEN "concluded" ELSE "add")
  /\ UNCHANGED <<active, installed, lastGateway, gateway, kernel, main>>

\* Mutant: the exit code of `ip rule add` is ignored.
AddRuleUnchecked(c) ==
  /\ pc[c] = "add"
  /\ \/ rule' = TRUE
     \/ Faults /\ UNCHANGED rule
  /\ Goto(c, "concluded")
  /\ UNCHANGED <<active, installed, lastGateway, gateway, route, main>>

\* `ip rule add`, which refuses a rule that is there.
AddRule(c) ==
  /\ pc[c] = "add"
  /\ \/ ~rule /\ rule' = TRUE /\ Goto(c, "concluded")
     \/ (rule \/ Faults) /\ Return(c, FALSE) /\ UNCHANGED rule
  /\ UNCHANGED <<active, installed, lastGateway, gateway, route, main>>

Conclude(c) ==
  /\ pc[c] = "concluded"
  /\ installed' = TRUE
  /\ Return(c, TRUE)
  /\ UNCHANGED <<active, lastGateway, gateway, kernel, main>>

-----------------------------------------------------------------------------
(* remove: the results of its commands are ignored                         *)

DelRule(c) ==
  /\ pc[c] = "del"
  /\ \/ rule' = FALSE
     \/ Faults /\ UNCHANGED rule
  /\ Goto(c, "flush")
  /\ UNCHANGED <<active, installed, lastGateway, gateway, route, main>>

FlushTable(c) ==
  /\ pc[c] = "flush"
  /\ \/ route' = NoGateway
     \/ Faults /\ UNCHANGED route
  /\ Goto(c, "flushed")
  /\ UNCHANGED <<active, installed, lastGateway, gateway, rule, main>>

Forget(c) ==
  /\ pc[c] = "flushed"
  /\ installed' = FALSE
  /\ Return(c, TRUE)
  /\ UNCHANGED <<active, lastGateway, gateway, kernel, main>>

-----------------------------------------------------------------------------
(* The environment                                                         *)

GatewayChange ==
  /\ main' \in Gateways \cup {NoGateway}
  /\ UNCHANGED <<program, kernel>>

\* The container ends and starts again; the kernel keeps what it has.
Restart ==
  /\ Restarts
  /\ active' = FALSE /\ waiting' = 0
  /\ installed' = FALSE /\ lastGateway' = NoGateway
  /\ pc' = [c \in Callers |-> "idle"]
  /\ gateway' = [c \in Callers |-> NoGateway]
  /\ ahead' = [c \in Checks |-> 0]
  /\ lastSync' = FALSE
  /\ UNCHANGED <<kernel, main>>

Sync(c) ==
  \/ Detect(c) \/ Table(c) \/ ReplaceRoute(c) \/ Rules(c) \/ AddRule(c) \/ Conclude(c)
  \/ DelRule(c) \/ FlushTable(c) \/ Forget(c)

Next ==
  \/ \E on \in BOOLEAN : Notify(on)
  \/ \E c \in Checks : Check(c)
  \/ FinishNft
  \/ \E c \in Callers : Detect(c)
  \/ \E c \in Callers : Table(c)
  \/ \E c \in Callers : ReplaceRoute(c)
  \/ \E c \in Callers : Rules(c)
  \/ \E c \in Callers : AddRule(c)
  \/ \E c \in Callers : Conclude(c)
  \/ DelRule(Queue)
  \/ FlushTable(Queue)
  \/ Forget(Queue)
  \/ GatewayChange
  \/ Restart

Spec == Init /\ [][Next]_vars

(***************************************************************************)
(* Properties                                                              *)
(***************************************************************************)

\* When the queue has caught up with settings that want the bypass, and said
\* that routing is in order, the rule and the route are there and the process
\* knows it has to remove them: no refresh, and no removal of an earlier task,
\* undoes what the last task arranged (lines 67-103).
InForce ==
  QueueIdle /\ active /\ lastSync => rule /\ route # NoGateway /\ installed

-----------------------------------------------------------------------------
(* Liveness: the promise chain goes on, commands end, and the connection   *)
(* monitor checks every 10 s.                                              *)

Fairness ==
  /\ WF_vars(FinishNft)
  /\ \A c \in Callers : WF_vars(Sync(c))
  /\ \A c \in Checks : WF_vars(Check(c))

FairSpec == Spec /\ Fairness

\* What has to stop: new settings, restarts, a moving gateway, and commands
\* that fail.
Disturbance ==
  \/ active' # active \/ main' # main \/ waiting' > waiting
  \/ QueueIdle /\ pc'[Queue] # "idle"
  \/ \E c \in Callers : pc[c] = "replace" /\ pc'[c] # "replace" /\ route' # gateway[c]
  \/ \E c \in Callers : pc[c] = "add" /\ pc'[c] # "add" /\ ~rule'

\* Once they have stopped, a bypass that is wanted ends with marked traffic
\* routed to the gateway that the main table shows, or to one whose text begins
\* like it (the controller's comment: "following changes of the gateway",
\* gateway-controller.ts:209-210; policy-routing.ts:79 compares by inclusion).
Routed ==
  active /\ main # NoGateway => rule /\ (route = main \/ <<main, route>> \in Prefixed)
FollowsGateway == <>[][~Disturbance]_vars => <>[]Routed
=============================================================================
