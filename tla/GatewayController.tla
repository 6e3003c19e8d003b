------------------------- MODULE GatewayController -------------------------
(***************************************************************************)
(* The controller of the transparent gateway                               *)
(* (proxy/src/network/gateway-controller.ts) together with the kernel      *)
(* objects it drives: the nftables table that filters LAN traffic and the  *)
(* route the kernel picks for public addresses.                            *)
(*                                                                         *)
(* Settings notifications, connection checks and bypass registrations      *)
(* arrive as independent events of one Node process.  Everything that runs *)
(* nft goes through a promise chain, which is a FIFO of tasks with at most *)
(* one running.  Node drains promise continuations before it takes the     *)
(* next event, so an event is only taken when no task is ready to start    *)
(* (Drained).                                                              *)
(*                                                                         *)
(* Not here: the details of policy routing (PolicyRouting), the expiry of  *)
(* bypass addresses, and the text of the nft scripts.                      *)
(***************************************************************************)
EXTENDS Naturals, Sequences

CONSTANTS
  Tunnels,      \* names of the tunnel interfaces a VPN client may create
  BadNames,     \* those among them that isValidInterfaceName refuses
  Links,        \* names of the host's own network interfaces
  Lan, Wan,     \* the configured interfaces; both NoIface when not set up
  NoIface,      \* "undefined" in the code
  NoTable,      \* the vpngwgui table does not exist
  Addrs,        \* IPv4 addresses that may be registered for the bypass
  UserSettings, \* the settings the API server may notify
  Checkers,     \* concurrent callers of checkConnectionOnce
  Faults,       \* kinds of nft commands that may fail
  MaxQueue      \* bound on the tasks waiting in the promise chain

Names == Tunnels \cup Links

\* transparent: transparentGatewayEnabled; bypass: dns.bypassEnabled;
\* redirect: dns.redirect is present
Settings ==
  [transparent : BOOLEAN, killSwitch : BOOLEAN, bypass : BOOLEAN, redirect : BOOLEAN]

ASSUME NamesAssumption ==
  /\ BadNames \subseteq Tunnels
  /\ Tunnels \cap Links = {}
  /\ {NoIface, "none", "blocked"} \cap Names = {}
  /\ \/ Lan \in Links /\ Wan \in Links
     \/ Lan = NoIface /\ Wan = NoIface
ASSUME SettingsAssumption == UserSettings \subseteq Settings
ASSUME FaultsAssumption   == Faults \subseteq {"apply", "teardown", "add"}
ASSUME QueueAssumption    == MaxQueue \in Nat \ {0}

\* What the forward chain lets LAN traffic do: nothing filters it ("none"),
\* it is dropped ("blocked"), or it may leave through one interface.
Forwards == {"none", "blocked"} \cup Names

Rules == [forward : Forwards, bypass : BOOLEAN, redirect : BOOLEAN, elems : SUBSET Addrs]
ASSUME NoTableAssumption == NoTable \notin Rules

Tables == Rules \cup {NoTable}

VARIABLES
  settings,       \* the settings last notified, DefaultSettings before
  notified,       \* has this process received settings yet
  vpnIface,       \* the tunnel last detected
  hasReconciled,  \* has a reconcile been requested in this process
  lastOk,         \* lastReconcileSucceeded
  bypassSet,      \* addresses held in memory for the bypass
  queue,          \* tasks of the promise chain that have not started
  job,            \* the running task
  rejected,       \* the chain holds a rejected promise: no later task runs
  table,          \* kernel: the vpngwgui table
  egress,         \* kernel: where `ip route get` sends public traffic
  checks,         \* per checker: the interface it has read, not yet applied
  lostAdds        \* history: addresses whose `add element` did not take effect

memory == <<settings, notified, vpnIface, hasReconciled, lastOk, bypassSet>>
chain  == <<queue, job, rejected>>
vars   == <<memory, chain, table, egress, checks, lostAdds>>

DefaultSettings ==
  [transparent |-> FALSE, killSwitch |-> TRUE, bypass |-> FALSE, redirect |-> FALSE]

ReconcileTask == [kind |-> "reconcile", addrs |-> {}]
AddTask(as)   == [kind |-> "add", addrs |-> as]
Tasks         == {ReconcileTask} \cup {AddTask(as) : as \in SUBSET Addrs}

\* A running task: sent to nft, committed by the kernel but not yet reported,
\* or waiting for PolicyRouting.sync.  script is the table it installs.
IdleJob == [kind |-> "idle", phase |-> "idle", script |-> NoTable, addrs |-> {}]
Jobs ==
  [kind   : {"idle", "apply", "teardown", "add"},
   phase  : {"idle", "sent", "committed", "routing"},
   script : Tables,
   addrs  : SUBSET Addrs]

Idle    == job.kind = "idle"

\* Mutant: a task does not wait for the one before it.
ReadyAtOnce == queue # <<>> /\ ~rejected

Ready   == Idle /\ queue # <<>> /\ ~rejected
Drained == ~Ready
-----------------------------------------------------------------------------
(* The rule set                                                            *)

\* A check takes any egress interface other than the LAN one for a tunnel.
VpnOf(iface) == IF iface # Lan THEN iface ELSE NoIface

\* Where buildGatewayRuleset lets LAN traffic leave; only the last rule, the
\* drop of what came from the LAN, is left when no other applies.
ForwardFor(s, vpn) ==
  IF ~s.transparent THEN "none"
  ELSE IF vpn # NoIface THEN vpn
  ELSE IF s.killSwitch THEN "blocked"
  ELSE Wan

BuildRuleset(s, vpn, live) ==
  [forward  |-> ForwardFor(s, vpn),
   bypass   |-> s.bypass,
   redirect |-> s.redirect,
   elems    |-> IF s.bypass THEN live ELSE {}]

\* Nothing to configure, or no LAN interface to configure it on.
TeardownOnly(s) == Lan = NoIface \/ ~(s.transparent \/ s.bypass \/ s.redirect)

BypassActive == Lan # NoIface /\ settings.bypass

\* The table the current settings and tunnel call for.
Desired ==
  IF TeardownOnly(settings) THEN NoTable ELSE BuildRuleset(settings, vpnIface, bypassSet)

\* Two tables that differ at most in the bypass addresses.
SameRules(t, u) ==
  \/ t = NoTable /\ u = NoTable
  \/ /\ t # NoTable /\ u # NoTable
     /\ t.forward = u.forward /\ t.bypass = u.bypass /\ t.redirect = u.redirect

\* Traffic of LAN devices may leave by the line itself instead of a tunnel.
LineOpen(t) == t = NoTable \/ t.forward \in {"none", Wan}

-----------------------------------------------------------------------------
Init ==
  /\ settings = DefaultSettings
  /\ notified = FALSE
  /\ vpnIface = NoIface
  /\ hasReconciled = FALSE
  /\ lastOk = FALSE
  /\ bypassSet = {}
  /\ queue = <<>>
  /\ job = IdleJob
  /\ rejected = FALSE
  /\ table = NoTable
  /\ egress \in Links
  /\ checks = [c \in Checkers |-> {}]
  /\ lostAdds = {}

-----------------------------------------------------------------------------
(* Events of the process                                                   *)

\* Chains a task; on a rejected promise the callback is never called.
Enqueue(task) ==
  /\ Len(queue) < MaxQueue
  /\ queue' = IF rejected THEN queue ELSE Append(queue, task)

Reconcile ==
  /\ hasReconciled' = TRUE
  /\ Enqueue(ReconcileTask)

\* Mutants: only the mode is compared; a failed reconcile is not retried.
UnchangedMode(s)  == hasReconciled /\ lastOk /\ notified /\ s.transparent = settings.transparent
UnchangedFailed(s) == hasReconciled /\ notified /\ s = settings

\* applySettings: a notification equal to the one last applied with success
\* touches nothing, any other is recorded and reconciled.
Unchanged(s) == hasReconciled /\ lastOk /\ notified /\ s = settings

ApplySettings(s) ==
  /\ Drained
  /\ settings' = s
  /\ notified' = TRUE
  /\ IF Unchanged(s) THEN UNCHANGED <<hasReconciled, queue>> ELSE Reconcile
  /\ UNCHANGED <<vpnIface, lastOk, bypassSet, job, rejected, table, egress, checks, lostAdds>>

\* checkConnectionOnce, first half: `ip route get` answers with the route of
\* that moment.
ReadEgress(c) ==
  /\ checks[c] = {}
  /\ checks' = [checks EXCEPT ![c] = {VpnOf(egress)}]
  /\ UNCHANGED <<memory, chain, table, egress, lostAdds>>

\* checkConnectionOnce, second half: updateVpnInterface with what was read.
UpdateVpnInterface(c, vpn) ==
  /\ Drained
  /\ vpn \in checks[c]
  /\ checks' = [checks EXCEPT ![c] = {}]
  /\ vpnIface' = vpn
  /\ IF vpn = vpnIface THEN UNCHANGED <<hasReconciled, queue>> ELSE Reconcile
  /\ UNCHANGED <<settings, notified, lastOk, bypassSet, job, rejected, table, egress, lostAdds>>

\* Mutant: whether the table is there is asked when the address comes in,
\* not when its task starts.
AddBypassEarly(as) ==
  /\ Drained
  /\ as # {}
  /\ Len(queue) + 1 < MaxQueue
  /\ bypassSet' = bypassSet \cup as
  /\ IF lastOk /\ BypassActive THEN Enqueue(AddTask(as)) ELSE UNCHANGED queue
  /\ UNCHANGED <<settings, notified, vpnIface, hasReconciled, lastOk, job, rejected,
                 table, egress, checks, lostAdds>>

\* addBypass: held in memory at once, added to the kernel's set by a task of
\* the chain if the bypass is configured.
AddBypass(as) ==
  /\ Drained
  /\ as # {}
  /\ Len(queue) + 1 < MaxQueue
  /\ bypassSet' = bypassSet \cup as
  /\ IF BypassActive THEN Enqueue(AddTask(as)) ELSE UNCHANGED queue
  /\ UNCHANGED <<settings, notified, vpnIface, hasReconciled, lastOk, job, rejected,
                 table, egress, checks, lostAdds>>

-----------------------------------------------------------------------------
(* Tasks of the chain                                                      *)

Send(kind, script, as) ==
  job' = [kind |-> kind, phase |-> "sent", script |-> script, addrs |-> as]

\* Mutant: the table is deleted before the new one is built and loaded.
StartReconcileByDeleting ==
  /\ Ready
  /\ Head(queue).kind = "reconcile"
  /\ ~TeardownOnly(settings)
  /\ Send("apply", BuildRuleset(settings, vpnIface, bypassSet), {})
  /\ queue' = Tail(queue)
  /\ table' = NoTable
  /\ UNCHANGED <<memory, rejected, egress, checks, lostAdds>>

\* applyCurrentState up to its first await.
StartReconcile ==
  /\ Ready
  /\ Head(queue).kind = "reconcile"
  /\ \/ /\ TeardownOnly(settings)
        /\ Send("teardown", NoTable, {})
        /\ queue' = Tail(queue)
        /\ UNCHANGED <<bypassSet, rejected>>
     \/ /\ ~TeardownOnly(settings)
        /\ bypassSet' = IF settings.bypass THEN bypassSet ELSE {}
        /\ IF vpnIface \in BadNames
           THEN /\ rejected' = TRUE          \* buildGatewayRuleset throws
                /\ queue' = <<>>
                /\ UNCHANGED job
           ELSE /\ Send("apply", BuildRuleset(settings, vpnIface, bypassSet), {})
                /\ queue' = Tail(queue)
                /\ UNCHANGED rejected
  /\ UNCHANGED <<settings, notified, vpnIface, hasReconciled, lastOk, table, egress, checks, lostAdds>>

\* The callback of addBypass: skipped when the table is not known to be
\* there, since the next reconcile takes the addresses from memory.
StartAdd ==
  /\ Ready
  /\ Head(queue).kind = "add"
  /\ queue' = Tail(queue)
  /\ IF lastOk /\ BypassActive THEN Send("add", NoTable, Head(queue).addrs) ELSE UNCHANGED job
  /\ UNCHANGED <<memory, rejected, table, egress, checks, lostAdds>>

-----------------------------------------------------------------------------
(* nft and the kernel                                                      *)

\* The nft transaction takes effect as a whole.
TableAfter ==
  IF job.kind = "add" THEN [table EXCEPT !.elems = @ \cup job.addrs] ELSE job.script

CanCommit ==
  /\ job.phase = "sent"
  /\ job.kind = "teardown" => table # NoTable
  /\ job.kind = "add" => table # NoTable /\ table.bypass

NftCommit ==
  /\ CanCommit
  /\ table' = TableAfter
  /\ job' = [job EXCEPT !.phase = "committed"]
  /\ lostAdds' = IF job.kind = "add" THEN lostAdds \ job.addrs ELSE {}
  /\ UNCHANGED <<memory, queue, rejected, egress, checks>>

\* nft ended with an error, or was killed at its time limit before or after
\* the kernel committed.  Deleting a table that is not there is an error too.
NftMayFail == job.kind \in Faults \/ (job.phase = "sent" /\ ~CanCommit)

ExitOk   == job.phase = "committed"
ExitFail == job.phase \in {"sent", "committed"} /\ NftMayFail

\* Mutant: the result of nft is not looked at.
FinishApplyBlindly ==
  /\ job.kind = "apply"
  /\ ExitOk \/ ExitFail
  /\ lastOk' = TRUE
  /\ job' = [job EXCEPT !.phase = "routing"]
  /\ UNCHANGED <<settings, notified, vpnIface, hasReconciled, bypassSet, queue, rejected,
                 table, egress, checks, lostAdds>>

FinishApply ==
  /\ job.kind = "apply"
  /\ \/ ExitOk   /\ lastOk' = TRUE
     \/ ExitFail /\ lastOk' = FALSE
  /\ job' = [job EXCEPT !.phase = "routing"]
  /\ UNCHANGED <<settings, notified, vpnIface, hasReconciled, bypassSet, queue, rejected,
                 table, egress, checks, lostAdds>>

\* The result of a teardown is ignored.
FinishTeardown ==
  /\ job.kind = "teardown"
  /\ ExitOk \/ ExitFail
  /\ bypassSet' = {}
  /\ job' = [job EXCEPT !.phase = "routing"]
  /\ UNCHANGED <<settings, notified, vpnIface, hasReconciled, lastOk, queue, rejected,
                 table, egress, checks, lostAdds>>

FinishAdd ==
  /\ job.kind = "add"
  /\ \/ ExitOk   /\ UNCHANGED lostAdds
     \/ ExitFail /\ lostAdds' = IF job.phase = "sent" THEN lostAdds \cup job.addrs ELSE lostAdds
  /\ job' = IdleJob
  /\ UNCHANGED <<memory, queue, rejected, table, egress, checks>>

\* PolicyRouting.sync has returned; its result changes nothing here.
FinishRouting ==
  /\ job.phase = "routing"
  /\ lastOk' = IF job.kind = "teardown" THEN TRUE ELSE lastOk
  /\ job' = IdleJob
  /\ UNCHANGED <<settings, notified, vpnIface, hasReconciled, bypassSet, queue, rejected,
                 table, egress, checks, lostAdds>>

-----------------------------------------------------------------------------
(* The environment                                                         *)

\* A tunnel comes up, goes down or is replaced; the route may also be missing.
EgressChange(e) ==
  /\ e # egress
  /\ egress' = e
  /\ UNCHANGED <<memory, chain, table, checks, lostAdds>>

\* The proxy process ends and starts again.  The table stays in the kernel,
\* an nft command that was running may still take effect.
Restart ==
  /\ settings' = DefaultSettings
  /\ notified' = FALSE
  /\ vpnIface' = NoIface
  /\ hasReconciled' = FALSE
  /\ lastOk' = FALSE
  /\ bypassSet' = {}
  /\ queue' = <<>>
  /\ job' = IdleJob
  /\ rejected' = FALSE
  /\ checks' = [c \in Checkers |-> {}]
  /\ table' \in {table} \cup (IF CanCommit THEN {TableAfter} ELSE {})
  /\ lostAdds' = {}
  /\ UNCHANGED egress

-----------------------------------------------------------------------------
Next ==
  \/ \E s \in UserSettings : ApplySettings(s)
  \/ \E c \in Checkers : ReadEgress(c)
  \/ \E c \in Checkers, vpn \in Names \cup {NoIface} : UpdateVpnInterface(c, vpn)
  \/ \E as \in SUBSET Addrs : AddBypass(as)
  \/ StartReconcile
  \/ StartAdd
  \/ NftCommit
  \/ FinishApply
  \/ FinishTeardown
  \/ FinishAdd
  \/ FinishRouting
  \/ \E e \in Names \cup {NoIface} : EgressChange(e)
  \/ Restart

Spec == Init /\ [][Next]_vars

-----------------------------------------------------------------------------
(* getStatus: derived from memory alone.                                   *)

Status ==
  IF ~settings.transparent THEN [state |-> "stopped", blocking |-> FALSE]
  ELSE IF Lan = NoIface THEN [state |-> "unconfigured", blocking |-> FALSE]
  ELSE IF ~lastOk THEN [state |-> "error", blocking |-> FALSE]
  ELSE [state |-> "active", blocking |-> settings.killSwitch /\ vpnIface = NoIface]

(***************************************************************************)
(* Properties                                                              *)
(***************************************************************************)

TypeOK ==
  /\ settings \in Settings
  /\ notified \in BOOLEAN
  /\ vpnIface \in Names \cup {NoIface}
  /\ hasReconciled \in BOOLEAN
  /\ lastOk \in BOOLEAN
  /\ bypassSet \in SUBSET Addrs
  /\ queue \in Seq(Tasks)
  /\ job \in Jobs
  /\ rejected \in BOOLEAN
  /\ table \in Tables
  /\ egress \in Names \cup {NoIface}
  /\ checks \in [Checkers -> SUBSET (Names \cup {NoIface})]
  /\ lostAdds \in SUBSET Addrs

Settled == Idle /\ queue = <<>> /\ ~rejected

\* Whatever order notifications, checks and nft results came in: once the
\* chain is empty and the last reconcile counts as a success, the kernel
\* holds the rules that the latest settings and tunnel call for
\* (gateway-controller.ts: every change is followed by a reconcile that
\* reads the state when it starts, lines 112-137 and 227-272).
SettledTable ==
  Settled /\ lastOk /\ Desired # NoTable => SameRules(table, Desired)

\* What GET /net/status reports is what the kernel does, once the chain is
\* empty: a kill switch said to be blocking blocks, a gateway said to be
\* active filters (gateway-controller.ts, getStatus).
StatusIsTrue ==
  Settled /\ Status.state = "active" =>
    /\ table # NoTable /\ table.forward # "none"
    /\ Status.blocking => table.forward = "blocked"

\* Every address the DNS relay registered is in the kernel's set once the
\* chain is empty, whether it was registered before, during or after a
\* reconcile, except those whose own add command failed (addBypass,
\* lines 180-201: the next reconcile takes over what is held in memory).
BypassCovered ==
  Settled /\ lastOk /\ BypassActive => bypassSet \subseteq table.elems \cup lostAdds

\* Before the first notification of a process the rules left by its
\* predecessor stay in place (server.ts, lines 302-306).
KeptUntilFirstSettings == [][~notified /\ table # NoTable => table' # NoTable]_vars

-----------------------------------------------------------------------------
(* Liveness                                                                *)

\* The API server notifies its settings again every 10 s (api/src/server.ts),
\* the monitor polls every 10 s, and tasks, nft commands (limited to 5 s) and
\* `ip` commands end.  ApplySettings and UpdateVpnInterface are disabled now
\* and then only by the bound MaxQueue and by Drained: hence SF.
Fairness ==
  /\ SF_vars(ApplySettings(settings) /\ notified)
  /\ \A c \in Checkers : WF_vars(ReadEgress(c))
  /\ \A c \in Checkers : SF_vars(\E vpn \in Names \cup {NoIface} : UpdateVpnInterface(c, vpn))
  /\ WF_vars(StartReconcile) /\ WF_vars(StartAdd)
  /\ WF_vars(NftCommit)
  /\ WF_vars(FinishApply) /\ WF_vars(FinishTeardown) /\ WF_vars(FinishAdd)
  /\ WF_vars(FinishRouting)

FairSpec == Spec /\ Fairness

\* What has to stop before the gateway can settle: new settings, tunnel
\* changes, restarts and failures of nft.
Disturbance ==
  \/ settings' # settings
  \/ egress' # egress
  \/ notified /\ ~notified'
  \/ FinishApply /\ ~lastOk'

\* Once the disturbances end, the kernel holds, and keeps, the rules for the
\* notified settings and the tunnel that is really up: no stale check result,
\* failed command or overtaken reconcile is the last word (resync of
\* api/src/server.ts, connection-monitor.ts).
Converged ==
  notified /\ ~TeardownOnly(settings)
    => SameRules(table, BuildRuleset(settings, VpnOf(egress), {}))
Converges == <>[][~Disturbance]_vars => <>[]Converged
=============================================================================
