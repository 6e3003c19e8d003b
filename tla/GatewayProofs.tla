---------------------------- MODULE GatewayProofs ----------------------------
(***************************************************************************)
(* Proofs about the gateway controller, for all constants: type            *)
(* correctness and SettledTable, that the checks that read the rules back  *)
(* agree with what the rules do, that a kill switch in force stays closed, *)
(* that no bypass address is forgotten, and that the controller implements *)
(* the register of rule sets.                                              *)
(***************************************************************************)
EXTENDS GatewayKillSwitch, GatewayRegister, RuleAudit, TLAPS

USE NamesAssumption, SettingsAssumption, FaultsAssumption, QueueAssumption, NoTableAssumption

-----------------------------------------------------------------------------
(* Type correctness                                                        *)

\* The rule set built from well-typed state is a rule set.
LEMMA BuildRulesetType ==
  ASSUME NEW s \in Settings, NEW vpn \in Names \cup {NoIface}, NEW live \in SUBSET Addrs,
         Lan # NoIface
  PROVE  BuildRuleset(s, vpn, live) \in Rules
BY DEF BuildRuleset, Rules, Forwards, ForwardFor, Settings, Names

\* A check yields an interface name or none.
LEMMA VpnOfType ==
  ASSUME NEW iface \in Names \cup {NoIface}
  PROVE  VpnOf(iface) \in Names \cup {NoIface}
BY DEF VpnOf

\* What an nft command installs is a table.
LEMMA TableAfterType ==
  ASSUME TypeOK, CanCommit
  PROVE  TableAfter \in Tables
BY DEF TypeOK, CanCommit, TableAfter, Tables, Rules, Jobs

\* Chaining a task keeps the queue a sequence of tasks.
LEMMA EnqueueType ==
  ASSUME TypeOK, NEW t \in Tasks, Enqueue(t)
  PROVE  queue' \in Seq(Tasks)
BY DEF TypeOK, Enqueue

\* A requested reconcile is a task of the chain.
LEMMA ReconcileType ==
  ASSUME TypeOK, Reconcile
  PROVE  queue' \in Seq(Tasks) /\ hasReconciled' \in BOOLEAN
<1>1. ReconcileTask \in Tasks
  BY DEF Tasks
<1>2. Enqueue(ReconcileTask) /\ hasReconciled' = TRUE
  BY DEF Reconcile
<1> QED
  BY <1>1, <1>2, EnqueueType

\* The values a process starts with are well typed.
LEMMA InitialValues ==
  /\ DefaultSettings \in Settings
  /\ IdleJob \in Jobs
  /\ <<>> \in Seq(Tasks)
  /\ [c \in Checkers |-> {}] \in [Checkers -> SUBSET (Names \cup {NoIface})]
  /\ NoTable \in Tables
BY DEF DefaultSettings, Settings, IdleJob, Jobs, Tables

\* Every step keeps the types.
LEMMA TypeStep == TypeOK /\ [Next]_vars => TypeOK'
<1> SUFFICES ASSUME TypeOK, [Next]_vars
             PROVE  TypeOK'
  OBVIOUS
<1>1. ASSUME NEW s \in UserSettings, ApplySettings(s)
      PROVE  TypeOK'
  <2>1. queue' \in Seq(Tasks) /\ hasReconciled' \in BOOLEAN
    BY <1>1, ReconcileType DEF ApplySettings, TypeOK
  <2> QED
    BY <1>1, <2>1 DEF ApplySettings, TypeOK
<1>2. ASSUME NEW c \in Checkers, ReadEgress(c)
      PROVE  TypeOK'
  BY <1>2, VpnOfType DEF ReadEgress, TypeOK, memory, chain
<1>3. ASSUME NEW c \in Checkers, NEW vpn \in Names \cup {NoIface}, UpdateVpnInterface(c, vpn)
      PROVE  TypeOK'
  <2>1. queue' \in Seq(Tasks) /\ hasReconciled' \in BOOLEAN
    BY <1>3, ReconcileType DEF UpdateVpnInterface, TypeOK
  <2> QED
    BY <1>3, <2>1 DEF UpdateVpnInterface, TypeOK
<1>4. ASSUME NEW as \in SUBSET Addrs, AddBypass(as)
      PROVE  TypeOK'
  <2>1. AddTask(as) \in Tasks
    BY DEF Tasks
  <2>2. queue' \in Seq(Tasks)
    BY <1>4, <2>1, EnqueueType DEF AddBypass, TypeOK
  <2> QED
    BY <1>4, <2>2 DEF AddBypass, TypeOK
<1>5. CASE StartReconcile
  <2>1. queue # <<>> /\ Tail(queue) \in Seq(Tasks)
    BY <1>5 DEF StartReconcile, Ready, TypeOK
  <2>2. CASE TeardownOnly(settings)
    BY <1>5, <2>1, <2>2 DEF StartReconcile, Send, Jobs, Tables, TypeOK
  <2>3. CASE ~TeardownOnly(settings)
    <3>1. BuildRuleset(settings, vpnIface, bypassSet) \in Rules
      BY <2>3, BuildRulesetType DEF TeardownOnly, TypeOK
    <3>2. CASE vpnIface \in BadNames
      <4>1. rejected' = TRUE /\ queue' = <<>> /\ job' = job
        BY <1>5, <2>3, <3>2 DEF StartReconcile
      <4>2. bypassSet' \in SUBSET Addrs
        BY <1>5, <2>3 DEF StartReconcile, TypeOK
      <4> QED
        BY <1>5, <4>1, <4>2, InitialValues DEF StartReconcile, TypeOK
    <3>3. CASE vpnIface \notin BadNames
      <4>1. job' \in Jobs
        BY <1>5, <2>3, <3>1, <3>3 DEF StartReconcile, Send, Jobs, Tables
      <4> QED
        BY <1>5, <2>1, <2>3, <3>3, <4>1 DEF StartReconcile, TypeOK
    <3> QED
      BY <3>2, <3>3
  <2> QED
    BY <2>2, <2>3
<1>6. CASE StartAdd
  <2>1. queue # <<>> /\ Tail(queue) \in Seq(Tasks) /\ Head(queue) \in Tasks
    BY <1>6 DEF StartAdd, Ready, TypeOK
  <2>2. Head(queue).addrs \in SUBSET Addrs
    BY <2>1 DEF Tasks, ReconcileTask, AddTask
  <2> QED
    BY <1>6, <2>1, <2>2 DEF StartAdd, Send, Jobs, Tables, TypeOK, memory
<1>7. CASE NftCommit
  <2>1. table' \in Tables
    BY <1>7, TableAfterType DEF NftCommit
  <2> QED
    BY <1>7, <2>1 DEF NftCommit, TypeOK, Jobs, memory
<1>8. CASE FinishApply
  BY <1>8 DEF FinishApply, TypeOK, Jobs
<1>9. CASE FinishTeardown
  BY <1>9 DEF FinishTeardown, TypeOK, Jobs
<1>10. CASE FinishAdd
  BY <1>10 DEF FinishAdd, TypeOK, Jobs, IdleJob, Tables, memory
<1>11. CASE FinishRouting
  BY <1>11 DEF FinishRouting, TypeOK, Jobs, IdleJob, Tables
<1>12. ASSUME NEW e \in Names \cup {NoIface}, EgressChange(e)
       PROVE  TypeOK'
  BY <1>12 DEF EgressChange, TypeOK, memory, chain
<1>13. CASE Restart
  <2>1. table' \in Tables
    BY <1>13, TableAfterType DEF Restart, TypeOK
  <2> QED
    BY <1>13, <2>1, InitialValues DEF Restart, TypeOK
<1>14. CASE UNCHANGED vars
  BY <1>14 DEF vars, memory, chain, TypeOK
<1> QED
  BY <1>1, <1>2, <1>3, <1>4, <1>5, <1>6, <1>7, <1>8, <1>9, <1>10, <1>11, <1>12, <1>13, <1>14
     DEF Next

\* The state of the controller and of the kernel keeps its type in every
\* behaviour.
THEOREM TypeCorrect == Spec => []TypeOK
<1>1. Init => TypeOK
  BY InitialValues DEF Init, TypeOK, Names
<1> QED
  BY <1>1, TypeStep, PTL DEF Spec

-----------------------------------------------------------------------------
(* SettledTable.  It is not inductive: between a change and the end of the *)
(* reconcile that follows it the table may be anything.  What is inductive *)
(* is that, unless a reconcile is still waiting, the running job installs  *)
(* what is wanted, and otherwise the table is what is wanted.              *)

PendingReconcile == \E i \in 1..Len(queue) : queue[i].kind = "reconcile"
Covered == rejected \/ PendingReconcile

\* t has the rules that settings s and tunnel vpn call for, if they call for
\* any.
Fits(t, s, vpn) == TeardownOnly(s) \/ SameRules(t, BuildRuleset(s, vpn, {}))

\* The shape of the running job.
JobShape ==
  /\ job.kind = "idle" <=> job.phase = "idle"
  /\ job.kind = "apply" => job.script \in Rules
  /\ job.kind = "add" => job.phase # "routing"

\* The running reconcile installs what is wanted, unless another one waits.
JobFits ==
  ~Covered =>
    /\ job.kind = "apply" => Fits(job.script, settings, vpnIface)
    /\ job.kind = "teardown" => TeardownOnly(settings)

\* A script that was committed, or counts as applied, is what the table holds.
ScriptInForce ==
  job.kind = "apply" /\ (job.phase = "committed" \/ (job.phase = "routing" /\ lastOk))
    => SameRules(table, job.script)

\* With no reconcile waiting or running, success means the table is right.
TableFits ==
  ~Covered /\ lastOk /\ job.kind \notin {"apply", "teardown"}
    => Fits(table, settings, vpnIface)

IInv == TypeOK /\ JobShape /\ JobFits /\ ScriptInForce /\ TableFits

\* The rules do not depend on the bypass addresses.
LEMMA FitsBuilt ==
  ASSUME NEW s \in Settings, NEW vpn \in Names \cup {NoIface}, NEW live \in SUBSET Addrs,
         Lan # NoIface
  PROVE  Fits(BuildRuleset(s, vpn, live), s, vpn)
<1>1. BuildRuleset(s, vpn, live) # NoTable /\ BuildRuleset(s, vpn, {}) # NoTable
  BY BuildRulesetType
<1> QED
  BY <1>1 DEF Fits, SameRules, BuildRuleset

\* A table with the same rules fits as well.
LEMMA FitsSame ==
  ASSUME NEW t, NEW u, NEW s \in Settings, NEW vpn, SameRules(t, u), Fits(u, s, vpn)
  PROVE  Fits(t, s, vpn)
BY DEF Fits, SameRules

\* Adding bypass addresses leaves the rules alone.
LEMMA ElemsLeaveRules ==
  ASSUME NEW t \in Rules, NEW es \in SUBSET Addrs
  PROVE  SameRules([t EXCEPT !.elems = es], t)
<1>1. [t EXCEPT !.elems = es] \in Rules
  BY DEF Rules
<1> QED
  BY <1>1 DEF SameRules, Rules

\* A step that requests a reconcile covers everything that follows.
LEMMA ReconcileCovers ==
  ASSUME TypeOK, Reconcile, rejected' = rejected
  PROVE  Covered'
<1>1. Enqueue(ReconcileTask)
  BY DEF Reconcile
<1>2. CASE rejected
  BY <1>2 DEF Covered
<1>3. CASE ~rejected
  <2>1. queue' = Append(queue, ReconcileTask)
    BY <1>1, <1>3 DEF Enqueue
  <2>2. /\ Len(queue') = Len(queue) + 1
        /\ Len(queue) \in Nat
        /\ queue'[Len(queue) + 1] = ReconcileTask
    BY <2>1 DEF TypeOK, Tasks
  <2>3. /\ Len(queue) + 1 \in 1..Len(queue')
        /\ queue'[Len(queue) + 1].kind = "reconcile"
    BY <2>2 DEF ReconcileTask
  <2>4. PendingReconcile'
    BY <2>3 DEF PendingReconcile
  <2> QED
    BY <2>4 DEF Covered
<1> QED
  BY <1>2, <1>3

\* A reconcile that waits goes on waiting when a task is chained behind it.
LEMMA EnqueueKeepsCovered ==
  ASSUME TypeOK, NEW t \in Tasks, Enqueue(t), rejected' = rejected, Covered
  PROVE  Covered'
<1>1. CASE rejected
  BY <1>1 DEF Covered
<1>2. CASE ~rejected
  <2>1. queue' = Append(queue, t)
    BY <1>2 DEF Enqueue
  <2>2. PICK i \in 1..Len(queue) : queue[i].kind = "reconcile"
    BY <1>2 DEF Covered, PendingReconcile
  <2>3. i \in 1..Len(queue') /\ queue'[i] = queue[i]
    BY <2>1, <2>2 DEF TypeOK
  <2>4. PendingReconcile'
    BY <2>2, <2>3 DEF PendingReconcile
  <2> QED
    BY <2>4 DEF Covered
<1> QED
  BY <1>1, <1>2

\* Only a reconcile that starts stops waiting.
LEMMA TailKeepsCovered ==
  ASSUME TypeOK, queue # <<>>, Head(queue).kind # "reconcile",
         queue' = Tail(queue), rejected' = rejected, Covered
  PROVE  Covered'
<1>1. CASE rejected
  BY <1>1 DEF Covered
<1>2. CASE ~rejected
  <2>2. PICK i \in 1..Len(queue) : queue[i].kind = "reconcile"
    BY <1>2 DEF Covered, PendingReconcile
  <2>3. i # 1
    BY <2>2 DEF TypeOK
  <2>4. i - 1 \in 1..Len(queue') /\ queue'[i - 1] = queue[i]
    BY <2>2, <2>3 DEF TypeOK
  <2>5. PendingReconcile'
    BY <2>2, <2>4 DEF PendingReconcile
  <2> QED
    BY <2>5 DEF Covered
<1> QED
  BY <1>1, <1>2

\* A step that leaves the controller's decisions and the kernel alone, and
\* uncovers nothing, keeps the invariant.
LEMMA QuietStep ==
  ASSUME IInv, TypeOK', settings' = settings, vpnIface' = vpnIface, lastOk' = lastOk,
         job' = job, table' = table, Covered => Covered'
  PROVE  IInv'
<1>1. JobShape'
  BY DEF IInv, JobShape
<1>2. JobFits'
  BY DEF IInv, JobFits
<1>3. ScriptInForce'
  BY DEF IInv, ScriptInForce
<1>4. TableFits'
  BY DEF IInv, TableFits
<1> QED
  BY <1>1, <1>2, <1>3, <1>4 DEF IInv

\* A step that requests a reconcile, for whatever settings and tunnel.
LEMMA CoveredStep ==
  ASSUME IInv, TypeOK', Covered', lastOk' = lastOk, job' = job, table' = table
  PROVE  IInv'
<1>1. JobShape' /\ ScriptInForce'
  BY DEF IInv, JobShape, ScriptInForce
<1>2. JobFits' /\ TableFits'
  BY DEF JobFits, TableFits
<1> QED
  BY <1>1, <1>2 DEF IInv

\* A reconcile that starts takes the settings and the tunnel of that moment.
LEMMA StartReconcileStep ==
  ASSUME IInv, StartReconcile, TypeOK'
  PROVE  IInv'
<1>1. job.kind = "idle" /\ lastOk' = lastOk /\ table' = table
      /\ settings' = settings /\ vpnIface' = vpnIface /\ ~rejected
  BY DEF StartReconcile, Ready, Idle
<1>2. CASE TeardownOnly(settings)
  <2>1. job'.kind = "teardown" /\ job'.phase = "sent"
    BY <1>2 DEF StartReconcile, Send
  <2> QED
    BY <1>1, <1>2, <2>1 DEF IInv, JobShape, JobFits, ScriptInForce, TableFits
<1>3. CASE ~TeardownOnly(settings) /\ vpnIface \in BadNames
  <2>1. rejected' /\ job' = job
    BY <1>3 DEF StartReconcile
  <2> QED
    BY <1>1, <2>1, CoveredStep DEF Covered
<1>4. CASE ~TeardownOnly(settings) /\ vpnIface \notin BadNames
  <2>1. /\ job'.kind = "apply" /\ job'.phase = "sent"
        /\ job'.script = BuildRuleset(settings, vpnIface, bypassSet)
    BY <1>4 DEF StartReconcile, Send
  <2>2. Lan # NoIface
    BY <1>4 DEF TeardownOnly
  <2>3. job'.script \in Rules /\ Fits(job'.script, settings, vpnIface)
    BY <2>1, <2>2, BuildRulesetType, FitsBuilt DEF IInv, TypeOK
  <2> QED
    BY <1>1, <2>1, <2>3 DEF IInv, JobShape, JobFits, ScriptInForce, TableFits
<1> QED
  BY <1>2, <1>3, <1>4

\* An add that starts takes nothing from the tables that fit.
LEMMA StartAddStep ==
  ASSUME IInv, StartAdd, TypeOK'
  PROVE  IInv'
<1>1. /\ job.kind = "idle" /\ lastOk' = lastOk /\ table' = table
      /\ settings' = settings /\ vpnIface' = vpnIface /\ rejected' = rejected
      /\ queue # <<>> /\ Head(queue).kind # "reconcile" /\ queue' = Tail(queue)
  BY DEF StartAdd, Ready, Idle, memory
<1>2. Covered => Covered'
  BY <1>1, TailKeepsCovered DEF IInv
<1>3. CASE job' = job
  BY <1>1, <1>2, <1>3, QuietStep
<1>4. CASE job' # job
  <2>1. job'.kind = "add" /\ job'.phase = "sent"
    BY <1>4 DEF StartAdd, Send
  <2> QED
    BY <1>1, <1>2, <2>1 DEF IInv, JobShape, JobFits, ScriptInForce, TableFits
<1> QED
  BY <1>3, <1>4

\* The kernel takes the script over, or adds addresses to the table it has.
LEMMA NftCommitStep ==
  ASSUME IInv, NftCommit, TypeOK'
  PROVE  IInv'
<1> USE DEF IInv
<1>1. /\ settings' = settings /\ vpnIface' = vpnIface /\ lastOk' = lastOk
      /\ queue' = queue /\ rejected' = rejected /\ CanCommit /\ table' = TableAfter
      /\ job' = [job EXCEPT !.phase = "committed"]
  BY DEF NftCommit, memory
<1>2. job \in Jobs /\ job.phase = "sent"
  BY <1>1 DEF TypeOK, CanCommit
<1>3. job'.kind = job.kind /\ job'.script = job.script /\ job'.phase = "committed"
  BY <1>1, <1>2 DEF Jobs
<1>4. Covered' <=> Covered
  BY <1>1 DEF Covered, PendingReconcile
<1>5. JobShape' /\ JobFits'
  BY <1>1, <1>2, <1>3, <1>4 DEF JobShape, JobFits
<1>6. ScriptInForce'
  BY <1>1, <1>3 DEF ScriptInForce, TableAfter, SameRules
<1>7. TableFits'
  <2>1. CASE job.kind = "add"
    <3>1. table \in Rules
      BY <1>1, <2>1 DEF CanCommit, TypeOK, Tables
    <3>2. table.elems \cup job.addrs \in SUBSET Addrs
      BY <1>2, <3>1 DEF Rules, Jobs
    <3>3. SameRules(table', table)
      BY <1>1, <2>1, <3>1, <3>2, ElemsLeaveRules DEF TableAfter
    <3>4. ~Covered' /\ lastOk' => Fits(table, settings, vpnIface)
      BY <1>1, <1>4, <2>1 DEF TableFits
    <3> QED
      BY <1>1, <3>3, <3>4, FitsSame DEF TableFits, TypeOK
  <2>2. CASE job.kind # "add"
    BY <1>2, <1>3, <2>2 DEF TableFits, JobShape, Jobs
  <2> QED
    BY <2>1, <2>2
<1> QED
  BY <1>5, <1>6, <1>7

\* An apply that ends well has put its script in force.
LEMMA FinishApplyStep ==
  ASSUME IInv, FinishApply, TypeOK'
  PROVE  IInv'
<1> USE DEF IInv
<1>1. /\ settings' = settings /\ vpnIface' = vpnIface /\ table' = table
      /\ queue' = queue /\ rejected' = rejected /\ job.kind = "apply"
      /\ job' = [job EXCEPT !.phase = "routing"]
  BY DEF FinishApply
<1>2. job'.kind = "apply" /\ job'.script = job.script /\ job'.phase = "routing"
  BY <1>1 DEF TypeOK, Jobs
<1>3. Covered' <=> Covered
  BY <1>1 DEF Covered, PendingReconcile
<1>4. JobShape' /\ JobFits' /\ TableFits'
  BY <1>1, <1>2, <1>3 DEF JobShape, JobFits, TableFits
<1>5. ScriptInForce'
  <2>1. lastOk' => job.phase = "committed"
    BY DEF FinishApply, ExitOk
  <2> QED
    BY <1>1, <1>2, <2>1 DEF ScriptInForce
<1> QED
  BY <1>4, <1>5

\* A teardown goes on with routing, whatever nft has said.
LEMMA FinishTeardownStep ==
  ASSUME IInv, FinishTeardown, TypeOK'
  PROVE  IInv'
<1> USE DEF IInv
<1>1. /\ settings' = settings /\ vpnIface' = vpnIface /\ table' = table /\ lastOk' = lastOk
      /\ queue' = queue /\ rejected' = rejected /\ job.kind = "teardown"
      /\ job' = [job EXCEPT !.phase = "routing"]
  BY DEF FinishTeardown
<1>2. job'.kind = "teardown" /\ job'.phase = "routing"
  BY <1>1 DEF TypeOK, Jobs
<1>3. Covered' <=> Covered
  BY <1>1 DEF Covered, PendingReconcile
<1> QED
  BY <1>1, <1>2, <1>3 DEF JobShape, JobFits, TableFits, ScriptInForce

\* An add that ends leaves the rules as they are.
LEMMA FinishAddStep ==
  ASSUME IInv, FinishAdd, TypeOK'
  PROVE  IInv'
<1> USE DEF IInv
<1>1. /\ settings' = settings /\ vpnIface' = vpnIface /\ table' = table /\ lastOk' = lastOk
      /\ queue' = queue /\ rejected' = rejected /\ job.kind = "add" /\ job' = IdleJob
  BY DEF FinishAdd, memory
<1>2. job'.kind = "idle" /\ job'.phase = "idle"
  BY <1>1 DEF IdleJob
<1>3. Covered' <=> Covered
  BY <1>1 DEF Covered, PendingReconcile
<1> QED
  BY <1>1, <1>2, <1>3 DEF JobShape, JobFits, TableFits, ScriptInForce

\* A reconcile that ends as a success leaves a table that fits; a teardown is
\* over when nothing is wanted.
LEMMA FinishRoutingStep ==
  ASSUME IInv, FinishRouting, TypeOK'
  PROVE  IInv'
<1> USE DEF IInv
<1>1. /\ settings' = settings /\ vpnIface' = vpnIface /\ table' = table
      /\ queue' = queue /\ rejected' = rejected /\ job' = IdleJob /\ job.phase = "routing"
      /\ lastOk' = IF job.kind = "teardown" THEN TRUE ELSE lastOk
  BY DEF FinishRouting
<1>2. job'.kind = "idle" /\ job'.phase = "idle"
  BY <1>1 DEF IdleJob
<1>3. Covered' <=> Covered
  BY <1>1 DEF Covered, PendingReconcile
<1>4. JobShape' /\ JobFits' /\ ScriptInForce'
  BY <1>2 DEF JobShape, JobFits, ScriptInForce
<1>5. TableFits'
  <2>1. job.kind \in {"apply", "teardown"}
    BY <1>1 DEF JobShape, TypeOK, Jobs
  <2>2. CASE job.kind = "apply"
    <3>1. ~Covered' /\ lastOk' => SameRules(table, job.script) /\ Fits(job.script, settings, vpnIface)
      BY <1>1, <1>3, <2>2 DEF ScriptInForce, JobFits
    <3> QED
      BY <1>1, <3>1, FitsSame DEF TableFits, TypeOK
  <2>3. CASE job.kind = "teardown"
    BY <1>1, <1>3, <2>3 DEF JobFits, TableFits, Fits
  <2> QED
    BY <2>1, <2>2, <2>3
<1> QED
  BY <1>4, <1>5

\* A new process wants nothing yet.
LEMMA RestartStep ==
  ASSUME IInv, Restart, TypeOK'
  PROVE  IInv'
<1>1. job' = IdleJob /\ lastOk' = FALSE
  BY DEF Restart
<1>2. job'.kind = "idle" /\ job'.phase = "idle"
  BY <1>1 DEF IdleJob
<1> QED
  BY <1>1, <1>2 DEF IInv, JobShape, JobFits, ScriptInForce, TableFits

\* Every step keeps the invariant.
LEMMA InvStep == IInv /\ [Next]_vars => IInv'
<1> SUFFICES ASSUME IInv, [Next]_vars
             PROVE  IInv'
  OBVIOUS
<1>0. TypeOK' /\ TypeOK
  BY TypeStep DEF IInv
<1>1. ASSUME NEW s \in UserSettings, ApplySettings(s)
      PROVE  IInv'
  <2>1. CASE Unchanged(s)
    <3>1. Covered => Covered'
      BY <1>1, <2>1 DEF ApplySettings, Covered, PendingReconcile
    <3> QED
      BY <1>0, <1>1, <2>1, <3>1, QuietStep DEF ApplySettings, Unchanged
  <2>2. CASE ~Unchanged(s)
    <3>1. Reconcile /\ rejected' = rejected
      BY <1>1, <2>2 DEF ApplySettings
    <3> QED
      BY <1>0, <1>1, <3>1, ReconcileCovers, CoveredStep DEF ApplySettings
  <2> QED
    BY <2>1, <2>2
<1>2. ASSUME NEW c \in Checkers, ReadEgress(c)
      PROVE  IInv'
  <2>1. Covered => Covered'
    BY <1>2 DEF ReadEgress, chain, Covered, PendingReconcile
  <2> QED
    BY <1>0, <1>2, <2>1, QuietStep DEF ReadEgress, memory, chain
<1>3. ASSUME NEW c \in Checkers, NEW vpn \in Names \cup {NoIface}, UpdateVpnInterface(c, vpn)
      PROVE  IInv'
  <2>1. CASE vpn = vpnIface
    <3>1. Covered => Covered'
      BY <1>3, <2>1 DEF UpdateVpnInterface, Covered, PendingReconcile
    <3> QED
      BY <1>0, <1>3, <2>1, <3>1, QuietStep DEF UpdateVpnInterface
  <2>2. CASE vpn # vpnIface
    <3>1. Reconcile /\ rejected' = rejected
      BY <1>3, <2>2 DEF UpdateVpnInterface
    <3> QED
      BY <1>0, <1>3, <3>1, ReconcileCovers, CoveredStep DEF UpdateVpnInterface
  <2> QED
    BY <2>1, <2>2
<1>4. ASSUME NEW as \in SUBSET Addrs, AddBypass(as)
      PROVE  IInv'
  <2>1. CASE BypassActive
    <3>1. Enqueue(AddTask(as)) /\ AddTask(as) \in Tasks /\ rejected' = rejected
      BY <1>4, <2>1 DEF AddBypass, Tasks
    <3>2. Covered => Covered'
      BY <1>0, <3>1, EnqueueKeepsCovered
    <3> QED
      BY <1>0, <1>4, <3>2, QuietStep DEF AddBypass
  <2>2. CASE ~BypassActive
    <3>1. Covered => Covered'
      BY <1>4, <2>2 DEF AddBypass, Covered, PendingReconcile
    <3> QED
      BY <1>0, <1>4, <3>1, QuietStep DEF AddBypass
  <2> QED
    BY <2>1, <2>2
<1>5. ASSUME NEW e \in Names \cup {NoIface}, EgressChange(e)
      PROVE  IInv'
  <2>1. Covered => Covered'
    BY <1>5 DEF EgressChange, chain, Covered, PendingReconcile
  <2> QED
    BY <1>0, <1>5, <2>1, QuietStep DEF EgressChange, memory, chain
<1>6. CASE UNCHANGED vars
  <2>1. Covered => Covered'
    BY <1>6 DEF vars, chain, Covered, PendingReconcile
  <2> QED
    BY <1>0, <1>6, <2>1, QuietStep DEF vars, memory, chain
<1> QED
  BY <1>0, <1>1, <1>2, <1>3, <1>4, <1>5, <1>6, StartReconcileStep, StartAddStep, NftCommitStep,
     FinishApplyStep, FinishTeardownStep, FinishAddStep, FinishRoutingStep, RestartStep
     DEF Next

\* The inductive invariant holds throughout.
LEMMA InvCorrect == Spec => []IInv
<1>1. Init => TypeOK
  BY InitialValues DEF Init, TypeOK, Names
<1>2. Init => IInv
  BY <1>1 DEF Init, IInv, IdleJob, JobShape, JobFits, ScriptInForce, TableFits
<1> QED
  BY <1>2, InvStep, PTL DEF Spec

\* What the invariant says once the chain is empty.
LEMMA SettledFits ==
  ASSUME IInv, Settled, lastOk
  PROVE  Fits(table, settings, vpnIface)
<1>1. ~Covered
  BY DEF Settled, Covered, PendingReconcile
<1>2. job.kind \notin {"apply", "teardown"}
  BY DEF Settled, Idle
<1> QED
  BY <1>1, <1>2 DEF IInv, TableFits

\* Once the promise chain is empty and the last reconcile counts as a
\* success, the kernel holds the rules for the latest settings and tunnel,
\* for every number of interfaces, checkers and tasks and for every fault.
THEOREM SettledTableHolds == Spec => []SettledTable
<1>1. IInv => SettledTable
  <2> SUFFICES ASSUME IInv, Settled, lastOk, Desired # NoTable
               PROVE  SameRules(table, Desired)
    BY DEF SettledTable
  <2>1. ~TeardownOnly(settings) /\ Desired = BuildRuleset(settings, vpnIface, bypassSet)
    BY DEF Desired
  <2>2. SameRules(table, BuildRuleset(settings, vpnIface, {}))
    BY <2>1, SettledFits DEF Fits
  <2>3. BuildRuleset(settings, vpnIface, {}) \in Rules
    BY <2>1, BuildRulesetType DEF TeardownOnly, IInv, TypeOK
  <2> QED
    BY <2>1, <2>2, <2>3 DEF SameRules, BuildRuleset
<1> QED
  BY <1>1, InvCorrect, PTL

\* The reported state is the kernel's, once the promise chain is empty: an
\* active gateway filters and a kill switch said to be blocking blocks.
THEOREM StatusIsTrueHolds == Spec => []StatusIsTrue
<1>1. IInv => StatusIsTrue
  <2> SUFFICES ASSUME IInv, Settled, Status.state = "active"
               PROVE  /\ table # NoTable /\ table.forward # "none"
                      /\ Status.blocking => table.forward = "blocked"
    BY DEF StatusIsTrue
  <2>1. settings.transparent /\ Lan # NoIface /\ lastOk
    BY DEF Status
  <2>2. Status.blocking => settings.killSwitch /\ vpnIface = NoIface
    BY <2>1 DEF Status
  <2>3. SameRules(table, BuildRuleset(settings, vpnIface, {}))
    BY <2>1, SettledFits DEF Fits, TeardownOnly
  <2>4. BuildRuleset(settings, vpnIface, {}) \in Rules
    BY <2>1, BuildRulesetType DEF IInv, TypeOK
  <2>5. table # NoTable /\ table.forward = ForwardFor(settings, vpnIface)
    BY <2>3, <2>4 DEF SameRules, BuildRuleset
  <2>6. ForwardFor(settings, vpnIface) # "none"
    BY <2>1, NamesAssumption DEF ForwardFor, IInv, TypeOK, Names
  <2> QED
    BY <2>1, <2>2, <2>5, <2>6 DEF ForwardFor
<1> QED
  BY <1>1, InvCorrect, PTL

-----------------------------------------------------------------------------
(* The checks that read the rules back (RuleAudit), for any interfaces,    *)
(* settings and faults.                                                    *)

Verdicts == {"accept", "accept dnat", "accept reply", "accept marked", "drop"}
Lines == [from : Names \cup {NoIface, "any"}, to : Names \cup {NoIface, "any", "other"},
          verdict : Verdicts]

\* A line of a chain made of two is in one of them.
LEMMA RangeOfConcat ==
  ASSUME NEW S, NEW p \in Seq(S), NEW q \in Seq(S)
  PROVE  p \o q \in Seq(S) /\ ToSet(p \o q) = ToSet(p) \cup ToSet(q)
<1>1. /\ Len(p \o q) = Len(p) + Len(q)
      /\ Len(p) \in Nat /\ Len(q) \in Nat
      /\ DOMAIN p = 1 .. Len(p) /\ DOMAIN q = 1 .. Len(q)
      /\ DOMAIN (p \o q) = 1 .. Len(p) + Len(q)
  OBVIOUS
<1>2. \A i \in 1 .. Len(p) + Len(q) :
        (p \o q)[i] = IF i <= Len(p) THEN p[i] ELSE q[i - Len(p)]
  OBVIOUS
<1>3. ASSUME NEW x \in ToSet(p \o q)
      PROVE  x \in ToSet(p) \cup ToSet(q)
  <2>1. PICK i \in 1 .. Len(p) + Len(q) : x = (p \o q)[i]
    BY <1>1 DEF ToSet
  <2>2. CASE i <= Len(p)
    <3>1. i \in DOMAIN p /\ x = p[i]
      BY <1>1, <1>2, <2>1, <2>2
    <3> QED
      BY <3>1 DEF ToSet
  <2>3. CASE ~(i <= Len(p))
    <3>1. i - Len(p) \in DOMAIN q /\ x = q[i - Len(p)]
      BY <1>1, <1>2, <2>1, <2>3
    <3> QED
      BY <3>1 DEF ToSet
  <2> QED
    BY <2>2, <2>3
<1>4. ASSUME NEW x \in ToSet(p)
      PROVE  x \in ToSet(p \o q)
  <2>1. PICK i \in DOMAIN p : x = p[i]
    BY DEF ToSet
  <2>2. i \in DOMAIN (p \o q) /\ x = (p \o q)[i]
    BY <1>1, <1>2, <2>1
  <2> QED
    BY <2>2 DEF ToSet
<1>5. ASSUME NEW x \in ToSet(q)
      PROVE  x \in ToSet(p \o q)
  <2>1. PICK i \in DOMAIN q : x = q[i]
    BY DEF ToSet
  <2>2. i + Len(p) \in DOMAIN (p \o q) /\ x = (p \o q)[i + Len(p)]
    BY <1>1, <1>2, <2>1
  <2> QED
    BY <2>2 DEF ToSet
<1>6. p \o q \in Seq(S)
  OBVIOUS
<1> QED
  BY <1>3, <1>4, <1>5, <1>6

\* A line that is put at the end is the last one.
LEMMA LastOfConcat ==
  ASSUME NEW S, NEW p \in Seq(S), NEW a \in S
  PROVE  p \o <<a>> # << >> /\ Last(p \o <<a>>) = a
<1>1. Len(p) \in Nat /\ Len(p \o <<a>>) = Len(p) + 1
  OBVIOUS
<1>2. (p \o <<a>>)[Len(p) + 1] = a
  OBVIOUS
<1>3. p \o <<a>> # << >>
  BY <1>1
<1> QED
  BY <1>1, <1>2, <1>3 DEF Last

\* Chains of no line, one line and two.
LEMMA ShortChains ==
  ASSUME NEW S, NEW a \in S, NEW b \in S
  PROVE  /\ << >> \in Seq(S) /\ ToSet(<< >>) = {}
         /\ <<a>> \in Seq(S) /\ ToSet(<<a>>) = {a}
         /\ <<a, b>> \in Seq(S) /\ ToSet(<<a, b>>) = {a, b}
<1>1. << >> \in Seq(S) /\ <<a>> \in Seq(S) /\ <<a, b>> \in Seq(S)
  OBVIOUS
<1>2. DOMAIN << >> = {} /\ DOMAIN <<a>> = {1} /\ DOMAIN <<a, b>> = {1, 2}
  OBVIOUS
<1>3. <<a>>[1] = a /\ <<a, b>>[1] = a /\ <<a, b>>[2] = b
  OBVIOUS
<1> QED
  BY <1>1, <1>2, <1>3 DEF ToSet

\* The forward chain ends with the drop, and the one line that lets the LAN out
\* is that of the interface the rule set names.
LEMMA ChainShape ==
  ASSUME NEW t \in Rules, t.forward # "none", Lan # NoIface
  PROVE  /\ EndsWithDrop(ForwardChain(t))
         /\ \A out \in Names :
              HasRule(ForwardChain(t), Through(out)) <=> t.forward = out
<1> DEFINE
  general == <<Line("any", "any", "accept dnat"), Line("any", "other", "accept reply")>>
  marked  == IF t.bypass THEN <<Line("any", "any", "accept marked")>> ELSE << >>
  way     == IF t.forward \in Names
             THEN <<Through(t.forward), Line(t.forward, Lan, "accept reply")>> ELSE << >>
  into    == IF t.forward \in Names \ {Wan} THEN <<Line(t.forward, "any", "drop")>> ELSE << >>
<1>0. \A a, b \in Lines : <<a, b>> \in Seq(Lines) /\ ToSet(<<a, b>>) = {a, b}
  <2> SUFFICES ASSUME NEW a \in Lines, NEW b \in Lines
               PROVE  <<a, b>> \in Seq(Lines) /\ ToSet(<<a, b>>) = {a, b}
    OBVIOUS
  <2>1. <<a, b>> \in Seq(Lines) /\ DOMAIN <<a, b>> = {1, 2} /\ <<a, b>>[1] = a /\ <<a, b>>[2] = b
    OBVIOUS
  <2> QED
    BY <2>1 DEF ToSet
<1>1. ForwardChain(t) = general \o marked \o way \o into \o <<LanDrop>>
  BY DEF ForwardChain
<1>2. /\ Line("any", "any", "accept dnat") \in Lines
      /\ Line("any", "other", "accept reply") \in Lines
      /\ Line("any", "any", "accept marked") \in Lines
      /\ LanDrop \in Lines
      /\ t.forward \in Names =>
           /\ Through(t.forward) \in Lines
           /\ Line(t.forward, Lan, "accept reply") \in Lines
           /\ Line(t.forward, "any", "drop") \in Lines
  BY DEF Line, Lines, Verdicts, LanDrop, Through, Names
<1>3. /\ general \in Seq(Lines)
      /\ ToSet(general) = {Line("any", "any", "accept dnat"), Line("any", "other", "accept reply")}
  BY <1>0, <1>2
<1>4. marked \in Seq(Lines) /\ ToSet(marked) \subseteq {Line("any", "any", "accept marked")}
  <2>1. CASE t.bypass
    <3>1. marked = <<Line("any", "any", "accept marked")>>
      BY <2>1
    <3> HIDE DEF marked
    <3> QED
      BY <1>2, <3>1, ShortChains
  <2>2. CASE ~t.bypass
    <3>1. marked = << >>
      BY <2>2
    <3> HIDE DEF marked
    <3> QED
      BY <1>2, <3>1, ShortChains
  <2> QED
    BY <2>1, <2>2
<1>5. /\ way \in Seq(Lines)
      /\ t.forward \in Names =>
           ToSet(way) = {Through(t.forward), Line(t.forward, Lan, "accept reply")}
      /\ t.forward \notin Names => ToSet(way) = {}
  <2>1. CASE t.forward \in Names
    BY <1>0, <1>2, <2>1
  <2>2. CASE t.forward \notin Names
    <3>1. way = << >>
      BY <2>2
    <3> HIDE DEF way
    <3> QED
      BY <1>2, <2>2, <3>1, ShortChains
  <2> QED
    BY <2>1, <2>2
<1>6. into \in Seq(Lines) /\ ToSet(into) \subseteq {Line(t.forward, "any", "drop")}
  <2>1. CASE t.forward \in Names \ {Wan}
    BY <1>2, <2>1, ShortChains
  <2>2. CASE t.forward \notin Names \ {Wan}
    BY <1>2, <2>2, ShortChains
  <2> QED
    BY <2>1, <2>2
<1> HIDE DEF general, marked, way, into
<1>7. \A p, q \in Seq(Lines) : p \o q \in Seq(Lines) /\ ToSet(p \o q) = ToSet(p) \cup ToSet(q)
  BY RangeOfConcat
<1> DEFINE front == general \o marked \o way \o into
<1>8. /\ front \in Seq(Lines)
      /\ ToSet(front) = ToSet(general) \cup ToSet(marked) \cup ToSet(way) \cup ToSet(into)
  <2> DEFINE first  == general \o marked
             second == first \o way
  <2>1. first \in Seq(Lines) /\ ToSet(first) = ToSet(general) \cup ToSet(marked)
    BY <1>3, <1>4, <1>7
  <2> HIDE DEF first
  <2>2. second \in Seq(Lines) /\ ToSet(second) = ToSet(first) \cup ToSet(way)
    <3>1. first \in Seq(Lines) /\ way \in Seq(Lines)
      BY <1>5, <2>1
    <3> HIDE DEF second
    <3>2. second = first \o way
      BY DEF second
    <3> QED
      BY <3>1, <3>2, <1>7
  <2> HIDE DEF second
  <2>3. /\ second \o into \in Seq(Lines)
        /\ ToSet(second \o into) = ToSet(second) \cup ToSet(into)
    BY <1>6, <2>2, <1>7
  <2>4. front = second \o into
    BY DEF first, second
  <2> QED
    BY <2>1, <2>2, <2>3, <2>4
<1>9. ForwardChain(t) = front \o <<LanDrop>>
  BY <1>1
<1> HIDE DEF front
<1>10. /\ EndsWithDrop(ForwardChain(t))
       /\ ToSet(ForwardChain(t)) = ToSet(front) \cup {LanDrop}
  <2>1. ToSet(front \o <<LanDrop>>) = ToSet(front) \cup ToSet(<<LanDrop>>)
    <3>1. front \in Seq(Lines) /\ <<LanDrop>> \in Seq(Lines)
      BY <1>2, <1>8, ShortChains
    <3> QED
      BY <3>1, <1>7
  <2>2. ToSet(<<LanDrop>>) = {LanDrop}
    BY <1>2, ShortChains
  <2>3. front \o <<LanDrop>> # << >> /\ Last(front \o <<LanDrop>>) = LanDrop
    BY <1>2, <1>8, LastOfConcat
  <2> QED
    BY <1>9, <2>1, <2>2, <2>3 DEF EndsWithDrop
<1>11. ASSUME NEW out \in Names
       PROVE  HasRule(ForwardChain(t), Through(out)) <=> t.forward = out
  <2>1. /\ Through(out) # Line("any", "any", "accept dnat")
        /\ Through(out) # Line("any", "other", "accept reply")
        /\ Through(out) # Line("any", "any", "accept marked")
        /\ Through(out) # Line(t.forward, Lan, "accept reply")
        /\ Through(out) # Line(t.forward, "any", "drop")
        /\ Through(out) # LanDrop
        /\ Through(out) = Through(t.forward) <=> out = t.forward
    BY DEF Through, Line, LanDrop
  <2> QED
    BY <1>3, <1>4, <1>5, <1>6, <1>8, <1>10, <2>1 DEF HasRule
<1> QED
  BY <1>10, <1>11

\* What the checks say of one table, whatever brought it about.
LEMMA ChecksReadRules ==
  ASSUME NEW t \in Tables, Lan # NoIface
  PROVE  /\ AuditKillSwitchRules(t) <=> ~LineOpen(t)
         /\ \A vpn \in Names : AuditGatewayRules(t, vpn) <=> t # NoTable /\ t.forward = vpn
         /\ AuditGatewayRules(t, NoIface) <=> t # NoTable /\ t.forward # "none"
<1>1. CASE t = NoTable
  BY <1>1 DEF AuditKillSwitchRules, AuditGatewayRules, LineOpen
<1>2. CASE t # NoTable /\ t.forward = "none"
  <2>1. ~EndsWithDrop(Listing(t).forward)
    BY <1>2 DEF Listing, ForwardChain, EndsWithDrop
  <2>2. \A vpn \in Names : vpn # "none"
    OBVIOUS
  <2> QED
    BY <1>2, <2>1, <2>2 DEF AuditKillSwitchRules, AuditGatewayRules, LineOpen
<1>3. CASE t # NoTable /\ t.forward # "none"
  <2>1. t \in Rules
    BY <1>3 DEF Tables
  <2>2. Wan \in Names /\ NoIface \notin Names
    BY DEF Names
  <2>3. /\ Listing(t).forward = ForwardChain(t)
        /\ \A vpn \in Names : t.forward = vpn => vpn \in Listing(t).postrouting
    BY DEF Listing, Masqueraded
  <2>4. /\ EndsWithDrop(ForwardChain(t))
        /\ \A out \in Names : HasRule(ForwardChain(t), Through(out)) <=> t.forward = out
    BY <1>3, <2>1, ChainShape
  <2> QED
    BY <1>3, <2>2, <2>3, <2>4 DEF AuditKillSwitchRules, AuditGatewayRules, LineOpen
<1> QED
  BY <1>1, <1>2, <1>3

\* The checks of the verification that read the rules back pass exactly when the
\* rules do what they are to show, and they pass once a reconcile that succeeded
\* is the last one (rule-audit.ts against ruleset.ts and gateway-controller.ts).
THEOREM AuditsAgreeHolds == Spec => []AuditsAgree
<1>1. TypeOK /\ SettledTable => AuditsAgree
  <2> SUFFICES ASSUME TypeOK, SettledTable
               PROVE  AuditsAgree
    OBVIOUS
  <2>1. table \in Tables /\ settings \in Settings /\ vpnIface \in Names \cup {NoIface}
    BY DEF TypeOK
  <2>2. Lan # NoIface => (AuditKillSwitchRules(table) <=> ~LineOpen(table))
    BY <2>1, ChecksReadRules
  <2>3. vpnIface # NoIface /\ AuditGatewayRules(table, vpnIface) => table.forward = vpnIface
    BY <2>1, ChecksReadRules DEF AuditGatewayRules
  <2>4. ASSUME Settled, lastOk, Lan # NoIface, settings.transparent
        PROVE  /\ AuditGatewayRules(table, vpnIface)
               /\ table.forward = GatewayRulesText(settings, vpnIface)
    <3>1. ~TeardownOnly(settings) /\ Desired = BuildRuleset(settings, vpnIface, bypassSet)
      BY <2>4 DEF TeardownOnly, Desired
    <3>2. Desired \in Rules /\ Desired # NoTable
      BY <2>1, <2>4, <3>1, BuildRulesetType DEF TypeOK
    <3>3. table # NoTable /\ table.forward = Desired.forward
      BY <2>4, <3>2 DEF SettledTable, SameRules
    <3>4. Desired.forward = GatewayRulesText(settings, vpnIface)
      BY <2>1, <2>4, <3>1 DEF BuildRuleset, ForwardFor, GatewayRulesText, Settings
    <3>5. vpnIface \in Names => table.forward = vpnIface
      BY <3>3, <3>4, NoIface \notin Names DEF GatewayRulesText
    <3>6. table.forward # "none"
      BY <2>1, <2>4, <3>3, <3>4 DEF GatewayRulesText, Names
    <3> QED
      BY <2>1, <2>4, <3>3, <3>4, <3>5, <3>6, ChecksReadRules
  <2>5. ASSUME Settled, lastOk, Lan # NoIface, settings.redirect
        PROVE  AuditDnsRedirectRules(table, settings)
    <3>1. ~TeardownOnly(settings) /\ Desired = BuildRuleset(settings, vpnIface, bypassSet)
      BY <2>5 DEF TeardownOnly, Desired
    <3>2. Desired \in Rules /\ Desired # NoTable
      BY <2>1, <2>5, <3>1, BuildRulesetType DEF TypeOK
    <3>3. table # NoTable /\ table.redirect = Desired.redirect
      BY <2>5, <3>2 DEF SettledTable, SameRules
    <3>4. Desired.redirect
      BY <2>5, <3>1 DEF BuildRuleset
    <3> QED
      BY <2>5, <3>3, <3>4 DEF AuditDnsRedirectRules, Listing
  <2> QED
    BY <2>2, <2>3, <2>4, <2>5 DEF AuditsAgree
<1> QED
  BY <1>1, TypeCorrect, SettledTableHolds, PTL

-----------------------------------------------------------------------------
(* The kill switch.  What is sealed stays so because nothing that runs or  *)
(* waits can open the line: a script under way is closed, no teardown runs *)
(* while a gateway is wanted, and what the checks deliver is a tunnel.     *)

\* What was detected, or is about to be delivered, is not the line.
VpnIsTunnel ==
  Lan # NoIface => vpnIface # Lan /\ \A c \in Checkers : Lan \notin checks[c]

\* Without a LAN interface nothing is ever configured.
NoLanNoTable == Lan = NoIface => table = NoTable /\ job.kind # "apply"

SealKept ==
  sealed =>
    /\ notified /\ KillSwitchOn /\ ~LineOpen(table) /\ job.kind # "teardown"
    /\ job.kind = "apply" => ~LineOpen(job.script)

Ground == VpnIsTunnel /\ NoLanNoTable

\* A gateway that is wanted has its rules closed under the kill switch.
LEMMA BuiltClosed ==
  ASSUME NEW s \in Settings, s.transparent, s.killSwitch, Lan = Wan, Lan # NoIface,
         NEW vpn \in Names \cup {NoIface}, vpn # Lan, NEW live \in SUBSET Addrs
  PROVE  ~LineOpen(BuildRuleset(s, vpn, live))
<1>1. BuildRuleset(s, vpn, live) # NoTable
  BY BuildRulesetType
<1>2. ForwardFor(s, vpn) \notin {"none", Wan}
  BY DEF ForwardFor, Names
<1> QED
  BY <1>1, <1>2 DEF LineOpen, BuildRuleset

\* What a check delivers is not the LAN interface.
LEMMA VpnOfIsTunnel ==
  ASSUME NEW iface \in Names \cup {NoIface}, Lan # NoIface
  PROVE  VpnOf(iface) # Lan
BY DEF VpnOf

\* A job that only changes its phase.
LEMMA PhaseOnly ==
  ASSUME job \in Jobs, NEW p, job' = [job EXCEPT !.phase = p]
  PROVE  job'.kind = job.kind /\ job'.script = job.script
BY DEF Jobs

Rests == table' = table /\ job'.kind = "idle" /\ job'.phase = "idle"

\* Commands that end leave the kernel alone and the chain without a job.
LEMMA Rest == FinishAdd \/ FinishRouting => Rests
<1>1. ASSUME FinishAdd \/ FinishRouting
      PROVE  table' = table /\ job' = IdleJob
  BY <1>1 DEF FinishAdd, FinishRouting
<1> QED
  BY <1>1 DEF IdleJob, Rests

\* No step brings the line into what was detected.
LEMMA VpnIsTunnelStep ==
  ASSUME TypeOK, VpnIsTunnel, [Next]_vars
  PROVE  VpnIsTunnel'
<1> SUFFICES ASSUME Lan # NoIface
             PROVE  vpnIface' # Lan /\ \A c \in Checkers : Lan \notin checks'[c]
  BY DEF VpnIsTunnel
<1>1. vpnIface # Lan /\ \A c \in Checkers : Lan \notin checks[c]
  BY DEF VpnIsTunnel
<1>2. ASSUME NEW c \in Checkers, ReadEgress(c)
      PROVE  vpnIface' # Lan /\ \A d \in Checkers : Lan \notin checks'[d]
  <2>1. VpnOf(egress) # Lan
    BY VpnOfIsTunnel DEF TypeOK
  <2> QED
    BY <1>1, <1>2, <2>1 DEF ReadEgress, memory, TypeOK
<1>3. ASSUME NEW c \in Checkers, NEW vpn \in Names \cup {NoIface}, UpdateVpnInterface(c, vpn)
      PROVE  vpnIface' # Lan /\ \A d \in Checkers : Lan \notin checks'[d]
  BY <1>1, <1>3 DEF UpdateVpnInterface, TypeOK
<1>4. CASE Restart
  BY <1>4 DEF Restart
<1>5. CASE UNCHANGED <<vpnIface, checks>>
  BY <1>1, <1>5
<1> QED
  BY <1>2, <1>3, <1>4, <1>5
     DEF Next, vars, memory, ApplySettings, AddBypass, StartReconcile, StartAdd, NftCommit,
         FinishApply, FinishTeardown, FinishAdd, FinishRouting, EgressChange

\* Without a LAN interface no step configures anything.
LEMMA NoLanStep ==
  ASSUME TypeOK, JobShape, NoLanNoTable, [Next]_vars
  PROVE  NoLanNoTable'
<1> SUFFICES ASSUME Lan = NoIface
             PROVE  table' = NoTable /\ job'.kind # "apply"
  BY DEF NoLanNoTable
<1>1. table = NoTable /\ job.kind # "apply" /\ job \in Jobs
  BY DEF NoLanNoTable, TypeOK
<1>2. CASE StartReconcile
  BY <1>1, <1>2 DEF StartReconcile, TeardownOnly, Send
<1>3. CASE StartAdd
  BY <1>1, <1>3 DEF StartAdd, Send
<1>4. ~CanCommit
  BY <1>1 DEF CanCommit, Jobs, JobShape
<1>5. ASSUME FinishApply \/ FinishTeardown
      PROVE  table' = NoTable /\ job'.kind # "apply"
  BY <1>1, <1>5, PhaseOnly DEF FinishApply, FinishTeardown
<1>6. ASSUME FinishAdd \/ FinishRouting
      PROVE  table' = NoTable /\ job'.kind # "apply"
  BY <1>1, <1>6, Rest DEF Rests
<1>7. CASE Restart
  BY <1>1, <1>4, <1>7 DEF Restart, IdleJob
<1>8. CASE UNCHANGED <<job, table>>
  BY <1>1, <1>8
<1> QED
  BY <1>2, <1>3, <1>4, <1>5, <1>6, <1>7, <1>8
     DEF Next, vars, chain, ApplySettings, ReadEgress, UpdateVpnInterface, AddBypass, NftCommit,
         EgressChange

\* What the seal rests on holds throughout.
LEMMA GroundCorrect == Spec => []Ground
<1>1. Init => Ground
  BY DEF Init, Ground, VpnIsTunnel, NoLanNoTable, IdleJob
<1>2. IInv /\ Ground /\ [Next]_vars => Ground'
  BY VpnIsTunnelStep, NoLanStep DEF IInv, Ground
<1> QED
  BY <1>1, <1>2, InvCorrect, PTL DEF Spec

\* Settings under which the kill switch is on never tear down.
LEMMA KillSwitchBuilds ==
  ASSUME KillSwitchOn, Lan # NoIface
  PROVE  ~TeardownOnly(settings)
BY DEF KillSwitchOn, TeardownOnly

\* Every step keeps the seal.
LEMMA SealStep ==
  ASSUME Lan = Wan, IInv, Ground, SealKept, [SealNext]_svars
  PROVE  SealKept'
<1> SUFFICES ASSUME sealed'
             PROVE  /\ notified' /\ KillSwitchOn' /\ ~LineOpen(table') /\ job'.kind # "teardown"
                    /\ job'.kind = "apply" => ~LineOpen(job'.script)
  BY DEF SealKept, LineOpen
<1> USE DEF LineOpen
<1>1. CASE UNCHANGED svars
  BY <1>1 DEF svars, vars, memory, chain, SealKept, KillSwitchOn
<1>2. CASE SealNext
  <2>1. notified' /\ KillSwitchOn' /\ (sealed \/ InForce')
    BY <1>2 DEF SealNext, SealedNext
  <2>2. CASE InForce'
    BY <2>1, <2>2 DEF InForce, Settled, Idle
  <2>3. CASE sealed
    <3>1. /\ notified /\ KillSwitchOn /\ ~LineOpen(table) /\ job.kind # "teardown"
          /\ job.kind = "apply" => ~LineOpen(job.script)
      BY <2>3 DEF SealKept
    <3>2. job \in Jobs /\ Lan # NoIface /\ settings \in Settings
      BY <3>1 DEF IInv, TypeOK, Ground, NoLanNoTable
    <3>3. CASE StartReconcile
      <4>1. ~TeardownOnly(settings)
        BY <3>1, <3>2, KillSwitchBuilds
      <4>2. table' = table /\ \/ job' = job
                              \/ /\ job'.kind = "apply"
                                 /\ job'.script = BuildRuleset(settings, vpnIface, bypassSet)
        BY <3>3, <4>1 DEF StartReconcile, Send
      <4>3. ~LineOpen(BuildRuleset(settings, vpnIface, bypassSet))
        BY <3>1, <3>2, BuiltClosed DEF KillSwitchOn, IInv, TypeOK, Ground, VpnIsTunnel
      <4> QED
        BY <2>1, <3>1, <4>2, <4>3
    <3>4. CASE StartAdd
      BY <2>1, <3>1, <3>4 DEF StartAdd, Send
    <3>5. CASE NftCommit
      <4>1. job'.kind = job.kind /\ job'.script = job.script /\ CanCommit /\ table' = TableAfter
        BY <3>2, <3>5, PhaseOnly DEF NftCommit
      <4>2. ~LineOpen(TableAfter)
        <5>1. CASE job.kind = "add"
          <6>1. table \in Rules /\ job.addrs \in SUBSET Addrs
            BY <3>2, <4>1, <5>1 DEF CanCommit, IInv, TypeOK, Tables, Jobs
          <6>2. table.elems \cup job.addrs \in SUBSET Addrs
            BY <6>1 DEF Rules
          <6>3. SameRules(TableAfter, table)
            BY <5>1, <6>1, <6>2, ElemsLeaveRules DEF TableAfter
          <6> QED
            BY <3>1, <6>3 DEF SameRules
        <5>2. CASE job.kind = "apply"
          BY <3>1, <5>2 DEF TableAfter
        <5> QED
          BY <3>1, <3>2, <4>1, <5>1, <5>2 DEF CanCommit, IInv, JobShape, Jobs
      <4> QED
        BY <2>1, <3>1, <4>1, <4>2
    <3>6. ASSUME FinishApply \/ FinishTeardown
          PROVE  /\ ~LineOpen(table') /\ job'.kind # "teardown"
                 /\ job'.kind = "apply" => ~LineOpen(job'.script)
      BY <3>1, <3>2, <3>6, PhaseOnly DEF FinishApply, FinishTeardown
    <3>7. ASSUME FinishAdd \/ FinishRouting
          PROVE  /\ ~LineOpen(table') /\ job'.kind # "teardown"
                 /\ job'.kind = "apply" => ~LineOpen(job'.script)
      BY <3>1, <3>7, Rest DEF Rests
    <3>8. CASE Restart
      BY <2>1, <3>8 DEF Restart
    <3>9. CASE UNCHANGED <<job, table>>
      BY <2>1, <3>1, <3>9
    <3> QED
      BY <1>2, <2>1, <3>3, <3>4, <3>5, <3>6, <3>7, <3>8, <3>9
         DEF SealNext, Next, chain, ApplySettings, ReadEgress, UpdateVpnInterface, AddBypass,
             EgressChange
  <2> QED
    BY <2>1, <2>2, <2>3
<1> QED
  BY <1>1, <1>2

\* A behaviour with the history is one of the controller.
LEMMA SealIsSpec == SealSpec => Spec
<1>1. SealInit => Init
  BY DEF SealInit
<1>2. [SealNext]_svars => [Next]_vars
  BY DEF SealNext, svars
<1> QED
  BY <1>1, <1>2, PTL DEF SealSpec, Spec

\* Once the kill switch is in force LAN traffic never leaves by the line, for
\* every number of interfaces and checkers, every queue and every fault,
\* where the line is the LAN interface itself (WAN_IFACE is not set,
\* gateway-controller.ts:97).
THEOREM KillSwitchCloses == ASSUME Lan = Wan PROVE SealSpec => []KillSwitchHolds
<1>1. SealInit => SealKept
  BY DEF SealInit, SealKept
<1>2. IInv /\ Ground /\ SealKept /\ [SealNext]_svars => SealKept'
  BY SealStep
<1>3. SealKept => KillSwitchHolds
  BY DEF SealKept, KillSwitchHolds
<1> QED
  BY <1>1, <1>2, <1>3, SealIsSpec, InvCorrect, GroundCorrect, PTL DEF SealSpec

-----------------------------------------------------------------------------
(* The register.  The rules wanted, the rules of the script under way and  *)
(* the rules in the kernel change as the abstract register allows.         *)

\* Bypass addresses are no part of the rules.
LEMMA RulesOfSame ==
  ASSUME NEW t \in Rules, NEW es \in SUBSET Addrs
  PROVE  [t EXCEPT !.elems = es] \in Rules /\ RulesOf([t EXCEPT !.elems = es]) = RulesOf(t)
<1>1. [t EXCEPT !.elems = es] \in Rules
  BY DEF Rules
<1> QED
  BY <1>1 DEF RulesOf, Rules

\* The rules of a table are a value of the register.
LEMMA RulesOfType ==
  ASSUME NEW t \in Tables
  PROVE  RulesOf(t) \in RuleValues
BY DEF RulesOf, RuleValues, Tables, Rules

\* What the settings and the tunnel call for is a table.
LEMMA DesiredType == TypeOK => Desired \in Tables
BY BuildRulesetType DEF TypeOK, Desired, TeardownOnly, Tables

\* It depends on the bypass addresses in their set only.
LEMMA DesiredRules ==
  ASSUME TypeOK, TypeOK', settings' = settings, vpnIface' = vpnIface
  PROVE  RulesOf(Desired') = RulesOf(Desired)
<1>1. CASE TeardownOnly(settings)
  BY <1>1 DEF Desired
<1>2. CASE ~TeardownOnly(settings)
  <2>1. /\ BuildRuleset(settings, vpnIface, bypassSet) \in Rules
        /\ BuildRuleset(settings, vpnIface, bypassSet') \in Rules
    BY <1>2, BuildRulesetType DEF TypeOK, TeardownOnly
  <2> QED
    BY <1>2, <2>1 DEF Desired, RulesOf, BuildRuleset
<1> QED
  BY <1>1, <1>2

Fetched == IF Installing THEN {RulesOf(job.script)} ELSE {}

\* Every step of the controller is one of the register, or none.
LEMMA RegisterStep ==
  ASSUME TypeOK, TypeOK', JobShape, [Next]_vars
  PROVE  [Register!Next]_(Register!rvars)
<1> DEFINE Wanted    == RulesOf(Desired)
           Installed == RulesOf(table)
           Step == \/ UNCHANGED <<Wanted, Fetched, Installed>>
                   \/ UNCHANGED <<Fetched, Installed>>
                   \/ Fetched = {} /\ Fetched' = {Wanted} /\ UNCHANGED <<Wanted, Installed>>
                   \/ Installed' \in Fetched /\ UNCHANGED <<Wanted, Fetched>>
                   \/ Fetched # {} /\ Fetched' = {} /\ UNCHANGED <<Wanted, Installed>>
                   \/ Fetched' = {} /\ Installed' \in {Installed} \cup Fetched
<1>1. Wanted' \in RuleValues
  <2>1. (TypeOK => Desired \in Tables)'
    BY DesiredType, PTL
  <2> QED
    BY <2>1, RulesOfType
<1>2. SUFFICES Step
  BY <1>1 DEF Register!Next, Register!rvars, Register!Want, Register!Fetch, Register!Install,
     Register!Release, Register!Crash, Fetched
<1>3. job \in Jobs
  BY DEF TypeOK
<1>4. CASE StartReconcile
  <2>1. UNCHANGED <<settings, vpnIface, table>> /\ job.kind = "idle"
    BY <1>4 DEF StartReconcile, Ready, Idle
  <2>2. UNCHANGED <<Wanted, Installed>> /\ Fetched = {}
    BY <2>1, DesiredRules DEF Fetched, Installing
  <2>3. CASE job' = job
    BY <2>2, <2>3 DEF Fetched, Installing
  <2>4. CASE job' # job
    <3>1. /\ job'.kind \in {"apply", "teardown"} /\ job'.phase = "sent"
          /\ job'.script = Desired
      BY <1>4, <2>4 DEF StartReconcile, Send, Desired
    <3>2. Fetched' = {Wanted}
      BY <3>1 DEF Fetched, Installing
    <3> QED
      BY <2>2, <3>2
  <2> QED
    BY <2>3, <2>4
<1>5. CASE StartAdd
  <2>1. UNCHANGED <<settings, vpnIface, table>> /\ job.kind = "idle" /\ job'.kind \in {"idle", "add"}
    BY <1>5 DEF StartAdd, Ready, Idle, Send, memory
  <2>2. UNCHANGED <<Wanted, Installed>> /\ Fetched = {} /\ Fetched' = {}
    BY <2>1, DesiredRules DEF Fetched, Installing
  <2> QED
    BY <2>2
<1>6. CASE NftCommit
  <2>1. /\ UNCHANGED <<settings, vpnIface>> /\ CanCommit /\ job.phase = "sent"
        /\ table' = TableAfter /\ job'.phase = "committed"
        /\ job'.kind = job.kind /\ job'.script = job.script
    BY <1>3, <1>6, PhaseOnly DEF NftCommit, memory, CanCommit, Jobs
  <2>2. UNCHANGED <<Wanted, Fetched>>
    BY <2>1, DesiredRules DEF Fetched, Installing
  <2>3. CASE job.kind = "add"
    <3>1. table \in Rules /\ table.elems \cup job.addrs \in SUBSET Addrs
      BY <1>3, <2>1, <2>3 DEF CanCommit, TypeOK, Tables, Rules, Jobs
    <3>2. Installed' = Installed
      BY <2>1, <2>3, <3>1, RulesOfSame DEF TableAfter
    <3> QED
      BY <2>2, <3>2
  <2>4. CASE job.kind # "add"
    <3>1. job.kind \in {"apply", "teardown"}
      BY <1>3, <2>1, <2>4 DEF JobShape, Jobs
    <3>2. Installed' \in Fetched
      BY <2>1, <2>4, <3>1 DEF TableAfter, Fetched, Installing
    <3> QED
      BY <2>2, <3>2
  <2> QED
    BY <2>3, <2>4
<1>7. ASSUME FinishApply \/ FinishTeardown
      PROVE  Step
  <2>1. /\ UNCHANGED <<settings, vpnIface, table>> /\ Installing /\ job'.phase = "routing"
    BY <1>3, <1>7
       DEF FinishApply, FinishTeardown, ExitOk, ExitFail, Installing, Jobs
  <2>2. UNCHANGED <<Wanted, Installed>> /\ Fetched # {} /\ Fetched' = {}
    BY <2>1, DesiredRules DEF Fetched, Installing
  <2> QED
    BY <2>2
<1>8. ASSUME FinishAdd \/ FinishRouting
      PROVE  Step
  <2>1. UNCHANGED <<settings, vpnIface>> /\ ~Installing
    BY <1>8 DEF FinishAdd, FinishRouting, memory, Installing
  <2>2. UNCHANGED <<Wanted, Installed>> /\ Fetched = {} /\ Fetched' = {}
    BY <1>8, <2>1, DesiredRules, Rest DEF Fetched, Installing, Rests
  <2> QED
    BY <2>2
<1>9. CASE Restart
  <2>1. job'.kind = "idle" /\ (table' = table \/ (CanCommit /\ table' = TableAfter))
    BY <1>9 DEF Restart, IdleJob
  <2>2. Fetched' = {}
    BY <2>1 DEF Fetched, Installing
  <2>3. Installed' \in {Installed} \cup Fetched
    <3>1. CASE table' = table
      BY <3>1
    <3>2. CASE CanCommit /\ table' = TableAfter /\ job.kind = "add"
      <4>1. table \in Rules /\ table.elems \cup job.addrs \in SUBSET Addrs
        BY <1>3, <3>2 DEF CanCommit, TypeOK, Tables, Rules, Jobs
      <4> QED
        BY <3>2, <4>1, RulesOfSame DEF TableAfter
    <3>3. CASE CanCommit /\ table' = TableAfter /\ job.kind # "add"
      <4>1. Installing /\ table' = job.script
        BY <1>3, <3>3 DEF CanCommit, Installing, JobShape, TableAfter, Jobs
      <4> QED
        BY <4>1 DEF Fetched
    <3> QED
      BY <2>1, <3>1, <3>2, <3>3
  <2> QED
    BY <2>2, <2>3
<1>10. CASE UNCHANGED <<job, table>>
  BY <1>10 DEF Fetched, Installing
<1> QED
  BY <1>4, <1>5, <1>6, <1>7, <1>8, <1>9, <1>10
     DEF Next, vars, chain, ApplySettings, ReadEgress, UpdateVpnInterface, AddBypass, EgressChange

\* The kernel's rules are only ever replaced as a whole, by those wanted when
\* their reconcile started, whatever fails and whenever the process restarts.
THEOREM RegisterImplemented == Spec => ImplementsRegister
<1>1. Init => Register!Init
  <2> SUFFICES ASSUME Init
               PROVE  Register!Init
    OBVIOUS
  <2>1. TypeOK
    BY InitialValues DEF Init, TypeOK, Names
  <2>2. RulesOf(Desired) \in RuleValues /\ RulesOf(table) \in RuleValues
    BY <2>1, DesiredType, RulesOfType DEF TypeOK
  <2> QED
    BY <2>2 DEF Init, Register!Init, Installing, IdleJob
<1>2. IInv /\ IInv' /\ [Next]_vars => [Register!Next]_(Register!rvars)
  BY RegisterStep DEF IInv
<1> QED
  BY <1>1, <1>2, InvCorrect, PTL DEF Spec, ImplementsRegister, Register!Spec

-----------------------------------------------------------------------------
(* The bypass addresses.  An address that is held in memory is in the      *)
(* kernel's set, is lost, waits in the chain or is being sent; or a        *)
(* reconcile waits that will take it over, or runs with it in its script.  *)

Queued(a)  == \E i \in 1 .. Len(queue) : queue[i].kind = "add" /\ a \in queue[i].addrs
Sending(a) == job.kind = "add" /\ job.phase = "sent" /\ a \in job.addrs

\* A script that was committed, or counts as applied, is the table, also with
\* its addresses: no command comes between.
ScriptWhole ==
  job.kind = "apply" /\ (job.phase = "committed" \/ (job.phase = "routing" /\ lastOk))
    => table = job.script

\* The running reconcile brings the addresses, unless another one waits.
ScriptCovers ==
  ~Covered /\ BypassActive /\ job.kind = "apply"
    => \A a \in bypassSet : a \in job.script.elems \/ Queued(a)

\* With no reconcile waiting or running, no address is forgotten.
TableCovers ==
  ~Covered /\ lastOk /\ BypassActive /\ job.kind \notin {"apply", "teardown"}
    => \A a \in bypassSet : a \in table.elems \cup lostAdds \/ Queued(a) \/ Sending(a)

CoverInv == ScriptWhole /\ ScriptCovers /\ TableCovers

\* Steps that leave the job, the kernel and what was registered alone, and uncover
\* nothing.
LEMMA CoverQuiet ==
  ASSUME CoverInv, settings' = settings, lastOk' = lastOk, bypassSet' = bypassSet, job' = job,
         table' = table, lostAdds' = lostAdds, queue' = queue, rejected' = rejected
  PROVE  CoverInv'
<1>1. (Covered' <=> Covered) /\ (BypassActive' <=> BypassActive)
  BY DEF Covered, PendingReconcile, BypassActive
<1>2. \A a : (Queued(a)' <=> Queued(a)) /\ (Sending(a)' <=> Sending(a))
  BY DEF Queued, Sending
<1>3. ScriptWhole' /\ ScriptCovers'
  BY <1>1, <1>2 DEF CoverInv, ScriptWhole, ScriptCovers
<1>4. TableCovers'
  BY <1>1, <1>2 DEF CoverInv, TableCovers
<1> QED
  BY <1>3, <1>4 DEF CoverInv

\* Nothing is claimed while a reconcile waits.
LEMMA CoverWaiting ==
  ASSUME CoverInv, Covered', lastOk' = lastOk, job' = job, table' = table
  PROVE  CoverInv'
BY DEF CoverInv, ScriptWhole, ScriptCovers, TableCovers

\* Appending puts the element last.
LEMMA AppendLast ==
  ASSUME NEW S, NEW q \in Seq(S), NEW e \in S
  PROVE  /\ Len(q) + 1 \in 1 .. Len(Append(q, e))
         /\ Append(q, e)[Len(q) + 1] = e
<1>1. Len(q) \in Nat /\ Len(Append(q, e)) = Len(q) + 1
  OBVIOUS
<1> QED
  BY <1>1

\* A task behind it does not disturb what waits.
LEMMA EnqueueKeepsQueued ==
  ASSUME TypeOK, NEW t \in Tasks, queue' = Append(queue, t), NEW a, Queued(a)
  PROVE  Queued(a)'
<1>1. PICK i \in 1 .. Len(queue) : queue[i].kind = "add" /\ a \in queue[i].addrs
  BY DEF Queued
<1>2. i \in 1 .. Len(queue') /\ queue'[i] = queue[i]
  BY <1>1 DEF TypeOK
<1> QED
  BY <1>1, <1>2 DEF Queued

\* Only what is in the first task stops waiting when it starts.
LEMMA TailKeepsQueued ==
  ASSUME TypeOK, queue # <<>>, queue' = Tail(queue), NEW a, Queued(a), a \notin Head(queue).addrs
  PROVE  Queued(a)'
<1>1. PICK i \in 1 .. Len(queue) : queue[i].kind = "add" /\ a \in queue[i].addrs
  BY DEF Queued
<1>2. i # 1
  BY <1>1 DEF TypeOK
<1>3. i - 1 \in 1 .. Len(queue') /\ queue'[i - 1] = queue[i]
  BY <1>1, <1>2 DEF TypeOK
<1> QED
  BY <1>1, <1>3 DEF Queued

\* An address that is registered waits in the chain from then on.
LEMMA AddBypassCover ==
  ASSUME IInv, CoverInv, NEW as \in SUBSET Addrs, AddBypass(as)
  PROVE  CoverInv'
<1>1. /\ settings' = settings /\ lastOk' = lastOk /\ job' = job /\ table' = table
      /\ lostAdds' = lostAdds /\ rejected' = rejected /\ bypassSet' = bypassSet \cup as
  BY DEF AddBypass
<1>2. BypassActive' <=> BypassActive
  BY <1>1 DEF BypassActive
<1>3. CASE ~BypassActive
  BY <1>1, <1>2, <1>3 DEF CoverInv, ScriptWhole, ScriptCovers, TableCovers
<1>4. CASE rejected
  BY <1>1, <1>4, CoverWaiting DEF Covered
<1>5. CASE BypassActive /\ ~rejected
  <2>1. queue' = Append(queue, AddTask(as)) /\ AddTask(as) \in Tasks /\ Enqueue(AddTask(as))
    BY <1>5 DEF AddBypass, Enqueue, Tasks
  <2>2. Covered => Covered'
    BY <1>1, <2>1, EnqueueKeepsCovered DEF IInv
  <2>3. ASSUME NEW a \in as
        PROVE  Queued(a)'
    <3>1. AddTask(as).kind = "add" /\ a \in AddTask(as).addrs
      BY <2>3 DEF AddTask
    <3>2. queue \in Seq(Tasks)
      BY DEF IInv, TypeOK
    <3>3. AddTask(as) \in Tasks /\ queue' = Append(queue, AddTask(as))
      BY <2>1
    <3>4. /\ Len(queue) + 1 \in 1 .. Len(Append(queue, AddTask(as)))
          /\ Append(queue, AddTask(as))[Len(queue) + 1] = AddTask(as)
      BY <3>2, <3>3, AppendLast, Zenon
    <3>5. Len(queue) + 1 \in 1 .. Len(queue') /\ queue'[Len(queue) + 1] = AddTask(as)
      BY <3>3, <3>4
    <3>6. queue'[Len(queue) + 1].kind = "add" /\ a \in queue'[Len(queue) + 1].addrs
      BY <3>1, <3>5, Zenon
    <3> QED
      BY <3>5, <3>6, Zenon DEF Queued
  <2>4. \A a : Queued(a) => Queued(a)'
    BY <2>1, EnqueueKeepsQueued DEF IInv
  <2>5. \A a : Sending(a)' <=> Sending(a)
    BY <1>1 DEF Sending
  <2>6. ScriptWhole' /\ ScriptCovers'
    BY <1>1, <1>2, <2>2, <2>3, <2>4 DEF CoverInv, ScriptWhole, ScriptCovers
  <2>7. TableCovers'
    BY <1>1, <1>2, <2>2, <2>3, <2>4, <2>5 DEF CoverInv, TableCovers
  <2> QED
    BY <2>6, <2>7 DEF CoverInv
<1> QED
  BY <1>3, <1>4, <1>5

\* A reconcile that starts takes over what is held in memory.
LEMMA StartReconcileCover ==
  ASSUME IInv, CoverInv, StartReconcile
  PROVE  CoverInv'
<1>1. /\ job.kind = "idle" /\ lastOk' = lastOk /\ table' = table /\ settings' = settings
      /\ lostAdds' = lostAdds
  BY DEF StartReconcile, Ready, Idle
<1>2. CASE TeardownOnly(settings)
  <2>1. job'.kind = "teardown"
    BY <1>2 DEF StartReconcile, Send
  <2> QED
    BY <2>1 DEF CoverInv, ScriptWhole, ScriptCovers, TableCovers
<1>3. CASE ~TeardownOnly(settings) /\ vpnIface \in BadNames
  <2>1. rejected' /\ job' = job
    BY <1>3 DEF StartReconcile
  <2> QED
    BY <1>1, <2>1, CoverWaiting DEF Covered
<1>4. CASE ~TeardownOnly(settings) /\ vpnIface \notin BadNames
  <2>1. /\ job'.kind = "apply" /\ job'.phase = "sent"
        /\ job'.script = BuildRuleset(settings, vpnIface, bypassSet)
        /\ bypassSet' = IF settings.bypass THEN bypassSet ELSE {}
    BY <1>4 DEF StartReconcile, Send
  <2>2. bypassSet' \subseteq job'.script.elems
    BY <2>1 DEF BuildRuleset
  <2> QED
    BY <2>1, <2>2 DEF CoverInv, ScriptWhole, ScriptCovers, TableCovers
<1> QED
  BY <1>2, <1>3, <1>4

\* The addresses of an add that starts are being sent.
LEMMA StartAddCover ==
  ASSUME IInv, CoverInv, StartAdd
  PROVE  CoverInv'
<1>1. /\ job.kind = "idle" /\ lastOk' = lastOk /\ table' = table /\ settings' = settings
      /\ bypassSet' = bypassSet /\ lostAdds' = lostAdds /\ rejected' = rejected
      /\ queue # <<>> /\ Head(queue).kind # "reconcile" /\ queue' = Tail(queue)
  BY DEF StartAdd, Ready, Idle, memory
<1>2. Covered => Covered'
  BY <1>1, TailKeepsCovered DEF IInv
<1>3. job'.kind \in {"idle", "add"}
  BY <1>1 DEF StartAdd, Send
<1>4. ScriptWhole' /\ ScriptCovers'
  BY <1>3 DEF ScriptWhole, ScriptCovers
<1>5. TableCovers'
  <2> SUFFICES ASSUME ~Covered', lastOk, BypassActive, NEW a \in bypassSet
               PROVE  a \in table.elems \cup lostAdds \/ Queued(a)' \/ Sending(a)'
    BY <1>1 DEF TableCovers, BypassActive
  <2>1. a \in table.elems \cup lostAdds \/ Queued(a)
    BY <1>1, <1>2 DEF CoverInv, TableCovers, Sending
  <2>2. CASE a \in Head(queue).addrs
    BY <2>2 DEF StartAdd, Send, Sending
  <2>3. CASE a \notin Head(queue).addrs
    BY <1>1, <2>1, <2>3, TailKeepsQueued DEF IInv
  <2> QED
    BY <2>2, <2>3
<1> QED
  BY <1>4, <1>5 DEF CoverInv

\* What is committed is in the table.
LEMMA NftCommitCover ==
  ASSUME IInv, CoverInv, NftCommit
  PROVE  CoverInv'
<1>1. /\ settings' = settings /\ lastOk' = lastOk /\ bypassSet' = bypassSet
      /\ queue' = queue /\ rejected' = rejected /\ CanCommit /\ table' = TableAfter
      /\ job' = [job EXCEPT !.phase = "committed"] /\ job \in Jobs
  BY DEF NftCommit, memory, IInv, TypeOK
<1>2. /\ job'.kind = job.kind /\ job'.script = job.script /\ job'.phase = "committed"
      /\ job.phase = "sent"
  BY <1>1 DEF Jobs, CanCommit
<1>3. (Covered' <=> Covered) /\ (BypassActive' <=> BypassActive) /\ \A a : Queued(a)' <=> Queued(a)
  BY <1>1 DEF Covered, PendingReconcile, BypassActive, Queued
<1>4. ScriptWhole' /\ ScriptCovers'
  BY <1>1, <1>2, <1>3 DEF CoverInv, ScriptWhole, ScriptCovers, TableAfter
<1>5. TableCovers'
  <2>1. CASE job.kind = "add"
    <3>1. table \in Rules
      BY <1>1, <2>1 DEF CanCommit, IInv, TypeOK, Tables
    <3>2. table'.elems = table.elems \cup job.addrs
      BY <1>1, <2>1, <3>1 DEF TableAfter, Rules
    <3>3. lostAdds' = lostAdds \ job.addrs
      BY <2>1 DEF NftCommit
    <3> QED
      BY <1>1, <1>2, <1>3, <2>1, <3>2, <3>3 DEF CoverInv, TableCovers, Sending
  <2>2. CASE job.kind # "add"
    BY <1>1, <1>2, <2>2 DEF TableCovers, IInv, JobShape, Jobs
  <2> QED
    BY <2>1, <2>2
<1> QED
  BY <1>4, <1>5 DEF CoverInv

\* An apply that ends well has put its addresses in force.
LEMMA FinishApplyCover ==
  ASSUME IInv, CoverInv, FinishApply
  PROVE  CoverInv'
<1>1. /\ settings' = settings /\ bypassSet' = bypassSet /\ table' = table /\ job.kind = "apply"
      /\ queue' = queue /\ rejected' = rejected /\ job' = [job EXCEPT !.phase = "routing"]
      /\ lastOk' => job.phase = "committed"
  BY DEF FinishApply, ExitOk
<1>2. job'.kind = "apply" /\ job'.script = job.script /\ job'.phase = "routing"
  BY <1>1, PhaseOnly DEF IInv, TypeOK, Jobs
<1>3. (Covered' <=> Covered) /\ (BypassActive' <=> BypassActive) /\ \A a : Queued(a)' <=> Queued(a)
  BY <1>1 DEF Covered, PendingReconcile, BypassActive, Queued
<1> QED
  BY <1>1, <1>2, <1>3 DEF CoverInv, ScriptWhole, ScriptCovers, TableCovers

\* Addresses whose add did not take effect are lost.
LEMMA FinishAddCover ==
  ASSUME IInv, CoverInv, FinishAdd
  PROVE  CoverInv'
<1>1. /\ settings' = settings /\ lastOk' = lastOk /\ bypassSet' = bypassSet /\ table' = table
      /\ queue' = queue /\ rejected' = rejected /\ job.kind = "add" /\ job' = IdleJob
  BY DEF FinishAdd, memory
<1>2. job'.kind = "idle"
  BY <1>1 DEF IdleJob
<1>3. (Covered' <=> Covered) /\ (BypassActive' <=> BypassActive) /\ \A a : Queued(a)' <=> Queued(a)
  BY <1>1 DEF Covered, PendingReconcile, BypassActive, Queued
<1>4. lostAdds \subseteq lostAdds' /\ \A a : Sending(a) => a \in lostAdds'
  BY DEF FinishAdd, ExitOk, Sending
<1> QED
  BY <1>1, <1>2, <1>3, <1>4 DEF CoverInv, ScriptWhole, ScriptCovers, TableCovers

\* A reconcile that has ended leaves its addresses in the table.
LEMMA FinishRoutingCover ==
  ASSUME IInv, CoverInv, FinishRouting
  PROVE  CoverInv'
<1>1. /\ settings' = settings /\ bypassSet' = bypassSet /\ table' = table /\ job.phase = "routing"
      /\ queue' = queue /\ rejected' = rejected /\ job' = IdleJob /\ lostAdds' = lostAdds
      /\ lastOk' = IF job.kind = "teardown" THEN TRUE ELSE lastOk
  BY DEF FinishRouting
<1>2. job'.kind = "idle"
  BY <1>1 DEF IdleJob
<1>3. (Covered' <=> Covered) /\ (BypassActive' <=> BypassActive) /\ \A a : Queued(a)' <=> Queued(a)
  BY <1>1 DEF Covered, PendingReconcile, BypassActive, Queued
<1>4. ScriptWhole' /\ ScriptCovers'
  BY <1>2 DEF ScriptWhole, ScriptCovers
<1>5. CASE job.kind = "apply"
  <2>1. lastOk' = lastOk
    BY <1>1, <1>5
  <2>2. lastOk => table = job.script
    BY <1>1, <1>5 DEF CoverInv, ScriptWhole
  <2>3. ~Covered /\ BypassActive => \A a \in bypassSet : a \in job.script.elems \/ Queued(a)
    BY <1>5 DEF CoverInv, ScriptCovers
  <2>4. ~Covered /\ lastOk /\ BypassActive => \A a \in bypassSet : a \in table.elems \/ Queued(a)
    BY <2>2, <2>3
  <2>5. TableCovers'
    BY <1>1, <1>3, <2>1, <2>4 DEF TableCovers
  <2> QED
    BY <1>4, <2>5 DEF CoverInv
<1>6. CASE job.kind = "teardown"
  <2>1. Covered \/ ~BypassActive
    BY <1>6 DEF IInv, JobFits, TeardownOnly, BypassActive
  <2> QED
    BY <1>3, <1>4, <2>1 DEF CoverInv, TableCovers
<1>7. job.kind \in {"apply", "teardown"}
  BY <1>1 DEF IInv, JobShape, TypeOK, Jobs
<1> QED
  BY <1>5, <1>6, <1>7

\* Every step keeps the addresses covered.
LEMMA CoverStep == IInv /\ CoverInv /\ [Next]_vars => CoverInv'
<1> SUFFICES ASSUME IInv, CoverInv, [Next]_vars
             PROVE  CoverInv'
  OBVIOUS
<1>1. ASSUME NEW s \in UserSettings, ApplySettings(s)
      PROVE  CoverInv'
  <2>1. CASE Unchanged(s)
    BY <1>1, <2>1, CoverQuiet DEF ApplySettings, Unchanged
  <2>2. CASE ~Unchanged(s)
    BY <1>1, <2>2, ReconcileCovers, CoverWaiting DEF ApplySettings, IInv
  <2> QED
    BY <2>1, <2>2
<1>2. ASSUME NEW c \in Checkers, NEW vpn \in Names \cup {NoIface}, UpdateVpnInterface(c, vpn)
      PROVE  CoverInv'
  <2>1. CASE vpn = vpnIface
    BY <1>2, <2>1, CoverQuiet DEF UpdateVpnInterface
  <2>2. CASE vpn # vpnIface
    BY <1>2, <2>2, ReconcileCovers, CoverWaiting DEF UpdateVpnInterface, IInv
  <2> QED
    BY <2>1, <2>2
<1>3. ASSUME NEW c \in Checkers, ReadEgress(c)
      PROVE  CoverInv'
  BY <1>3, CoverQuiet DEF ReadEgress, memory, chain
<1>4. ASSUME NEW e \in Names \cup {NoIface}, EgressChange(e)
      PROVE  CoverInv'
  BY <1>4, CoverQuiet DEF EgressChange, memory, chain
<1>5. CASE FinishTeardown
  <2>1. bypassSet' = {} /\ table' = table /\ job.kind = "teardown" /\ job'.kind = "teardown"
    BY <1>5, PhaseOnly DEF FinishTeardown, IInv, TypeOK
  <2> QED
    BY <2>1 DEF CoverInv, ScriptWhole, ScriptCovers, TableCovers
<1>6. CASE Restart
  <2>1. lastOk' = FALSE /\ job'.kind = "idle"
    BY <1>6 DEF Restart, IdleJob
  <2> QED
    BY <2>1 DEF CoverInv, ScriptWhole, ScriptCovers, TableCovers
<1>7. CASE UNCHANGED vars
  BY <1>7, CoverQuiet DEF vars, memory, chain
<1> QED
  BY <1>1, <1>2, <1>3, <1>4, <1>5, <1>6, <1>7, AddBypassCover, StartReconcileCover, StartAddCover,
     NftCommitCover, FinishApplyCover, FinishAddCover, FinishRoutingCover
     DEF Next

\* No registered address is forgotten: once the chain is empty each is in the
\* kernel's set, unless its own command failed, whenever it was registered.
THEOREM BypassCoveredHolds == Spec => []BypassCovered
<1>1. Init => CoverInv
  BY DEF Init, CoverInv, IdleJob, ScriptWhole, ScriptCovers, TableCovers
<1>2. CoverInv => BypassCovered
  BY DEF CoverInv, TableCovers, BypassCovered, Settled, Idle, Covered, PendingReconcile, Queued,
         Sending
<1> QED
  BY <1>1, <1>2, CoverStep, InvCorrect, PTL DEF Spec
=============================================================================
