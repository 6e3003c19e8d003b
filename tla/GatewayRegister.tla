--------------------------- MODULE GatewayRegister ---------------------------
(***************************************************************************)
(* The gateway controller implements the register of rule sets.            *)
(***************************************************************************)
EXTENDS GatewayController

\* A table without its bypass addresses, which come and go by other commands.
RulesOf(t) ==
  IF t = NoTable THEN NoTable
  ELSE [forward |-> t.forward, bypass |-> t.bypass, redirect |-> t.redirect]

RuleValues == [forward : Forwards, bypass : BOOLEAN, redirect : BOOLEAN] \cup {NoTable}

Installing == job.kind \in {"apply", "teardown"} /\ job.phase \in {"sent", "committed"}

Register == INSTANCE RuleRegister WITH
  Values    <- RuleValues,
  wanted    <- RulesOf(Desired),
  fetched   <- IF Installing THEN {RulesOf(job.script)} ELSE {},
  installed <- RulesOf(table)

\* Every behaviour of the controller, faults and restarts included, is one of
\* the register: the kernel never holds rules other than those wanted when
\* their reconcile started (gateway-controller.ts, lines 227-272).
ImplementsRegister == Register!Spec
=============================================================================
