----------------------------- MODULE MCGateway ------------------------------
(***************************************************************************)
(* The gateway controller with the history of its kill switch, the         *)
(* register that it implements and the checks that read its rules back, on *)
(* the settings of MCGatewayController.                                    *)
(***************************************************************************)
EXTENDS MCGatewayController, GatewayKillSwitch, GatewayRegister, RuleAudit
=============================================================================
