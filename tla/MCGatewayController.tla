------------------------ MODULE MCGatewayController ------------------------
(***************************************************************************)
(* Small instances of GatewayController.                                   *)
(***************************************************************************)
EXTENDS GatewayController

Setting(transparent, killSwitch, bypass, redirect) ==
  [transparent |-> transparent, killSwitch |-> killSwitch,
   bypass |-> bypass, redirect |-> redirect]

Off      == Setting(FALSE, TRUE, FALSE, FALSE)
DnsOnly  == Setting(FALSE, TRUE, FALSE, TRUE)
Guarded  == Setting(TRUE, TRUE, FALSE, FALSE)
FailOpen == Setting(TRUE, FALSE, FALSE, FALSE)
Bypassed == Setting(TRUE, TRUE, TRUE, FALSE)

AllSettings == {Off, DnsOnly, Guarded, FailOpen, Bypassed}
FewSettings == {Off, Guarded, FailOpen, Bypassed}
AllFaults   == {"apply", "teardown", "add"}
NoFaults    == {}
=============================================================================
