-------------------------- MODULE MCPolicyRouting --------------------------
(***************************************************************************)
(* Small instances of PolicyRouting: two gateways, two connection checks   *)
(* that overlap with the running task of the queue.                         *)
(***************************************************************************)
EXTENDS PolicyRouting

CONSTANTS g1, g10

Addresses   == {g1, g10}
OnePrefix   == {<<g1, g10>>}
=============================================================================
