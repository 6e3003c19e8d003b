--------------------------- MODULE MCVerification ---------------------------
(***************************************************************************)
(* Small instances of Verification: with one verification kept and one     *)
(* name registered, a second one drops what the first has left.            *)
(***************************************************************************)
EXTENDS Verification
=============================================================================
