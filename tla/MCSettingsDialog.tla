-------------------------- MODULE MCSettingsDialog --------------------------
(***************************************************************************)
(* A small instance of SettingsDialog for what its comments and the        *)
(* requirements say of it and the code does not do: two openings, and the  *)
(* items of the relay, its upstream and its behaviour on failure.          *)
(***************************************************************************)
EXTENDS SettingsDialog
=============================================================================
