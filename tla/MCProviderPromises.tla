------------------------- MODULE MCProviderPromises -------------------------
(***************************************************************************)
(* Small instances of ProviderPromises.                                    *)
(***************************************************************************)
EXTENDS ProviderPromises, TLC

Alike == Permutations(Providers) \cup Permutations(Locations) \cup Permutations(Requests)
=============================================================================
