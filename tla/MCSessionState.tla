--------------------------- MODULE MCSessionState ---------------------------
(***************************************************************************)
(* Small instances of SessionState.                                        *)
(***************************************************************************)
EXTENDS SessionState

MCRefused   == {"connectToLocation", "locationList"}
MCRestricts == {"connectToLocation"}
=============================================================================
