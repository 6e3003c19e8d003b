---------------------------- MODULE RuleRegister ----------------------------
(***************************************************************************)
(* What the gateway controller promises about the rules in the kernel: one *)
(* value at a time, read from what is wanted at one moment and installed   *)
(* as a whole.  Nothing in between is ever in force, and nothing is        *)
(* installed that was not wanted when its installation began.              *)
(***************************************************************************)
CONSTANT Values   \* the rule sets, "no rules" among them

VARIABLES
  wanted,     \* the rules called for now
  fetched,    \* {} or the one value being installed
  installed   \* the rules in force

rvars == <<wanted, fetched, installed>>

Init == wanted \in Values /\ fetched = {} /\ installed \in Values

Want ==
  /\ wanted' \in Values
  /\ UNCHANGED <<fetched, installed>>

Fetch ==
  /\ fetched = {}
  /\ fetched' = {wanted}
  /\ UNCHANGED <<wanted, installed>>

Install ==
  /\ installed' \in fetched
  /\ UNCHANGED <<wanted, fetched>>

Release ==
  /\ fetched # {}
  /\ fetched' = {}
  /\ UNCHANGED <<wanted, installed>>

\* The installer starts over; what it was installing may be in force.
Crash ==
  /\ wanted' \in Values
  /\ fetched' = {}
  /\ installed' \in {installed} \cup fetched

Next == Want \/ Fetch \/ Install \/ Release \/ Crash

Spec == Init /\ [][Next]_rvars
=============================================================================
