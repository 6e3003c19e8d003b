\* Two verifications, changing tunnels, restarts of both processes; nobody has
\* to submit, to resolve or to answer.
SPECIFICATION FairSpec
CONSTANTS
  None = None
  Jobs = 2
  Kept = 1
  Entries = 1
  Attempts = 1
  Addresses = {a1, a2}
  Restarts = TRUE
INVARIANTS
  OneAtATime
  PassIsTrue
PROPERTIES
  Completes
