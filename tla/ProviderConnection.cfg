\* Two requests at the same time and one kind of command left behind; everything
\* may happen.
SPECIFICATION PSpec
CONSTANTS
  None = None
  Providers = {p1, p2}
  Locations = {l1, l2}
  Requests = {r1, r2}
  Failures = TRUE
  Unreachable = TRUE
  Drops = TRUE
  Restarts = TRUE
  MaxLeft = 2
SYMMETRY Alike
INVARIANTS
  FlagIsHeld
  ActiveOnly
  StoredIsConnected
