\* Two requests of any kind, both ways to log in, an account that also changes
\* by itself.
SPECIFICATION FairSpec
CONSTANTS
  Requests = {r1, r2}
  Methods = {"credentials", "deviceUrl"}
  Supported = {"login", "logout", "disconnect", "connectToLocation", "locationList", "changeLocation"}
  Refused <- MCRefused
  Restricts <- MCRestricts
INVARIANTS
  KnownIsRight
  WithheldIsDenied
PROPERTIES
  Heals
