\* Two overlapping checks, failing commands, restarts; the text of one gateway
\* begins like that of the other.
SPECIFICATION FairSpec
CONSTANTS
  g1 = g1
  g10 = g10
  Gateways <- Addresses
  NoGateway = NoGateway
  Prefixed <- OnePrefix
  Checks = {k1, k2}
  Queue = Queue
  MaxWaiting = 0
  Faults = TRUE
  Restarts = TRUE
INVARIANTS
  InForce
PROPERTIES
  FollowsGateway
