\* Six settings, two queries, a client that may keep its connection busy.
SPECIFICATION FairSpec
CONSTANTS
  u = u
  s1 = s1
  s2 = s2
  NoUrl = NoUrl
  NoServers = NoServers
  Configs <- MCConfigs
  Default <- Off
  Queries = {q1, q2}
  MaxWaiting = 1
INVARIANTS
  SettledAsTold
  NeverMixed
PROPERTIES
  FollowsSettings
