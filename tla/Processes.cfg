\* ExplicitProxy: two good configurations and one that is refused, three processes
\* (one serving, one whose second event is still to come, one more) that crash, failing
\* writes.  SettingsSync: two notifications are enough for one to overtake the other at
\* each await of the handler; one setting of two needs rules, so that nft installs and removes them.  ClientIds: three clients, one of them the gateway, and room
\* for one entry.  CommandRunner: one command with three pieces of output, so that the
\* pattern may match before the exit, during the grace, after it or never; a command is at
\* rest once it is answered and gone.
SPECIFICATION PartsSpec
CONSTANTS
  Configs = {c1, c2, bad}
  BadConfigs = {bad}
  NoCidrs = NoCidrs
  Procs = {p1, p2, p3}
  NoProc = NoProc
  Threshold = 3
  Crashes = TRUE
  WriteFaults = TRUE
  None = None
  Others = {o1, o2}
  Upstreams = {o1}
  Routed = {o2}
  LanFound = TRUE
  Requests = {r1, r2}
  Attempts = 2
  Losses = TRUE
  ApiRestarts = TRUE
  ProxyRestarts = TRUE
  Failures = TRUE
  Clients = {pc, tv, gw}
  Own = {gw}
  Queries = {q1, q2}
  Sources = {router, dhcp}
  MaxEntries = 1
  Pieces = 3
  Daemon = TRUE
  Stubborn = TRUE
CHECK_DEADLOCK FALSE
INVARIANTS
  OneProxy
  ServesLatest
  StopIsEnforced
  SettledAgree
  NamesNeverMixed
  AnswerIsTrue
PROPERTIES
  FollowsSettings
  Converges
  NamesHeal
  AnnouncedTruly
  DetachedEnds
