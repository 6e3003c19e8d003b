\* Four settings, two checks at a time, one address; faults that end.
SPECIFICATION FairSpec
CONSTANTS
  NoIface = NoIface
  NoTable = NoTable
  Links = {eth0}
  Lan = eth0
  Wan = eth0
  Tunnels = {tun0}
  BadNames = {}
  Addrs = {a1}
  UserSettings <- FewSettings
  Checkers = {monitor, request}
  Faults = {"apply"}
  MaxQueue = 2
PROPERTIES
  Converges
