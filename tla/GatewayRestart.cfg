\* No fault; the process restarts.
SPECIFICATION Spec
CONSTANTS
  NoIface = NoIface
  NoTable = NoTable
  Links = {eth0}
  Lan = eth0
  Wan = eth0
  Tunnels = {tun0}
  BadNames = {}
  Addrs = {}
  UserSettings <- FewSettings
  Checkers = {monitor}
  Faults <- NoFaults
  MaxQueue = 2
PROPERTIES
  KeptUntilFirstSettings
