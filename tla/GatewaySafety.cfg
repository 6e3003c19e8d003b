\* Two tunnels and one with a name that is refused, one address, five settings, every fault.
SPECIFICATION SealSpec
CONSTANTS
  NoIface = NoIface
  NoTable = NoTable
  Links = {eth0}
  Lan = eth0
  Wan = eth0
  Tunnels = {tun0, wg0, odd}
  BadNames = {odd}
  Addrs = {a1}
  UserSettings <- AllSettings
  Checkers = {monitor}
  Faults <- AllFaults
  MaxQueue = 2
INVARIANTS
  SettledTable
  StatusIsTrue
  BypassCovered
  KillSwitchHolds
  AuditsAgree
PROPERTIES
  ImplementsRegister
