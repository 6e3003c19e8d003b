\* Parts of the web UI side by side; some of them come to rest at their bounds.
SPECIFICATION Spec
CONSTANTS
  None = None
  b1 = b1
  b2 = b2
  Browsers = {b1, b2}
  Addresses = {"lan"}
  AddressOf <- SameAddress
  Names = {n}
  Passwords = {p, q}
  SessionIds = {s1, s2}
  MaxFailures = 1
  Uses <- UsesOfTwo
  Providers = {v1, v2}
  Polls = {x, y}
  MaxEvents = 2
  Return = FALSE
  Editable = {"relay", "upstream", "fallback"}
  LanKnown = FALSE
  MaxElsewhere = 1
  Steps = 2
  MaxJobs = 3
  MaxOpenings = 2
  Texts = {"x"}
  Empty = ""
  MaxItems = 3
  MaxRows = 4
CHECK_DEADLOCK FALSE
INVARIANTS
  ListNotOlder
  NeverStuck
  PanelIsTrue
PROPERTIES
  AccountKept
  ThrownOutJustly
  NeverGoesBack
  ShowsServer
  RowsKept
