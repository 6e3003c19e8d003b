\* Nobody else saves settings; the dialog comes to rest at the bound of openings.
SPECIFICATION Spec
CONSTANTS
  Editable = {"relay", "upstream", "fallback"}
  LanKnown = FALSE
  None = None
  MaxOpenings = 2
  MaxElsewhere = 0
CHECK_DEADLOCK FALSE
INVARIANTS
  HiddenTabNeverBlocks
