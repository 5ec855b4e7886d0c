SPECIFICATION Spec
CONSTANTS
  Ids = {i1, i2}
  Entries = {e1, e2, e3}
  None = None
  MaxData = 1
  MaxReplies = 0
  Orderly = FALSE
SYMMETRY Symmetry
INVARIANTS
  TablesMatchEntries
  TotalsMatchRecords
PROPERTIES
  NoSilentTeardown
CHECK_DEADLOCK FALSE
