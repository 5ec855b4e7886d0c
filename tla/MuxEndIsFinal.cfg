SPECIFICATION Spec
CONSTANTS
  Ids = {i1}
  Entries = {e1, e2}
  None = None
  MaxData = 2
  MaxReplies = 1
  Orderly = TRUE
SYMMETRY Symmetry
PROPERTIES
  EndIsFinal
CHECK_DEADLOCK FALSE
