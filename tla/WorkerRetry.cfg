SPECIFICATION Spec
CONSTANTS
  Ids = {i1}
  Streams = {s1}
  None = None
  MaxData = 2
  MaxReplies = 1
  MaxLookups = 0
INVARIANTS
  UplinkInOrder
CHECK_DEADLOCK FALSE
