SPECIFICATION FairSpec
CONSTANTS
  Ids = {i1}
  Entries = {e1, e2}
  None = None
  MaxData = 3
  MaxReplies = 2
  Orderly = TRUE
INVARIANTS
  TcpReachable
  UplinkInOrder
  NoLostWakeup
PROPERTIES
  DeadIsQuiet
  PausedFlowsAgain
CHECK_DEADLOCK FALSE
