SPECIFICATION FairSpec
CONSTANTS
  HeaderPieces = 2
  DatagramPieces = 2
  MaxPieces = 7
  MaxReplies = 3
INVARIANTS
  UplinkInOrder
  DeadIsReaped
  NoLostWakeup
PROPERTIES
  BothWaysResume
CHECK_DEADLOCK FALSE
