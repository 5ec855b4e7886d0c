SPECIFICATION FairSpec
CONSTANTS
  Ids = {i1}
  Streams = {s1, s2}
  None = None
  MaxData = 2
  MaxReplies = 1
  MaxLookups = 1
INVARIANTS
  OpenIsServed
  DirectUplinkInOrder
  OneTargetAnswers
  NothingOutlivesTheSession
  TasksCanEnd
PROPERTIES
  TasksOnlyEnd
  SessionSettles
CHECK_DEADLOCK FALSE
