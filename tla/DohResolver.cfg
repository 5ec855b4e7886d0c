SPECIFICATION FairSpec
CONSTANTS
  Hosts = {h1, h2}
  Callers = {c1, c2, c3}
  ViaLookup = {c1}
  None = None
  Ttl = 1
  SecondTicks = 2
  MaxTime = 3
  MaxClears = 1
  Unencodable = {h2}
  Threshold = 2
  CoolOff = 2
INVARIANTS
  TypeOK
  WaitersAreOwed
  SingleFlight
  AnsweredInOrder
PROPERTIES
  KeepsPromise
  EveryoneIsCalledBack
CHECK_DEADLOCK FALSE
