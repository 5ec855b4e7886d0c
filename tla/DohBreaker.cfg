SPECIFICATION Spec
CONSTANTS
  Hosts = {h1}
  Callers = {c1, c2, c3, c4}
  ViaLookup = {c1}
  None = None
  Ttl = 1
  SecondTicks = 1
  MaxTime = 2
  MaxClears = 0
  Unencodable = {}
  Threshold = 3
  CoolOff = 1
PROPERTIES
  OutageStopsCallingOut
CHECK_DEADLOCK FALSE
