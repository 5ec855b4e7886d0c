SPECIFICATION Spec
CONSTANTS
  Conns = {c1}
  Nonces = {n1}
  None = None
  InviteTtl = 3
  Grace = 2
  PinTtl = 1
  MaxBurned = 1
  SecondTicks = 2
  MaxHeads = 2
  MaxTime = 2
INVARIANTS
  OnlyFirstHead
CHECK_DEADLOCK FALSE
