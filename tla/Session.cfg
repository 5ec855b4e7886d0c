SPECIFICATION FairSpec
CONSTANTS
  Conns = {c1, c2}
  Nonces = {n1, n2}
  None = None
  InviteTtl = 3
  Grace = 2
  PinTtl = 1
  MaxBurned = 1
  SecondTicks = 2
  MaxHeads = 2
  MaxTime = 6
INVARIANTS
  DeadIsReaped
  InviteStaysBurned
  AwaitedIsProbed
PROPERTIES
  InviteeIsAnswered
CHECK_DEADLOCK FALSE
