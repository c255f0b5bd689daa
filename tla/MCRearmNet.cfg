SPECIFICATION RearmSpec
CONSTANTS
  q1 = q1
  q2 = q2
  p1 = p1
  p2 = p2
  NoPair = NoPair
  VirtQueue = {q1, q2}
  Pair = {p1, p2}
  TickActive = 1
  TickIdle = 3
  ActiveWindow = 2
INVARIANTS RecoveryBound
PROPERTIES DropReturns
