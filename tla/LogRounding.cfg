SPECIFICATION Spec
CONSTANTS
  Node = {n1, n2}
  Offsets = {0, 3}
  Grain = 4
  Server = n2
  Payments = 1
  MaxTime = 2
  Plans <- TwoPlans
PROPERTIES RemoteTimeMerged
CHECK_DEADLOCK FALSE
