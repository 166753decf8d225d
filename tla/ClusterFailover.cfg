SPECIFICATION Spec
CONSTANTS
  N = 3
  Txn = {t1}
  Value = {v1}
  NoValue = NoValue
  LogWindow = 1
  MaxDups = 0
  Lossy = FALSE
  Hearing = {1}
  Starting = {}
  ControlCopies = 1
  Faulty = {1, 2, 3}
  MaxFails = 1
  MaxApiRestarts = 0
INVARIANTS CommittedOnMajority
PROPERTIES FailedNodeFrozen ImplementsLedger
CHECK_DEADLOCK FALSE
