SPECIFICATION FairSpec
CONSTANTS
  N = 3
  Txn = {t1}
  Value = {v1, v2}
  NoValue = NoValue
  LogWindow = 1
  MaxDups = 1
  Lossy = FALSE
  Hearing = {1, 2, 3}
  Starting = {2}
  ControlCopies = 1
  Faulty = {1, 2, 3}
  MaxFails = 0
  MaxApiRestarts = 1
INVARIANTS TypeOK AckCountSound CommittedOnMajority
PROPERTIES LedgerMonotone ImplementsLedger CommittedEverywhere DashboardSettles
CHECK_DEADLOCK FALSE
