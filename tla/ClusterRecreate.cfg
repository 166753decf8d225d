SPECIFICATION Spec
CONSTANTS
  N = 2
  Txn = {t1}
  Value = {v1, v2}
  NoValue = NoValue
  LogWindow = 1
  MaxDups = 0
  Lossy = TRUE
  Hearing = {1}
  Starting = {}
  ControlCopies = 1
  Faulty = {1, 2}
  MaxFails = 1
  MaxApiRestarts = 1
INVARIANTS AckCountSound DraftFresh CommitsLogged
PROPERTIES CommittedValueStable LedgerMonotone
CHECK_DEADLOCK FALSE
SYMMETRY ValueSymmetry
