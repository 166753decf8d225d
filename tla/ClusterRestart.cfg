SPECIFICATION FairRestartSpec
CONSTANTS
  N = 2
  Txn = {t1}
  Value = {v1}
  NoValue = NoValue
  LogWindow = 2
  MaxDups = 0
  Lossy = FALSE
  Hearing = {1, 2}
  Starting = {}
  ControlCopies = 2
  Faulty = {2}
  MaxFails = 1
  MaxApiRestarts = 1
  Restarting = {1, 2}
  MaxFaults = 2
INVARIANTS RestartTypeOK HeldUnlessRestarted
PROPERTIES CatchUpAfterRestart
CHECK_DEADLOCK FALSE
