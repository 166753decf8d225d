SPECIFICATION RestartSpec
CONSTANTS
  N = 2
  Txn = {t1, t2}
  Value = {v1}
  NoValue = NoValue
  LogWindow = 2
  MaxDups = 0
  Lossy = FALSE
  Hearing = {1,2}
  Starting = {}
  ControlCopies = 1
  Faulty = {}
  MaxFails = 0
  MaxApiRestarts = 1
  Restarting = {1,2}
  MaxFaults = 2
PROPERTIES NotAcceptedAgain
CHECK_DEADLOCK FALSE
