SPECIFICATION Spec
CONSTANTS
  N = 5
  Setups <- TwoSetups
INVARIANTS TypeOK OneLeaderPerTerm LeaderKnowsItself
CHECK_DEADLOCK FALSE
