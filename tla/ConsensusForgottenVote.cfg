SPECIFICATION Spec
CONSTANTS
  N = 3
  Setups <- OneSetup
PROPERTIES VoteOfTheTerm
CHECK_DEADLOCK FALSE
