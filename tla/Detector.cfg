SPECIFICATION Spec
CONSTANTS
  N = 2
  Interval = 2
  Timeout = 5
  Period = 1
  MaxDelay = 1
  MaxLost = 1
  MaxEvents = 2
INVARIANTS TypeOK Accuracy Completeness
PROPERTIES AgreementLasts
