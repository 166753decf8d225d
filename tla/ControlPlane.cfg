SPECIFICATION Spec
CONSTANTS
  N = 3
  Window = 1
  ControlCopies = 1
  MaxWaiting = 1
  MaxFaults = 2
INVARIANTS TypeOK SettledRoles AnnouncedLeaderTakes
PROPERTIES LeaderKept
