SPECIFICATION Spec
CONSTANTS
  FirstPod   = 27
  SBD_LENGTH = 33
  POD_LENGTH = 2
  MAXPODS    = 2
  MAX_FC     = 3
  Lengths    = {3}
  Readings   = {0, 1}
  MaxUpdates = 2
  MaxCommands = 2
INVARIANTS PodsAsTaken MessageIsWhole PositionOfOneFix
CHECK_DEADLOCK FALSE
