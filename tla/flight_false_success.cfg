SPECIFICATION Spec
CONSTANTS
  PrePeriod = 2
  PostPeriod = 2
  TransPeriods = {1}
  DefaultPeriod = 1
  CheckPeriod = 1
  MaxClock = 3
  TriggerHeights = {0}
  DefaultTrigger = 0
  Ceiling = 3
  PadAltitudes = {1}
  AloftAltitudes = {2}
  DownAltitudes = {1}
  MissionIds = {1}
  Commands <- ModeCommands
  ModemReplies <- Reliable
  MaxResets = 0
INVARIANTS SuccessMeansSent
