SPECIFICATION FairSpec
CONSTANTS
  PrePeriod = 1
  PostPeriod = 1
  TransPeriods = {1}
  DefaultPeriod = 1
  CheckPeriod = 1
  MaxClock = 2
  TriggerHeights = {0}
  DefaultTrigger = 0
  Ceiling = 3
  PadAltitudes = {1}
  AloftAltitudes = {2, 3}
  DownAltitudes = {1}
  MissionIds = {1}
  Commands <- LiveCommands
  ModemReplies <- Reliable
  MaxResets = 0
PROPERTIES ReportResolves ReportsKeepComing LaunchNotMissed LandingNotMissed
