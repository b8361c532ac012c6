SPECIFICATION Spec
CONSTANTS
  PrePeriod = 2
  PostPeriod = 2
  TransPeriods = {1}
  DefaultPeriod = 1
  CheckPeriod = 1
  MaxClock = 3
  TriggerHeights = {0}
  DefaultTrigger = 0
  Ceiling = 3
  PadAltitudes = {1}
  AloftAltitudes = {2}
  DownAltitudes = {1}
  MissionIds = {1}
  Commands <- EveryCommand
  ModemReplies <- Lossy
  MaxResets = 1
INVARIANTS StageFitsMode PipelineOrder MissionIdSign LabSilence TimeoutsFitMode ClocksAgree
PROPERTIES FlightOnlyForward ImplementsMission
