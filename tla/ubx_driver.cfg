SPECIFICATION FairSpec
CONSTANTS
  Ops <- SampleOps
  LastOps = {"getLatitude"}
  PollWaits = {2}
  DefaultPollWait = 1
  MaxWait = 2
  MaxTimer = 2
  MaxWire = 2
  MaxInbox = 1
  MaxFaults = 1
  MaxCalls = 3
INVARIANTS StatusIsEarned SolutionIsMeasured CommandsWork
PROPERTIES CommandsEnd
