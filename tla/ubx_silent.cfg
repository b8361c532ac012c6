SPECIFICATION FairSpec
CONSTANTS
  Ops = {"saveConfiguration"}
  LastOps = {"saveConfiguration"}
  PollWaits = {2}
  DefaultPollWait = 1
  MaxWait = 2
  MaxTimer = 2
  MaxWire = 2
  MaxInbox = 1
  MaxFaults = 1
  MaxCalls = 1
PROPERTIES EveryWaitEnds
