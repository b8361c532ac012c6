SPECIFICATION FairSpec
CONSTANTS
  FramThreads = {a}
  BridgeThreads = {a, b}
  none = none
  MaxHigh = 1
  MemoryAtPowerUp <- SampleMemory
  Asked <- EdgeAddresses
  Data = {3}
  MaxLen = 2
  FramWrite = 2
  FramRead = 3
  status = status
  Registers = {status, baud}
  TxSize = 1
  MaxDepth = 1
INVARIANTS ReadIsTrueOrReported AnswerIsToTheQuestion SendArrivesWhole
PROPERTIES ReadsStoreNothing EndsWithoutRecv
