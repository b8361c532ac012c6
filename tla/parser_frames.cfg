SPECIFICATION Spec
CONSTANTS
  MaxPayload = 14
  PvtLen = 4
  HpLen = 2
  Frames <- SampleFrames
  Sentences <- SampleSentences
  Commands <- SampleCommands
  MaxItems = 3
  MaxCommands = 1
  MaxCuts = 1
INVARIANTS AnswerKept NoFrameIsEndless
PROPERTIES FrameIsTaken
CHECK_DEADLOCK FALSE
