CONSTANTS
  EncodeCapacity = 1
  AiCapacity = 1
  InferEveryN = 2
  StaleFrames = 1
  MaxFrames = 2
SPECIFICATION FairSpec
PROPERTIES ShutdownCompletes VideoIndependentOfAi
