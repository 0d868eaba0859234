CONSTANTS
  EncodeCapacity = 1
  AiCapacity = 1
  InferEveryN = 2
  StaleFrames = 1
  MaxFrames = 3
SPECIFICATION Spec
INVARIANTS FateAtExit BoxesFresh WireOrder StopsSending CaptureNeverWaits
