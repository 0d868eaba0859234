CONSTANTS
  Nals <- MCNals
  Packets <- MCPackets
  MaxFrames = 2
SPECIFICATION Spec
INVARIANTS CachesExact
CHECK_DEADLOCK FALSE
