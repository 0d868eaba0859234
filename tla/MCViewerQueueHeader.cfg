CONSTANTS
  Viewers = {v1}
  MaxQueued = 3
  ChunkSize <- MCChunkSize
  SockSize = 3
  MaxFrames = 5
SPECIFICATION Spec
INVARIANTS StartsWithHeader
