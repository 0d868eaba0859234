CONSTANTS
  Viewers = {v1, v2}
  MaxQueued = 3
  ChunkSize <- MCByteChunks
  SockSize = 1
  MaxFrames = 1
SPECIFICATION FairSpec
PROPERTIES ReaderServed GonePeerRemoved
