CONSTANTS
  Base = 4
  PrefixSize = 2
  MaxFrameSize = 2
  Get <- MCGet
  Packets <- MCPackets
  PipeSize = 6
  ReadSize = 6
  MaxPackets = 4
SPECIFICATION FairSpec
INVARIANTS NoByteLost NeverAViewer BufferBounded
PROPERTIES ImplementsFrameChannel AllDelivered
