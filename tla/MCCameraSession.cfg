CONSTANTS
  BufferCount = 2
  ChannelDepth = 1
  StreamCount = 1
  QueueCapacity = 1
  MaxFrames = 3
  MaxSamples = 1
  IntMax = 127
  Numbers <- MCNumbers
  Unset = Unset
  Width = 4
  Height = 4
  CameraLayouts <- MCCameraLayouts
  EncoderLayouts <- MCEncoderLayouts
SPECIFICATION Spec
INVARIANTS PictureWhole BuffersConserved LagIsTimeouts ReleasedInOrder SamplesAddUp
  ConfigUsable PixelsInPlace
