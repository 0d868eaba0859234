CONSTANTS
  Width = 14
  Height = 10
  InputWidth = 8
  InputHeight = 4
  Classes = 3
  Scenes <- MCScenes
  ScoreThreshold = 2
  NmsNum = 1
  NmsDen = 4
  MaxResults = 3
  Thicknesses = {1, 4}
SPECIFICATION Spec
INVARIANTS BoxesInFrame FindsWhatWasSeen KeepsBestOfEach BoxesDrawn
CHECK_DEADLOCK FALSE
