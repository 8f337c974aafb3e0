SPECIFICATION Spec
CONSTANTS
  Window = 4
  Chunk = 2
  StopClass = 2
  Unit = 20
  Gate = 9
  Strong = 15
  MovingGate = 6
  Refractory = 5
  Posteriors <- MCPosteriors
  Block = 5
  Drained = 8
  Labels <- MCLabels
  FirstLabel = "silence"
  ClassOf <- MCClassOf
  Scale = 100
  Probs <- MCProbs
  Alpha = 30
  Threshold = 80
  NumInRow = 3
  SkipBlocks = 4
  IdleReport = 3
  CamPixels = 3
  CamChunk = 2
  Frames <- MCFrames
  Border = 1
  CoverMin = 15
  FillMin = 60
  Period = 3
  Channels <- MCChannels
  Readings = {20, 21}
  StripMax = 2
  TextRows = 2
  Counts <- MCCounts
  Colours = {64, 16777217}
  RowMax = 2
INVARIANT
  WinnerBeatsRunnerUp
CHECK_DEADLOCK FALSE
