SPECIFICATION SteerSpec
CONSTANTS
  Pixels = 3
  CameraChunk = 2
  ServiceChunk = 3
  FifoSizes = {2, 3, 4}
  Timeout = 0
  SeePolls = 2
  Classes = {0, 1, 2}
  Places <- MCPlaces
  StepsPerTick = 4
  LoopSteps = 3
INVARIANT
  ReadsDescribeOneFrame
