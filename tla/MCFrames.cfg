SPECIFICATION FairSpec
CONSTANTS
  Pixels = 3
  CameraChunk = 2
  ServiceChunk = 3
  FifoSizes <- MCFifoSizes
  Timeout = 0
  SeePolls = 2
  Classes <- MCClasses
  Places <- MCPlaces
PROPERTY
  FrameIsWhole
