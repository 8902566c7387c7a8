SPECIFICATION DropSpec
CONSTANTS
  MaxGeneration = 0
  MaxFrameId = 2
  Size <- MCSize
  TimingCapacity = 1
  TripThreshold = 2
  RearmThreshold = 1
PROPERTIES
  DropJoins
CHECK_DEADLOCK FALSE
