SPECIFICATION Spec
CONSTANTS
  MaxGeneration = 1
  MaxFrameId = 2
  Size <- MCSize
  TimingCapacity = 1
  TripThreshold = 2
  RearmThreshold = 1
INVARIANTS
  QueueIsWatched
  OneRequestPerBacklog
PROPERTIES
  ReferenceChain
  FeedbackOncePerFrame
  BacklogReported
CHECK_DEADLOCK FALSE
