SPECIFICATION TrackerSpec
CONSTANTS
  Window = 2
  SoftDelta = 1
  HardDelta = 2
  Hysteresis = 2
  HardCount = 2
  QueueDelays <- MCDelays
  MaxClock = 4
INVARIANTS
  BaselineIsWindowMinimum
