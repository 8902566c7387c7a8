SPECIFICATION Spec
CONSTANTS
  Window = 2
  SoftDelta = 1
  HardDelta = 2
  Hysteresis = 2
  HardCount = 2
  Delays <- MCDelays
  BytesOver <- MCNoBytes
  MinInterval = 2
  SetupTimeout = 1
  ConfigTimeout = 1
  StartGeneration = 0
  MaxTime = 5
  MaxGeneration = 3
INVARIANTS
  NoProtocolViolation
  ResetNeedsEvidence
  KeyframeBudget
PROPERTIES
  RecoveryNeedsQuiet
  OpeningResolves
CHECK_DEADLOCK FALSE
