SPECIFICATION Spec
CONSTANTS
  Rounds = 2
  ClockOffset <- MCOffset
  Delays = {0, 3}
  Processing = {2}
  MaxRuns = 3
  Keys = {"trusted", "other"}
  Trusted = "trusted"
INVARIANTS
  SetupAgrees
  SuspendedIsSaved
  OffsetIsBest
CHECK_DEADLOCK FALSE
