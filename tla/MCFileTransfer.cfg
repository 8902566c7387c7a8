SPECIFICATION Spec
CONSTANTS
  Sessions = {"s1", "s2"}
  Permissions <- MCPermissions
  Sizes = {1, 2}
  MaxRequests = 3
  MaxStreams = 2
  MaxConcurrent = 2
  Ttl = 1
  Chunks <- MCChunks
  MaxChunks = 2
  MaxTime = 3
CONSTRAINT LimitOrChunks
INVARIANTS
  OnlyOwnerServed
  CompletedIsWhole
PROPERTIES
  HandlesLeaveForCause
  StoreDrains
CHECK_DEADLOCK FALSE
