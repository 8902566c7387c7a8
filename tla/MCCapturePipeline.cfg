\* Both platforms, a channel of two frames that fills up, an encoder that
\* holds up to two inputs and announces one output too many, four pictures
\* and two Instances.
SPECIFICATION Spec
CONSTANTS
    Platforms = {"windows", "mac"}
    Capacity = 2
    HandoffCapacity = 1
    Depth = 2
    AllIdr = FALSE
    MaxCaptures = 4
    MaxEmpty = 1
    MaxSkip = 2
    MaxInstances = 2
INVARIANTS IdrSelfContained OwnTimestamp PermissionsKept
PROPERTIES ChainBreaksOnlyByDrops StopEnds
CHECK_DEADLOCK FALSE
