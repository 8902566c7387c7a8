SPECIFICATION PermissionsSpec
CONSTANTS
  Clients = {c1, c2}
  Bits = {"view", "capture", "clip"}
  HandshakeMask <- MCMask
  Capture = "capture"
  ClipRead = "clip"
  NoClient = NoClient
  MaxCommands = 3
INVARIANTS
  ClientAgrees
  CommandsInOrder
CHECK_DEADLOCK FALSE
