SPECIFICATION Spec
CONSTANTS
  Conns = {c1, c2, c3}
  Sessions = {s1, s2}
  NoSession = NoSession
  Grace = 1
  MaxTokens = 4
  MaxTime = 2
  MaxGeneration = 1
INVARIANTS
  OneOwner
  TokenSingleUse
  NoProtocolViolation
  GenerationsGrow
PROPERTIES
  ExpiryNeedsGrace
  SuspensionEnds
  ImplementsLifecycle
CHECK_DEADLOCK FALSE
