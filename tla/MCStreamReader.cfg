SPECIFICATION Spec
CONSTANTS
  MaxLength <- MCMaxLength
  Streams <- MCStreams
  Fragments = {1, 2, 40}
  MaxCancels = 2
INVARIANTS
  MessagesAsSent
  BufferBounded
CHECK_DEADLOCK FALSE
