CONSTANTS
  Files <- MCFiles
  ChunkSizes = {2, 3, 7}
  FrameOf <- MCFrameOf
  PublishEvery = {0, 1, 2}
  Conn = {c1}
  Requests <- Lines
  Client = {k1, k2, k3}
  kMaxConnections = 2
  MaxLines = 2
SPECIFICATION QueriesSpec
INVARIANTS
  CarryIsTail
  SuccessIsWholeDay
  SourceIsHeld
  ServedIsRecent
  FinalIsServed
  TornOnlyByPublish
  QuietAfterStop
  ThreadsAreOwned
  CapHolds
PROPERTIES
  SlotsComeBack
  StopReturns
