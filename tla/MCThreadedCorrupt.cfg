CONSTANTS
  Value <- Envelopes
  Torn = torn
  Capacity = 2
  MaxItems = 3
  MaxFrames = 2
  Files <- CorruptFiles
  ChunkSizes = {4}
  FrameOf <- MCFrameOf
SPECIFICATION Spec
INVARIANT SuccessIsWholeDay
