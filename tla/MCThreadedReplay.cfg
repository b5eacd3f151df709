CONSTANTS
  Value <- Envelopes
  Torn = torn
  Capacity = 4
  MaxItems = 6
  MaxFrames = 2
  Files <- CleanFiles
  ChunkSizes = {4}
  FrameOf <- MCFrameOf
SPECIFICATION Spec
INVARIANTS
  NoSlotRace
  FifoDelivery
  SizeBrackets
  DrainedAtExit
  SuccessIsWholeDay
PROPERTIES
  ImplementsFifo
  Terminates
