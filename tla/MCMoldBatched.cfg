CONSTANTS
  Feed <- Batched
  LastSeq = 4
  Ends = TRUE
  kMaxPendingPackets = 3
  kMaxGapFillAttempts = 2
  kMaxRequest = 2
SPECIFICATION Spec
INVARIANT NothingStale
