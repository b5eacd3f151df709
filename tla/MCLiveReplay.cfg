CONSTANTS
  Feed <- Batched
  LastSeq = 5
  Ends = TRUE
  kMaxPendingPackets = 3
  kMaxGapFillAttempts = 2
  kMaxRequest = 2
  Messages <- MCMessages
SPECIFICATION LiveSpec
INVARIANTS
  InOrderExactlyOnce
  StaleOnlyByBatch
  ExitIsClean
PROPERTY StopIsNoticed
