CONSTANTS
  Feed <- Singles3
  LastSeq = 3
  Ends = TRUE
  kMaxPendingPackets = 3
  kMaxGapFillAttempts = 2
  kMaxRequest = 2
SPECIFICATION SentOnce
PROPERTY GapsAreRetried
