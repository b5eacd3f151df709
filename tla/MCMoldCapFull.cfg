CONSTANTS
  Feed <- Singles3
  LastSeq = 3
  Ends = TRUE
  kMaxPendingPackets = 2
  kMaxGapFillAttempts = 1
  kMaxRequest = 2
SPECIFICATION FairSpec
PROPERTY EverythingDelivered
