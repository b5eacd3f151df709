CONSTANTS
  TickSize = 2
  WindowNum = 3
  WindowDen = 10
  UINT32_MAX = 127
  kMaxTicks = 19
  kFallbackBase = 32
  kMaxSanePrice = 48
  FuzzRefs = {r1, r2}
  FuzzFrames <- MCFuzzFrames
  kSymbols <- MCSymbols
  kTotalMessages = 3
  kTickSize = 2
  LotShares = {2}
  kMeasuredPasses = 1
SPECIFICATION ComparisonSpec
INVARIANTS
  BooksAgree
  LaddersBounded
  SessionIsLive
PROPERTY DivergenceIsPolicy
SYMMETRY Symmetry
