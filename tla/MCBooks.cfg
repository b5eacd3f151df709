CONSTANTS
  Ref = {r1, r2, r3}
  Price <- MCPrice
  Shares <- MCShares
  LadderRef = {r1, r2, r3}
  LadderPrice <- MCLadderPrice
  LadderShares <- MCLadderShares
  BasePrice <- SaneBase
  TickSize = 2
  WindowNum = 1
  WindowDen = 4
  UINT32_MAX = 15
  kMaxTicks = 7
SPECIFICATION BooksSpec
INVARIANTS
  LevelsCountOrders
  LevelsSumShares
  SlotsMatchOrders
PROPERTIES
  ImplementsBookSpec
  LadderImplementsBookSpec
SYMMETRY Symmetry
