CONSTANTS
  kMaxChildOrders = 2
  kMaxScheduleBins = 4
  Parents <- AllParents
  Time = {0, 2, 3, 4, 6, 8, 9, 14, 20, 21}
  Prints = {1, 2, 4}
  Limits <- SomeLimits
  Orders <- SomeOrders
  Batches <- SomeBatches
  RefPrices = {0, 10}
  Quotes <- SomeQuotes
  Trades = {11}
  kMaxFills = 1
  ShareMod = 7
  MaxAttempts = 3
SPECIFICATION ExecutionSpec
INVARIANT SumsExactly
