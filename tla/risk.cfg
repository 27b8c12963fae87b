\* Two symbols, two days, two starts, all halt levels, stale portfolios.
SPECIFICATION Spec
CONSTANTS
  Cheap = cheap
  Dear = dear
  Symbols = {cheap, dear}
  Price <- Prices
  MaxQty = 2
  ReduceDivisor = 2
  MaxPositionValue = 3
  MaxTotalExposure = 4
  MaxDailyOrders = 2
  MaxDays = 2
  MaxBoots = 2
  MaxExits = 1
INVARIANTS TypeOK DailyLimit LimitsUnlessBlind
PROPERTIES KillHolds
