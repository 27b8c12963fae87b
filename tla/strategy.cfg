\* One strategy of either kind; a minute stands for its time to live.
SPECIFICATION Spec
CONSTANTS
  Ttl <- Minutes
  DayCounts = {0, 500}
  MinuteCounts = {59, 3600}
  LastMinute = 5
  MaxFailures = 1
  Units = {2, 3}
  BufferSize = 1
  ReadyAt = 1
  Readings <- ManyReadings
  StockTicks <- SomeTicks
  MaxFaults = 1
INVARIANTS TypeOK SellsCovered NoChurn FramesAligned BetterFramesBuyNoLess
CHECK_DEADLOCK FALSE
