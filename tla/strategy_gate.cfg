\* CCI/BBC on 500 daily candles.
SPECIFICATION Spec
CONSTANTS
  Ttl <- Minutes
  DayCounts = {500}
  MinuteCounts = {3600}
  LastMinute = 1
  MaxFailures = 0
  Units = {2}
  BufferSize = 2
  ReadyAt = 2
  Readings <- ManyReadings
  StockTicks = {}
  MaxFaults = 1
INVARIANT JudgedWithEnoughCandles
CHECK_DEADLOCK FALSE
