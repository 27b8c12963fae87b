\* Two days' runs over three days, one of which may be a holiday.
SPECIFICATION FairSpec
CONSTANTS
  t1 = t1
  t2 = t2
  kospi = kospi
  kosdaq = kosdaq
  Tickers = {t1, t2}
  Markets = {kospi, kosdaq}
  MarketOf <- Listed
  SectorOf <- Classified
  Years = {1, 2}
  ReportTopN = 2
  AvgDays = 2
  MaxStreak = 3
  MaxFallback = 5
  Attempts = 2
  Retries = 2
  DlqMax = 1
  MaxPolls = 1
  MaxResults = 2
  Figures = {1, 2}
  Pressed = {t1}
  LastDay = 2
  MaxFaults = 1
  MaxRestarts = 1
INVARIANTS TypeOK CacheTruthful RankingIsSound ReportAccounted ButtonsWork
PROPERTIES EveryRunEnds
CHECK_DEADLOCK FALSE
