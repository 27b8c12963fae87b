\* Trades, a failed read, a failed statement, commits of other tasks, a restart.
SPECIFICATION FairSpec
CONSTANTS
  NoRow = NoRow
  Symbols = {s1, s2}
  MaxHolding = 2
  MaxTrades = 2
  MaxReadFaults = 1
  MaxWriteFaults = 1
  MaxCrashes = 1
INVARIANTS TypeOK EventsTellTableUnlessTorn
PROPERTIES TableFollowsAccount
