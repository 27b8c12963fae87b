\* Two callers submit one client order while both feeds run; one fault, one restart;
\* two old orders in pages of one, at most two pages a cycle.
SPECIFICATION Spec
CONSTANTS
  NULL = NULL
  ClientIds = {c1}
  Tasks = {t1, t2}
  MaxOrders = 4
  PastOrders = 2
  Echo = {TRUE}
  Outcomes = {"FILLED"}
  PageLimit = 1
  MaxPages = 2
  MaxFaults = 1
  MaxCrashes = 1
SYMMETRY Symmetry
INVARIANTS TypeOK OneOrderPerClientId OneRowPerOrder BackfillCoversPast
PROPERTY OrderPromise
