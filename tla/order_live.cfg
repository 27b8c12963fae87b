\* Liveness through partial fills, rejects, cancels, one fault and one restart.
SPECIFICATION FairSpec
CONSTANTS
  NULL = NULL
  ClientIds = {c1}
  Tasks = {t1, t2}
  MaxOrders = 1
  PastOrders = 0
  Echo = {TRUE}
  Outcomes = {"FILLED", "PARTIAL_FILLED", "PARTIAL_EXPIRED", "REJECTED", "PENDING_CANCEL",
              "CANCELED"}
  PageLimit = 2
  MaxPages = 2
  MaxFaults = 1
  MaxCrashes = 1
PROPERTIES FinalStatusReachesTable
