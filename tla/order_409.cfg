\* A cancel answered with 409.
SPECIFICATION Spec
CONSTANTS
  NULL = NULL
  ClientIds = {c1}
  Tasks = {t1}
  MaxOrders = 1
  PastOrders = 0
  Echo = {TRUE}
  Outcomes = {"FILLED", "PENDING_CANCEL", "CANCELED"}
  PageLimit = 2
  MaxPages = 2
  MaxFaults = 0
  MaxCrashes = 0
PROPERTIES OnlyGrantedCancelsAreStored
