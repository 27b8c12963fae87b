\* Cancels and modifies, granted and refused; orders of the user's own;
\* Toss leaves out client ids.
SPECIFICATION Spec
CONSTANTS
  NULL = NULL
  ClientIds = {c1}
  Tasks = {t1}
  MaxOrders = 2
  PastOrders = 0
  Echo = {FALSE}
  Outcomes = {"FILLED", "PENDING_CANCEL", "CANCEL_REJECTED", "PENDING_REPLACE", "REPLACED"}
  PageLimit = 2
  MaxPages = 2
  MaxFaults = 0
  MaxCrashes = 0
INVARIANTS FilledIsReal RowTracksItsOrder
