\* Two days of all jobs, a news item each, an outage, a restart.
SPECIFICATION FairSpec
CONSTANTS
  News = {n1}
  UsNews = {u1}
  Events = {e1}
  Rates = {0, 1, 2}
  Retries = 2
  DlqMax = 1
  Wirings = {"direct", "queued"}
  QueueMax = 1
  Switch = {TRUE, FALSE}
  MaxHours = 9
  MaxPolls = 1
  Late = {"dlq", "rss"}
  MaxFaults = 1
  MaxRestarts = 1
INVARIANTS TypeOK MessagesAccounted MarkedAreHandled NothingTwice
PROPERTIES FxAlertsAreOfToday AllSettled
CHECK_DEADLOCK FALSE
