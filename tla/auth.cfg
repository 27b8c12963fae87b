\* Two callers, a refresh task, another instance, a fault and a restart.
SPECIFICATION FairSpec
CONSTANTS
  NULL = NULL
  Timer = Timer
  Requests = {r1, r2}
  MaxTokens = 8
  MaxCalls = 3
  MaxAges = 1
  MaxOthers = 1
  MaxFaults = 1
  MaxCrashes = 1
INVARIANTS TypeOK OneValidToken DeniedOnlyWhenOvertaken
PROPERTIES RequestsEnd
\* The bounded number of calls runs out, and an idle process waits.
CHECK_DEADLOCK FALSE
