SPECIFICATION WatchdogSpec
CONSTANTS
  Roles = {caller, callee}
  Watchdog = watchdog
  Nobody = nobody
  None = none
  Detect = 1
  Settle = 3
  KeyTTL = 9
  Jitter = 2
  Interval = 2
  Prompt = TRUE
  MaxFailures = 1
  Workers = {w1, w2}
  Free = free
  Gone = gone
  TTL = 7
  Cycle = 2
  MaxErrors = 1
  MaxRaises = 1
  MaxCrashes = 1
CHECK_DEADLOCK FALSE
INVARIANTS PresentIsNotForcedOut EndsAtLastSeen OneLeader
PROPERTIES LeftCallEnds SomeoneLeads
