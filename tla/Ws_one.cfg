SPECIFICATION WsFairSpec
CONSTANTS
  Workers = {w1, w2}
  Conns = {1, 2}
  None = none
  LeaseTTL = 2
  Timeout = 1
  MaxFailures = 1
  MaxCrashes = 1
CHECK_DEADLOCK FALSE
INVARIANT NewestKeepsOnline
PROPERTIES AbandonedFades EndIsHeard
