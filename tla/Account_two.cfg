CONSTANTS
  Details = {d1, d2}
  NoDetails = none
  Savers = {s1}
  Admins = {a1, a2}
SPECIFICATION AccountSpec
PROPERTIES AccountDecisionIsFinal
CHECK_DEADLOCK FALSE
