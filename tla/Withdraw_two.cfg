CONSTANTS
  Users = {u1}
  Applies = {w1, w2}
  Reviewers = {r1, r2}
  Packages = {1, 2}
  InitDiamonds = 3
  NoOne = NoOne
SPECIFICATION Spec
PROPERTIES DecisionIsFinal
CHECK_DEADLOCK FALSE
