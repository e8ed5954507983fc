SPECIFICATION ServicesSpec
CONSTANTS
  Users = {u1, u2}
  Applies = {w1, w2}
  Reviewers = {r1, r2}
  Packages = {1, 2}
  InitDiamonds = 3
  NoOne = NoOne
  Details = {d1, d2}
  NoDetails = none
  Savers = {r1, r2}
  Admins = {r1, r2}
  Routes = {a1, a2, a3}
  Listed = {a1, a2}
  Basic = {a2, a3}
  LedgerRoute = a1
  Touched = {"/finance", "business-ledger"}
  Roles = {admin, staff}
  AdminRole = admin
  UserRole = staff
  OldMenus <- SomeMenus
  MaxEvents = 2
  Earners = {1, 2}
  Requests = {r1, r2}
  PeriodLength = 3
  SnapshotLife = 2
  LockLife = 1
  Horizon = 3
  MaxScore = 1
  MaxFaults = 1
  Calls = {c1}
  MaxTries = 3
  People = {u1, u2}
  Caller = u1
  Callee = u2
  MaxChanges = 3
  MaxMidway = 2
SYMMETRY Twins
INVARIANTS
  FrozenBacksPending
  DiamondsConserved
  PayoutWasSeen
  SeedOpensTheLayout
  OneEndIsTold
  ShownIsActual
PROPERTIES
  SettledIsFinal
  BoardAdvances
CHECK_DEADLOCK FALSE
