---------------------------- MODULE SystemTasksMC ----------------------------
(***************************************************************************)
(* The schedules TLC tries: at once and once, for a user and by a filter;  *)
(* daily with a window shorter than its runs, weekly with a number of      *)
(* runs, monthly on a day that some months lack, and a popup at start.     *)
(***************************************************************************)
EXTENDS SystemTasks

CONSTANTS u1, u2

Once(mode, at, target) ==
  [mode |-> mode, at |-> at, start |-> None, end |-> None, runs |-> None,
   type |-> None, part |-> 0, day |-> 0, target |-> target, users |-> {u1}]

Repeat(type, part, day, start, end, runs) ==
  [mode |-> "repeat", at |-> None, start |-> start, end |-> end, runs |-> runs,
   type |-> type, part |-> part, day |-> day, target |-> "all", users |-> {}]

Daily == Repeat("daily", 0, 0, None, 4, None)
AtOnce == Once("immediate", None, "user_ids")

SomeSchedules == {AtOnce, Once("once", 1, "filter"), Once("app_start", None, "all"), Daily}
SomeRevisions == {Daily}

SomeCalendars ==
  { Daily, Repeat("daily", 1, 0, 1, None, 2),
    Repeat("weekly", 0, 0, None, None, 3), Repeat("weekly", 1, 1, 2, 8, None),
    Repeat("monthly", 0, 2, 1, 9, None), Repeat("monthly", 1, 1, None, None, 3) }

\* Months of two days and of one: the second day of a month is not in each.
ShortMonths == <<2, 1, 2, 1, 2, 1, 2, 1>>
=============================================================================
