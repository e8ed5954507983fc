----------------------------- MODULE SystemTasks -----------------------------
(***************************************************************************)
(* A system notification or popup task from its creation to the users'     *)
(* receipts: the schedule and what of it is due                            *)
(* (system_notification_service.py, system_popup_service.py), the          *)
(* administrators' handlers (notification.py, popup.py of the admin API),  *)
(* and the pulls of the app, which create the notifications, as no         *)
(* scheduler calls publish_due_notifications or publish_due_popups.        *)
(*                                                                         *)
(* An administrator's handler reads the row and later writes all of it.  A *)
(* pull reads the running tasks, and then makes one query after another.   *)
(* The two kinds of task share their code but for what IsPopup selects.    *)
(* Time is counted in parts of a day.                                      *)
(***************************************************************************)
EXTENDS Integers, Sequences, FiniteSets, FiniteSetsExt

CONSTANTS
  Users,
  Readers,           \* bound: the users who mark their receipts
  None,
  Schedules,         \* the schedules an administrator may enter
  Revisions,         \* bound: those of them that an update enters
  Calendars,         \* the repeating schedules whose runs are compared
  FormStatuses,      \* the statuses a form carries
  DayParts,          \* parts of a day that can be told apart
  WeekLength,        \* days of a week
  MonthLengths,      \* days of each month of the calendar
  MaxBackfill,       \* max_backfill: the most runs one pull makes up for
  MaxHandlers,       \* bound: administrators' handlers, two at a time
  MaxFailures,       \* bound: pulls cut short
  MaxMarked,         \* bound: receipts marked at a time
  MaxCreated,        \* bound: the time by which the task is created
  MaxTime,           \* bound: the clock
  Horizon            \* bound: the times at which the calendar is compared

ASSUME CalendarIsPositive ==
  /\ {DayParts, WeekLength, MaxBackfill} \subseteq Nat \ {0}
  /\ MonthLengths \in Seq(Nat \ {0})
ASSUME BoundsAreNat == {MaxHandlers, MaxFailures, MaxMarked, MaxCreated, MaxTime, Horizon} \subseteq Nat
ASSUME RevisionsAreSchedules == Revisions \subseteq Schedules
ASSUME SchedulesEnd ==      \* ensure_repeat_has_end_condition
  \A s \in Schedules \cup Calendars : s.mode = "repeat" =>
    /\ s.end # None \/ s.runs # None
    /\ s.runs # None => s.runs \in Nat \ {0}

VARIABLES
  kind,        \* "notification" or "popup"
  task,        \* the task's row, or None before its creation and once deleted
  notes,       \* system_notification (system_popup) rows of the task
  receipts,    \* receipt rows: <<note id, user>>
  marked,      \* the receipts whose read_at (ack_at) is set
  admin,       \* what the administrators' handlers under way have read
  pull,        \* the pull of each user
  now, handlers, failures

rows    == <<notes, receipts, marked>>
vars    == <<kind, task, rows, admin, pull, now, handlers, failures>>
IsPopup == kind = "popup"

Resting == [pc |-> "idle", mode |-> None, due |-> {}, note |-> None]

Init ==
  /\ kind \in {"notification", "popup"}
  /\ task = None /\ notes = {} /\ receipts = {} /\ marked = {}
  /\ admin = {}
  /\ pull = [u \in Users |-> Resting]
  /\ now = 0 /\ handlers = 0 /\ failures = 0

-----------------------------------------------------------------------------
(* The calendar *)

DayOf(t)      == t \div DayParts
At(day, part) == day * DayParts + part
WeekdayOf(d)  == d % WeekLength

MonthBegin(m) == MapThenSumSet(LAMBDA i : MonthLengths[i], 1..(m - 1))

\* calculate_next_run_at: the first time after `after` at which the schedule runs.
NextDaily(s, after) ==
  LET today == At(DayOf(after), s.part)
  IN  IF today <= after THEN today + DayParts ELSE today

NextWeekly(s, after) ==
  LET days == (s.day - WeekdayOf(DayOf(after))) % WeekLength
      run  == At(DayOf(after) + days, s.part)
  IN  IF run <= after THEN run + At(WeekLength, 0) ELSE run

NextMonthlyClamped(s, after) ==                         \* mutant of NextMonthly
  Min({t \in {At(MonthBegin(m) + Min({s.day, MonthLengths[m]}) - 1, s.part) :
                m \in DOMAIN MonthLengths} : t > after})

\* Months that lack the day are passed over.
NextMonthly(s, after) ==
  LET months == {m \in DOMAIN MonthLengths : s.day <= MonthLengths[m]}
  IN  Min({t \in {At(MonthBegin(m) + s.day - 1, s.part) : m \in months} : t > after})

NextRun(s, after) ==
  CASE s.type = "daily"   -> NextDaily(s, after)
    [] s.type = "weekly"  -> NextWeekly(s, after)
    [] s.type = "monthly" -> NextMonthly(s, after)

\* What a form may enter of a schedule that repeats; and after that time the calendar is long
\* enough to have another run of it.
IsSchedule(s) ==
  /\ s.mode = "repeat" /\ s.type \in {"daily", "weekly", "monthly"}
  /\ s.part \in 0..(DayParts - 1)
  /\ s.type = "weekly" => s.day \in 0..(WeekLength - 1)
  /\ s.type = "monthly" => s.day \in Nat \ {0}
  /\ s.start \in Nat \cup {None} /\ s.end \in Nat \cup {None}
  /\ s.runs \in (Nat \ {0}) \cup {None}

Reaches(s, after) ==
  s.type = "monthly" => \E m \in DOMAIN MonthLengths :
    s.day <= MonthLengths[m] /\ At(MonthBegin(m) + s.day - 1, s.part) > after

ASSUME CalendarsAreSchedules ==
  \A s \in Calendars :
    IsSchedule(s) /\ Reaches(s, Horizon) /\ (s.start # None => Reaches(s, s.start))

InitialNextRun(s, status, t) ==
  LET start == IF s.start = None THEN t ELSE s.start
      first == NextRun(s, start - 1)
  IN  CASE status = "draft" \/ s.mode = "app_start" -> None
        [] s.mode = "immediate" -> t
        [] s.mode = "once"      -> s.at
        [] OTHER                -> IF first < t THEN NextRun(s, t) ELSE first

StartOf(row) == IF row.schedule.start = None THEN row.created ELSE row.schedule.start

\* The loop over the runs: it ends at max_runs, at now or at end_at.  At a run, with the
\* number of those before it, it collects the run and goes on from the next.
RunsUntil(row, t) ==
  LET s == row.schedule
      Ended(n, run) == run > t \/ (s.runs # None /\ n = s.runs) \/ (s.end # None /\ run > s.end)
      From[at \in Nat \X Nat] ==
        LET n == at[1]  run == at[2]
        IN  IF Ended(n, run) THEN {} ELSE {run} \cup From[<<n + 1, NextRun(s, run)>>]
  IN  From[<<0, NextRun(s, StartOf(row) - 1)>>]

DueOnce(s, t) == {s.at} \cap 0..t

Latest(S, n) == {t \in S : Cardinality({u \in S : u > t}) < n}

\* A notification makes up for the last runs, a popup is shown for the last one until the end.
BackfilledRuns(row, t) == Latest(RunsUntil(row, t), MaxBackfill)

LatestRun(row, t) ==
  IF row.schedule.end # None /\ t > row.schedule.end THEN {} ELSE Latest(RunsUntil(row, t), 1)

RunsDue(row, t, popup) == IF popup THEN LatestRun(row, t) ELSE BackfilledRuns(row, t)

\* _notification_due_occurrences, _popup_due_occurrences
Due(row, t) ==
  LET s == row.schedule IN
  CASE row.status # "running" -> {}
    [] s.mode \in {"immediate", "app_start"} -> {row.created}
    [] s.mode = "once"   -> DueOnce(s, t)
    [] s.mode = "repeat" -> RunsDue(row, t, IsPopup)

-----------------------------------------------------------------------------
(* Administrators *)

InitialStatus(s, status) ==
  CASE status = "draft" -> "draft"
    [] status # "draft" /\ (s.mode = "repeat" \/ s.mode = "app_start") -> "running"
    [] OTHER -> "scheduled"

Offered(S) == {s \in S : s.mode = "app_start" => IsPopup}

Create(s, status) ==
  /\ handlers = 0 /\ handlers' = 1 /\ now <= MaxCreated
  /\ task' = [schedule |-> s, status |-> InitialStatus(s, status), created |-> now]
  /\ UNCHANGED <<kind, rows, admin, pull, now, failures>>

Activated(row) == [row EXCEPT !.status = "running"]

Recalculated(row) ==
  LET started == InitialStatus(row.schedule, "scheduled") IN
  IF row.status = "scheduled" \/ (row.status = "running" /\ ~IsPopup)
  THEN [row EXCEPT !.status = started] ELSE row

\* What each handler makes of the row it has read.
Handled(op, row) ==
  CASE op = "publish" -> {Activated(row)}
    [] op = "pause"   -> {[row EXCEPT !.status = "paused"]}
    [] op = "resume"  -> {IF IsPopup THEN Recalculated([row EXCEPT !.status = "running"])
                          ELSE Activated(row)}
    [] op = "cancel"  -> {[row EXCEPT !.status = "cancelled"]}
    [] op = "delete"  -> {None}
    [] op = "update"  -> {Recalculated([row EXCEPT !.schedule = s, !.status = status]) :
                            s \in Offered(Revisions), status \in FormStatuses}

\* What each handler asks of the row it has read.
Admits(op) ==
  CASE op \in {"update", "publish"} -> task.status \in {"draft", "scheduled", "paused"}
    [] op = "pause"  -> task.status = "running"
    [] op = "resume" -> task.status = "paused"
    [] op = "cancel" -> task.status \notin {"completed", "cancelled"}
    [] op = "delete" -> notes = {}

HandlerReads(op) ==
  /\ Cardinality(admin) < 2 /\ handlers < MaxHandlers /\ task # None /\ Admits(op)
  /\ admin' = admin \cup {[op |-> op, row |-> task]}
  /\ handlers' = handlers + 1
  /\ UNCHANGED <<kind, task, rows, pull, now, failures>>

\* The whole row is saved; a save of a deleted row changes nothing.
HandlerWrites(h) ==
  /\ \E row \in Handled(h.op, h.row) : task' = IF task = None THEN None ELSE row
  /\ admin' = admin \ {h}
  /\ UNCHANGED <<kind, rows, pull, now, handlers, failures>>

-----------------------------------------------------------------------------
(* Pulls of the app *)

Modes == IF IsPopup THEN {"startup", "pending"} ELSE {"list"}
Suits(s, mode) == mode = "startup" <=> s.mode = "app_start"

\* A filter may match a user at one time and not at another.
Matches(s, u) ==
  CASE s.target = "all"      -> {TRUE}
    [] s.target = "user_ids" -> {u \in s.users}
    [] s.target = "filter"   -> BOOLEAN

Of(run) == {n \in notes : n.run = run}

ContinuesPast(p, due) ==                                \* mutant of Continues
  LET unsent == {t \in due : Of(t) = {}} IN
  IF unsent # {} THEN {[p EXCEPT !.pc = "insert", !.due = unsent, !.note = None]}
  ELSE IF IsPopup THEN {[p EXCEPT !.pc = "fetch", !.due = {}, !.note = None]}
  ELSE {Resting}

\* The next occurrence in time order is looked up by its run key.  After the last the list
\* is returned, or the popups are fetched.
Continues(p, due) ==
  LET found == Of(Min(due)) IN
  IF due # {} /\ found = {} THEN {[p EXCEPT !.pc = "insert", !.due = due, !.note = None]}
  ELSE IF due # {} THEN {[p EXCEPT !.pc = "receipt", !.due = due, !.note = n.id] : n \in found}
  ELSE IF IsPopup THEN {[p EXCEPT !.pc = "fetch", !.due = {}, !.note = None]}
  ELSE {Resting}

Becomes(u, P) == \E p \in P : pull' = [pull EXCEPT ![u] = p]

\* The running tasks are read, and with them what is due at this time.
PullReads(u, mode) ==
  /\ pull[u].pc = "idle"
  /\ LET begun == [Resting EXCEPT !.mode = mode] IN
     \/ /\ task # None /\ task.status = "running" /\ Suits(task.schedule, mode)
        /\ TRUE \in Matches(task.schedule, u)
        /\ Becomes(u, Continues(begun, Due(task, now)))
     \/ /\ \/ task = None
           \/ task # None /\ task.status # "running"
           \/ task # None /\ ~Suits(task.schedule, mode)
           \/ task # None /\ FALSE \in Matches(task.schedule, u)
        /\ Becomes(u, Continues(begun, {}))
  /\ UNCHANGED <<kind, task, rows, admin, now, handlers, failures>>

\* A run without a row is inserted; when the unique key refuses it, the other's row is taken.
InsertableTwice(run) == TRUE                            \* mutant of Insertable
Insertable(run) == Of(run) = {}

Inserts(u) ==
  /\ pull[u].pc = "insert"
  /\ LET run == Min(pull[u].due)
         new == [id |-> Cardinality(notes) + 1, run |-> run] IN
     \/ /\ Insertable(run)
        /\ notes' = notes \cup {new}
        /\ Becomes(u, {[pull[u] EXCEPT !.pc = "receipt", !.note = new.id]})
     \/ /\ ~Insertable(run)
        /\ Becomes(u, {[pull[u] EXCEPT !.pc = "receipt", !.note = n.id] : n \in Of(run)})
        /\ UNCHANGED notes
  /\ UNCHANGED <<kind, task, receipts, marked, admin, now, handlers, failures>>

\* get_or_create of the receipt: a row that exists is left as it is.
Receives(u) ==
  /\ pull[u].pc = "receipt"
  /\ receipts' = receipts \cup {<<pull[u].note, u>>}
  /\ Becomes(u, Continues(pull[u], pull[u].due \ {Min(pull[u].due)}))
  /\ UNCHANGED <<kind, task, notes, marked, admin, now, handlers, failures>>

\* _fetch_user_unacked_popups: the app is given what is received and not marked.
Fetches(u) ==
  /\ pull[u].pc = "fetch" /\ Becomes(u, {Resting})
  /\ UNCHANGED <<kind, task, rows, admin, now, handlers, failures>>

PullFails(u) ==
  /\ pull[u].pc # "idle" /\ failures < MaxFailures /\ failures' = failures + 1
  /\ Becomes(u, {Resting})
  /\ UNCHANGED <<kind, task, rows, admin, now, handlers>>

\* A popup is acknowledged once; a notification is read, by name, detail or all, or unread.
Marks(u) ==
  /\ LET unmarked == {r \in receipts \ marked : r[2] = u} IN
     \/ \E r \in unmarked : marked' = marked \cup {r}
     \/ ~IsPopup /\ Cardinality(unmarked) > 1 /\ marked' = marked \cup unmarked
  /\ Cardinality(marked') <= MaxMarked
  /\ UNCHANGED <<kind, task, notes, receipts, admin, pull, now, handlers, failures>>

Unmarks(u) ==
  /\ ~IsPopup
  /\ \E r \in {r \in marked : r[2] = u} : marked' = marked \ {r}
  /\ UNCHANGED <<kind, task, notes, receipts, admin, pull, now, handlers, failures>>

Tick ==
  /\ now < (IF handlers = 0 THEN MaxCreated ELSE MaxTime) /\ now' = now + 1
  /\ UNCHANGED <<kind, task, rows, admin, pull, handlers, failures>>

-----------------------------------------------------------------------------
Operations == {"update", "publish", "pause", "resume", "cancel", "delete"}

PullStep(u) == Inserts(u) \/ Receives(u) \/ Fetches(u)

Next ==
  \/ \E s \in Offered(Schedules), status \in FormStatuses : Create(s, status)
  \/ \E op \in Operations : HandlerReads(op)
  \/ \E h \in admin : HandlerWrites(h)
  \/ \E u \in Users, mode \in Modes : PullReads(u, mode)
  \/ \E u \in Users : PullStep(u) \/ PullFails(u)
  \/ \E u \in Readers : Marks(u) \/ Unmarks(u)
  \/ Tick

\* The apps keep pulling, also in the mode that the task is for, and a pull runs to its
\* end unless it fails.  Nothing obliges an administrator or a user to act.
PullsTask(u) ==
  task # None /\ \E mode \in Modes : Suits(task.schedule, mode) /\ PullReads(u, mode)

Fairness == \A u \in Users : WF_vars(PullStep(u)) /\ SF_vars(PullsTask(u))

Spec == Init /\ [][Next]_vars /\ Fairness
-----------------------------------------------------------------------------
(* Properties *)

Modes3   == {"list", "startup", "pending"}
Statuses == {"draft", "scheduled", "running", "paused", "completed", "cancelled"}
Rows     == [schedule : Schedules, status : Statuses, created : 0..MaxTime]

\* Every variable keeps the shape of the rows and of the handlers' and pulls' local state,
\* and no run has a notification before its time (_notification_due_occurrences).
TypeOK ==
  /\ kind \in {"notification", "popup"} /\ task \in Rows \cup {None}
  /\ notes \subseteq [id : 1..Cardinality(notes), run : 0..now]
  /\ marked \subseteq receipts /\ receipts \subseteq {n.id : n \in notes} \X Users
  /\ admin \subseteq [op : Operations, row : Rows]
  /\ \A u \in Users :
       /\ pull[u].pc \in {"idle", "insert", "receipt", "fetch"}
       /\ pull[u].mode \in Modes3 \cup {None}
       /\ pull[u].due \subseteq 0..now /\ Cardinality(pull[u].due) <= MaxBackfill
       /\ pull[u].pc \in {"insert", "receipt"} => pull[u].due # {}

RunOf(id) == (CHOOSE n \in notes : n.id = id).run

\* However the pulls of several users interleave, and whether or not one of them is cut
\* short, a user is told of a run of the task once (the run key and the receipt are unique,
\* _get_or_create_notification_for_occurrence, _get_or_create_popup_for_occurrence).
ToldOnce ==
  \A r, q \in receipts : r[2] = q[2] /\ RunOf(r[1]) = RunOf(q[1]) => r = q

\* The calendar by which a repeating schedule is meant, without the search for the next run.
DayOfMonth(d) ==
  LET m == CHOOSE m \in DOMAIN MonthLengths : d - MonthBegin(m) \in 0..(MonthLengths[m] - 1)
  IN  d - MonthBegin(m) + 1

OnCalendar(s, t) ==
  /\ t % DayParts = s.part
  /\ s.type = "weekly"  => WeekdayOf(DayOf(t)) = s.day
  /\ s.type = "monthly" => DayOfMonth(DayOf(t)) = s.day

Promised(s, start, t) ==
  LET all == {r \in start..t : OnCalendar(s, r) /\ (s.end # None => r <= s.end)}
  IN  IF s.runs = None THEN all
      ELSE {r \in all : Cardinality({q \in all : q < r}) < s.runs}

DueAsPromised(row, t, popup) ==
  LET promised == Promised(row.schedule, StartOf(row), t)
      Later(r) == {q \in promised : q > r}
      Made(r)  == IF popup THEN Later(r) = {} /\ (row.schedule.end # None => t <= row.schedule.end)
                  ELSE Cardinality(Later(r)) < MaxBackfill
  IN  RunsDue(row, t, popup) = {r \in promised : Made(r)}

NextAsPromised(s, t) ==
  LET next == InitialNextRun(s, "scheduled", t)
  IN  OnCalendar(s, next) /\ next >= t /\ \A r \in (t + 1)..(next - 1) :
        ~OnCalendar(s, r) \/ (s.start # None /\ r < s.start)

Cases(kinds) == [schedule : Calendars, created : 0..MaxTime, popup : kinds]

AsPromised ==
  {case \in Cases(BOOLEAN) :
     \A t \in case.created..Horizon :
       /\ DueAsPromised([schedule |-> case.schedule, created |-> case.created], t, case.popup)
       /\ NextAsPromised(case.schedule, t)}

\* What a task that repeats has due is, at every time, what its calendar promises: the runs
\* from its start on, no more than max_runs and none after end_at, of which a notification
\* makes up the latest max_backfill and a popup, until end_at, the last; and the next run
\* shown to the administrator is the calendar's (calculate_next_run_at, _latest_repeat_run_at,
\* _notification_due_occurrences, _initial_next_run_at).  It is a matter of the schedule
\* alone, and is compared before the task is created.
RunsAreTheCalendar ==
  handlers = 0 => Cases({IsPopup}) \subseteq AsPromised

Missing(u) ==
  \E t \in IF task = None THEN {} ELSE Due(task, now) :
    /\ Matches(task.schedule, u) = {TRUE}
    /\ ~ \E r \in receipts : r[2] = u /\ RunOf(r[1]) = t

\* The runs that are due to a user reach that user, unless the task stops running or they
\* fall behind the window, although a pull may fail between creating the notification and
\* the receipt, and others may have created it (materialize_due_notifications_for_user).
DueArrives == \A u \in Users : []<>~Missing(u)
=============================================================================
