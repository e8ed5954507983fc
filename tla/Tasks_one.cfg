SPECIFICATION Spec
CONSTANTS
  u1 = u1
  u2 = u2
  Users = {u1, u2}
  Readers = {u1}
  None = None
  Schedules <- SomeSchedules
  Revisions <- SomeRevisions
  Calendars <- SomeCalendars
  FormStatuses = {"draft", "scheduled"}
  DayParts = 2
  WeekLength = 2
  MonthLengths <- ShortMonths
  MaxBackfill = 2
  MaxHandlers = 3
  MaxFailures = 1
  MaxMarked = 1
  MaxCreated = 0
  MaxTime = 2
  Horizon = 12
INVARIANTS ToldOnce RunsAreTheCalendar
PROPERTY DueArrives
