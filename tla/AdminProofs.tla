---------------------------- MODULE AdminProofs -----------------------------
(***************************************************************************)
(* Proofs about what administrators run.                                   *)
(*                                                                         *)
(* Of SystemTasks: a user is told of a run of a task once, however the     *)
(* pulls of several users interleave and wherever they are cut short; and  *)
(* what is due at any time is what the calendar of the task promises.      *)
(*                                                                         *)
(* Of AdminAccess: a seed that finishes opens the whole layout, wherever   *)
(* earlier ones stopped and whatever was edited in between.                *)
(***************************************************************************)
EXTENDS SystemTasks, AdminAccess, SumProofs

-----------------------------------------------------------------------------
(* Tasks *)

IsNote(n) == n = [id |-> n.id, run |-> n.run]
IsPull(p) == p = [pc |-> p.pc, mode |-> p.mode, due |-> p.due, note |-> p.note]

\* The notifications are told apart by their ids, which are counted, and by their runs.
NotesApart ==
  /\ IsFiniteSet(notes)
  /\ \A n \in notes : IsNote(n) /\ n.id \in 1..Cardinality(notes)
  /\ \A n, o \in notes : n.id = o.id \/ n.run = o.run => n = o

\* A pull is about to give its user a receipt of a notification that exists.
GivesNote(u) == pull[u].pc = "receipt" => \E n \in notes : pull[u].note = n.id

(***************************************************************************)
(* The inductive invariant.                                                *)
(***************************************************************************)
NotesInv ==
  /\ NotesApart
  /\ receipts \subseteq {n.id : n \in notes} \X Users
  /\ pull = [u \in Users |-> pull[u]]
  /\ \A u \in Users : IsPull(pull[u]) /\ GivesNote(u)

-----------------------------------------------------------------------------
\* A pull that goes on to its next run is at rest, inserts, fetches, or has a notification to give.
LEMMA PullGoesOn ==
  ASSUME NEW p, IsPull(p), NEW due, NEW q \in Continues(p, due)
  PROVE  IsPull(q) /\ (q.pc = "receipt" => \E n \in notes : q.note = n.id)
<1>1. CASE q = Resting
  BY <1>1 DEF Resting, IsPull
<1>2. CASE q = [p EXCEPT !.pc = "insert", !.due = due, !.note = None]
  BY <1>2 DEF IsPull
<1>3. CASE q = [p EXCEPT !.pc = "fetch", !.due = {}, !.note = None]
  BY <1>3 DEF IsPull
<1>4. ASSUME NEW n \in notes, q = [p EXCEPT !.pc = "receipt", !.due = due, !.note = n.id]
      PROVE  IsPull(q) /\ \E o \in notes : q.note = o.id
  BY <1>4 DEF IsPull
<1>5. QED
  BY <1>1, <1>2, <1>3, <1>4 DEF Continues, Of

\* A pull that has found or inserted the notification of its run is about to give it.
LEMMA PullGives ==
  ASSUME NEW p, IsPull(p), NEW id, NEW q, q = [p EXCEPT !.pc = "receipt", !.note = id]
  PROVE  IsPull(q) /\ q.note = id
  BY DEF IsPull

\* A pull's step changes the pull of its user alone.
LEMMA OnePullMoves ==
  ASSUME NotesInv, NEW u \in Users, NEW P, Becomes(u, P),
         \A p \in P : IsPull(p) /\ (p.pc = "receipt" => \E n \in notes' : p.note = n.id),
         notes \subseteq notes'
  PROVE  /\ pull' = [v \in Users |-> pull'[v]]
         /\ \A v \in Users : IsPull(pull'[v]) /\ GivesNote(v)'
<1>1. PICK p \in P : pull' = [pull EXCEPT ![u] = p]
  BY DEF Becomes
<1>2. pull' = [v \in Users |-> pull'[v]] /\ pull'[u] = p /\ \A v \in Users \ {u} : pull'[v] = pull[v]
  BY <1>1 DEF NotesInv
<1>3. QED
  BY <1>2 DEF NotesInv, GivesNote

\* A notification of a run that had none is told from all others.
LEMMA NewNoteIsApart ==
  ASSUME NotesApart, NEW run, Of(run) = {},
         notes' = notes \cup {[id |-> Cardinality(notes) + 1, run |-> run]}
  PROVE  NotesApart'
<1> DEFINE new == [id |-> Cardinality(notes) + 1, run |-> run]
<1>1. Cardinality(notes) \in Nat
  BY FS_CardinalityType DEF NotesApart
<1>2. new \notin notes
  BY <1>1 DEF NotesApart
<1>3. IsFiniteSet(notes') /\ Cardinality(notes') = Cardinality(notes) + 1
  BY <1>2, FS_AddElement DEF NotesApart
<1>4. IsNote(new) /\ new.id = Cardinality(notes) + 1 /\ new.run = run
  BY DEF IsNote
<1>5. \A n \in notes : n.id \in 1..Cardinality(notes) /\ n.run # run
  BY DEF NotesApart, Of
<1> HIDE DEF new
<1>6. \A n \in notes' : n \in notes \/ n = new
  BY DEF new
<1>7. \A n \in notes' : IsNote(n) /\ n.id \in 1..Cardinality(notes')
  BY <1>1, <1>3, <1>4, <1>5, <1>6 DEF NotesApart
<1>8. \A n, o \in notes' : n.id = o.id \/ n.run = o.run => n = o
  BY <1>1, <1>4, <1>5, <1>6 DEF NotesApart
<1>9. QED
  BY <1>3, <1>7, <1>8 DEF NotesApart

\* Every step keeps the notifications apart, and what pulls are about to give.
THEOREM NotesAreApart == Spec => []NotesInv
<1>1. Init => NotesInv
  BY FS_EmptySet DEF Init, NotesInv, NotesApart, GivesNote, Resting, IsPull
<1>2. NotesInv /\ [Next]_vars => NotesInv'
  <2> SUFFICES ASSUME NotesInv, [Next]_vars
               PROVE  NotesInv'
    OBVIOUS
  <2>1. ASSUME UNCHANGED <<notes, receipts, pull>>
        PROVE  NotesInv'
    BY <2>1 DEF NotesInv, NotesApart, GivesNote
  <2>2. ASSUME NEW s \in Offered(Schedules), NEW status \in FormStatuses, Create(s, status)
        PROVE  NotesInv'
    BY <2>1, <2>2 DEF Create, rows
  <2>3. ASSUME NEW op \in Operations, HandlerReads(op)
        PROVE  NotesInv'
    BY <2>1, <2>3 DEF HandlerReads, rows
  <2>4. ASSUME NEW h \in admin, HandlerWrites(h)
        PROVE  NotesInv'
    BY <2>1, <2>4 DEF HandlerWrites, rows
  <2>5. ASSUME NEW u \in Users, NEW P, Becomes(u, P), UNCHANGED <<notes, receipts>>,
               \A p \in P : IsPull(p) /\ (p.pc = "receipt" => \E n \in notes : p.note = n.id)
        PROVE  NotesInv'
    <3>1. /\ pull' = [v \in Users |-> pull'[v]]
          /\ \A v \in Users : IsPull(pull'[v]) /\ GivesNote(v)'
      BY <2>5, OnePullMoves
    <3>2. QED
      BY <2>5, <3>1 DEF NotesInv, NotesApart
  <2>6. IsPull(Resting) /\ Resting.pc = "idle"
    BY DEF IsPull, Resting
  <2>7. ASSUME NEW u \in Users, NEW mode \in Modes, PullReads(u, mode)
        PROVE  NotesInv'
    <3> DEFINE begun == [Resting EXCEPT !.mode = mode]
    <3>1. IsPull(begun)
      BY DEF IsPull, Resting
    <3>2. PICK due : Becomes(u, Continues(begun, due))
      BY <2>7 DEF PullReads
    <3>3. UNCHANGED <<notes, receipts>>
      BY <2>7 DEF PullReads, rows
    <3> HIDE DEF begun
    <3>4. QED
      BY <2>5, <3>1, <3>2, <3>3, PullGoesOn
  <2>8. ASSUME NEW u \in Users, Inserts(u)
        PROVE  NotesInv'
    <3> DEFINE run == Min(pull[u].due)
               new == [id |-> Cardinality(notes) + 1, run |-> run]
               given(id) == [pull[u] EXCEPT !.pc = "receipt", !.note = id]
    <3>1. \A id : IsPull(given(id)) /\ given(id).note = id
      BY PullGives DEF NotesInv
    <3>2. CASE Of(run) = {} /\ notes' = notes \cup {new} /\ Becomes(u, {given(new.id)})
      <4>1. NotesApart'
        BY <3>2, NewNoteIsApart DEF NotesInv
      <4>2. new \in notes' /\ notes \subseteq notes'
        BY <3>2
      <4> HIDE DEF new, given
      <4>3. /\ pull' = [v \in Users |-> pull'[v]]
            /\ \A v \in Users : IsPull(pull'[v]) /\ GivesNote(v)'
        BY <3>1, <3>2, <4>2, OnePullMoves
      <4>4. receipts' = receipts
        BY <2>8 DEF Inserts
      <4>5. QED
        BY <4>1, <4>2, <4>3, <4>4 DEF NotesInv
    <3>3. CASE UNCHANGED notes /\ Becomes(u, {given(n.id) : n \in Of(run)})
      <4>1. \A n \in Of(run) : n \in notes
        BY DEF Of
      <4>2. receipts' = receipts
        BY <2>8 DEF Inserts
      <4> HIDE DEF given, run
      <4>3. QED
        BY <2>5, <3>1, <3>3, <4>1, <4>2
    <3>4. QED
      BY <2>8, <3>2, <3>3 DEF Inserts, Insertable
  <2>9. ASSUME NEW u \in Users, Receives(u)
        PROVE  NotesInv'
    <3> DEFINE rest == pull[u].due \ {Min(pull[u].due)}
    <3>1. /\ Becomes(u, Continues(pull[u], rest)) /\ notes' = notes
          /\ receipts' = receipts \cup {<<pull[u].note, u>>} /\ pull[u].pc = "receipt"
      BY <2>9 DEF Receives
    <3> HIDE DEF rest
    <3>2. \A p \in Continues(pull[u], rest) : IsPull(p) /\ (p.pc = "receipt" => \E n \in notes : p.note = n.id)
      BY PullGoesOn DEF NotesInv
    <3>3. /\ pull' = [v \in Users |-> pull'[v]]
          /\ \A v \in Users : IsPull(pull'[v]) /\ GivesNote(v)'
      BY <3>1, <3>2, OnePullMoves
    <3>4. receipts' \subseteq {n.id : n \in notes} \X Users
      BY <3>1 DEF NotesInv, GivesNote
    <3>5. QED
      BY <3>1, <3>3, <3>4 DEF NotesInv, NotesApart
  <2>10. ASSUME NEW u \in Users, Fetches(u) \/ PullFails(u)
         PROVE  NotesInv'
    <3>1. Becomes(u, {Resting}) /\ UNCHANGED <<notes, receipts>>
      BY <2>10 DEF Fetches, PullFails, rows
    <3>2. QED
      BY <2>5, <2>6, <3>1
  <2>11. ASSUME NEW u \in Readers, Marks(u) \/ Unmarks(u)
         PROVE  NotesInv'
    BY <2>1, <2>11 DEF Marks, Unmarks
  <2>12. CASE Tick
    BY <2>1, <2>12 DEF Tick, rows
  <2>13. CASE UNCHANGED vars
    BY <2>1, <2>13 DEF vars, rows
  <2>14. QED
    BY <2>2, <2>3, <2>4, <2>7, <2>8, <2>9, <2>10, <2>11, <2>12, <2>13 DEF Next, PullStep
<1>3. QED
  BY <1>1, <1>2, PTL DEF Spec

(***************************************************************************)
(* However the pulls of users interleave, and wherever they are cut short, *)
(* a user is told of a run once.                                           *)
(***************************************************************************)
THEOREM RunIsToldOnce == Spec => []ToldOnce
<1>1. NotesInv => ToldOnce
  <2> SUFFICES ASSUME NotesInv,
                      NEW r \in receipts, NEW q \in receipts, r[2] = q[2], RunOf(r[1]) = RunOf(q[1])
               PROVE  r = q
    BY DEF ToldOnce
  <2>1. \A p \in receipts : \E n \in notes : p = <<n.id, p[2]>>
    BY DEF NotesInv
  <2>2. PICK n \in notes : r = <<n.id, r[2]>>
    BY <2>1
  <2>3. PICK o \in notes : q = <<o.id, q[2]>>
    BY <2>1
  <2>4. \A m \in notes : RunOf(m.id) = m.run
    <3> SUFFICES ASSUME NEW m \in notes
                 PROVE  RunOf(m.id) = m.run
      OBVIOUS
    <3>1. (CHOOSE x \in notes : x.id = m.id) = m
      BY DEF NotesInv, NotesApart
    <3>2. QED
      BY <3>1 DEF RunOf
  <2>5. r[1] = n.id /\ q[1] = o.id
    BY <2>2, <2>3
  <2>6. n = o
    BY <2>4, <2>5 DEF NotesInv, NotesApart
  <2>7. QED
    BY <2>2, <2>3, <2>6
<1>2. QED
  BY <1>1, NotesAreApart, PTL

-----------------------------------------------------------------------------
(* Quotients *)

\* A quotient and a rest less than the divisor make the number that has them.
LEMMA QuotientIs ==
  ASSUME NEW q \in Int, NEW n \in Nat \ {0}, NEW r \in 0..(n - 1)
  PROVE  (q * n + r) \div n = q /\ (q * n + r) % n = r
  BY SMT

\* Products of integers are integers: the provers ask, where a factor is not a numeral.
LEMMA ProductIsInt == \A a, b \in Int : a * b \in Int
  BY SMT

\* A number is the divisor's multiple by the quotient at least,
LEMMA QuotientTimes == \A a \in Int, b \in Nat \ {0} : (a \div b) * b <= a
  BY SMT

\* and less than the next multiple.
LEMMA QuotientRest == \A a \in Int, b \in Nat \ {0} : a < (a \div b) * b + b
  BY SMT

\* A number is made of its quotient and its rest.
LEMMA QuotientOf ==
  ASSUME NEW t \in Int, NEW n \in Nat \ {0}
  PROVE  /\ t \div n \in Int /\ t % n \in 0..(n - 1)
         /\ t = (t \div n) * n + (t % n)
<1> DEFINE q == t \div n
           r == t - q * n
<1>1. q \in Int
  BY SMT
<1>2. q * n \in Int /\ q * n <= t /\ t < q * n + n
  BY <1>1, ProductIsInt, QuotientTimes, QuotientRest
<1> HIDE DEF q
<1>3. r \in 0..(n - 1) /\ t = q * n + r
  BY <1>2
<1> HIDE DEF r
<1>4. (q * n + r) % n = r
  BY <1>1, <1>3, QuotientIs
<1>5. t % n = r
  BY <1>3, <1>4
<1>6. q \in Int /\ t % n \in 0..(n - 1) /\ t = q * n + (t % n)
  BY <1>1, <1>3, <1>5, Zenon
<1>7. QED
  BY <1>6, Zenon DEF q

\* Multiples of different numbers are a divisor apart.
LEMMA ProductOrder ==
  ASSUME NEW d \in Int, NEW e \in Int, NEW n \in Nat \ {0}, d < e
  PROVE  d * n + n <= e * n
  BY SMT

\* A month begins after as many days as the months before it have.
LEMMA MonthSums ==
  \A m : MonthBegin(m) = SumFunctionOnSet(MonthLengths, 1..(m - 1))
  BY DEF MonthBegin, MapThenSumSet, SumFunctionOnSet, FoldFunctionOnSet

-----------------------------------------------------------------------------
(* Days, and the parts of a day *)

\* A time is a day and a part of it.
LEMMA TimeOfDay ==
  ASSUME NEW t \in Int
  PROVE  DayOf(t) \in Int /\ t % DayParts \in 0..(DayParts - 1) /\ t = At(DayOf(t), t % DayParts)
  BY QuotientOf, CalendarIsPositive DEF DayOf, At

\* And a day and a part of it are a time.
LEMMA DayOfTime ==
  ASSUME NEW d \in Int, NEW p \in 0..(DayParts - 1)
  PROVE  At(d, p) \in Int /\ DayOf(At(d, p)) = d /\ At(d, p) % DayParts = p
<1>1. d * DayParts \in Int
  BY ProductIsInt, CalendarIsPositive
<1>2. DayParts \in Nat \ {0}
  BY CalendarIsPositive
<1>3. (d * DayParts + p) \div DayParts = d /\ (d * DayParts + p) % DayParts = p
  BY <1>2, QuotientIs
<1>4. d * DayParts + p \in Int
  BY <1>1
<1>5. QED
  BY <1>3, <1>4, Zenon DEF DayOf, At

\* Times of an earlier day are earlier.
LEMMA DaysInOrder ==
  ASSUME NEW d \in Int, NEW e \in Int, d < e, NEW p \in 0..(DayParts - 1), NEW q \in 0..(DayParts - 1)
  PROVE  At(d, p) < At(e, q)
<1>1. d * DayParts \in Int /\ e * DayParts \in Int
  BY ProductIsInt, CalendarIsPositive
<1>2. d * DayParts + DayParts <= e * DayParts
  BY ProductOrder, CalendarIsPositive
<1> DEFINE x == d * DayParts
           y == e * DayParts
<1> HIDE DEF x, y
<1>3. x \in Int /\ y \in Int /\ x + DayParts <= y /\ DayParts \in Nat \ {0}
  BY <1>1, <1>2, CalendarIsPositive DEF x, y
<1>4. x + p < y + q
  BY <1>3
<1>5. QED
  BY <1>4 DEF At, x, y

\* The days a schedule has a run on.
OnDay(s, d) ==
  /\ s.type = "weekly"  => WeekdayOf(d) = s.day
  /\ s.type = "monthly" => DayOfMonth(d) = s.day

\* Whether a time is on the calendar is a matter of its day, and of the part of it.
LEMMA OnCalendarIs ==
  ASSUME NEW s, s.part \in 0..(DayParts - 1)
  PROVE  /\ \A t \in Int : OnCalendar(s, t) => t = At(DayOf(t), s.part) /\ OnDay(s, DayOf(t))
         /\ \A d \in Int : OnDay(s, d) => OnCalendar(s, At(d, s.part))
<1>1. ASSUME NEW t \in Int, OnCalendar(s, t)
      PROVE  t = At(DayOf(t), s.part) /\ OnDay(s, DayOf(t))
  BY <1>1, TimeOfDay DEF OnCalendar, OnDay
<1>2. ASSUME NEW d \in Int, OnDay(s, d)
      PROVE  OnCalendar(s, At(d, s.part))
  BY <1>2, DayOfTime DEF OnCalendar, OnDay
<1>3. QED
  BY <1>1, <1>2

\* A run is the next if the calendar has none between.
IsNext(s, after, run) ==
  /\ run \in Int /\ run > after /\ OnCalendar(s, run)
  /\ \A r \in Int : after < r /\ r < run => ~OnCalendar(s, r)

\* The first day on which the part of the day is still to come.
FirstDay(s, after) == IF At(DayOf(after), s.part) <= after THEN DayOf(after) + 1 ELSE DayOf(after)

\* The next run is on the first suitable day that is late enough.
LEMMA NextIsOnDay ==
  ASSUME NEW s, s.part \in 0..(DayParts - 1), NEW after \in Int, NEW d \in Int,
         FirstDay(s, after) <= d, OnDay(s, d),
         \A e \in Int : FirstDay(s, after) <= e /\ e < d => ~OnDay(s, e)
  PROVE  IsNext(s, after, At(d, s.part))
<1> DEFINE today == DayOf(after)
           now0  == after % DayParts
<1>1. today \in Int /\ now0 \in 0..(DayParts - 1) /\ after = At(today, now0)
  BY TimeOfDay
<1>2. FirstDay(s, after) = IF At(today, s.part) <= after THEN today + 1 ELSE today
  BY DEF FirstDay
<1> HIDE DEF today, now0
<1>3. At(today, s.part) \in Int /\ At(d, s.part) \in Int
  BY <1>1, DayOfTime
<1>4. At(d, s.part) > after
  <2>1. CASE d = today
    BY <1>1, <1>2, <1>3, <2>1
  <2>2. CASE d # today
    <3>1. today < d
      BY <1>1, <1>2, <2>2
    <3>2. QED
      BY <1>1, <3>1, <1>3, DaysInOrder
  <2>3. QED
    BY <2>1, <2>2
<1>5. ASSUME NEW r \in Int, after < r, r < At(d, s.part), OnCalendar(s, r)
      PROVE  FALSE
  <2> DEFINE e == DayOf(r)
  <2>1. e \in Int /\ r = At(e, s.part) /\ OnDay(s, e)
    BY <1>5, OnCalendarIs, TimeOfDay
  <2> HIDE DEF e
  <2>2. e < d
    <3>1. CASE e = d
      BY <1>5, <2>1, <3>1
    <3>2. CASE d < e
      BY <1>3, <1>5, <2>1, <3>2, DaysInOrder
    <3>3. QED
      BY <2>1, <3>1, <3>2
  <2>3. ~(e < today)
    BY <1>1, <1>5, <2>1, DaysInOrder
  <2>4. FirstDay(s, after) <= e
    BY <1>1, <1>2, <1>5, <2>1, <2>3
  <2>5. QED
    BY <2>1, <2>2, <2>4
<1>6. QED
  BY <1>3, <1>4, <1>5, OnCalendarIs DEF IsNext

-----------------------------------------------------------------------------
(* The next day, week and month *)

\* Every day is a daily schedule's.
LEMMA NextDailyIs ==
  ASSUME NEW s, s.type = "daily", s.part \in 0..(DayParts - 1), NEW after \in Int
  PROVE  IsNext(s, after, NextDaily(s, after))
<1> DEFINE today == DayOf(after)
           d     == FirstDay(s, after)
<1>1. today \in Int
  BY TimeOfDay
<1>2. d \in {today, today + 1} /\ d \in Int
  BY <1>1 DEF FirstDay
<1>3. At(today, s.part) + DayParts = At(today + 1, s.part)
  <2>1. today * DayParts \in Int /\ (today + 1) * DayParts = today * DayParts + DayParts
    BY <1>1, ProductIsInt, CalendarIsPositive
  <2>2. QED
    BY <2>1, CalendarIsPositive DEF At
<1>4. NextDaily(s, after) = At(d, s.part)
  BY <1>3 DEF NextDaily, FirstDay
<1>5. \A e \in Int : OnDay(s, e)
  BY DEF OnDay
<1>6. d <= d /\ \A e \in Int : ~(d <= e /\ e < d)
  BY <1>2
<1> HIDE DEF d
<1>7. IsNext(s, after, At(d, s.part))
  BY <1>2, <1>5, <1>6, NextIsOnDay DEF d
<1>8. QED
  BY <1>4, <1>7

\* The same day of the week is a week later at least.
LEMMA SameWeekday ==
  ASSUME NEW x \in Int, NEW y \in Int, WeekdayOf(x) = WeekdayOf(y), x < y
  PROVE  x + WeekLength <= y
<1>1. WeekLength \in Nat \ {0}
  BY CalendarIsPositive
<1> DEFINE p == x \div WeekLength
           q == y \div WeekLength
           w == x % WeekLength
<1>2. p \in Int /\ q \in Int /\ w \in Int /\ x = p * WeekLength + w /\ y = q * WeekLength + w
  BY <1>1, QuotientOf DEF WeekdayOf
<1> HIDE DEF p, q, w
<1>3. p * WeekLength \in Int /\ q * WeekLength \in Int
  BY <1>1, <1>2, ProductIsInt
<1>4. p < q
  <2>1. CASE q < p
    <3>1. q * WeekLength + WeekLength <= p * WeekLength
      BY <1>1, <1>2, <2>1, ProductOrder
    <3>2. QED
      BY <1>1, <1>2, <1>3, <3>1
  <2>2. CASE p = q
    BY <1>2, <2>2
  <2>3. QED
    BY <1>2, <2>1, <2>2
<1>5. p * WeekLength + WeekLength <= q * WeekLength
  BY <1>1, <1>2, <1>4, ProductOrder
<1>6. QED
  BY <1>1, <1>2, <1>3, <1>5

\* The day of the week that a weekly schedule asks for is found within a week.
LEMMA NextWeekday ==
  ASSUME NEW d \in Int, NEW w \in 0..(WeekLength - 1)
  PROVE  LET days == (w - WeekdayOf(d)) % WeekLength
         IN  days \in 0..(WeekLength - 1) /\ WeekdayOf(d + days) = w
<1>1. WeekLength \in Nat \ {0}
  BY CalendarIsPositive
<1> DEFINE v == d % WeekLength
           q == d \div WeekLength
           k == (w - v) % WeekLength
           p == (w - v) \div WeekLength
<1>2. q \in Int /\ v \in Int /\ d = q * WeekLength + v
  BY <1>1, QuotientOf
<1> HIDE DEF v, q
<1>3. w - v \in Int
  BY <1>1, <1>2
<1>4. p \in Int /\ k \in 0..(WeekLength - 1) /\ w - v = p * WeekLength + k
  BY <1>1, <1>3, QuotientOf
<1> HIDE DEF k, p
<1>5. q * WeekLength \in Int /\ p * WeekLength \in Int /\ (q - p) * WeekLength = q * WeekLength - p * WeekLength
  BY <1>1, <1>2, <1>4, ProductIsInt
<1>6. d + k = (q - p) * WeekLength + w
  BY <1>1, <1>2, <1>4, <1>5
<1>7. (d + k) % WeekLength = w
  <2>1. q - p \in Int
    BY <1>2, <1>4
  <2>2. ((q - p) * WeekLength + w) % WeekLength = w
    BY <1>1, <2>1, QuotientIs
  <2>3. QED
    BY <1>6, <2>2, Zenon
<1>8. QED
  BY <1>4, <1>7, Zenon DEF WeekdayOf, k, v

\* A weekly schedule's next run is on its day of this week or of the next.
LEMMA NextWeeklyIs ==
  ASSUME NEW s, s.type = "weekly", s.part \in 0..(DayParts - 1), s.day \in 0..(WeekLength - 1), NEW after \in Int
  PROVE  IsNext(s, after, NextWeekly(s, after))
<1> DEFINE today == DayOf(after)
           days  == (s.day - WeekdayOf(today)) % WeekLength
           d     == today + days
           f     == FirstDay(s, after)
<1>1. today \in Int /\ WeekLength \in Nat \ {0}
  BY TimeOfDay, CalendarIsPositive
<1> HIDE DEF today
<1>2. days \in 0..(WeekLength - 1) /\ WeekdayOf(d) = s.day
  BY <1>1, NextWeekday
<1> HIDE DEF days
<1>3. f = IF At(today, s.part) <= after THEN today + 1 ELSE today
  BY DEF FirstDay, today
<1>4. NextWeekly(s, after) = IF At(d, s.part) <= after THEN At(d, s.part) + At(WeekLength, 0) ELSE At(d, s.part)
  BY DEF NextWeekly, today, days
<1>5. d \in Int /\ d >= today /\ d < today + WeekLength
  BY <1>1, <1>2
<1> HIDE DEF d, f
<1>6. At(today, s.part) \in Int /\ At(d, s.part) \in Int
  BY <1>1, <1>5, DayOfTime
<1>7. \A e \in Int : OnDay(s, e) <=> WeekdayOf(e) = s.day
  BY DEF OnDay
<1>8. \A e, g \in Int : OnDay(s, e) /\ OnDay(s, g) /\ e < g => e + WeekLength <= g
  BY <1>7, SameWeekday
<1>9. ASSUME today < d
      PROVE  after < At(d, s.part)
  <2> DEFINE p == after % DayParts
  <2>1. p \in 0..(DayParts - 1) /\ after = At(today, p)
    BY TimeOfDay DEF today
  <2> HIDE DEF p
  <2>2. At(today, p) < At(d, s.part)
    BY <1>1, <1>5, <1>9, <2>1, DaysInOrder
  <2>3. QED
    BY <2>1, <2>2
<1>10. CASE At(d, s.part) <= after
  <2>1. At(d, s.part) + At(WeekLength, 0) = At(d + WeekLength, s.part)
    <3>1. /\ d * DayParts \in Int /\ WeekLength * DayParts \in Int
          /\ (d + WeekLength) * DayParts = d * DayParts + WeekLength * DayParts
      BY <1>1, <1>5, ProductIsInt, CalendarIsPositive
    <3>2. QED
      BY <3>1 DEF At
  <2>2. WeekdayOf(d + WeekLength) = s.day
    <3>1. /\ d \div WeekLength \in Int /\ d % WeekLength \in 0..(WeekLength - 1)
          /\ d = (d \div WeekLength) * WeekLength + (d % WeekLength)
      BY <1>1, <1>5, QuotientOf
    <3> DEFINE q == d \div WeekLength
               w == d % WeekLength
    <3>2. q \in Int /\ w \in 0..(WeekLength - 1) /\ d = q * WeekLength + w /\ w = s.day
      BY <1>2, <3>1, Zenon DEF WeekdayOf
    <3> HIDE DEF q, w
    <3>3. q * WeekLength \in Int /\ (q + 1) * WeekLength = q * WeekLength + WeekLength
      BY <1>1, <3>2, ProductIsInt
    <3>4. d + WeekLength = (q + 1) * WeekLength + w
      BY <1>1, <3>2, <3>3
    <3>5. (d + WeekLength) % WeekLength = w
      <4>1. q + 1 \in Int
        BY <3>2
      <4>2. ((q + 1) * WeekLength + w) % WeekLength = w
        BY <1>1, <3>2, <4>1, QuotientIs
      <4>3. QED
        BY <3>4, <4>2, Zenon
    <3>6. QED
      BY <3>2, <3>5 DEF WeekdayOf
  <2>3. d = today
    BY <1>1, <1>5, <1>6, <1>9, <1>10
  <2>4. f = today + 1 /\ OnDay(s, d)
    BY <1>2, <1>3, <1>5, <1>7, <1>10, <2>3
  <2>5. d + WeekLength \in Int /\ OnDay(s, d + WeekLength)
    BY <1>1, <1>5, <1>7, <2>2
  <2>6. f <= d + WeekLength
    BY <1>1, <1>5, <2>3, <2>4
  <2>7. ASSUME NEW e \in Int, f <= e, e < d + WeekLength, OnDay(s, e)
        PROVE  FALSE
    <3>1. d < e
      BY <1>1, <2>3, <2>4, <2>7
    <3>2. d + WeekLength <= e
      BY <1>5, <1>8, <2>4, <2>7, <3>1
    <3>3. QED
      BY <1>1, <1>5, <2>7, <3>2
  <2>8. IsNext(s, after, At(d + WeekLength, s.part))
    BY <2>5, <2>6, <2>7, NextIsOnDay DEF f
  <2>9. QED
    BY <1>4, <1>10, <2>1, <2>8
<1>11. CASE ~(At(d, s.part) <= after)
  <2>1. OnDay(s, d)
    BY <1>2, <1>5, <1>7
  <2>2. f <= d /\ f \in Int /\ today <= f
    BY <1>1, <1>3, <1>5, <1>11
  <2>3. ASSUME NEW e \in Int, f <= e, e < d, OnDay(s, e)
        PROVE  FALSE
    <3>1. e + WeekLength <= d
      BY <1>5, <1>8, <2>1, <2>3
    <3>2. QED
      BY <1>1, <1>5, <2>2, <2>3, <3>1
  <2>4. IsNext(s, after, At(d, s.part))
    BY <1>5, <2>1, <2>2, <2>3, NextIsOnDay DEF f
  <2>5. QED
    BY <1>4, <1>11, <2>4
<1>12. QED
  BY <1>10, <1>11

-----------------------------------------------------------------------------
(* Months *)

\* A month begins when the one before ends.
LEMMA MonthsFollow ==
  /\ MonthBegin(1) = 0
  /\ \A m \in 1..Len(MonthLengths) : /\ MonthBegin(m) \in Int /\ MonthLengths[m] \in Nat \ {0}
                                     /\ MonthBegin(m + 1) = MonthBegin(m) + MonthLengths[m]
<1>1. MonthBegin(1) = 0
  <2>1. 1..(1 - 1) = {}
    OBVIOUS
  <2>2. QED
    BY <2>1, MonthSums, SumOfNothing
<1>2. Len(MonthLengths) \in Nat /\ \A i \in 1..Len(MonthLengths) : MonthLengths[i] \in Nat \ {0}
  BY CalendarIsPositive
<1>3. ASSUME NEW m \in 1..Len(MonthLengths)
      PROVE  MonthBegin(m) \in Int /\ MonthBegin(m + 1) = MonthBegin(m) + MonthLengths[m]
  <2> DEFINE S == 1..((m + 1) - 1)
  <2>1. m \in S /\ S \ {m} = 1..(m - 1) /\ S \subseteq 1..Len(MonthLengths)
    BY <1>2
  <2>2. IsFiniteSet(S)
    <3>1. (m + 1) - 1 \in Int
      OBVIOUS
    <3>2. QED
      BY <3>1, FS_Interval
  <2> HIDE DEF S
  <2>3. Summable(MonthLengths, S)
    BY <1>2, <2>1, <2>2 DEF Summable
  <2>4. /\ SumFunctionOnSet(MonthLengths, S) = MonthLengths[m] + SumFunctionOnSet(MonthLengths, S \ {m})
        /\ SumFunctionOnSet(MonthLengths, S \ {m}) \in Int
    <3>1. Summable(MonthLengths, S \ {m})
      BY <2>3, FS_Subset DEF Summable
    <3>2. QED
      BY <2>1, <2>3, <3>1, SumOfRest
  <2>5. /\ MonthBegin(m + 1) = SumFunctionOnSet(MonthLengths, S)
        /\ MonthBegin(m) = SumFunctionOnSet(MonthLengths, S \ {m})
    BY <2>1, MonthSums DEF S
  <2>6. MonthLengths[m] \in Int
    BY <1>2
  <2>7. QED
    BY <2>4, <2>5, <2>6
<1>4. QED
  BY <1>1, <1>2, <1>3

\* Later months begin later, and none before the calendar does.
LEMMA MonthsInOrder ==
  ASSUME NEW m \in 1..Len(MonthLengths), NEW k \in m..Len(MonthLengths)
  PROVE  /\ MonthBegin(m) <= MonthBegin(k) /\ (m < k => MonthBegin(m) + MonthLengths[m] <= MonthBegin(k))
         /\ MonthBegin(m) \in Nat
<1>0. Len(MonthLengths) \in Nat
  BY CalendarIsPositive
<1>1. ASSUME NEW a \in 1..Len(MonthLengths), NEW b \in a..Len(MonthLengths), MonthBegin(b) < MonthBegin(a)
      PROVE  FALSE
  <2> DEFINE W == {x \in a..b : MonthBegin(x) < MonthBegin(a)}
  <2>1. b \in Nat /\ W \subseteq 0..b /\ b \in W
    BY <1>0, <1>1
  <2> HIDE DEF W
  <2>2. PICK x \in W : \A i \in W : i >= x
    BY <2>1, LeastOfSome
  <2>3. x \in a..b /\ MonthBegin(x) < MonthBegin(a)
    BY <2>2 DEF W
  <2>4. MonthBegin(a) \in Int /\ MonthBegin(b) \in Int /\ MonthBegin(x) \in Int
    BY <1>0, <2>3, MonthsFollow
  <2>5. x # a
    BY <2>3, <2>4
  <2>6. x - 1 \in a..b /\ x - 1 \in 1..Len(MonthLengths) /\ (x - 1) + 1 = x
    BY <1>0, <2>3, <2>5
  <2>7. x - 1 \notin W
    BY <2>2, <2>3, <2>6
  <2>8. MonthBegin(x) = MonthBegin(x - 1) + MonthLengths[x - 1] /\ MonthBegin(x - 1) \in Int
        /\ MonthLengths[x - 1] \in Nat
    BY <2>6, MonthsFollow
  <2>9. ~(MonthBegin(x - 1) < MonthBegin(a))
    BY <2>6, <2>7 DEF W
  <2>10. QED
    BY <2>3, <2>4, <2>8, <2>9
<1>2. \A a \in 1..Len(MonthLengths) : \A b \in a..Len(MonthLengths) : MonthBegin(a) <= MonthBegin(b)
  BY <1>0, <1>1, MonthsFollow
<1>3. m < k => MonthBegin(m) + MonthLengths[m] <= MonthBegin(k)
  <2> SUFFICES ASSUME m < k PROVE MonthBegin(m) + MonthLengths[m] <= MonthBegin(k)
    OBVIOUS
  <2>1. m + 1 \in 1..Len(MonthLengths) /\ k \in (m + 1)..Len(MonthLengths)
    BY <1>0
  <2>2. MonthBegin(m + 1) <= MonthBegin(k)
    BY <1>2, <2>1
  <2>3. QED
    BY <2>2, MonthsFollow
<1>4. 1 \in 1..Len(MonthLengths) /\ m \in 1..Len(MonthLengths)
  BY <1>0
<1>5. MonthBegin(1) <= MonthBegin(m)
  BY <1>2, <1>4
<1>6. QED
  BY <1>2, <1>3, <1>5, MonthsFollow

\* The day of the month that a day is.
LEMMA DayOfMonthIs ==
  ASSUME NEW k \in 1..Len(MonthLengths), NEW d \in Int, MonthBegin(k) <= d, d < MonthBegin(k) + MonthLengths[k]
  PROVE  DayOfMonth(d) = d - MonthBegin(k) + 1
<1>0. Len(MonthLengths) \in Nat /\ DOMAIN MonthLengths = 1..Len(MonthLengths)
  BY CalendarIsPositive
<1> DEFINE In(m) == d - MonthBegin(m) \in 0..(MonthLengths[m] - 1)
<1>1. In(k)
  BY MonthsFollow
<1>2. ASSUME NEW m \in 1..Len(MonthLengths), In(m), m # k
      PROVE  FALSE
  <2>1. /\ MonthBegin(m) \in Int /\ MonthBegin(k) \in Int
        /\ MonthLengths[m] \in Nat /\ MonthLengths[k] \in Nat
    BY MonthsFollow
  <2>2. MonthBegin(m) <= d /\ d < MonthBegin(m) + MonthLengths[m]
    BY <1>2, <2>1
  <2>3. CASE m < k
    <3>1. k \in m..Len(MonthLengths)
      BY <1>0, <2>3
    <3>2. MonthBegin(m) + MonthLengths[m] <= MonthBegin(k)
      BY <2>3, <3>1, MonthsInOrder
    <3>3. QED
      BY <2>1, <2>2, <3>2
  <2>4. CASE k < m
    <3>1. m \in k..Len(MonthLengths)
      BY <1>0, <2>4
    <3>2. MonthBegin(k) + MonthLengths[k] <= MonthBegin(m)
      BY <2>4, <3>1, MonthsInOrder
    <3>3. QED
      BY <2>1, <2>2, <3>2
  <2>5. QED
    BY <1>2, <2>3, <2>4
<1> HIDE DEF In
<1>3. (CHOOSE m \in DOMAIN MonthLengths : In(m)) = k
  BY <1>0, <1>1, <1>2
<1>4. DayOfMonth(d) = d - MonthBegin(CHOOSE m \in DOMAIN MonthLengths : In(m)) + 1
  BY DEF DayOfMonth, In
<1>5. QED
  BY <1>3, <1>4

\* Every day before a month's end is in a month.
LEMMA DayHasMonth ==
  ASSUME NEW m \in 1..Len(MonthLengths), NEW d \in Nat, d < MonthBegin(m) + MonthLengths[m]
  PROVE  \E k \in 1..Len(MonthLengths) : MonthBegin(k) <= d /\ d < MonthBegin(k) + MonthLengths[k]
<1>0. Len(MonthLengths) \in Nat
  BY CalendarIsPositive
<1> DEFINE W == {x \in 1..m : d < MonthBegin(x) + MonthLengths[x]}
<1>1. m \in Nat /\ W \subseteq 0..m /\ m \in W
  BY <1>0
<1> HIDE DEF W
<1>2. PICK x \in W : \A i \in W : i >= x
  BY <1>1, LeastOfSome
<1>3. x \in 1..m /\ d < MonthBegin(x) + MonthLengths[x] /\ x \in 1..Len(MonthLengths)
  BY <1>0, <1>2 DEF W
<1>4. MonthBegin(x) <= d
  <2>1. CASE x = 1
    BY <2>1, MonthsFollow
  <2>2. CASE x # 1
    <3>1. x - 1 \in 1..m /\ x - 1 \in 1..Len(MonthLengths) /\ (x - 1) + 1 = x
      BY <1>0, <1>3, <2>2
    <3>2. x - 1 \notin W
      BY <1>2, <1>3, <3>1
    <3>3. ~(d < MonthBegin(x - 1) + MonthLengths[x - 1])
      BY <3>1, <3>2 DEF W
    <3>4. MonthBegin(x) = MonthBegin(x - 1) + MonthLengths[x - 1] /\ MonthBegin(x) \in Int
      BY <1>3, <3>1, MonthsFollow
    <3>5. QED
      BY <3>3, <3>4
  <2>3. QED
    BY <2>1, <2>2
<1>5. QED
  BY <1>3, <1>4

\* Of some numbers, Min is the first.
LEMMA MinIsIn ==
  ASSUME NEW S, S \subseteq Nat, S # {}
  PROVE  Min(S) \in S /\ \A y \in S : Min(S) <= y
<1>1. PICK b \in S : TRUE
  OBVIOUS
<1> DEFINE W == S \cap 0 .. b
<1>2. b \in Nat /\ W \subseteq 0 .. b /\ b \in W
  BY <1>1
<1> HIDE DEF W
<1>3. PICK x \in W : \A i \in W : i >= x
  BY <1>2, LeastOfSome
<1>4. x \in S /\ x \in Nat /\ x <= b
  BY <1>2, <1>3 DEF W
<1>5. ASSUME NEW y \in S
      PROVE  x <= y
  <2>1. y \in Nat
    OBVIOUS
  <2>2. CASE y <= b
    BY <1>3, <1>4, <2>1, <2>2 DEF W
  <2>3. CASE ~(y <= b)
    BY <1>2, <1>4, <2>1, <2>3
  <2>4. QED
    BY <2>2, <2>3
<1>6. QED
  BY <1>4, <1>5 DEF Min

\* A monthly schedule's next run is in the first month that has its day.
LEMMA NextMonthlyIs ==
  ASSUME NEW s, s.type = "monthly", s.part \in 0..(DayParts - 1), s.day \in Nat \ {0},
         NEW after \in Int, after >= -1,
         \E m \in DOMAIN MonthLengths :
           s.day <= MonthLengths[m] /\ At(MonthBegin(m) + s.day - 1, s.part) > after
  PROVE  IsNext(s, after, NextMonthly(s, after))
<1> DEFINE months == {m \in DOMAIN MonthLengths : s.day <= MonthLengths[m]}
           run(m) == At(MonthBegin(m) + s.day - 1, s.part)
           T      == {t \in {run(m) : m \in months} : t > after}
<1>0. Len(MonthLengths) \in Nat /\ DOMAIN MonthLengths = 1..Len(MonthLengths)
  BY CalendarIsPositive
<1>1. ASSUME NEW m \in months
      PROVE  /\ MonthBegin(m) + s.day - 1 \in Nat /\ run(m) \in Int
             /\ MonthBegin(m) + s.day - 1 < MonthBegin(m) + MonthLengths[m]
             /\ DayOfMonth(MonthBegin(m) + s.day - 1) = s.day
  <2>1. m \in 1..Len(MonthLengths) /\ s.day <= MonthLengths[m] /\ m \in m..Len(MonthLengths)
    BY <1>0
  <2>2. MonthBegin(m) \in Nat /\ MonthLengths[m] \in Nat
    BY <2>1, MonthsInOrder, MonthsFollow
  <2> DEFINE d == MonthBegin(m) + s.day - 1
  <2>3. d \in Nat /\ MonthBegin(m) <= d /\ d < MonthBegin(m) + MonthLengths[m] /\ d - MonthBegin(m) + 1 = s.day
    BY <2>1, <2>2
  <2> HIDE DEF d
  <2>4. DayOfMonth(d) = s.day
    BY <2>1, <2>3, DayOfMonthIs
  <2>5. At(d, s.part) \in Int
    BY <2>3, DayOfTime
  <2>6. QED
    BY <2>3, <2>4, <2>5 DEF d
<1>2. NextMonthly(s, after) = Min(T)
  BY DEF NextMonthly
<1>3. T # {}
  BY DEF T
<1>4. T \subseteq Nat
  BY <1>1
<1> HIDE DEF T
<1>5. Min(T) \in T /\ \A t \in T : Min(T) <= t
  BY <1>3, <1>4, MinIsIn
<1>6. PICK m \in months : Min(T) = run(m) /\ run(m) > after
  BY <1>5 DEF T
<1>7. run(m) \in Int /\ OnCalendar(s, run(m))
  <2>1. OnDay(s, MonthBegin(m) + s.day - 1)
    BY <1>1 DEF OnDay
  <2>2. MonthBegin(m) + s.day - 1 \in Int
    BY <1>1
  <2>3. QED
    BY <1>1, <2>1, <2>2, OnCalendarIs
<1>8. ASSUME NEW r \in Int, after < r, r < run(m), OnCalendar(s, r)
      PROVE  FALSE
  <2> DEFINE d == DayOf(r)
             e == MonthBegin(m) + s.day - 1
  <2>1. d \in Int /\ r = At(d, s.part) /\ DayOfMonth(d) = s.day
    BY <1>8, OnCalendarIs, TimeOfDay DEF OnDay
  <2> HIDE DEF d
  <2>2. e \in Nat /\ e < MonthBegin(m) + MonthLengths[m]
    BY <1>1
  <2>3. d <= e
    <3>1. CASE e < d
      <4>1. At(e, s.part) < At(d, s.part)
        BY <2>1, <2>2, <3>1, DaysInOrder
      <4>2. QED
        BY <1>7, <1>8, <2>1, <4>1
    <3>2. QED
      BY <2>1, <2>2, <3>1
  <2>4. d \in Nat
    <3>1. CASE d < 0
      <4>1. At(d, s.part) < At(0, 0) /\ At(0, 0) = 0
        <5>1. 0 \in 0..(DayParts - 1)
          BY CalendarIsPositive
        <5>2. At(d, s.part) < At(0, 0)
          BY <2>1, <3>1, <5>1, DaysInOrder
        <5>3. QED
          BY <5>2, CalendarIsPositive DEF At
      <4>2. QED
        BY <1>8, <2>1, <4>1
    <3>2. QED
      BY <2>1, <3>1
  <2>5. m \in 1..Len(MonthLengths) /\ MonthBegin(m) \in Int /\ MonthLengths[m] \in Nat
    BY <1>0, MonthsFollow
  <2>6. d < MonthBegin(m) + MonthLengths[m]
    BY <2>2, <2>3, <2>4, <2>5
  <2>7. PICK k \in 1..Len(MonthLengths) : MonthBegin(k) <= d /\ d < MonthBegin(k) + MonthLengths[k]
    BY <2>4, <2>5, <2>6, DayHasMonth
  <2>8. d - MonthBegin(k) + 1 = s.day
    BY <2>1, <2>7, DayOfMonthIs
  <2>9. s.day <= MonthLengths[k] /\ d = MonthBegin(k) + s.day - 1
    BY <2>1, <2>7, <2>8, MonthsFollow
  <2>10. k \in months /\ r = run(k)
    BY <1>0, <2>1, <2>9
  <2>11. r \in T
    BY <1>8, <2>10 DEF T
  <2>12. QED
    BY <1>5, <1>6, <1>7, <1>8, <2>11
<1>9. QED
  BY <1>2, <1>6, <1>7, <1>8 DEF IsNext

-----------------------------------------------------------------------------
(* The search of the next run *)

\* A schedule's next run is the calendar's.
LEMMA NextRunIs ==
  ASSUME NEW s, IsSchedule(s), NEW after \in Int, after >= -1, Reaches(s, after)
  PROVE  IsNext(s, after, NextRun(s, after))
<1>1. CASE s.type = "daily"
  BY <1>1, NextDailyIs DEF NextRun, IsSchedule
<1>2. CASE s.type = "weekly"
  BY <1>2, NextWeeklyIs DEF NextRun, IsSchedule
<1>3. CASE s.type = "monthly"
  BY <1>3, NextMonthlyIs DEF NextRun, IsSchedule, Reaches
<1>4. QED
  BY <1>1, <1>2, <1>3 DEF IsSchedule

-----------------------------------------------------------------------------
(* The loop over the runs *)

\* The times of the calendar between two times.
Between(s, a, b) == {r \in a..b : OnCalendar(s, r)}

\* Between two times there are finitely many.
LEMMA BetweenIsFinite ==
  ASSUME NEW s, NEW a \in Int, NEW b \in Int
  PROVE  IsFiniteSet(Between(s, a, b)) /\ Cardinality(Between(s, a, b)) \in Nat
<1>1. IsFiniteSet(a..b) /\ Between(s, a, b) \subseteq a..b
  BY FS_Interval DEF Between
<1>2. IsFiniteSet(Between(s, a, b))
  BY <1>1, FS_Subset
<1>3. QED
  BY <1>2, FS_CardinalityType

\* Up to a later time there is the next run, and what comes after it.
LEMMA BetweenNext ==
  ASSUME NEW s, NEW a \in Int, NEW n, IsNext(s, a, n), NEW b \in Int
  PROVE  /\ n <= b => /\ Between(s, a + 1, b) = {n} \cup Between(s, n + 1, b)
                      /\ Cardinality(Between(s, a + 1, b)) = Cardinality(Between(s, n + 1, b)) + 1
         /\ b < n => Between(s, a + 1, b) = {} /\ Cardinality(Between(s, a + 1, b)) = 0
<1>1. n \in Int /\ n > a /\ OnCalendar(s, n) /\ \A r \in Int : a < r /\ r < n => ~OnCalendar(s, r)
  BY DEF IsNext
<1>2. ASSUME n <= b
      PROVE  Between(s, a + 1, b) = {n} \cup Between(s, n + 1, b)
  BY <1>1, <1>2 DEF Between
<1>3. n \notin Between(s, n + 1, b)
  BY <1>1 DEF Between
<1>4. ASSUME n <= b
      PROVE  Cardinality(Between(s, a + 1, b)) = Cardinality(Between(s, n + 1, b)) + 1
  <2>1. IsFiniteSet(Between(s, n + 1, b))
    BY <1>1, BetweenIsFinite
  <2>2. QED
    BY <1>2, <1>3, <1>4, <2>1, FS_AddElement
<1>5. ASSUME b < n
      PROVE  Between(s, a + 1, b) = {}
  BY <1>1, <1>5 DEF Between
<1>6. QED
  BY <1>2, <1>4, <1>5, FS_EmptySet

\* The loop ends at a run that n others come before.
Ends(s, t, n, run) == run > t \/ (s.runs # None /\ n = s.runs) \/ (s.end # None /\ run > s.end)

\* A function is the loop if it does that at every run.
Loops(s, t, f) ==
  f = [at \in Nat \X Nat |->
         IF Ends(s, t, at[1], at[2]) THEN {} ELSE {at[2]} \cup f[<<at[1] + 1, NextRun(s, at[2])>>]]

\* The runs are what that loop finds from the first run on.
LEMMA RunsAreLooped ==
  ASSUME NEW row, NEW t
  PROVE  LET s == row.schedule
         IN  RunsUntil(row, t) = (CHOOSE f : Loops(s, t, f))[<<0, NextRun(s, StartOf(row) - 1)>>]
  BY DEF RunsUntil, Loops, Ends

\* Of the times after a run, max_runs and the end leave the first ones.
Few(s, n, run, r) ==
  s.runs # None /\ n < s.runs => n + 1 + Cardinality(Between(s, run + 1, r - 1)) < s.runs

Follow(s, t, n, run) ==
  {r \in Between(s, run + 1, t) : (s.end # None => r <= s.end) /\ Few(s, n, run, r)}

\* What the loop makes of a run, and of those that come after it.
Made(s, t, n, run) == IF Ends(s, t, n, run) THEN {} ELSE {run} \cup Follow(s, t, n, run)

\* The calendar has a run after a time if it has one after a later time.
LEMMA ReachesEarlier ==
  ASSUME NEW s, IsSchedule(s), NEW t \in Int, NEW a \in Int, a <= t, Reaches(s, t)
  PROVE  Reaches(s, a)
<1> SUFFICES ASSUME s.type = "monthly"
             PROVE  Reaches(s, a)
  BY DEF Reaches
<1>1. PICK m \in DOMAIN MonthLengths : s.day <= MonthLengths[m] /\ At(MonthBegin(m) + s.day - 1, s.part) > t
  BY DEF Reaches
<1>2. m \in 1..Len(MonthLengths)
  BY CalendarIsPositive
<1>3. MonthBegin(m) + s.day - 1 \in Int
  BY <1>2, MonthsFollow DEF IsSchedule
<1>4. At(MonthBegin(m) + s.day - 1, s.part) \in Int
  BY <1>3, DayOfTime DEF IsSchedule
<1>5. At(MonthBegin(m) + s.day - 1, s.part) > a
  BY <1>1, <1>4
<1>6. QED
  BY <1>1, <1>5 DEF Reaches

\* What follows a run is the next one, if it is not ended, and what follows that.
LEMMA MadeGoesOn ==
  ASSUME NEW s, IsSchedule(s), NEW t \in Nat, Reaches(s, t), NEW n \in Nat, NEW run \in Nat, ~Ends(s, t, n, run)
  PROVE  /\ NextRun(s, run) \in Nat /\ NextRun(s, run) > run
         /\ Made(s, t, n, run) = {run} \cup Made(s, t, n + 1, NextRun(s, run))
<1> DEFINE x == NextRun(s, run)
<1>1. run <= t /\ (s.runs # None => n # s.runs) /\ (s.end # None => run <= s.end)
  BY DEF Ends, IsSchedule
<1>2. IsNext(s, run, x)
  BY <1>1, ReachesEarlier, NextRunIs
<1> HIDE DEF x
<1>3. x \in Nat /\ x > run /\ OnCalendar(s, x) /\ \A r \in Int : run < r /\ r < x => ~OnCalendar(s, r)
  BY <1>2 DEF IsNext
<1>4. s.runs # None => s.runs \in Nat
  BY DEF IsSchedule
<1>5. s.end # None => s.end \in Nat
  BY DEF IsSchedule
<1>6. ASSUME NEW r \in Int
      PROVE  /\ x <= r => Cardinality(Between(s, run + 1, r)) = Cardinality(Between(s, x + 1, r)) + 1
             /\ r < x => Cardinality(Between(s, run + 1, r)) = 0
             /\ Cardinality(Between(s, x + 1, r)) \in Nat
  BY <1>2, <1>3, BetweenNext, BetweenIsFinite
<1>7. Follow(s, t, n, run) = Made(s, t, n + 1, x)
  <2>1. CASE x > t
    <3>1. Between(s, run + 1, t) = {}
      BY <1>2, <1>3, <2>1, BetweenNext
    <3>2. QED
      BY <2>1, <3>1 DEF Follow, Made, Ends
  <2>2. CASE s.end # None /\ x > s.end
    <3>1. \A r \in Between(s, run + 1, t) : ~(r <= s.end)
      BY <1>3, <1>5, <2>2 DEF Between
    <3>2. QED
      BY <2>2, <3>1 DEF Follow, Made, Ends
  <2>3. CASE s.runs # None /\ n + 1 = s.runs
    <3>1. ASSUME NEW r \in Between(s, run + 1, t)
          PROVE  ~Few(s, n, run, r)
      <4>1. r \in Int
        BY DEF Between
      <4>2. Cardinality(Between(s, run + 1, r - 1)) \in Nat
        BY <4>1, BetweenIsFinite
      <4>3. QED
        BY <1>4, <2>3, <4>2 DEF Few
    <3>2. QED
      BY <2>3, <3>1 DEF Follow, Made, Ends
  <2>4. CASE ~Ends(s, t, n + 1, x)
    <3>1. x <= t /\ (s.runs # None => n + 1 # s.runs) /\ (s.end # None => x <= s.end)
      BY <1>3, <1>5, <2>4 DEF Ends
    <3>2. Between(s, run + 1, t) = {x} \cup Between(s, x + 1, t)
      BY <1>2, <3>1, BetweenNext
    <3>3. Few(s, n, run, x)
      <4>1. Cardinality(Between(s, run + 1, x - 1)) = 0
        BY <1>3, <1>6
      <4>2. QED
        BY <1>4, <3>1, <4>1 DEF Few
    <3>4. ASSUME NEW r \in Between(s, x + 1, t)
          PROVE  Few(s, n, run, r) <=> Few(s, n + 1, x, r)
      <4>1. r \in Int /\ x <= r - 1 /\ r - 1 \in Int
        BY <1>3 DEF Between
      <4>2. PICK c \in Nat : /\ Cardinality(Between(s, x + 1, r - 1)) = c
                             /\ Cardinality(Between(s, run + 1, r - 1)) = c + 1
        BY <1>6, <4>1
      <4>3. QED
        BY <1>1, <1>4, <3>1, <4>2 DEF Few
    <3>5. Follow(s, t, n, run) = {x} \cup Follow(s, t, n + 1, x)
      BY <3>1, <3>2, <3>3, <3>4 DEF Follow
    <3>6. QED
      BY <2>4, <3>5 DEF Made
  <2>5. QED
    BY <2>1, <2>2, <2>3, <2>4 DEF Ends
<1>8. Made(s, t, n, run) = {run} \cup Follow(s, t, n, run)
  BY DEF Made
<1>9. QED
  BY <1>3, <1>7, <1>8 DEF x

\* The loop over the runs makes just that.
LEMMA LoopMakes ==
  ASSUME NEW s, IsSchedule(s), NEW t \in Nat, Reaches(s, t), NEW f, Loops(s, t, f), NEW n \in Nat, NEW run \in Nat
  PROVE  f[<<n, run>>] = Made(s, t, n, run)
<1>1. \A m \in Nat, r \in Nat :
        f[<<m, r>>] = IF Ends(s, t, m, r) THEN {} ELSE {r} \cup f[<<m + 1, NextRun(s, r)>>]
  BY DEF Loops
<1> DEFINE Wrong(k) == \E m \in Nat : f[<<m, t - k>>] # Made(s, t, m, t - k)
           W == {k \in 0..t : Wrong(k)}
<1>2. ASSUME W # {}
      PROVE  FALSE
  <2>1. W \subseteq 0..t
    OBVIOUS
  <2> HIDE DEF W
  <2>2. PICK k \in W : \A i \in W : i >= k
    BY ONLY t \in Nat, <1>2, <2>1, LeastOfSome
  <2>3. PICK m \in Nat : f[<<m, t - k>>] # Made(s, t, m, t - k)
    BY <2>2 DEF W
  <2> DEFINE r == t - k
             x == NextRun(s, r)
  <2>4. r \in Nat /\ r <= t /\ k = t - r /\ k \in 0..t
    BY <2>1
  <2>5. f[<<m, r>>] # Made(s, t, m, r)
    BY <2>3
  <2> HIDE DEF r
  <2>6. ~Ends(s, t, m, r)
    BY <1>1, <2>4, <2>5 DEF Made
  <2>7. x \in Nat /\ x > r /\ Made(s, t, m, r) = {r} \cup Made(s, t, m + 1, x)
    BY <2>4, <2>6, MadeGoesOn
  <2> HIDE DEF x
  <2>8. f[<<m, r>>] = {r} \cup f[<<m + 1, x>>]
    BY <1>1, <2>4, <2>6 DEF x
  <2>9. f[<<m + 1, x>>] = Made(s, t, m + 1, x)
    <3>1. CASE x > t
      <4>1. Ends(s, t, m + 1, x)
        BY <3>1 DEF Ends
      <4>2. m + 1 \in Nat
        OBVIOUS
      <4>3. QED
        BY <1>1, <2>7, <4>1, <4>2 DEF Made
    <3>2. CASE x <= t
      <4>1. t - x \in 0..t /\ ~(t - x >= k) /\ t - (t - x) = x /\ m + 1 \in Nat
        BY <2>4, <2>7, <3>2
      <4>2. t - x \notin W
        BY <2>2, <4>1
      <4>3. QED
        BY <4>1, <4>2 DEF W
    <3>3. QED
      BY <2>7, <3>1, <3>2
  <2>10. QED
    BY <2>5, <2>7, <2>8, <2>9
<1>3. CASE run > t
  BY <1>1, <1>3 DEF Made, Ends
<1>4. CASE run <= t
  <2>1. t - run \in 0..t /\ t - (t - run) = run
    BY <1>4
  <2>2. t - run \notin W
    BY <1>2
  <2>3. QED
    BY <2>1, <2>2
<1>5. QED
  BY <1>3, <1>4

\* There is such a loop.
LEMMA LoopExists ==
  ASSUME NEW s, IsSchedule(s), NEW t \in Nat, Reaches(s, t)
  PROVE  Loops(s, t, CHOOSE f : Loops(s, t, f))
<1> DEFINE g == [at \in Nat \X Nat |-> Made(s, t, at[1], at[2])]
<1>1. ASSUME NEW n \in Nat, NEW run \in Nat
      PROVE  Made(s, t, n, run) = IF Ends(s, t, n, run) THEN {} ELSE {run} \cup g[<<n + 1, NextRun(s, run)>>]
  <2>1. CASE Ends(s, t, n, run)
    BY <2>1 DEF Made
  <2>2. CASE ~Ends(s, t, n, run)
    <3>1. /\ NextRun(s, run) \in Nat /\ n + 1 \in Nat
          /\ Made(s, t, n, run) = {run} \cup Made(s, t, n + 1, NextRun(s, run))
      BY <2>2, MadeGoesOn
    <3>2. g[<<n + 1, NextRun(s, run)>>] = Made(s, t, n + 1, NextRun(s, run))
      BY <3>1
    <3>3. QED
      BY <2>2, <3>1, <3>2
  <2>3. QED
    BY <2>1, <2>2
<1>2. g = [at \in Nat \X Nat |->
             IF Ends(s, t, at[1], at[2]) THEN {} ELSE {at[2]} \cup g[<<at[1] + 1, NextRun(s, at[2])>>]]
  BY <1>1
<1>3. Loops(s, t, g)
  BY <1>2 DEF Loops
<1>4. QED
  BY <1>3

-----------------------------------------------------------------------------
(* What is due *)

\* Of the times from a start on, the loop makes those that are promised.
LEMMA MadeIsPromised ==
  ASSUME NEW s, IsSchedule(s), NEW start \in Nat, NEW t \in Nat, NEW first, IsNext(s, start - 1, first)
  PROVE  Made(s, t, 0, first) = Promised(s, start, t)
<1> DEFINE Allowed(r) == s.end # None => r <= s.end
           all == {r \in start..t : OnCalendar(s, r) /\ Allowed(r)}
<1>1. all = {r \in Between(s, start, t) : Allowed(r)}
  BY DEF Between
<1>2. Promised(s, start, t) = IF s.runs = None THEN all
                              ELSE {r \in all : Cardinality({q \in all : q < r}) < s.runs}
  BY DEF Promised
<1> HIDE DEF all
<1>3. first \in Int /\ first >= start /\ (start - 1) + 1 = start /\ start - 1 \in Int
  BY DEF IsNext
<1>4. s.runs # None => s.runs \in Nat \ {0}
  BY DEF IsSchedule
<1>5. s.end # None => s.end \in Nat
  BY DEF IsSchedule
<1>6. ASSUME NEW b \in Int
      PROVE  /\ first <= b => /\ Between(s, start, b) = {first} \cup Between(s, first + 1, b)
                              /\ Cardinality(Between(s, start, b)) = Cardinality(Between(s, first + 1, b)) + 1
             /\ b < first => Between(s, start, b) = {}
  BY <1>3, BetweenNext
<1>7. CASE first > t
  <2>1. all = {}
    BY <1>1, <1>6, <1>7
  <2>2. QED
    BY <1>2, <1>7, <2>1 DEF Made, Ends
<1>8. CASE s.end # None /\ first > s.end
  <2>1. \A r \in Between(s, start, t) : r >= first
    BY <1>3 DEF Between, IsNext
  <2>2. \A r \in Between(s, start, t) : ~Allowed(r)
    <3>1. \A r \in Between(s, start, t) : r \in Int
      BY DEF Between
    <3>2. QED
      BY <1>3, <1>5, <1>8, <2>1, <3>1
  <2>3. all = {}
    BY <1>1, <2>2
  <2>4. QED
    BY <1>2, <1>8, <2>3 DEF Made, Ends
<1>9. CASE first <= t /\ (s.end # None => first <= s.end)
  <2>1. ~Ends(s, t, 0, first)
    BY <1>3, <1>4, <1>5, <1>9 DEF Ends
  <2>2. Made(s, t, 0, first) = {first} \cup Follow(s, t, 0, first)
    BY <2>1 DEF Made
  <2>3. Between(s, start, t) = {first} \cup Between(s, first + 1, t)
    BY <1>6, <1>9
  <2>4. all = {first} \cup {r \in Between(s, first + 1, t) : Allowed(r)}
    BY <1>1, <1>9, <2>3
  <2>5. CASE s.runs = None
    BY <1>2, <2>2, <2>4, <2>5 DEF Follow, Few
  <2>6. CASE s.runs # None
    <3>1. Cardinality({q \in all : q < first}) < s.runs
      <4>1. \A q \in Between(s, first + 1, t) : q \in Int /\ ~(q < first)
        BY <1>3 DEF Between
      <4>2. {q \in all : q < first} = {}
        BY <1>3, <2>4, <4>1
      <4>3. QED
        BY <1>4, <2>6, <4>2, FS_EmptySet
    <3>2. ASSUME NEW r \in Between(s, first + 1, t), Allowed(r)
          PROVE  Cardinality({q \in all : q < r}) < s.runs <=> Few(s, 0, first, r)
      <4>1. r \in Int /\ r <= t /\ first <= r - 1 /\ r - 1 \in Int
        BY <1>3 DEF Between
      <4>2. {q \in all : q < r} = Between(s, start, r - 1)
        <5>1. \A q \in Between(s, start, r - 1) : Allowed(q)
          <6>1. \A q \in Between(s, start, r - 1) : q \in Int /\ q < r
            BY <4>1 DEF Between
          <6>2. QED
            BY <1>5, <3>2, <4>1, <6>1
        <5>2. {q \in Between(s, start, t) : q < r} = Between(s, start, r - 1)
          BY <4>1 DEF Between
        <5>3. QED
          BY <1>1, <5>1, <5>2
      <4>3. PICK c \in Nat : c = Cardinality(Between(s, first + 1, r - 1))
        BY <1>3, <4>1, BetweenIsFinite
      <4>4. Cardinality(Between(s, start, r - 1)) = c + 1
        BY <1>6, <4>1, <4>3
      <4>5. QED
        BY <1>4, <2>6, <4>2, <4>3, <4>4 DEF Few
    <3>3. QED
      BY <1>2, <2>2, <2>4, <2>6, <3>1, <3>2 DEF Follow
  <2>7. QED
    BY <2>5, <2>6
<1>10. QED
  BY <1>3, <1>5, <1>7, <1>8, <1>9

\* A schedule of the calendars, and where its runs start.
LEMMA StartIsNumber ==
  ASSUME NEW s \in Calendars, NEW created \in Nat, created <= Horizon
  PROVE  LET start == IF s.start = None THEN created ELSE s.start
         IN  start \in Nat /\ IsNext(s, start - 1, NextRun(s, start - 1))
<1> DEFINE start == IF s.start = None THEN created ELSE s.start
<1>1. IsSchedule(s) /\ Horizon \in Nat
  BY CalendarsAreSchedules, BoundsAreNat
<1>2. start \in Nat /\ Reaches(s, start)
  <2>1. CASE s.start = None
    BY <1>1, <2>1, CalendarsAreSchedules, ReachesEarlier
  <2>2. CASE s.start # None
    BY <1>1, <2>2, CalendarsAreSchedules DEF IsSchedule
  <2>3. QED
    BY <2>1, <2>2
<1> HIDE DEF start
<1>3. start - 1 \in Int /\ start - 1 >= -1 /\ start - 1 <= start
  BY <1>2
<1>4. Reaches(s, start - 1)
  BY <1>1, <1>2, <1>3, ReachesEarlier
<1>5. IsNext(s, start - 1, NextRun(s, start - 1))
  BY <1>1, <1>3, <1>4, NextRunIs
<1>6. QED
  BY <1>2, <1>5 DEF start

\* The loop finds the runs that are promised.
LEMMA RunsArePromised ==
  ASSUME NEW row, row.schedule \in Calendars, row.created \in Nat, NEW t \in Nat, row.created <= t, t <= Horizon
  PROVE  RunsUntil(row, t) = Promised(row.schedule, StartOf(row), t)
<1> DEFINE s     == row.schedule
           start == StartOf(row)
           first == NextRun(s, start - 1)
           f     == CHOOSE g : Loops(s, t, g)
<1>1. IsSchedule(s) /\ Horizon \in Nat /\ Reaches(s, Horizon)
  BY CalendarsAreSchedules, BoundsAreNat
<1>2. Reaches(s, t)
  BY <1>1, ReachesEarlier
<1>3. row.created <= Horizon
  BY <1>1
<1>4. start \in Nat /\ IsNext(s, start - 1, first)
  BY <1>3, StartIsNumber DEF StartOf
<1>5. RunsUntil(row, t) = f[<<0, first>>]
  BY RunsAreLooped
<1>6. Loops(s, t, f)
  BY <1>1, <1>2, LoopExists
<1> HIDE DEF s, start, first, f
<1>7. first \in Nat
  BY <1>4 DEF IsNext
<1>8. f[<<0, first>>] = Made(s, t, 0, first)
  BY <1>1, <1>2, <1>6, <1>7, LoopMakes
<1>9. Made(s, t, 0, first) = Promised(s, start, t)
  BY <1>1, <1>4, MadeIsPromised
<1>10. QED
  BY <1>5, <1>8, <1>9 DEF s, start

\* And of them those that are due are made.
LEMMA DueIsPromised ==
  ASSUME NEW row, row.schedule \in Calendars, row.created \in Nat, NEW t \in Nat, row.created <= t, t <= Horizon,
         NEW popup \in BOOLEAN
  PROVE  DueAsPromised(row, t, popup)
<1> DEFINE s        == row.schedule
           promised == Promised(s, StartOf(row), t)
           Later(r) == {q \in promised : q > r}
<1>1. RunsUntil(row, t) = promised
  BY RunsArePromised
<1>2. s.end # None => s.end \in Nat
  BY CalendarsAreSchedules DEF IsSchedule
<1>3. IsFiniteSet(promised)
  <2>1. IsFiniteSet(StartOf(row)..t)
    <3>1. StartOf(row) \in Int
      BY CalendarsAreSchedules DEF StartOf, IsSchedule
    <3>2. QED
      BY <3>1, FS_Interval
  <2>2. promised \subseteq StartOf(row)..t
    BY DEF Promised
  <2>3. QED
    BY <2>1, <2>2, FS_Subset
<1> HIDE DEF promised
<1>4. ASSUME NEW r
      PROVE  Cardinality(Later(r)) < 1 <=> Later(r) = {}
  <2>1. IsFiniteSet(Later(r))
    BY <1>3, FS_Subset
  <2>2. Cardinality(Later(r)) \in Nat /\ (Cardinality(Later(r)) = 0 <=> Later(r) = {})
    BY <2>1, FS_CardinalityType, FS_EmptySet
  <2>3. QED
    BY <2>2
<1>5. CASE ~popup
  BY <1>1, <1>5 DEF DueAsPromised, RunsDue, BackfilledRuns, Latest, promised
<1>6. CASE popup
  <2>1. RunsDue(row, t, popup) = IF s.end # None /\ t > s.end THEN {}
                                 ELSE {r \in promised : Cardinality(Later(r)) < 1}
    BY <1>1, <1>6 DEF RunsDue, LatestRun, Latest
  <2>2. RunsDue(row, t, popup) = {r \in promised : Later(r) = {} /\ (s.end # None => t <= s.end)}
    BY <1>2, <1>4, <2>1
  <2>3. QED
    BY <1>6, <2>2 DEF DueAsPromised, promised
<1>7. QED
  BY <1>5, <1>6

\* The next run an administrator is shown is the calendar's.
LEMMA NextIsPromised ==
  ASSUME NEW s \in Calendars, NEW t \in Nat, t <= Horizon
  PROVE  NextAsPromised(s, t)
<1> DEFINE start == IF s.start = None THEN t ELSE s.start
           first == NextRun(s, start - 1)
           next  == IF first < t THEN NextRun(s, t) ELSE first
<1>1. IsSchedule(s) /\ Horizon \in Nat /\ Reaches(s, Horizon)
  BY CalendarsAreSchedules, BoundsAreNat
<1>2. start \in Nat /\ IsNext(s, start - 1, first)
  BY StartIsNumber
<1>3. IsNext(s, t, NextRun(s, t))
  BY <1>1, ReachesEarlier, NextRunIs
<1>4. InitialNextRun(s, "scheduled", t) = next
  BY <1>1 DEF InitialNextRun, IsSchedule
<1>5. s.start = None => start = t
  OBVIOUS
<1>6. s.start # None => start = s.start
  OBVIOUS
<1> HIDE DEF start, first
<1>7. OnCalendar(s, next) /\ next >= t /\ next \in Int
  BY <1>2, <1>3 DEF IsNext
<1>8. ASSUME NEW r \in (t + 1)..(next - 1)
      PROVE  ~OnCalendar(s, r) \/ (s.start # None /\ r < s.start)
  <2>1. r \in Int /\ t < r /\ r < next
    BY <1>7
  <2>2. CASE first < t
    BY <1>3, <2>1, <2>2 DEF IsNext
  <2>3. CASE ~(first < t)
    <3>1. r < first
      BY <2>1, <2>3
    <3>2. start - 1 < r => ~OnCalendar(s, r)
      BY <1>2, <2>1, <3>1 DEF IsNext
    <3>3. CASE s.start = None
      BY <1>2, <1>5, <2>1, <3>2, <3>3
    <3>4. CASE s.start # None
      BY <1>2, <1>6, <2>1, <3>2, <3>4
    <3>5. QED
      BY <3>3, <3>4
  <2>4. QED
    BY <2>2, <2>3
<1> HIDE DEF next
<1>9. QED
  BY <1>4, <1>7, <1>8 DEF NextAsPromised

(***************************************************************************)
(* What a task that repeats has due is what its calendar promises, for     *)
(* days, weeks and months of any length and at every time of the calendar. *)
(***************************************************************************)
THEOREM CalendarIsKept == Spec => []RunsAreTheCalendar
<1>1. ASSUME NEW popup \in BOOLEAN
      PROVE  Cases({popup}) \subseteq AsPromised
  <2>1. ASSUME NEW case \in Cases({popup})
        PROVE  case \in AsPromised
    <3>1. /\ case \in Cases(BOOLEAN) /\ case.schedule \in Calendars /\ case.popup \in BOOLEAN
          /\ case.created \in Nat
      BY BoundsAreNat DEF Cases
    <3>2. ASSUME NEW t \in case.created..Horizon
          PROVE  /\ DueAsPromised([schedule |-> case.schedule, created |-> case.created], t, case.popup)
                 /\ NextAsPromised(case.schedule, t)
      <4> DEFINE row == [schedule |-> case.schedule, created |-> case.created]
      <4>1. row.schedule = case.schedule /\ row.created = case.created
        OBVIOUS
      <4>2. t \in Nat /\ case.created <= t /\ t <= Horizon
        BY <3>1, BoundsAreNat
      <4> HIDE DEF row
      <4>3. DueAsPromised(row, t, case.popup)
        BY <3>1, <4>1, <4>2, DueIsPromised
      <4>4. NextAsPromised(case.schedule, t)
        BY <3>1, <4>2, NextIsPromised
      <4>5. QED
        BY <4>3, <4>4 DEF row
    <3>3. QED
      BY <3>1, <3>2 DEF AsPromised
  <2>2. QED
    BY <2>1
<1>2. IsPopup \in BOOLEAN
  BY DEF IsPopup
<1>3. RunsAreTheCalendar
  BY <1>1, <1>2 DEF RunsAreTheCalendar
<1>4. QED
  BY <1>3, PTL

-----------------------------------------------------------------------------
(* The first and the next of some ids *)

\* Of some numbers, one is the first.
LEMMA FirstIsLeast ==
  ASSUME NEW ids, ids \subseteq Nat, ids # {}
  PROVE  First(ids) \in ids /\ \A j \in ids : First(ids) <= j
<1>1. PICK m \in ids : TRUE
  OBVIOUS
<1> DEFINE W == ids \cap 0 .. m
<1>2. m \in Nat /\ W \subseteq 0 .. m /\ W # {}
  BY <1>1
<1> HIDE DEF W
<1>3. PICK k \in W : \A i \in W : i >= k
  BY <1>2, LeastOfSome
<1>4. k \in ids /\ k <= m /\ k \in Nat
  BY <1>2, <1>3 DEF W
<1>5. ASSUME NEW j \in ids
      PROVE  k <= j
  <2>1. j \in Nat
    OBVIOUS
  <2>2. CASE j <= m
    BY <1>3, <1>4, <2>1, <2>2 DEF W
  <2>3. CASE ~(j <= m)
    BY <1>2, <1>4, <2>1, <2>3
  <2>4. QED
    BY <2>2, <2>3
<1>6. QED
  BY <1>4, <1>5 DEF First

\* Of finitely many numbers, one is the last.
LEMMA MaxIsIn ==
  ASSUME NEW S, IsFiniteSet(S), S \subseteq Nat, S # {}
  PROVE  Max(S) \in S /\ \A i \in S : i <= Max(S)
<1> DEFINE F == {{i \in S : i > k} : k \in S}
<1>1. IsFiniteSet(S) /\ F \subseteq SUBSET S
  OBVIOUS
<1>2. F # {}
  OBVIOUS
<1> HIDE DEF F
<1>3. PICK T \in F : \A U \in F : U \subseteq T => U = T
  BY ONLY <1>1, <1>2, SmallestSubset
<1>4. PICK k \in S : T = {i \in S : i > k}
  BY DEF F
<1>5. ASSUME NEW j \in S, ~(j <= k)
      PROVE  FALSE
  <2> DEFINE U == {i \in S : i > j}
  <2>1. U \in F
    BY DEF F
  <2>2. k \in Nat /\ j \in Nat
    OBVIOUS
  <2>3. ASSUME NEW i \in S, i > j
        PROVE  i > k
    <3>1. i \in Nat
      OBVIOUS
    <3>2. QED
      BY <1>5, <2>2, <2>3, <3>1
  <2>4. U \subseteq T
    BY <1>4, <2>3
  <2>5. j \in T /\ j \notin U
    BY <1>4, <1>5, <2>2
  <2> HIDE DEF U
  <2>6. QED
    BY <1>3, <2>1, <2>4, <2>5
<1>6. \A y \in S : k >= y
  BY <1>5
<1>7. Max(S) \in S /\ \A y \in S : Max(S) >= y
  BY <1>6 DEF Max
<1>8. QED
  BY <1>7

\* A new id is no other row's.
LEMMA NewIdIsNew ==
  ASSUME NEW t, IsTable(t)
  PROVE  NewId(t) \in Nat \ {0} /\ NewId(t) \notin DOMAIN t
<1> DEFINE S == {0} \cup DOMAIN t
<1>1. S \subseteq Nat /\ S # {}
  BY DEF IsTable
<1>2. IsFiniteSet(S)
  BY FS_Singleton, FS_Union DEF IsTable
<1>3. NewId(t) = 1 + Max(S)
  BY DEF NewId
<1> HIDE DEF S
<1>4. Max(S) \in S /\ \A i \in S : i <= Max(S)
  BY <1>1, <1>2, MaxIsIn
<1>5. PICK m \in Nat : m = Max(S)
  BY <1>1, <1>4
<1>6. NewId(t) = m + 1 /\ m + 1 \notin S
  BY <1>1, <1>3, <1>4, <1>5
<1>7. QED
  BY <1>6 DEF S

\* The rows of a place are numbered, and its first row is one of them.
LEMMA PlaceHasFirst ==
  ASSUME NEW t, IsTable(t), NEW path, NEW parent, RowsAt(t, path, parent) # {}
  PROVE  /\ First(RowsAt(t, path, parent)) \in RowsAt(t, path, parent)
         /\ First(RowsAt(t, path, parent)) \in Nat \ {0}
<1>1. RowsAt(t, path, parent) \subseteq Nat \ {0}
  BY DEF RowsAt, IsTable
<1>2. QED
  BY <1>1, FirstIsLeast

-----------------------------------------------------------------------------
(***************************************************************************)
(* From t to u nothing changed of the rows with other paths.               *)
(***************************************************************************)
OnlyPaths(t, u, paths) ==
  \A q : q \notin paths =>
    \A x \in Nat : RowsAt(u, q, x) = RowsAt(t, q, x) /\ \A i \in RowsAt(t, q, x) : u[i] = t[i]

\* A menu is where it is ensured to be, and no other path changes.
LEMMA EnsureMenuAdds ==
  ASSUME NEW t, IsTable(t), NEW path, NEW parent \in Nat, NEW page
  PROVE  LET u == EnsureMenu(t, path, parent, page)
         IN  IsTable(u) /\ OnlyPaths(t, u, {path}) /\ RowsAt(u, path, parent) # {}
<1> DEFINE known == Known(t, path, parent, page)
           id    == IF known # {} THEN First(known) ELSE NewId(t)
           row   == [path |-> path, parent |-> parent, page |-> page]
           u     == EnsureMenu(t, path, parent, page)
<1>1. known \subseteq DOMAIN t /\ \A i \in known : t[i].path = path
  BY DEF Known, RowsAt
<1>2. id \in Nat \ {0} /\ (id \in DOMAIN t => t[id].path = path)
  <2>1. CASE known # {}
    <3>1. known \subseteq Nat
      BY <1>1 DEF IsTable
    <3> HIDE DEF known
    <3>2. First(known) \in known
      BY <2>1, <3>1, FirstIsLeast
    <3>3. QED
      BY <1>1, <2>1, <3>2 DEF IsTable
  <2>2. CASE known = {}
    BY <2>2, NewIdIsNew
  <2>3. QED
    BY <2>1, <2>2
<1>3. u = [i \in DOMAIN t \cup {id} |-> IF i = id THEN row ELSE t[i]]
  BY DEF EnsureMenu
<1>4. IsRow(row) /\ row.path = path /\ row.parent = parent
  BY DEF IsRow
<1> HIDE DEF known, id, row, u
<1>5. DOMAIN u = DOMAIN t \cup {id} /\ u[id] = row /\ \A i \in DOMAIN t \ {id} : u[i] = t[i]
  BY <1>3
<1>6. IsTable(u)
  <2>1. IsFiniteSet(DOMAIN u)
    BY <1>5, FS_AddElement DEF IsTable
  <2>2. QED
    BY <1>2, <1>4, <1>5, <2>1 DEF IsTable
<1>7. RowsAt(u, path, parent) # {}
  BY <1>4, <1>5 DEF RowsAt
<1>8. ASSUME NEW q, q # path, NEW x \in Nat
      PROVE  RowsAt(u, q, x) = RowsAt(t, q, x) /\ \A i \in RowsAt(t, q, x) : u[i] = t[i]
  BY <1>2, <1>4, <1>5, <1>8 DEF RowsAt
<1>9. QED
  BY <1>6, <1>7, <1>8 DEF OnlyPaths, u

\* Of what changes few paths, both changes change no others.
LEMMA OnlyPathsGoesOn ==
  ASSUME NEW t, NEW u, NEW v, NEW P, OnlyPaths(t, u, P), OnlyPaths(u, v, P)
  PROVE  OnlyPaths(t, v, P)
  BY DEF OnlyPaths
-----------------------------------------------------------------------------
\* The row by which a catalog is known is its page, and the pages of a catalog are under it.
Stands(t, catalog)     == RowsAt(t, catalog, 0) # {} /\ t[CatalogId(t, catalog)].page = Layout
PagesStand(t, catalog) ==
  \A path \in Range(ChildrenOf(catalog)) : RowsAt(t, path, CatalogId(t, catalog)) # {}

\* The catalogs, and the paths of their pages, are different from each other.
CatalogPaths == {"/system", "/operation", "/review", "/finance", "/settings"}

\* The catalogs are five paths.
LEMMA CatalogsAre == Range(Catalogs) = CatalogPaths
<1> DEFINE s == Catalogs
<1>1. DOMAIN s = 1..5 /\ s[1] = "/system" /\ s[2] = "/operation" /\ s[3] = "/review"
      /\ s[4] = "/finance" /\ s[5] = "/settings"
  BY DEF Catalogs
<1> HIDE DEF s
<1>2. /\ \A i \in 1..5 : i = 1 \/ i = 2 \/ i = 3 \/ i = 4 \/ i = 5
      /\ 1 \in 1..5 /\ 2 \in 1..5 /\ 3 \in 1..5 /\ 4 \in 1..5 /\ 5 \in 1..5
  OBVIOUS
<1>3. Range(s) = CatalogPaths
  BY <1>1, <1>2 DEF Range, CatalogPaths
<1>4. QED
  BY <1>3 DEF s

ChildPaths(catalog) ==
  CASE catalog = "/operation" -> {"app-user", "call-record", "gift", "moment", "ranking",
                                  "system-notification", "popup", "complaint", "feedback"}
    [] catalog = "/review"    -> {"certification-review", "profile-review", "withdraw-account",
                                  "common-phrase-review"}
    [] catalog = "/finance"   -> {"recharge", "business-ledger", "withdraw", "fee-bill",
                                  "token-adjust-record"}
    [] catalog = "/settings"  -> {"recharge-config", "withdraw-config", "initial-profile", "flirt-config"}
    [] catalog = "/system"    -> {"user", "role", "menu", "api", "dept", "auditlog", "config"}

\* A list that is written out is a sequence of what it has at each place.
LEMMA NamesAre ==
  ASSUME NEW s, NEW n \in Nat, s = [i \in 1..n |-> s[i]]
  PROVE  Range(s) = {s[i] : i \in 1..n} /\ s \in Seq(Range(s))
<1> DEFINE S == {s[i] : i \in 1..n}
<1>1. s \in [1..n -> S]
  OBVIOUS
<1>2. Range(s) = S
  BY DEF Range
<1> HIDE DEF S
<1>3. s \in Seq(S)
  BY <1>1
<1>4. QED
  BY <1>2, <1>3 DEF S

\* The pages of every catalog are a sequence of these paths.
LEMMA ChildrenAre ==
  ASSUME NEW catalog \in CatalogPaths
  PROVE  /\ ChildrenOf(catalog) \in Seq(ChildPaths(catalog))
         /\ Range(ChildrenOf(catalog)) = ChildPaths(catalog)
<1>1. CASE catalog = "/operation"
  <2> DEFINE s == OperationChildren
  <2>1. s = [i \in 1..9 |-> s[i]]
    BY DEF OperationChildren
  <2>2. /\ s[1] = "app-user" /\ s[2] = "call-record" /\ s[3] = "gift" /\ s[4] = "moment" /\ s[5] = "ranking"
        /\ s[6] = "system-notification" /\ s[7] = "popup" /\ s[8] = "complaint" /\ s[9] = "feedback"
    BY DEF OperationChildren
  <2> HIDE DEF s
  <2>3. /\ \A i \in 1..9 : i = 1 \/ i = 2 \/ i = 3 \/ i = 4 \/ i = 5 \/ i = 6 \/ i = 7 \/ i = 8 \/ i = 9
        /\ 1 \in 1..9 /\ 2 \in 1..9 /\ 3 \in 1..9 /\ 4 \in 1..9 /\ 5 \in 1..9 /\ 6 \in 1..9 /\ 7 \in 1..9
        /\ 8 \in 1..9 /\ 9 \in 1..9
    OBVIOUS
  <2>4. Range(s) = {s[i] : i \in 1..9} /\ s \in Seq(Range(s))
    BY ONLY <2>1, NamesAre
  <2>5. Range(s) = ChildPaths("/operation")
    BY <2>2, <2>3, <2>4 DEF ChildPaths
  <2>6. QED
    BY <1>1, <2>4, <2>5 DEF ChildrenOf, s
<1>2. CASE catalog = "/review"
  <2> DEFINE s == ReviewChildren
  <2>1. s = [i \in 1..4 |-> s[i]]
    BY DEF ReviewChildren
  <2>2. /\ s[1] = "certification-review" /\ s[2] = "profile-review" /\ s[3] = "withdraw-account"
        /\ s[4] = "common-phrase-review"
    BY DEF ReviewChildren
  <2> HIDE DEF s
  <2>3. /\ \A i \in 1..4 : i = 1 \/ i = 2 \/ i = 3 \/ i = 4
        /\ 1 \in 1..4 /\ 2 \in 1..4 /\ 3 \in 1..4 /\ 4 \in 1..4
    OBVIOUS
  <2>4. Range(s) = {s[i] : i \in 1..4} /\ s \in Seq(Range(s))
    BY ONLY <2>1, NamesAre
  <2>5. Range(s) = ChildPaths("/review")
    BY <2>2, <2>3, <2>4 DEF ChildPaths
  <2>6. QED
    BY <1>2, <2>4, <2>5 DEF ChildrenOf, s
<1>3. CASE catalog = "/finance"
  <2> DEFINE s == FinanceChildren
  <2>1. s = [i \in 1..5 |-> s[i]]
    BY DEF FinanceChildren
  <2>2. /\ s[1] = "recharge" /\ s[2] = "business-ledger" /\ s[3] = "withdraw" /\ s[4] = "fee-bill"
        /\ s[5] = "token-adjust-record"
    BY DEF FinanceChildren
  <2> HIDE DEF s
  <2>3. /\ \A i \in 1..5 : i = 1 \/ i = 2 \/ i = 3 \/ i = 4 \/ i = 5
        /\ 1 \in 1..5 /\ 2 \in 1..5 /\ 3 \in 1..5 /\ 4 \in 1..5 /\ 5 \in 1..5
    OBVIOUS
  <2>4. Range(s) = {s[i] : i \in 1..5} /\ s \in Seq(Range(s))
    BY ONLY <2>1, NamesAre
  <2>5. Range(s) = ChildPaths("/finance")
    BY <2>2, <2>3, <2>4 DEF ChildPaths
  <2>6. QED
    BY <1>3, <2>4, <2>5 DEF ChildrenOf, s
<1>4. CASE catalog = "/settings"
  <2> DEFINE s == SettingsChildren
  <2>1. s = [i \in 1..4 |-> s[i]]
    BY DEF SettingsChildren
  <2>2. /\ s[1] = "recharge-config" /\ s[2] = "withdraw-config" /\ s[3] = "initial-profile"
        /\ s[4] = "flirt-config"
    BY DEF SettingsChildren
  <2> HIDE DEF s
  <2>3. /\ \A i \in 1..4 : i = 1 \/ i = 2 \/ i = 3 \/ i = 4
        /\ 1 \in 1..4 /\ 2 \in 1..4 /\ 3 \in 1..4 /\ 4 \in 1..4
    OBVIOUS
  <2>4. Range(s) = {s[i] : i \in 1..4} /\ s \in Seq(Range(s))
    BY ONLY <2>1, NamesAre
  <2>5. Range(s) = ChildPaths("/settings")
    BY <2>2, <2>3, <2>4 DEF ChildPaths
  <2>6. QED
    BY <1>4, <2>4, <2>5 DEF ChildrenOf, s
<1>5. CASE catalog = "/system"
  <2> DEFINE s == SystemChildren
  <2>1. s = [i \in 1..7 |-> s[i]]
    BY DEF SystemChildren
  <2>2. /\ s[1] = "user" /\ s[2] = "role" /\ s[3] = "menu" /\ s[4] = "api" /\ s[5] = "dept"
        /\ s[6] = "auditlog" /\ s[7] = "config"
    BY DEF SystemChildren
  <2> HIDE DEF s
  <2>3. /\ \A i \in 1..7 : i = 1 \/ i = 2 \/ i = 3 \/ i = 4 \/ i = 5 \/ i = 6 \/ i = 7
        /\ 1 \in 1..7 /\ 2 \in 1..7 /\ 3 \in 1..7 /\ 4 \in 1..7 /\ 5 \in 1..7 /\ 6 \in 1..7 /\ 7 \in 1..7
    OBVIOUS
  <2>4. Range(s) = {s[i] : i \in 1..7} /\ s \in Seq(Range(s))
    BY ONLY <2>1, NamesAre
  <2>5. Range(s) = ChildPaths("/system")
    BY <2>2, <2>3, <2>4 DEF ChildPaths
  <2>6. QED
    BY <1>5, <2>4, <2>5 DEF ChildrenOf, s
<1>6. QED
  BY <1>1, <1>2, <1>3, <1>4, <1>5 DEF CatalogPaths

\* No page is a catalog, nor the page that used to review hosts, nor a page of another catalog.
LEMMA PathsAreApart ==
  ASSUME NEW catalog \in CatalogPaths
  PROVE  /\ ChildPaths(catalog) \cap CatalogPaths = {}
         /\ "anchor-apply-review" \notin ChildPaths(catalog)
         /\ \A other \in CatalogPaths \ {catalog} : ChildPaths(catalog) \cap ChildPaths(other) = {}
<1>1. ChildPaths(catalog) \cap CatalogPaths = {}
  BY DEF ChildPaths, CatalogPaths
<1>2. "anchor-apply-review" \notin ChildPaths(catalog)
  BY DEF ChildPaths, CatalogPaths
<1>3. ASSUME NEW other \in CatalogPaths \ {catalog}, NEW path \in ChildPaths(catalog), path \in ChildPaths(other)
      PROVE  FALSE
  <2>1. CASE catalog = "/operation"
    BY <1>3, <2>1 DEF ChildPaths, CatalogPaths
  <2>2. CASE catalog = "/review"
    BY <1>3, <2>2 DEF ChildPaths, CatalogPaths
  <2>3. CASE catalog = "/finance"
    BY <1>3, <2>3 DEF ChildPaths, CatalogPaths
  <2>4. CASE catalog = "/settings"
    BY <1>3, <2>4 DEF ChildPaths, CatalogPaths
  <2>5. CASE catalog = "/system"
    BY <1>3, <2>5 DEF ChildPaths, CatalogPaths
  <2>6. QED
    BY <2>1, <2>2, <2>3, <2>4, <2>5 DEF CatalogPaths
<1>4. QED
  BY <1>1, <1>2, <1>3

\* What leaves the rows of a catalog alone leaves it where it is.
LEMMA CatalogStays ==
  ASSUME NEW t, NEW u, IsTable(t), NEW P, OnlyPaths(t, u, P), NEW catalog \in CatalogPaths \ P
  PROVE  /\ CatalogId(u, catalog) = CatalogId(t, catalog)
         /\ Stands(t, catalog) => Stands(u, catalog)
<1>1. catalog \notin P /\ 0 \in Nat
  OBVIOUS
<1>2. RowsAt(u, catalog, 0) = RowsAt(t, catalog, 0) /\ \A i \in RowsAt(t, catalog, 0) : u[i] = t[i]
  BY <1>1 DEF OnlyPaths
<1>3. CatalogId(u, catalog) = CatalogId(t, catalog)
  BY <1>2 DEF CatalogId
<1>4. ASSUME Stands(t, catalog)
      PROVE  Stands(u, catalog)
  <2>1. CatalogId(t, catalog) \in RowsAt(t, catalog, 0)
    BY <1>4, PlaceHasFirst DEF Stands, CatalogId
  <2>2. QED
    BY <1>2, <1>3, <1>4, <2>1 DEF Stands
<1>5. QED
  BY <1>3, <1>4

\* A catalog that stands has a number.
LEMMA CatalogHasId ==
  ASSUME NEW t, IsTable(t), NEW catalog, RowsAt(t, catalog, 0) # {}
  PROVE  /\ CatalogId(t, catalog) \in RowsAt(t, catalog, 0)
         /\ CatalogId(t, catalog) \in Nat \ {0}
  BY PlaceHasFirst DEF CatalogId
-----------------------------------------------------------------------------
(* What the seed does to the menus *)

\* What the seed has built of the layout stays, and the rows stay a table.
Keeps(t, u) ==
  /\ IsTable(u)
  /\ \A catalog \in CatalogPaths : Stands(t, catalog) =>
       /\ Stands(u, catalog) /\ CatalogId(u, catalog) = CatalogId(t, catalog)

\* Pages stay under a catalog that stays.
LEMMA PagesStay ==
  ASSUME NEW t, NEW u, NEW catalog \in CatalogPaths, IsTable(t), Stands(t, catalog), Keeps(t, u),
         \A path \in ChildPaths(catalog) : \A x \in Nat : RowsAt(t, path, x) # {} => RowsAt(u, path, x) # {}
  PROVE  PagesStand(t, catalog) => PagesStand(u, catalog)
<1>1. CatalogId(t, catalog) \in Nat /\ CatalogId(u, catalog) = CatalogId(t, catalog)
  BY CatalogHasId DEF Stands, Keeps
<1>2. QED
  BY <1>1, ChildrenAre DEF PagesStand

\* A catalog is ensured, and what stood before still does.
LEMMA CatalogAdded ==
  ASSUME NEW t, IsTable(t), NEW catalog \in CatalogPaths
  PROVE  LET u == EnsureCatalog(t, catalog)
         IN  /\ Keeps(t, u) /\ Stands(u, catalog)
             /\ \A other \in CatalogPaths : Stands(t, other) /\ PagesStand(t, other) => PagesStand(u, other)
<1> DEFINE u     == EnsureCatalog(t, catalog)
           known == RowsAt(t, catalog, 0)
           id    == IF known # {} THEN First(known) ELSE NewId(t)
           row   == [path |-> catalog, parent |-> 0, page |-> Layout]
<1>1. IsTable(u) /\ OnlyPaths(t, u, {catalog}) /\ RowsAt(u, catalog, 0) # {}
  BY EnsureMenuAdds DEF EnsureCatalog
<1>2. u = [i \in DOMAIN t \cup {id} |-> IF i = id THEN row ELSE t[i]]
  BY DEF EnsureCatalog, EnsureMenu, Known
<1>3. row.path = catalog /\ row.parent = 0 /\ row.page = Layout
  OBVIOUS
<1>4. known # {} => id \in known
  BY PlaceHasFirst
<1>5. known # {} => id = CatalogId(t, catalog)
  BY DEF CatalogId
<1>6. known = {} => id \notin DOMAIN t
  BY NewIdIsNew
<1> HIDE DEF u, row
<1>7. RowsAt(u, catalog, 0) = known \cup {id}
  <2> HIDE DEF id
  <2>1. QED
    BY <1>2, <1>3, <1>4, <1>6 DEF RowsAt
<1>8. id = CatalogId(u, catalog)
  <2>1. CASE known # {}
    BY <1>4, <1>5, <1>7, <2>1 DEF CatalogId
  <2>2. CASE known = {}
    <3>1. RowsAt(u, catalog, 0) = {id}
      BY <1>7, <2>2
    <3>2. CatalogId(u, catalog) \in {id}
      BY <1>1, <3>1, PlaceHasFirst DEF CatalogId
    <3>3. QED
      BY <3>2
  <2>3. QED
    BY <2>1, <2>2
<1>9. Stands(u, catalog) /\ (Stands(t, catalog) => CatalogId(u, catalog) = CatalogId(t, catalog))
  <2> HIDE DEF id
  <2>1. u[id] = row
    BY <1>2
  <2>2. QED
    BY <1>1, <1>3, <1>5, <1>8, <2>1 DEF Stands
<1>10. Keeps(t, u)
  BY <1>1, <1>9, CatalogStays DEF Keeps
<1>11. ASSUME NEW other \in CatalogPaths, Stands(t, other), PagesStand(t, other)
       PROVE  PagesStand(u, other)
  <2>1. catalog \notin ChildPaths(other)
    BY PathsAreApart
  <2>2. \A path \in ChildPaths(other) : \A x \in Nat : RowsAt(u, path, x) = RowsAt(t, path, x)
    BY <1>1, <2>1 DEF OnlyPaths
  <2>3. QED
    BY <1>10, <1>11, <2>2, PagesStay
<1>12. QED
  BY <1>9, <1>10, <1>11 DEF u
-----------------------------------------------------------------------------
(* The walk through the pages of a catalog *)

\* What a walk leaves that goes through the numbers of s, the last of them last.
Walked(w, s, before) ==
  IF s = {} THEN w.table ELSE EnsureMenu(before, w.paths[Max(s)], w.parent, w.paths[Max(s)])

Rest(s) == s \ {Max(s)}

\* h is the function by which the fold goes through the subsets of S.
Walks(w, S, h) == h = [s \in SUBSET S |-> Walked(w, s, h[Rest(s)])]

Walk(w, S) == CHOOSE h : Walks(w, S, h)

\* To ensure pages is to walk through them.
LEMMA PagesAreWalked ==
  ASSUME NEW t, NEW paths, NEW catalog, NEW w, w = [table |-> t, paths |-> paths, parent |-> CatalogId(t, catalog)]
  PROVE  EnsurePages(t, paths, catalog) = Walk(w, DOMAIN paths)[DOMAIN paths]
<1>1. w.table = t /\ w.paths = paths /\ w.parent = CatalogId(t, catalog)
  OBVIOUS
<1>2. QED
  BY <1>1 DEF EnsurePages, FoldLeft, MapThenFoldSet, Walk, Walks, Walked, Rest

\* Without its last number a finite set of numbers is smaller.
LEMMA RestIsLess ==
  ASSUME NEW T, IsFiniteSet(T), T \subseteq Nat, T # {}
  PROVE  Rest(T) \in SUBSET T /\ Rest(T) # T
  BY MaxIsIn DEF Rest

\* A walk through numbers walks through some of them as well.
LEMMA WalkRestricts ==
  ASSUME NEW w, NEW S, NEW h, Walks(w, S, h), NEW T, T \subseteq S
  PROVE  Walks(w, T, [s \in SUBSET T |-> h[s]])
<1> DEFINE k == [s \in SUBSET T |-> h[s]]
<1>1. ASSUME NEW s \in SUBSET T
      PROVE  k[s] = Walked(w, s, k[Rest(s)])
  <2>1. s \in SUBSET S /\ Rest(s) \in SUBSET T
    BY DEF Rest
  <2>2. h[s] = Walked(w, s, h[Rest(s)])
    BY <2>1 DEF Walks
  <2>3. QED
    BY <2>1, <2>2
<1>2. k = [s \in SUBSET T |-> Walked(w, s, k[Rest(s)])]
  BY <1>1
<1>3. QED
  BY <1>2 DEF Walks

\* There is one walk through finitely many numbers at most,
LEMMA WalkIsUnique ==
  ASSUME NEW w, NEW S, IsFiniteSet(S), S \subseteq Nat, NEW g, Walks(w, S, g), NEW h, Walks(w, S, h)
  PROVE  g = h
<1> DEFINE Differing == {s \in SUBSET S : g[s] # h[s]}
<1>1. ASSUME Differing # {}
      PROVE  FALSE
  <2>1. PICK T \in Differing : \A U \in Differing : U \subseteq T => U = T
    <3>1. IsFiniteSet(S) /\ Differing \subseteq SUBSET S
      OBVIOUS
    <3> HIDE DEF Differing
    <3>2. QED
      BY ONLY <1>1, <3>1, SmallestSubset
  <2>2. g[T] = Walked(w, T, g[Rest(T)]) /\ h[T] = Walked(w, T, h[Rest(T)])
    BY DEF Walks
  <2>3. CASE T = {}
    BY <2>2, <2>3 DEF Walked
  <2>4. CASE T # {}
    <3>1. IsFiniteSet(T) /\ T \subseteq Nat
      BY FS_Subset
    <3>2. Rest(T) \in SUBSET S /\ Rest(T) # T /\ Rest(T) \subseteq T
      BY <2>4, <3>1, RestIsLess
    <3>3. g[Rest(T)] = h[Rest(T)]
      BY <2>1, <3>2
    <3>4. QED
      BY <2>2, <3>3
  <2>5. QED
    BY <2>3, <2>4
<1>2. /\ g = [s \in SUBSET S |-> g[s]]
      /\ h = [s \in SUBSET S |-> h[s]]
  BY DEF Walks
<1>3. QED
  BY <1>1, <1>2

\* and there is one.
LEMMA WalkExists ==
  ASSUME NEW w, NEW S, IsFiniteSet(S), S \subseteq Nat
  PROVE  Walks(w, S, Walk(w, S))
<1> DEFINE Lacking == {T \in SUBSET S : ~ \E h : Walks(w, T, h)}
<1>1. ASSUME Lacking # {}
      PROVE  FALSE
  <2>1. PICK T \in Lacking : \A U \in Lacking : U \subseteq T => U = T
    <3>1. IsFiniteSet(S) /\ Lacking \subseteq SUBSET S
      OBVIOUS
    <3> HIDE DEF Lacking
    <3>2. QED
      BY ONLY <1>1, <3>1, SmallestSubset
  <2>2. \A U \in SUBSET T : U # T => Walks(w, U, Walk(w, U))
    BY <2>1 DEF Walk
  <2>3. \A U \in SUBSET T : IsFiniteSet(U) /\ U \subseteq Nat
    BY <2>1, FS_Subset
  <2> DEFINE value(U) == Walk(w, U)[U]
             h == [U \in SUBSET T |-> Walked(w, U, value(Rest(U)))]
  <2>4. ASSUME NEW U \in SUBSET T, U # T
        PROVE  h[U] = value(U)
    <3> DEFINE k == Walk(w, U)
    <3>1. k[U] = Walked(w, U, k[Rest(U)])
      BY <2>2, <2>4 DEF Walks
    <3>2. CASE U = {}
      BY <3>1, <3>2 DEF Walked
    <3>3. CASE U # {}
      <4>1. Rest(U) \in SUBSET T /\ Rest(U) # T /\ Rest(U) \subseteq U
        BY <2>3, <2>4, <3>3, RestIsLess
      <4>2. Walks(w, Rest(U), [s \in SUBSET Rest(U) |-> k[s]])
        BY <2>2, <2>4, <4>1, WalkRestricts
      <4>3. Walk(w, Rest(U)) = [s \in SUBSET Rest(U) |-> k[s]]
        BY <2>2, <2>3, <4>1, <4>2, WalkIsUnique
      <4>4. value(Rest(U)) = k[Rest(U)]
        BY <4>3
      <4>5. QED
        BY <3>1, <4>4
    <3>4. QED
      BY <3>2, <3>3
  <2>5. ASSUME NEW U \in SUBSET T
        PROVE  h[U] = Walked(w, U, h[Rest(U)])
    <3>1. CASE U = {}
      BY <3>1 DEF Walked
    <3>2. CASE U # {}
      <4>1. Rest(U) \in SUBSET T /\ Rest(U) # T
        BY <2>3, <3>2, RestIsLess
      <4>2. h[Rest(U)] = value(Rest(U))
        BY <2>4, <4>1
      <4>3. QED
        BY <4>2
    <3>3. QED
      BY <3>1, <3>2
  <2>6. h = [U \in SUBSET T |-> Walked(w, U, h[Rest(U)])]
    BY <2>5
  <2>7. QED
    BY <2>1, <2>6 DEF Walks
<1>2. QED
  BY <1>1 DEF Walk
\* Pages are ensured one after another under their catalog, and no other path changes.
LEMMA PagesAdded ==
  ASSUME NEW t, IsTable(t), NEW catalog, RowsAt(t, catalog, 0) # {},
         NEW paths, NEW n \in Nat, DOMAIN paths = 1..n
  PROVE  LET u == EnsurePages(t, paths, catalog)
         IN  /\ IsTable(u) /\ OnlyPaths(t, u, Range(paths))
             /\ \A path \in Range(paths) : RowsAt(u, path, CatalogId(t, catalog)) # {}
<1> DEFINE parent == CatalogId(t, catalog)
           w      == [table |-> t, paths |-> paths, parent |-> parent]
           S      == 1..n
           h      == Walk(w, S)
           Good(k) == /\ IsTable(h[1..k]) /\ OnlyPaths(t, h[1..k], Range(paths))
                      /\ \A j \in 1..k : RowsAt(h[1..k], paths[j], parent) # {}
<1>1. parent \in Nat
  BY CatalogHasId
<1>2. w.table = t /\ w.paths = paths /\ w.parent = parent
  OBVIOUS
<1>3. EnsurePages(t, paths, catalog) = h[S]
  BY PagesAreWalked
<1>4. Walks(w, S, h)
  <2>1. IsFiniteSet(S)
    BY FS_Interval
  <2>2. S \subseteq Nat
    OBVIOUS
  <2> HIDE DEF S, w
  <2>3. QED
    BY <2>1, <2>2, WalkExists DEF h
<1> HIDE DEF w, h, parent
<1>5. ASSUME NEW k \in S
      PROVE  h[1..k] = EnsureMenu(h[1..(k - 1)], paths[k], parent, paths[k])
  <2>1. k \in Nat /\ 1..k \in SUBSET S /\ 1..k \subseteq Nat /\ k \in 1..k /\ 1..k # {}
    OBVIOUS
  <2>2. Max(1..k) \in 1..k /\ \A i \in 1..k : i <= Max(1..k)
    <3>1. IsFiniteSet(1..k)
      BY <2>1, FS_Interval
    <3>2. QED
      BY <2>1, <3>1, MaxIsIn
  <2>3. Max(1..k) = k
    BY <2>1, <2>2
  <2>4. Rest(1..k) = 1..(k - 1)
    BY <2>1, <2>3 DEF Rest
  <2>5. h[1..k] = Walked(w, 1..k, h[Rest(1..k)])
    BY <1>4, <2>1 DEF Walks
  <2>6. QED
    BY <1>2, <2>1, <2>3, <2>4, <2>5 DEF Walked
<1>6. h[1..0] = t
  <2>1. 1..0 = {} /\ {} \in SUBSET S
    OBVIOUS
  <2>2. QED
    BY <1>2, <1>4, <2>1 DEF Walks, Walked
<1>7. Good(0)
  BY <1>6 DEF OnlyPaths
<1>8. ASSUME NEW k \in S, Good(k - 1)
      PROVE  Good(k)
  <2> DEFINE v == h[1..(k - 1)]
             u == h[1..k]
  <2>1. paths[k] \in Range(paths) /\ k \in Nat
    BY DEF Range
  <2>2. IsTable(v) /\ OnlyPaths(t, v, Range(paths)) /\ \A j \in 1..(k - 1) : RowsAt(v, paths[j], parent) # {}
    BY <1>8
  <2>3. u = EnsureMenu(v, paths[k], parent, paths[k])
    BY <1>5
  <2> HIDE DEF v, u
  <2>4. IsTable(u) /\ OnlyPaths(v, u, {paths[k]}) /\ RowsAt(u, paths[k], parent) # {}
    BY <1>1, <2>2, <2>3, EnsureMenuAdds
  <2>5. OnlyPaths(t, u, Range(paths))
    BY <2>1, <2>2, <2>4 DEF OnlyPaths
  <2>6. ASSUME NEW j \in 1..k
        PROVE  RowsAt(u, paths[j], parent) # {}
    <3>1. CASE paths[j] = paths[k]
      BY <2>4, <3>1
    <3>2. CASE paths[j] # paths[k]
      <4>1. j \in 1..(k - 1)
        BY <2>1, <3>2
      <4>2. RowsAt(u, paths[j], parent) = RowsAt(v, paths[j], parent)
        BY <1>1, <2>4, <3>2 DEF OnlyPaths
      <4>3. QED
        BY <2>2, <4>1, <4>2
    <3>3. QED
      BY <3>1, <3>2
  <2>7. QED
    BY <2>4, <2>5, <2>6 DEF u
<1>9. Good(n)
  <2> DEFINE Bad == {k \in 0..n : ~Good(k)}
  <2> HIDE DEF Good
  <2>1. ASSUME Bad # {}
        PROVE  FALSE
    <3>1. Bad \subseteq 0..n
      OBVIOUS
    <3>2. \A k \in Bad : ~Good(k)
      OBVIOUS
    <3>3. \A k \in 0..n : k \in Bad \/ Good(k)
      OBVIOUS
    <3> HIDE DEF Bad
    <3>4. PICK k \in Bad : \A i \in Bad : i >= k
      BY ONLY n \in Nat, <2>1, <3>1, LeastOfSome
    <3>5. k \in 0..n /\ k # 0
      BY <1>7, <3>1, <3>2
    <3>6. k \in S /\ k - 1 \in 0..n /\ ~(k - 1 >= k)
      BY <3>5
    <3>7. Good(k - 1)
      BY <3>3, <3>4, <3>6
    <3>8. QED
      BY <1>8, <3>2, <3>6, <3>7
  <2>2. QED
    BY <2>1
<1>10. \A path \in Range(paths) : \E j \in 1..n : path = paths[j]
  BY DEF Range
<1>11. IsTable(h[S]) /\ OnlyPaths(t, h[S], Range(paths)) /\ \A path \in Range(paths) : RowsAt(h[S], path, parent) # {}
  BY <1>9, <1>10
<1>12. QED
  BY <1>3, <1>11 DEF parent
-----------------------------------------------------------------------------
\* The pages of a catalog that stands are put under it; what stood before still does.
LEMMA PagesKeep ==
  ASSUME NEW t, IsTable(t), NEW catalog \in CatalogPaths, Stands(t, catalog),
         NEW paths, NEW n \in Nat, DOMAIN paths = 1..n, Range(paths) \subseteq ChildPaths(catalog)
  PROVE  LET u == EnsurePages(t, paths, catalog)
         IN  /\ Keeps(t, u)
             /\ \A other \in CatalogPaths \ {catalog} : Stands(t, other) /\ PagesStand(t, other) => PagesStand(u, other)
             /\ Range(paths) = ChildPaths(catalog) => PagesStand(u, catalog)
<1> DEFINE u == EnsurePages(t, paths, catalog)
<1>1. RowsAt(t, catalog, 0) # {}
  BY DEF Stands
<1>2. /\ IsTable(u) /\ OnlyPaths(t, u, Range(paths))
      /\ \A path \in Range(paths) : RowsAt(u, path, CatalogId(t, catalog)) # {}
  BY <1>1, PagesAdded
<1> HIDE DEF u
<1>3. Keeps(t, u)
  <2>1. ASSUME NEW other \in CatalogPaths, Stands(t, other)
        PROVE  Stands(u, other) /\ CatalogId(u, other) = CatalogId(t, other)
    <3>1. other \in CatalogPaths \ Range(paths)
      BY PathsAreApart
    <3>2. QED
      BY <1>2, <2>1, <3>1, CatalogStays
  <2>2. QED
    BY <1>2, <2>1 DEF Keeps
<1>4. ASSUME NEW other \in CatalogPaths \ {catalog}, Stands(t, other), PagesStand(t, other)
      PROVE  PagesStand(u, other)
  <2>1. \A path \in ChildPaths(other) : path \notin Range(paths)
    BY PathsAreApart
  <2>2. \A path \in ChildPaths(other) : \A x \in Nat : RowsAt(u, path, x) = RowsAt(t, path, x)
    BY <1>2, <2>1 DEF OnlyPaths
  <2>3. QED
    BY <1>3, <1>4, <2>2, PagesStay
<1>5. ASSUME Range(paths) = ChildPaths(catalog)
      PROVE  PagesStand(u, catalog)
  <2>1. CatalogId(u, catalog) = CatalogId(t, catalog)
    BY <1>3 DEF Keeps
  <2>2. QED
    BY <1>2, <1>5, <2>1, ChildrenAre DEF PagesStand
<1>6. QED
  BY <1>3, <1>4, <1>5 DEF u

\* The repair of a page's name leaves catalogs and the pages of the layout where they are.
LEMMA RepairKeeps ==
  ASSUME NEW t, IsTable(t), Stands(t, "/review")
  PROVE  LET u == RepairCertification(t)
         IN  /\ Keeps(t, u)
             /\ \A other \in CatalogPaths : Stands(t, other) /\ PagesStand(t, other) => PagesStand(u, other)
<1> DEFINE u      == RepairCertification(t)
           review == CatalogId(t, "/review")
           legacy == {i \in DOMAIN t : t[i].path = "anchor-apply-review"}
           aside(i) == [t[i] EXCEPT !.path = "legacy-certification-review", !.page = "certification-review"]
           moved    == [path |-> "certification-review", parent |-> review, page |-> "certification-review"]
<1>1. review \in Nat
  BY CatalogHasId DEF Stands
<1>2. DOMAIN u = DOMAIN t /\ \A i \in DOMAIN t : u[i] \in IF i \in legacy THEN {aside(i), moved} ELSE {t[i]}
  BY DEF RepairCertification
<1>3. ASSUME NEW i \in DOMAIN t
      PROVE  /\ IsRow(aside(i)) /\ aside(i).path = "legacy-certification-review"
             /\ IsRow(moved) /\ moved.path = "certification-review"
  <2>1. IsRow(t[i])
    BY DEF IsTable
  <2>2. PICK q : q = aside(i)
    OBVIOUS
  <2>3. /\ q = [path |-> q.path, parent |-> q.parent, page |-> q.page]
        /\ q.path = "legacy-certification-review" /\ q.parent = t[i].parent
    BY <2>1, <2>2 DEF IsRow
  <2>4. QED
    BY <1>1, <2>1, <2>2, <2>3 DEF IsRow
<1> HIDE DEF u, review, aside, moved
<1>4. IsTable(u)
  BY <1>2, <1>3 DEF IsTable
<1>5. OnlyPaths(t, u, {"anchor-apply-review", "legacy-certification-review", "certification-review"})
  BY <1>2, <1>3 DEF OnlyPaths, RowsAt
<1>6. Keeps(t, u)
  <2>1. CatalogPaths \cap {"anchor-apply-review", "legacy-certification-review", "certification-review"} = {}
    BY DEF CatalogPaths
  <2>2. QED
    BY <1>4, <1>5, <2>1, CatalogStays DEF Keeps
<1>7. ASSUME NEW path, path # "anchor-apply-review", NEW x
      PROVE  RowsAt(t, path, x) \subseteq RowsAt(u, path, x)
  BY <1>2, <1>7 DEF RowsAt
<1>8. ASSUME NEW other \in CatalogPaths, Stands(t, other), PagesStand(t, other)
      PROVE  PagesStand(u, other)
  <2>1. "anchor-apply-review" \notin ChildPaths(other)
    BY PathsAreApart
  <2>2. \A path \in ChildPaths(other) : \A x \in Nat : RowsAt(t, path, x) # {} => RowsAt(u, path, x) # {}
    BY <1>7, <2>1
  <2>3. QED
    BY <1>6, <1>8, <2>2, PagesStay
<1>9. QED
  BY <1>6, <1>8 DEF u

\* Pages that are retired are no catalogs.
LEMMA RetiringKeeps ==
  ASSUME NEW t, IsTable(t), NEW ids,
         \A i \in ids : IsRetired(t[i])
  PROVE  Keeps(t, Without(t, ids))
<1> DEFINE u == Without(t, ids)
<1>1. DOMAIN u = DOMAIN t \ ids /\ \A i \in DOMAIN u : u[i] = t[i]
  BY DEF Without
<1> HIDE DEF u
<1>2. IsTable(u)
  <2>1. IsFiniteSet(DOMAIN u)
    BY <1>1, FS_Subset DEF IsTable
  <2>2. QED
    BY <1>1, <2>1 DEF IsTable
<1>3. ASSUME NEW catalog \in CatalogPaths, Stands(t, catalog)
      PROVE  Stands(u, catalog) /\ CatalogId(u, catalog) = CatalogId(t, catalog)
  <2> DEFINE i == CatalogId(t, catalog)
  <2>1. i \in RowsAt(t, catalog, 0) /\ t[i].page = Layout /\ \A j \in RowsAt(t, catalog, 0) : i <= j
    <3>1. RowsAt(t, catalog, 0) \subseteq Nat
      BY DEF RowsAt, IsTable
    <3>2. QED
      BY <1>3, <3>1, FirstIsLeast DEF Stands, CatalogId
  <2> HIDE DEF i
  <2>2. t[i].path = catalog /\ catalog # "im-text-billing" /\ catalog # "certified-call-price-config"
    BY <2>1 DEF RowsAt, CatalogPaths
  <2>3. i \notin ids
    BY <2>1, <2>2 DEF Layout, IsRetired
  <2>4. RowsAt(u, catalog, 0) \subseteq RowsAt(t, catalog, 0) /\ i \in RowsAt(u, catalog, 0)
    BY <1>1, <2>1, <2>3 DEF RowsAt
  <2>5. CatalogId(u, catalog) = i
    <3>1. RowsAt(u, catalog, 0) \subseteq Nat
      BY <1>2 DEF RowsAt, IsTable
    <3>2. /\ First(RowsAt(u, catalog, 0)) \in RowsAt(u, catalog, 0)
          /\ \A j \in RowsAt(u, catalog, 0) : First(RowsAt(u, catalog, 0)) <= j
      BY <2>4, <3>1, FirstIsLeast
    <3>3. PICK f \in RowsAt(u, catalog, 0) : f = CatalogId(u, catalog) /\ f <= i
      BY <2>4, <3>2 DEF CatalogId
    <3>4. i <= f /\ f \in Nat /\ i \in Nat
      BY <2>1, <2>4, <3>1
    <3>5. QED
      BY <3>3, <3>4
  <2>6. u[i] = t[i]
    BY <1>1, <2>4 DEF RowsAt
  <2>7. QED
    BY <2>1, <2>4, <2>5, <2>6 DEF Stands, i
<1>4. QED
  BY <1>2, <1>3 DEF Keeps, u
-----------------------------------------------------------------------------
(* The plan *)

\* The step of the plan that a catalog stands after, and the one that all its pages do.
CatalogStep(catalog) ==
  CASE catalog = "/finance"   -> 1
    [] catalog = "/system"    -> 4
    [] catalog = "/operation" -> 7
    [] catalog = "/review"    -> 8
    [] catalog = "/settings"  -> 10

PagesStep(catalog) ==
  CASE catalog = "/system"    -> 6
    [] catalog = "/operation" -> 12
    [] catalog = "/review"    -> 13
    [] catalog = "/finance"   -> 14
    [] catalog = "/settings"  -> 15

\* The steps of the catalogs, one by one.
LEMMA StepsAre ==
  /\ CatalogStep("/finance") = 1 /\ PagesStep("/finance") = 14
  /\ CatalogStep("/system") = 4 /\ PagesStep("/system") = 6
  /\ CatalogStep("/operation") = 7 /\ PagesStep("/operation") = 12
  /\ CatalogStep("/review") = 8 /\ PagesStep("/review") = 13
  /\ CatalogStep("/settings") = 10 /\ PagesStep("/settings") = 15
  BY DEF CatalogStep, PagesStep

\* What is done at every step of the plan, and to which catalog.
LEMMA PlanIs ==
  /\ Len(SeedPlan) = 19
  /\ SeedPlan[1].do = "catalog" /\ SeedPlan[1].path = "/finance"
  /\ SeedPlan[2].do = "ledger-page" /\ SeedPlan[2].path = "/finance"
  /\ SeedPlan[3].do = "ledger" /\ SeedPlan[3].path = "none"
  /\ SeedPlan[4].do = "catalog" /\ SeedPlan[4].path = "/system"
  /\ SeedPlan[5].do = "retire" /\ SeedPlan[5].path = "none"
  /\ SeedPlan[6].do = "pages" /\ SeedPlan[6].path = "/system"
  /\ SeedPlan[7].do = "catalog" /\ SeedPlan[7].path = "/operation"
  /\ SeedPlan[8].do = "catalog" /\ SeedPlan[8].path = "/review"
  /\ SeedPlan[9].do = "catalog" /\ SeedPlan[9].path = "/finance"
  /\ SeedPlan[10].do = "catalog" /\ SeedPlan[10].path = "/settings"
  /\ SeedPlan[11].do = "certification" /\ SeedPlan[11].path = "none"
  /\ SeedPlan[12].do = "pages" /\ SeedPlan[12].path = "/operation"
  /\ SeedPlan[13].do = "pages" /\ SeedPlan[13].path = "/review"
  /\ SeedPlan[14].do = "pages" /\ SeedPlan[14].path = "/finance"
  /\ SeedPlan[15].do = "pages" /\ SeedPlan[15].path = "/settings"
  /\ SeedPlan[16].do = "apis" /\ SeedPlan[16].path = "none"
  /\ SeedPlan[17].do = "roles" /\ SeedPlan[17].path = "none"
  /\ SeedPlan[18].do = "listed" /\ SeedPlan[18].path = "none"
  /\ SeedPlan[19].do = "admin" /\ SeedPlan[19].path = "none"
<1>1. Len(SeedPlan) = 19
  BY DEF SeedPlan
<1>2. SeedPlan[1].do = "catalog" /\ SeedPlan[1].path = "/finance"
  BY DEF SeedPlan, Task
<1>3. SeedPlan[2].do = "ledger-page" /\ SeedPlan[2].path = "/finance"
  BY DEF SeedPlan, Task
<1>4. SeedPlan[3].do = "ledger" /\ SeedPlan[3].path = "none"
  BY DEF SeedPlan, Task
<1>5. SeedPlan[4].do = "catalog" /\ SeedPlan[4].path = "/system"
  BY DEF SeedPlan, Task
<1>6. SeedPlan[5].do = "retire" /\ SeedPlan[5].path = "none"
  BY DEF SeedPlan, Task
<1>7. SeedPlan[6].do = "pages" /\ SeedPlan[6].path = "/system"
  BY DEF SeedPlan, Task
<1>8. SeedPlan[7].do = "catalog" /\ SeedPlan[7].path = "/operation"
  BY DEF SeedPlan, Task
<1>9. SeedPlan[8].do = "catalog" /\ SeedPlan[8].path = "/review"
  BY DEF SeedPlan, Task
<1>10. SeedPlan[9].do = "catalog" /\ SeedPlan[9].path = "/finance"
  BY DEF SeedPlan, Task
<1>11. SeedPlan[10].do = "catalog" /\ SeedPlan[10].path = "/settings"
  BY DEF SeedPlan, Task
<1>12. SeedPlan[11].do = "certification" /\ SeedPlan[11].path = "none"
  BY DEF SeedPlan, Task
<1>13. SeedPlan[12].do = "pages" /\ SeedPlan[12].path = "/operation"
  BY DEF SeedPlan, Task
<1>14. SeedPlan[13].do = "pages" /\ SeedPlan[13].path = "/review"
  BY DEF SeedPlan, Task
<1>15. SeedPlan[14].do = "pages" /\ SeedPlan[14].path = "/finance"
  BY DEF SeedPlan, Task
<1>16. SeedPlan[15].do = "pages" /\ SeedPlan[15].path = "/settings"
  BY DEF SeedPlan, Task
<1>17. SeedPlan[16].do = "apis" /\ SeedPlan[16].path = "none"
  BY DEF SeedPlan, Task
<1>18. SeedPlan[17].do = "roles" /\ SeedPlan[17].path = "none"
  BY DEF SeedPlan, Task
<1>19. SeedPlan[18].do = "listed" /\ SeedPlan[18].path = "none"
  BY DEF SeedPlan, Task
<1>20. SeedPlan[19].do = "admin" /\ SeedPlan[19].path = "none"
  BY DEF SeedPlan, Task
<1>21. QED
  BY <1>1, <1>2, <1>3, <1>4, <1>5, <1>6, <1>7, <1>8, <1>9, <1>10, <1>11, <1>12, <1>13, <1>14, <1>15,
     <1>16, <1>17, <1>18, <1>19, <1>20

\* A catalog is ensured before its pages are, and all of them before the routes are.
LEMMA CatalogOrder ==
  ASSUME NEW catalog \in CatalogPaths
  PROVE  /\ CatalogStep(catalog) \in 1..10 /\ PagesStep(catalog) \in 6..15
         /\ CatalogStep(catalog) < PagesStep(catalog)
         /\ SeedPlan[CatalogStep(catalog)].do = "catalog" /\ SeedPlan[CatalogStep(catalog)].path = catalog
         /\ SeedPlan[PagesStep(catalog)].do = "pages" /\ SeedPlan[PagesStep(catalog)].path = catalog
<1>1. CASE catalog = "/system"
  <2>1. CatalogStep(catalog) = 4 /\ PagesStep(catalog) = 6
    BY <1>1, StepsAre
  <2>2. /\ SeedPlan[4].do = "catalog" /\ SeedPlan[4].path = "/system"
        /\ SeedPlan[6].do = "pages" /\ SeedPlan[6].path = "/system"
    BY PlanIs
  <2>3. QED
    BY <1>1, <2>1, <2>2
<1>2. CASE catalog = "/operation"
  <2>1. CatalogStep(catalog) = 7 /\ PagesStep(catalog) = 12
    BY <1>2, StepsAre
  <2>2. /\ SeedPlan[7].do = "catalog" /\ SeedPlan[7].path = "/operation"
        /\ SeedPlan[12].do = "pages" /\ SeedPlan[12].path = "/operation"
    BY PlanIs
  <2>3. QED
    BY <1>2, <2>1, <2>2
<1>3. CASE catalog = "/review"
  <2>1. CatalogStep(catalog) = 8 /\ PagesStep(catalog) = 13
    BY <1>3, StepsAre
  <2>2. /\ SeedPlan[8].do = "catalog" /\ SeedPlan[8].path = "/review"
        /\ SeedPlan[13].do = "pages" /\ SeedPlan[13].path = "/review"
    BY PlanIs
  <2>3. QED
    BY <1>3, <2>1, <2>2
<1>4. CASE catalog = "/finance"
  <2>1. CatalogStep(catalog) = 1 /\ PagesStep(catalog) = 14
    BY <1>4, StepsAre
  <2>2. /\ SeedPlan[1].do = "catalog" /\ SeedPlan[1].path = "/finance"
        /\ SeedPlan[14].do = "pages" /\ SeedPlan[14].path = "/finance"
    BY PlanIs
  <2>3. QED
    BY <1>4, <2>1, <2>2
<1>5. CASE catalog = "/settings"
  <2>1. CatalogStep(catalog) = 10 /\ PagesStep(catalog) = 15
    BY <1>5, StepsAre
  <2>2. /\ SeedPlan[10].do = "catalog" /\ SeedPlan[10].path = "/settings"
        /\ SeedPlan[15].do = "pages" /\ SeedPlan[15].path = "/settings"
    BY PlanIs
  <2>3. QED
    BY <1>5, <2>1, <2>2
<1>6. QED
  BY <1>1, <1>2, <1>3, <1>4, <1>5 DEF CatalogPaths

\* What is done at a step says which it is.
LEMMA PlanOrder ==
  ASSUME NEW k \in 1..19
  PROVE  LET do   == SeedPlan[k].do
             path == SeedPlan[k].path
         IN  /\ do = "catalog" => path \in CatalogPaths
             /\ do = "pages" => path \in CatalogPaths /\ PagesStep(path) = k
             /\ do = "ledger-page" => path = "/finance" /\ k = 2
             /\ do = "ledger" => k = 3
             /\ do = "retire" => k = 5
             /\ do = "certification" => k = 11
             /\ do = "apis" => k = 16
             /\ do = "roles" => k = 17
             /\ do = "listed" => k = 18
             /\ do = "admin" => k = 19
<1>1. CASE k = 1
  BY <1>1, PlanIs, StepsAre DEF CatalogPaths
<1>2. CASE k = 2
  BY <1>2, PlanIs, StepsAre DEF CatalogPaths
<1>3. CASE k = 3
  BY <1>3, PlanIs, StepsAre DEF CatalogPaths
<1>4. CASE k = 4
  BY <1>4, PlanIs, StepsAre DEF CatalogPaths
<1>5. CASE k = 5
  BY <1>5, PlanIs, StepsAre DEF CatalogPaths
<1>6. CASE k = 6
  BY <1>6, PlanIs, StepsAre DEF CatalogPaths
<1>7. CASE k = 7
  BY <1>7, PlanIs, StepsAre DEF CatalogPaths
<1>8. CASE k = 8
  BY <1>8, PlanIs, StepsAre DEF CatalogPaths
<1>9. CASE k = 9
  BY <1>9, PlanIs, StepsAre DEF CatalogPaths
<1>10. CASE k = 10
  BY <1>10, PlanIs, StepsAre DEF CatalogPaths
<1>11. CASE k = 11
  BY <1>11, PlanIs, StepsAre DEF CatalogPaths
<1>12. CASE k = 12
  BY <1>12, PlanIs, StepsAre DEF CatalogPaths
<1>13. CASE k = 13
  BY <1>13, PlanIs, StepsAre DEF CatalogPaths
<1>14. CASE k = 14
  BY <1>14, PlanIs, StepsAre DEF CatalogPaths
<1>15. CASE k = 15
  BY <1>15, PlanIs, StepsAre DEF CatalogPaths
<1>16. CASE k = 16
  BY <1>16, PlanIs, StepsAre DEF CatalogPaths
<1>17. CASE k = 17
  BY <1>17, PlanIs, StepsAre DEF CatalogPaths
<1>18. CASE k = 18
  BY <1>18, PlanIs, StepsAre DEF CatalogPaths
<1>19. CASE k = 19
  BY <1>19, PlanIs, StepsAre DEF CatalogPaths
<1>20. k = 1 \/ k = 2 \/ k = 3 \/ k = 4 \/ k = 5 \/ k = 6 \/ k = 7 \/ k = 8 \/ k = 9 \/ k = 10
       \/ k = 11 \/ k = 12 \/ k = 13 \/ k = 14 \/ k = 15 \/ k = 16 \/ k = 17 \/ k = 18 \/ k = 19
  OBVIOUS
<1>21. QED
  BY <1>1, <1>2, <1>3, <1>4, <1>5, <1>6, <1>7, <1>8, <1>9, <1>10, <1>11, <1>12, <1>13, <1>14, <1>15,
     <1>16, <1>17, <1>18, <1>19, <1>20
-----------------------------------------------------------------------------
(* The layout *)

\* Before step k, the catalogs and the pages of the steps before it are there.
LayoutAt(k, t) ==
  \A catalog \in CatalogPaths :
    /\ k > CatalogStep(catalog) => Stands(t, catalog)
    /\ k > PagesStep(catalog)   => PagesStand(t, catalog)

\* At first nothing is.
LEMMA NoLayout == ASSUME NEW t PROVE LayoutAt(0, t)
<1>1. \A catalog \in CatalogPaths : ~(0 > CatalogStep(catalog)) /\ ~(0 > PagesStep(catalog))
  BY CatalogOrder
<1>2. QED
  BY <1>1 DEF LayoutAt

\* A step that is about the layout adds its part, and any other leaves it.
LEMMA LayoutGoesOn ==
  ASSUME NEW k \in 1..19, NEW t, NEW u, LayoutAt(k, t), Keeps(t, u),
         \A catalog \in CatalogPaths : PagesStep(catalog) < k => PagesStand(u, catalog),
         SeedPlan[k].do = "catalog" => Stands(u, SeedPlan[k].path),
         SeedPlan[k].do = "pages" => PagesStand(u, SeedPlan[k].path)
  PROVE  LayoutAt(k + 1, u)
<1>1. ASSUME NEW catalog \in CatalogPaths, k + 1 > CatalogStep(catalog)
      PROVE  Stands(u, catalog)
  <2>1. CatalogStep(catalog) \in Nat
    BY CatalogOrder
  <2>2. CASE k > CatalogStep(catalog)
    BY <2>2 DEF LayoutAt, Keeps
  <2>3. CASE k = CatalogStep(catalog)
    BY <2>3, CatalogOrder
  <2>4. QED
    BY <1>1, <2>1, <2>2, <2>3
<1>2. ASSUME NEW catalog \in CatalogPaths, k + 1 > PagesStep(catalog)
      PROVE  PagesStand(u, catalog)
  <2>1. PagesStep(catalog) \in Nat
    BY CatalogOrder
  <2>2. CASE PagesStep(catalog) < k
    BY <2>2
  <2>3. CASE k = PagesStep(catalog)
    BY <2>3, CatalogOrder
  <2>4. QED
    BY <1>2, <2>1, <2>2, <2>3
<1>3. QED
  BY <1>1, <1>2 DEF LayoutAt

\* The pages that stand before a step, stand under a catalog that does.
LEMMA LayoutStands ==
  ASSUME NEW k \in 1..19, NEW t, LayoutAt(k, t), NEW catalog \in CatalogPaths, PagesStep(catalog) < k
  PROVE  Stands(t, catalog) /\ PagesStand(t, catalog)
<1>1. CatalogStep(catalog) \in Nat /\ PagesStep(catalog) \in Nat /\ CatalogStep(catalog) < PagesStep(catalog)
  BY CatalogOrder
<1>2. k > CatalogStep(catalog) /\ k > PagesStep(catalog)
  BY <1>1
<1>3. QED
  BY <1>2 DEF LayoutAt

\* A step that touches no menu leaves the layout as far as it is.
LEMMA LayoutStays ==
  ASSUME NEW k \in 1..19, NEW t, IsTable(t), LayoutAt(k, t), SeedPlan[k].do \notin {"catalog", "pages"}
  PROVE  LayoutAt(k + 1, t)
<1>1. Keeps(t, t)
  BY DEF Keeps
<1>2. QED
  BY <1>1, LayoutStands, LayoutGoesOn

\* The part of a menu step of the seed.
LEMMA LayoutOfCatalog ==
  ASSUME NEW k \in 1..19, NEW t, IsTable(t), LayoutAt(k, t), SeedPlan[k].do = "catalog"
  PROVE  LET u == EnsureCatalog(t, SeedPlan[k].path)
         IN  IsTable(u) /\ LayoutAt(k + 1, u)
<1> DEFINE path == SeedPlan[k].path
           u    == EnsureCatalog(t, path)
<1>1. path \in CatalogPaths
  BY PlanOrder
<1> HIDE DEF path
<1>2. /\ Keeps(t, u) /\ Stands(u, path)
      /\ \A other \in CatalogPaths : Stands(t, other) /\ PagesStand(t, other) => PagesStand(u, other)
  BY <1>1, CatalogAdded
<1> HIDE DEF u
<1>3. \A catalog \in CatalogPaths : PagesStep(catalog) < k => PagesStand(u, catalog)
  BY <1>2, LayoutStands
<1>4. SeedPlan[k].do # "pages"
  OBVIOUS
<1>5. LayoutAt(k + 1, u)
  BY <1>2, <1>3, <1>4, LayoutGoesOn DEF path
<1>6. QED
  BY <1>2, <1>5 DEF Keeps, u, path

\* The pages of a catalog, all of them or the first few.
LEMMA LayoutOfPages ==
  ASSUME NEW k \in 1..19, NEW t, IsTable(t), LayoutAt(k, t), SeedPlan[k].do = "pages"
  PROVE  /\ LET u == EnsurePages(t, ChildrenOf(SeedPlan[k].path), SeedPlan[k].path)
            IN  IsTable(u) /\ LayoutAt(k + 1, u)
         /\ \A m \in 1..Len(ChildrenOf(SeedPlan[k].path)) - 1 :
              IsTable(EnsurePages(t, SubSeq(ChildrenOf(SeedPlan[k].path), 1, m), SeedPlan[k].path))
<1> DEFINE path  == SeedPlan[k].path
           all   == ChildrenOf(path)
           u     == EnsurePages(t, all, path)
<1>1. path \in CatalogPaths /\ PagesStep(path) = k
  BY PlanOrder
<1> HIDE DEF path
<1>2. Stands(t, path)
  BY <1>1, CatalogOrder DEF LayoutAt
<1>3. all \in Seq(ChildPaths(path)) /\ Range(all) = ChildPaths(path)
  BY <1>1, ChildrenAre
<1> HIDE DEF all
<1>4. Len(all) \in Nat /\ DOMAIN all = 1..Len(all)
  BY <1>3
<1>5. /\ Keeps(t, u) /\ PagesStand(u, path)
      /\ \A other \in CatalogPaths \ {path} : Stands(t, other) /\ PagesStand(t, other) => PagesStand(u, other)
  BY <1>1, <1>2, <1>3, <1>4, PagesKeep
<1> HIDE DEF u
<1>6. \A catalog \in CatalogPaths : PagesStep(catalog) < k => PagesStand(u, catalog)
  BY <1>5, LayoutStands
<1>7. SeedPlan[k].do # "catalog"
  OBVIOUS
<1>8. LayoutAt(k + 1, u)
  BY <1>5, <1>6, <1>7, LayoutGoesOn DEF path
<1>9. ASSUME NEW m \in 1..Len(all) - 1
      PROVE  IsTable(EnsurePages(t, SubSeq(all, 1, m), path))
  <2> DEFINE some == SubSeq(all, 1, m)
  <2>1. m \in Nat /\ 1..m \subseteq DOMAIN all
    BY <1>4
  <2>2. some = [j \in 1..m |-> all[j]]
    BY <1>3, <1>4, <2>1
  <2> HIDE DEF some
  <2>3. DOMAIN some = 1..m /\ Range(some) \subseteq ChildPaths(path)
    BY <1>3, <2>1, <2>2 DEF Range
  <2>4. Keeps(t, EnsurePages(t, some, path))
    BY <1>1, <1>2, <2>1, <2>3, PagesKeep
  <2>5. QED
    BY <2>4 DEF Keeps, some
<1>10. QED
  BY <1>5, <1>8, <1>9 DEF Keeps, u, all, path

\* The page of the ledger, which is there before the other pages of its catalog.
LEMMA LayoutOfLedgerPage ==
  ASSUME NEW k \in 1..19, NEW t, IsTable(t), LayoutAt(k, t), SeedPlan[k].do = "ledger-page"
  PROVE  LET u == EnsurePages(t, <<"business-ledger">>, SeedPlan[k].path)
         IN  IsTable(u) /\ LayoutAt(k + 1, u)
<1> DEFINE paths == <<"business-ledger">>
           u     == EnsurePages(t, paths, "/finance")
<1>1. SeedPlan[k].path = "/finance" /\ k = 2
  BY PlanOrder
<1>2. "/finance" \in CatalogPaths
  BY DEF CatalogPaths
<1>3. Stands(t, "/finance")
  <2>1. k > CatalogStep("/finance")
    <3>1. CatalogStep("/finance") = 1
      BY StepsAre
    <3>2. QED
      BY <1>1, <3>1
  <2>2. QED
    BY <1>2, <2>1 DEF LayoutAt
<1>4. DOMAIN paths = 1..1 /\ Range(paths) \subseteq ChildPaths("/finance")
  <2>1. DOMAIN paths = 1..1 /\ \A i \in 1..1 : paths[i] = "business-ledger"
    OBVIOUS
  <2>2. "business-ledger" \in ChildPaths("/finance")
    BY DEF ChildPaths
  <2> HIDE DEF paths
  <2>3. QED
    BY <2>1, <2>2 DEF Range
<1> HIDE DEF paths
<1>5. Keeps(t, u)
  BY <1>2, <1>3, <1>4, PagesKeep
<1> HIDE DEF u
<1>6. \A catalog \in CatalogPaths : PagesStep(catalog) < k => PagesStand(u, catalog)
  <2>1. \A catalog \in CatalogPaths : PagesStep(catalog) \in 6..15
    BY CatalogOrder
  <2>2. QED
    BY <1>1, <2>1
<1>7. LayoutAt(k + 1, u)
  BY <1>5, <1>6, LayoutGoesOn
<1>8. QED
  BY <1>1, <1>5, <1>7 DEF Keeps, u, paths

\* The review of certifications.
LEMMA LayoutOfRepair ==
  ASSUME NEW k \in 1..19, NEW t, IsTable(t), LayoutAt(k, t), SeedPlan[k].do = "certification"
  PROVE  LET u == RepairCertification(t)
         IN  IsTable(u) /\ LayoutAt(k + 1, u)
<1> DEFINE u == RepairCertification(t)
<1>1. k = 11
  BY PlanOrder
<1>2. Stands(t, "/review")
  BY <1>1, StepsAre DEF LayoutAt, CatalogPaths
<1>3. /\ Keeps(t, u)
      /\ \A other \in CatalogPaths : Stands(t, other) /\ PagesStand(t, other) => PagesStand(u, other)
  BY <1>2, RepairKeeps
<1> HIDE DEF u
<1>4. LayoutAt(k + 1, u)
  BY <1>3, LayoutStands, LayoutGoesOn
<1>5. QED
  BY <1>3, <1>4 DEF Keeps, u

\* The pages that are retired.
LEMMA LayoutOfRetiring ==
  ASSUME NEW k \in 1..19, NEW t, IsTable(t), LayoutAt(k, t), SeedPlan[k].do = "retire", NEW ids,
         \A i \in ids : IsRetired(t[i])
  PROVE  IsTable(Without(t, ids)) /\ LayoutAt(k + 1, Without(t, ids))
<1> DEFINE u == Without(t, ids)
<1>1. k = 5
  BY PlanOrder
<1>2. Keeps(t, u)
  BY RetiringKeeps
<1> HIDE DEF u
<1>3. \A catalog \in CatalogPaths : PagesStep(catalog) < k => PagesStand(u, catalog)
  BY <1>1, CatalogOrder
<1>4. LayoutAt(k + 1, u)
  BY <1>2, <1>3, LayoutGoesOn
<1>5. QED
  BY <1>2, <1>4 DEF Keeps, u
-----------------------------------------------------------------------------
(* The tree of a role *)

\* The pages of a catalog, and what a role with these grants is shown.
PagesIn(t, catalog) ==
  {i \in DOMAIN t : t[i].parent = CatalogId(t, catalog) /\ t[i].path \in Range(ChildrenOf(catalog))}

ShownOf(t, ids) ==
  LET roots == {i \in ids : t[i].parent = 0}
  IN  roots \cup {i \in ids : t[i].parent \in roots}

\* All that is held of the pages is shown.
HeldAreShown(t, ids) ==
  \A catalog \in CatalogPaths : ids \cap PagesIn(t, catalog) \subseteq ShownOf(t, ids)

\* Whoever holds a catalog that stands is shown its pages.
LEMMA HeldIsShown ==
  ASSUME NEW t, IsTable(t), NEW catalog \in CatalogPaths, Stands(t, catalog), NEW ids, CatalogId(t, catalog) \in ids
  PROVE  ids \cap PagesIn(t, catalog) \subseteq ShownOf(t, ids)
<1> DEFINE parent == CatalogId(t, catalog)
<1>1. t[parent].parent = 0
  BY CatalogHasId DEF Stands, RowsAt
<1> HIDE DEF parent
<1>2. parent \in ids
  BY DEF parent
<1>3. \A i \in PagesIn(t, catalog) : t[i].parent = parent
  BY DEF PagesIn, parent
<1>4. QED
  BY <1>1, <1>2, <1>3 DEF ShownOf

\* Whoever holds all menus is shown every page.
LEMMA AllAreShown ==
  ASSUME NEW t, IsTable(t), \A catalog \in CatalogPaths : Stands(t, catalog)
  PROVE  HeldAreShown(t, DOMAIN t)
<1>1. ASSUME NEW catalog \in CatalogPaths
      PROVE  CatalogId(t, catalog) \in DOMAIN t
  BY CatalogHasId DEF Stands, RowsAt
<1>2. QED
  BY <1>1, HeldIsShown DEF HeldAreShown

\* With the parents of what it holds, a role holds the catalog of every page it does.
LEMMA SyncedAreShown ==
  ASSUME NEW t, IsTable(t), \A catalog \in CatalogPaths : Stands(t, catalog), NEW ids
  PROVE  HeldAreShown(t, SyncParents(t, ids))
<1> DEFINE new == SyncParents(t, ids)
<1>1. ASSUME NEW catalog \in CatalogPaths, NEW i \in new, i \in PagesIn(t, catalog)
      PROVE  i \in ShownOf(t, new)
  <2> DEFINE parent == CatalogId(t, catalog)
  <2>1. t[i].parent = parent /\ t[i].path \in ChildPaths(catalog)
    BY <1>1, ChildrenAre DEF PagesIn
  <2>2. i \notin ParentRows(t)
    BY <2>1, PathsAreApart, CatalogsAre DEF ParentRows
  <2>3. i \in ids
    BY <1>1, <2>2 DEF SyncParents
  <2>4. parent \in DOMAIN t /\ t[parent].path = catalog
    BY CatalogHasId DEF Stands, RowsAt
  <2>5. parent \in ParentRows(t)
    BY <2>4, CatalogsAre DEF ParentRows
  <2>6. HasChild(t, ids, parent)
    BY <2>1, <2>3 DEF HasChild
  <2>7. parent \in new
    BY <2>5, <2>6 DEF SyncParents
  <2> HIDE DEF new
  <2>8. new \cap PagesIn(t, catalog) \subseteq ShownOf(t, new)
    BY <2>7, HeldIsShown
  <2>9. QED
    BY <1>1, <2>8
<1>2. QED
  BY <1>1 DEF HeldAreShown

-----------------------------------------------------------------------------
(* The seed *)

\* What has been granted, before step k.
GrantsAt(k, t, menusOf, apisOf, known) ==
  /\ DOMAIN apisOf = DOMAIN menusOf
  /\ k > 16 => known = Routes /\ \A r \in DOMAIN apisOf : apisOf[r] \subseteq Routes
  /\ k > 17 => \A r \in DOMAIN menusOf : HeldAreShown(t, menusOf[r])

\* What a seed that has finished leaves.
Opened(t, menusOf, apisOf, known) ==
  /\ \A catalog \in CatalogPaths : Stands(t, catalog) /\ PagesStand(t, catalog)
  /\ \A r \in DOMAIN menusOf : HeldAreShown(t, menusOf[r])
  /\ known = Routes
  /\ AdminRole \in DOMAIN menusOf => menusOf[AdminRole] = DOMAIN t /\ apisOf[AdminRole] = Routes

(***************************************************************************)
(* While a seed runs, what it has come to so far is there.                 *)
(***************************************************************************)
SeedInv ==
  /\ step \in 0..19
  /\ IsTable(menus)
  /\ LayoutAt(step, menus)
  /\ GrantsAt(step, menus, granted, allowed, apis)
  /\ seeded \in BOOLEAN
  /\ step > 0 => seeded = FALSE
  /\ seeded => Opened(menus, granted, allowed, apis)

\* Pages that stand are found among those of their catalog.
LEMMA PagesAreFound ==
  ASSUME NEW t, IsTable(t), NEW catalog \in CatalogPaths, Stands(t, catalog), PagesStand(t, catalog)
  PROVE  Range(ChildrenOf(catalog)) \subseteq {t[i].path : i \in PagesIn(t, catalog)}
<1>1. ASSUME NEW path \in Range(ChildrenOf(catalog))
      PROVE  \E i \in PagesIn(t, catalog) : t[i].path = path
  BY <1>1 DEF PagesStand, PagesIn, RowsAt
<1>2. QED
  BY <1>1

\* The property follows.
LEMMA InvOpens == SeedInv => SeedOpensTheLayout
<1> SUFFICES ASSUME SeedInv, seeded
             PROVE  SeedOpensTheLayout
  BY DEF SeedOpensTheLayout
<1>1. Opened(menus, granted, allowed, apis) /\ IsTable(menus)
  BY DEF SeedInv
<1>2. ASSUME NEW catalog \in Range(Catalogs)
      PROVE  /\ Range(ChildrenOf(catalog)) \subseteq {menus[i].path : i \in InPlace(catalog)}
             /\ \A r \in DOMAIN granted : granted[r] \cap InPlace(catalog) \subseteq ShownTo(r)
  <2>1. catalog \in CatalogPaths
    BY CatalogsAre
  <2>2. InPlace(catalog) = PagesIn(menus, catalog)
    BY DEF InPlace, PagesIn
  <2>3. \A r : ShownTo(r) = ShownOf(menus, granted[r])
    BY DEF ShownTo, ShownOf
  <2>4. Stands(menus, catalog) /\ PagesStand(menus, catalog)
    BY <1>1, <2>1 DEF Opened
  <2>5. Range(ChildrenOf(catalog)) \subseteq {menus[i].path : i \in PagesIn(menus, catalog)}
    BY <1>1, <2>1, <2>4, PagesAreFound
  <2>6. \A r \in DOMAIN granted : granted[r] \cap PagesIn(menus, catalog) \subseteq ShownOf(menus, granted[r])
    BY <1>1, <2>1 DEF Opened, HeldAreShown
  <2>7. QED
    BY <2>2, <2>3, <2>5, <2>6
<1>3. apis = Routes /\ (AdminRole \in DOMAIN granted => granted[AdminRole] = DOMAIN menus /\ allowed[AdminRole] = Routes)
  BY <1>1 DEF Opened
<1>4. QED
  BY <1>2, <1>3 DEF SeedOpensTheLayout

\* With no seed that runs or has finished, nothing is promised but a table.
LEMMA NothingIsPromised ==
  ASSUME step' = 0, seeded' = FALSE, IsTable(menus'), DOMAIN allowed' = DOMAIN granted'
  PROVE  SeedInv'
<1>1. LayoutAt(0, menus')
  BY NoLayout
<1>2. GrantsAt(0, menus', granted', allowed', apis')
  BY DEF GrantsAt
<1>3. LayoutAt(step', menus') /\ GrantsAt(step', menus', granted', allowed', apis')
  BY <1>1, <1>2
<1>4. step' \in 0..19
  OBVIOUS
<1>5. seeded' = FALSE /\ seeded' \in BOOLEAN /\ ~seeded'
  BY Zenon
<1>6. QED
  BY <1>3, <1>4, <1>5 DEF SeedInv

\* A step of the plan but the last.
LEMMA SeedGoesOn ==
  ASSUME SeedInv, Proceed, step # 19, IsTable(menus'), LayoutAt(step + 1, menus'),
         GrantsAt(step + 1, menus', granted', allowed', apis')
  PROVE  SeedInv'
<1>1. step \in 1..18 /\ Len(SeedPlan) = 19
  BY PlanIs DEF SeedInv, Proceed
<1>2. step' = step + 1 /\ seeded' = FALSE
  BY <1>1 DEF Proceed
<1>3. LayoutAt(step', menus') /\ GrantsAt(step', menus', granted', allowed', apis')
  BY <1>2
<1>4. step' \in 0..19
  BY <1>1, <1>2
<1>5. seeded' = FALSE /\ seeded' \in BOOLEAN /\ ~seeded'
  BY <1>2, Zenon
<1>6. QED
  BY <1>3, <1>4, <1>5 DEF SeedInv

\* A step that saves menus.
LEMMA SeedsMenuOpens == SeedInv /\ SeedsMenu => SeedInv'
<1> SUFFICES ASSUME SeedInv, SeedsMenu
             PROVE  SeedInv'
  OBVIOUS
<1>1. Proceed /\ step \in 1..19 /\ IsTable(menus) /\ LayoutAt(step, menus)
  BY DEF SeedInv, SeedsMenu, Proceed
<1>2. step \in 1..15
  <2>1. Now.do \in {"catalog", "ledger-page", "certification", "pages"}
    BY DEF SeedsMenu
  <2>2. step # 16 /\ step # 17 /\ step # 18 /\ step # 19
    BY <2>1, PlanIs DEF Now
  <2>3. QED
    BY <1>1, <2>2
<1>3. IsTable(menus') /\ LayoutAt(step + 1, menus')
  <2>1. CASE Now.do = "catalog"
    BY <1>1, <2>1, LayoutOfCatalog DEF SeedsMenu, Now
  <2>2. CASE Now.do = "ledger-page"
    BY <1>1, <2>2, LayoutOfLedgerPage DEF SeedsMenu, Now
  <2>3. CASE Now.do = "pages"
    BY <1>1, <2>3, LayoutOfPages DEF SeedsMenu, Now
  <2>4. CASE Now.do = "certification"
    BY <1>1, <2>4, LayoutOfRepair DEF SeedsMenu, Now
  <2>5. QED
    BY <2>1, <2>2, <2>3, <2>4 DEF SeedsMenu
<1>4. GrantsAt(step + 1, menus', granted', allowed', apis')
  BY <1>2 DEF SeedInv, SeedsMenu, GrantsAt
<1>5. QED
  BY <1>1, <1>2, <1>3, <1>4, SeedGoesOn

\* A seed that stops among the pages of a catalog.
LEMMA SeedsSomePagesOpens == SeedInv /\ SeedsSomePages => SeedInv'
<1> SUFFICES ASSUME SeedInv, SeedsSomePages
             PROVE  SeedInv'
  OBVIOUS
<1>1. step \in 1..19 /\ IsTable(menus) /\ LayoutAt(step, menus) /\ Now.do = "pages"
  BY DEF SeedInv, SeedsSomePages
<1>2. IsTable(menus')
  BY <1>1, LayoutOfPages DEF SeedsSomePages, Now
<1>3. step' = 0 /\ seeded' = FALSE /\ DOMAIN allowed' = DOMAIN granted'
  BY <1>1 DEF SeedInv, SeedsSomePages, Stops, GrantsAt
<1>4. QED
  BY <1>2, <1>3, NothingIsPromised

\* The grant of the ledger, before the roles follow the layout.
LEMMA SeedsLedgerOpens == SeedInv /\ SeedsLedger => SeedInv'
<1> SUFFICES ASSUME SeedInv, SeedsLedger
             PROVE  SeedInv'
  OBVIOUS
<1>1. Proceed /\ step \in 1..19 /\ IsTable(menus) /\ LayoutAt(step, menus) /\ Now.do = "ledger" /\ menus' = menus
  BY DEF SeedInv, SeedsLedger, Proceed
<1>2. step = 3
  BY <1>1, PlanOrder DEF Now
<1>3. LayoutAt(step + 1, menus')
  BY <1>1, LayoutStays DEF Now
<1>4. GrantsAt(step + 1, menus', granted', allowed', apis')
  BY <1>2 DEF SeedInv, SeedsLedger, GrantsAt
<1>5. QED
  BY <1>1, <1>2, <1>3, <1>4, SeedGoesOn

\* The deletion of retired pages.
LEMMA RetiresPagesOpens == SeedInv /\ RetiresPages => SeedInv'
<1> SUFFICES ASSUME SeedInv, RetiresPages
             PROVE  SeedInv'
  OBVIOUS
<1> DEFINE ids == {i \in DOMAIN menus : IsRetired(menus[i])}
<1>1. Proceed /\ step \in 1..19 /\ IsTable(menus) /\ LayoutAt(step, menus) /\ Now.do = "retire"
  BY DEF SeedInv, RetiresPages, Proceed
<1>2. /\ menus' = Without(menus, ids) /\ DOMAIN granted' = DOMAIN granted
      /\ allowed' = allowed
  BY DEF RetiresPages, Delete
<1>3. step = 5
  BY <1>1, PlanOrder DEF Now
<1>4. \A i \in ids : IsRetired(menus[i])
  OBVIOUS
<1> HIDE DEF ids
<1>5. IsTable(menus') /\ LayoutAt(step + 1, menus')
  BY <1>1, <1>2, <1>4, LayoutOfRetiring DEF Now
<1>6. GrantsAt(step + 1, menus', granted', allowed', apis')
  BY <1>2, <1>3 DEF SeedInv, GrantsAt
<1>7. QED
  BY <1>1, <1>3, <1>5, <1>6, SeedGoesOn

\* The refresh of the routes: from here on all of them are known and no other is granted.
LEMMA SeedsApisOpens == SeedInv /\ SeedsApis => SeedInv'
<1> SUFFICES ASSUME SeedInv, SeedsApis
             PROVE  SeedInv'
  OBVIOUS
<1>1. Proceed /\ step \in 1..19 /\ IsTable(menus) /\ LayoutAt(step, menus) /\ Now.do = "apis" /\ menus' = menus
  BY DEF SeedInv, SeedsApis, Proceed
<1>2. step = 16
  BY <1>1, PlanOrder DEF Now
<1>3. LayoutAt(step + 1, menus')
  BY <1>1, LayoutStays DEF Now
<1>4. GrantsAt(step + 1, menus', granted', allowed', apis')
  BY <1>2 DEF SeedInv, SeedsApis, Refresh, GrantsAt
<1>5. QED
  BY <1>1, <1>2, <1>3, <1>4, SeedGoesOn

\* From the roles on, the whole layout stands.
LEMMA LayoutIsWhole ==
  ASSUME NEW k \in 16..19, NEW t, LayoutAt(k, t), NEW catalog \in CatalogPaths
  PROVE  Stands(t, catalog) /\ PagesStand(t, catalog)
<1>1. CatalogStep(catalog) \in 1..10 /\ PagesStep(catalog) \in 6..15
  BY CatalogOrder
<1>2. k > CatalogStep(catalog) /\ k > PagesStep(catalog)
  BY <1>1
<1>3. QED
  BY <1>2 DEF LayoutAt

\* The creation of the two roles, which ends a seed.
LEMMA SeedsRolesOpens == SeedInv /\ SeedsRoles => SeedInv'
<1> SUFFICES ASSUME SeedInv, SeedsRoles
             PROVE  SeedInv'
  OBVIOUS
<1>1. step \in 1..19 /\ IsTable(menus) /\ LayoutAt(step, menus) /\ Now.do = "roles" /\ menus' = menus /\ apis' = apis
  BY DEF SeedInv, SeedsRoles
<1>2. step = 17
  BY <1>1, PlanOrder DEF Now
<1>3. apis = Routes
  BY <1>2 DEF SeedInv, GrantsAt
<1>4. \A catalog \in CatalogPaths : Stands(menus, catalog) /\ PagesStand(menus, catalog)
  BY <1>1, <1>2, LayoutIsWhole
<1>5. /\ DOMAIN granted' = {AdminRole, UserRole} /\ \A r \in DOMAIN granted' : granted'[r] = DOMAIN menus
      /\ DOMAIN allowed' = {AdminRole, UserRole} /\ allowed'[AdminRole] = Routes
      /\ step' = 0 /\ seeded' = TRUE
  BY <1>3 DEF SeedsRoles
<1>6. \A r \in DOMAIN granted' : HeldAreShown(menus, granted'[r])
  BY <1>1, <1>4, <1>5, AllAreShown
<1>7. Opened(menus', granted', allowed', apis')
  BY <1>1, <1>3, <1>4, <1>5, <1>6 DEF Opened
<1>8. LayoutAt(0, menus') /\ GrantsAt(0, menus', granted', allowed', apis')
  BY <1>5, NoLayout DEF GrantsAt
<1>9. QED
  BY <1>1, <1>5, <1>7, <1>8 DEF SeedInv

\* Their creation half way.
LEMMA SeedsRolesPartlyOpens == SeedInv /\ SeedsRolesPartly => SeedInv'
<1> SUFFICES ASSUME SeedInv, SeedsRolesPartly
             PROVE  SeedInv'
  OBVIOUS
<1>1. IsTable(menus') /\ step' = 0 /\ seeded' = FALSE
  BY DEF SeedInv, SeedsRolesPartly, Stops
<1>2. DOMAIN allowed' = DOMAIN granted'
  BY DEF SeedsRolesPartly
<1>3. QED
  BY <1>1, <1>2, NothingIsPromised

\* The roles follow the layout: from here on what they hold of the pages is shown.
LEMMA SyncsParentsOpens == SeedInv /\ SyncsParents => SeedInv'
<1> SUFFICES ASSUME SeedInv, SyncsParents
             PROVE  SeedInv'
  OBVIOUS
<1>1. Proceed /\ step \in 1..19 /\ IsTable(menus) /\ LayoutAt(step, menus) /\ Now.do = "roles" /\ menus' = menus
  BY DEF SeedInv, SyncsParents, Proceed
<1>2. step = 17
  BY <1>1, PlanOrder DEF Now
<1>3. LayoutAt(step + 1, menus')
  BY <1>1, LayoutStays DEF Now
<1>4. \A catalog \in CatalogPaths : Stands(menus, catalog)
  BY <1>1, <1>2, LayoutIsWhole
<1>5. granted' = [r \in DOMAIN granted |-> SyncParents(menus, granted[r])] /\ allowed' = allowed /\ apis' = apis
  BY DEF SyncsParents
<1>6. ASSUME NEW r \in DOMAIN granted'
      PROVE  HeldAreShown(menus', granted'[r])
  <2>1. granted'[r] = SyncParents(menus, granted[r])
    BY <1>5
  <2>2. HeldAreShown(menus, SyncParents(menus, granted[r]))
    BY <1>1, <1>4, SyncedAreShown
  <2>3. QED
    BY <1>1, <2>1, <2>2
<1>7. GrantsAt(step + 1, menus', granted', allowed', apis')
  BY <1>2, <1>5, <1>6 DEF SeedInv, GrantsAt
<1>8. QED
  BY <1>1, <1>2, <1>3, <1>7, SeedGoesOn

\* The grant of the listed routes.
LEMMA SeedsListedOpens == SeedInv /\ SeedsListed => SeedInv'
<1> SUFFICES ASSUME SeedInv, SeedsListed
             PROVE  SeedInv'
  OBVIOUS
<1>1. Proceed /\ step \in 1..19 /\ IsTable(menus) /\ LayoutAt(step, menus) /\ Now.do = "listed" /\ menus' = menus
  BY DEF SeedInv, SeedsListed, Proceed
<1>2. step = 18
  BY <1>1, PlanOrder DEF Now
<1>3. LayoutAt(step + 1, menus')
  BY <1>1, LayoutStays DEF Now
<1>4. GrantsAt(step + 1, menus', granted', allowed', apis')
  BY <1>2 DEF SeedInv, SeedsListed, GrantsAt
<1>5. QED
  BY <1>1, <1>2, <1>3, <1>4, SeedGoesOn

\* The grants of the administrator's role, which end a seed.
LEMMA SeedsAdminOpens == SeedInv /\ SeedsAdmin => SeedInv'
<1> SUFFICES ASSUME SeedInv, SeedsAdmin
             PROVE  SeedInv'
  OBVIOUS
<1>1. /\ Proceed /\ step \in 1..19 /\ IsTable(menus) /\ LayoutAt(step, menus)
      /\ Now.do = "admin" /\ menus' = menus /\ apis' = apis
  BY DEF SeedInv, SeedsAdmin, Proceed
<1>2. step = 19
  BY <1>1, PlanOrder DEF Now
<1>3. /\ apis = Routes /\ DOMAIN allowed = DOMAIN granted /\ \A r \in DOMAIN allowed : allowed[r] \subseteq Routes
      /\ \A r \in DOMAIN granted : HeldAreShown(menus, granted[r])
  BY <1>2 DEF SeedInv, GrantsAt
<1>4. \A catalog \in CatalogPaths : Stands(menus, catalog) /\ PagesStand(menus, catalog)
  BY <1>1, <1>2, LayoutIsWhole
<1>5. /\ granted' = [r \in DOMAIN granted |-> IF r = AdminRole THEN DOMAIN menus ELSE granted[r]]
      /\ allowed' = [r \in DOMAIN allowed |-> IF r = AdminRole THEN allowed[r] \cup apis ELSE allowed[r]]
  BY DEF SeedsAdmin
<1>6. step' = 0 /\ seeded' = TRUE
  BY <1>2, PlanIs DEF SeedsAdmin, Proceed
<1>7. \A r \in DOMAIN granted' : HeldAreShown(menus, granted'[r])
  BY <1>1, <1>3, <1>4, <1>5, AllAreShown
<1>8. AdminRole \in DOMAIN granted' => granted'[AdminRole] = DOMAIN menus /\ allowed'[AdminRole] = Routes
  BY <1>3, <1>5
<1>9. Opened(menus', granted', allowed', apis')
  BY <1>1, <1>3, <1>4, <1>7, <1>8 DEF Opened
<1>10. LayoutAt(0, menus') /\ GrantsAt(0, menus', granted', allowed', apis')
  BY <1>3, <1>5, NoLayout DEF GrantsAt
<1>11. QED
  BY <1>1, <1>6, <1>9, <1>10 DEF SeedInv

\* What administrators do between the seeds keeps the menus a table.
LEMMA EditOpens == SeedInv /\ Edit => SeedInv'
<1> SUFFICES ASSUME SeedInv, Edit
             PROVE  SeedInv'
  OBVIOUS
<1>1. step' = 0 /\ seeded' = FALSE /\ IsTable(menus) /\ DOMAIN allowed = DOMAIN granted
  BY DEF SeedInv, Edit, Edits, GrantsAt
<1>2. ASSUME NEW ids
      PROVE  IsTable(Without(menus, ids))
  <2>1. IsFiniteSet(DOMAIN menus \ ids)
    BY <1>1, FS_Subset DEF IsTable
  <2>2. QED
    BY <1>1, <2>1 DEF IsTable, Without
<1>3. ASSUME NEW i \in Edited, DeleteMenu(i)
      PROVE  IsTable(menus') /\ DOMAIN allowed' = DOMAIN granted'
  BY <1>1, <1>2, <1>3 DEF DeleteMenu, Delete
<1>4. \A parent \in Places : parent \in Nat
  BY <1>1 DEF Places, Edited, IsTable
<1>5. ASSUME NEW i \in Edited, NEW parent \in Places, UpdateMenu(i, parent)
      PROVE  IsTable(menus') /\ DOMAIN allowed' = DOMAIN granted'
  <2>1. parent \in Nat /\ i \in DOMAIN menus
    BY <1>4 DEF Edited
  <2>2. menus' = [menus EXCEPT ![i] = [menus[i] EXCEPT !.parent = parent]]
    BY <1>5 DEF UpdateMenu
  <2>3. PICK q : q = [menus[i] EXCEPT !.parent = parent]
    OBVIOUS
  <2>4. IsRow(q)
    BY <1>1, <2>1, <2>3 DEF IsTable, IsRow
  <2>5. DOMAIN menus' = DOMAIN menus /\ \A j \in DOMAIN menus : menus'[j] = IF j = i THEN q ELSE menus[j]
    BY <2>1, <2>2, <2>3
  <2>6. IsTable(menus')
    BY <1>1, <2>4, <2>5 DEF IsTable
  <2>7. QED
    BY <1>1, <1>5, <2>6 DEF UpdateMenu
<1>6. ASSUME NEW path \in Touched, NEW parent \in Places, CreateMenu(path, parent)
      PROVE  IsTable(menus') /\ DOMAIN allowed' = DOMAIN granted'
  <2> DEFINE id  == NewId(menus)
             row == [path |-> path, parent |-> parent, page |-> path]
  <2>1. id \in Nat \ {0} /\ id \notin DOMAIN menus
    BY <1>1, NewIdIsNew
  <2>2. IsRow(row)
    BY <1>4 DEF IsRow
  <2>3. menus' = [i \in DOMAIN menus \cup {id} |-> IF i \in DOMAIN menus THEN menus[i] ELSE row]
    BY <1>6 DEF CreateMenu
  <2> HIDE DEF id, row
  <2>4. IsFiniteSet(DOMAIN menus \cup {id})
    BY <1>1, FS_AddElement DEF IsTable
  <2>5. IsTable(menus')
    BY <1>1, <2>1, <2>2, <2>3, <2>4 DEF IsTable
  <2>6. QED
    BY <1>1, <1>6, <2>5 DEF CreateMenu
<1>7. ASSUME NEW r, DeleteRole(r) \/ CreateRole(r)
      PROVE  IsTable(menus') /\ DOMAIN allowed' = DOMAIN granted'
  BY <1>1, <1>7 DEF DeleteRole, CreateRole
<1>8. ASSUME NEW r, NEW ids, NEW routes, Authorize(r, ids, routes)
      PROVE  IsTable(menus') /\ DOMAIN allowed' = DOMAIN granted'
  BY <1>1, <1>8 DEF Authorize
<1>9. ASSUME (\E a \in apis : DeleteApi(a)) \/ RefreshApis
      PROVE  IsTable(menus') /\ DOMAIN allowed' = DOMAIN granted'
  BY <1>1, <1>9 DEF DeleteApi, RefreshApis, Refresh
<1>10. IsTable(menus') /\ DOMAIN allowed' = DOMAIN granted'
  BY <1>3, <1>5, <1>6, <1>7, <1>8, <1>9 DEF Edit
<1>11. QED
  BY <1>1, <1>10, NothingIsPromised

\* Every step of a seed.
LEMMA SeedOpens == SeedInv /\ Seed => SeedInv'
<1> SUFFICES ASSUME SeedInv, Seed
             PROVE  SeedInv'
  OBVIOUS
<1>1. CASE SeedBegins
  <2>1. step' = 1 /\ seeded' = FALSE /\ UNCHANGED <<menus, granted, allowed, apis>>
    BY <1>1 DEF SeedBegins
  <2>2. \A catalog \in CatalogPaths : ~(1 > CatalogStep(catalog)) /\ ~(1 > PagesStep(catalog))
    BY CatalogOrder
  <2>3. LayoutAt(1, menus')
    BY <2>2 DEF LayoutAt
  <2>4. GrantsAt(1, menus', granted', allowed', apis')
    BY <2>1 DEF SeedInv, GrantsAt
  <2>5. LayoutAt(step', menus') /\ GrantsAt(step', menus', granted', allowed', apis')
    BY <2>1, <2>3, <2>4
  <2>6. step' \in 0..19 /\ IsTable(menus')
    BY <2>1 DEF SeedInv
  <2>7. seeded' = FALSE /\ seeded' \in BOOLEAN /\ ~seeded'
    BY <2>1, Zenon
  <2>8. QED
    BY <2>5, <2>6, <2>7 DEF SeedInv
<1>2. CASE SeedStops
  <2>1. step' = 0 /\ seeded' = FALSE /\ IsTable(menus') /\ DOMAIN allowed' = DOMAIN granted'
    BY <1>2 DEF SeedInv, SeedStops, Stops, GrantsAt
  <2>2. QED
    BY <2>1, NothingIsPromised
<1>3. QED
  BY <1>1, <1>2, SeedsMenuOpens, SeedsSomePagesOpens, SeedsLedgerOpens, RetiresPagesOpens, SeedsApisOpens,
     SeedsRolesOpens, SeedsRolesPartlyOpens, SyncsParentsOpens, SeedsListedOpens, SeedsAdminOpens DEF Seed

\* Whatever stops a seed and whatever is edited in between, one that finishes opens the layout.
THEOREM LayoutIsOpened == AccessInit /\ [][AccessNext]_accessVars => []SeedOpensTheLayout
<1>1. AccessInit => SeedInv
  <2> SUFFICES ASSUME AccessInit
               PROVE  SeedInv
    OBVIOUS
  <2>1. step = 0 /\ seeded = FALSE /\ IsTable(menus)
    BY MenusAreTables DEF AccessInit
  <2>2. DOMAIN allowed = DOMAIN granted
    BY DEF AccessInit
  <2>3. LayoutAt(step, menus) /\ GrantsAt(step, menus, granted, allowed, apis)
    BY <2>1, <2>2, NoLayout DEF GrantsAt
  <2>4. step \in 0..19
    BY <2>1
  <2>5. seeded = FALSE /\ seeded \in BOOLEAN /\ ~seeded
    BY <2>1, Zenon
  <2>6. QED
    BY <2>1, <2>3, <2>4, <2>5 DEF SeedInv
<1>2. SeedInv /\ [AccessNext]_accessVars => SeedInv'
  <2>1. CASE UNCHANGED accessVars
    BY <2>1 DEF accessVars, SeedInv
  <2>2. QED
    BY <2>1, SeedOpens, EditOpens DEF AccessNext
<1>3. QED
  BY <1>1, <1>2, InvOpens, PTL
=============================================================================
