------------------------------- MODULE Ranking -------------------------------
(***************************************************************************)
(* One board of the rankings (charm or wealth) in one kind of period.  Its *)
(* rows are a snapshot per period, computed anew by the first reader who   *)
(* finds it a minute old, or when an administrator asks.  A lock in Redis  *)
(* that expires by itself keeps refreshes apart; without Redis, or when no *)
(* snapshot shows up while another holds the lock, a refresh goes on       *)
(* without it.  A unit of time is half of a snapshot's life.  Users keep   *)
(* their good standing here: a banned one leaves the boards.               *)
(***************************************************************************)
EXTENDS Integers, FiniteSets

CONSTANTS
  Earners,          \* users with a score, as numbers
  Requests,       \* concurrent requests of the board
  PeriodLength, SnapshotLife, LockLife,
  Horizon,        \* bound on time
  MaxScore,       \* bound on a user's score in a period
  MaxFaults       \* bound on Redis failures

ASSUME EarnersAreIds   == IsFiniteSet(Earners) /\ Earners \subseteq Nat
ASSUME TimesAreNat     == PeriodLength \in Nat \ {0} /\ Horizon \in Nat
ASSUME NoneIsNoRequest == "none" \notin Requests

VARIABLES
  now,
  scores,         \* for every period start, what its users have earned in it
  board,          \* the snapshot of every period start: when, and its rows
  lock,           \* who took the refresh lock of each period, and until when
  request,        \* each request's point in the code and what it holds
  faults,
  loose           \* a refresh went on without the lock, or outlived it

rankVars == <<now, scores, board, lock, request, faults, loose>>

Starts          == {t \in 0..Horizon : t % PeriodLength = 0}
PeriodStart(t)  == t - (t % PeriodLength)

NoBoard == [at |-> -1, rows |-> <<>>]
NoLock  == [by |-> "none", until |-> 0]
Unasked == [pc |-> "idle", period |-> 0, force |-> FALSE, locked |-> FALSE, redis |-> FALSE,
            at |-> 0, rows |-> <<>>]

-----------------------------------------------------------------------------
\* Users with a score, the highest first, equal ones by their number.
Above(earned, u, v) == earned[u] > earned[v] \/ (earned[u] = earned[v] /\ u < v)
Ranked(earned) ==
  LET scorers == {u \in Earners : earned[u] > 0}
      rank(u) == Cardinality({v \in scorers : ~Above(earned, u, v)})
      nth(k)  == CHOOSE u \in scorers : rank(u) = k
  IN  [k \in 1..Cardinality(scorers) |-> [user |-> nth(k), score |-> earned[nth(k)]]]

\* A snapshot is its rows: one without rows is as good as none.
Exists(b)  == b.rows # <<>>
IsStale(b) == now - b.at >= SnapshotLife

RankInit ==
  /\ now = 0
  /\ scores = [p \in Starts |-> [u \in Earners |-> 0]]
  /\ board  = [p \in Starts |-> NoBoard]
  /\ lock   = [p \in Starts |-> NoLock]
  /\ request = [r \in Requests |-> Unasked]
  /\ faults = 0
  /\ loose = FALSE

\* Incomes and expenses count in the period their record was created in.
Earn(u) ==
  LET p == PeriodStart(now)
  IN  /\ scores[p][u] < MaxScore
      /\ scores' = [scores EXCEPT ![p][u] = @ + 1]
      /\ UNCHANGED <<now, board, lock, request, faults, loose>>

\* The lock of a refresh that takes too long expires under it.
Tick ==
  /\ now < Horizon
  /\ now' = now + 1
  /\ loose' = (loose \/ \E r \in Requests : request[r].pc = "computed" /\ request[r].locked
                                             /\ lock[request[r].period].until <= now + 1)
  /\ lock' = [p \in Starts |-> IF lock[p].until <= now + 1 THEN NoLock ELSE lock[p]]
  /\ UNCHANGED <<scores, board, request, faults>>

-----------------------------------------------------------------------------
\* A listing refreshes a missing or stale board, an administrator any.
Ask(r, force) ==
  LET p == PeriodStart(now)
  IN  /\ request[r].pc = "idle"
      /\ force \/ ~Exists(board[p]) \/ IsStale(board[p])
      /\ request' = [request EXCEPT ![r] = [Unasked EXCEPT !.pc = "locking", !.period = p, !.force = force]]
      /\ UNCHANGED <<now, scores, board, lock, faults, loose>>

LockIsNeverHeld(l) == TRUE                      \* mutant of LockIsFree
LockIsFree(l)      == l = NoLock

TakeLock(r) ==
  LET p    == request[r].period
      free == LockIsFree(lock[p])
  IN  /\ request[r].pc = "locking"
      /\ lock' = IF free THEN [lock EXCEPT ![p] = [by |-> r, until |-> now + LockLife]] ELSE lock
      /\ request' = [request EXCEPT ![r].pc = "deciding", ![r].locked = free, ![r].redis = TRUE]
      /\ UNCHANGED <<now, scores, board, faults, loose>>

\* A failing Redis counts as having taken the lock.
LockFails(r) ==
  /\ request[r].pc = "locking" /\ faults < MaxFaults
  /\ faults' = faults + 1
  /\ \E reached \in BOOLEAN :
        request' = [request EXCEPT ![r].pc = "deciding", ![r].locked = TRUE, ![r].redis = reached]
  /\ loose' = TRUE
  /\ UNCHANGED <<now, scores, board, lock>>

\* The board there is answers the request when Redis is away, when it is
\* fresh and nobody insists, or when another refreshes it.  The lock, if it
\* was taken, stays until it expires.
Spared(r) ==
  LET q == request[r]
      b == board[q.period]
  IN  Exists(b) /\ (~q.redis \/ (~q.force /\ ~IsStale(b)) \/ ~q.locked)

AnswerOld(r) ==
  /\ request[r].pc = "deciding" /\ Spared(r)
  /\ request' = [request EXCEPT ![r] = Unasked]
  /\ UNCHANGED <<now, scores, board, lock, faults, loose>>

\* Without a board and without the lock a request looks again for a second,
\* finds one, or computes it all the same.
Compute(r) ==
  /\ request[r].pc = "deciding" /\ ~Spared(r)
  /\ request' = [request EXCEPT ![r].pc = "computed", ![r].force = FALSE,
                                ![r].at = now, ![r].rows = Ranked(scores[request[r].period])]
  /\ loose' = (loose \/ ~request[r].locked \/ lock[request[r].period].by # r)
  /\ UNCHANGED <<now, scores, board, lock, faults>>

\* One transaction replaces the rows; who took the lock then deletes it, whosever it is
\* by now.
Replace(r) ==
  LET q == request[r]
  IN  /\ q.pc = "computed"
      /\ board' = [board EXCEPT ![q.period] = IF q.rows = <<>> THEN NoBoard
                                              ELSE [at |-> q.at, rows |-> q.rows]]
      /\ lock' = IF q.locked /\ q.redis THEN [lock EXCEPT ![q.period] = NoLock] ELSE lock
      /\ request' = [request EXCEPT ![r] = Unasked]
      /\ UNCHANGED <<now, scores, faults, loose>>

\* A request may fail, or its worker stop, before it is done.
Abandon(r) ==
  /\ request[r].pc \in {"deciding", "computed"}
  /\ request' = [request EXCEPT ![r] = Unasked]
  /\ UNCHANGED <<now, scores, board, lock, faults, loose>>

RankNext ==
  \/ Tick
  \/ \E u \in Earners : Earn(u)
  \/ \E r \in Requests : \/ \E force \in BOOLEAN : Ask(r, force)
                         \/ TakeLock(r) \/ LockFails(r) \/ AnswerOld(r)
                         \/ Compute(r) \/ Replace(r) \/ Abandon(r)

-----------------------------------------------------------------------------
\* A later board knows more of every user of the one before.
Overtakes(new, old) ==
  /\ new.at >= old.at
  /\ \A k \in DOMAIN old.rows : \E j \in DOMAIN new.rows :
        new.rows[j].user = old.rows[k].user /\ new.rows[j].score >= old.rows[k].score

BoardsAdvance == \A p \in Starts : Overtakes(board'[p], board[p])

(***************************************************************************)
(* As long as no refresh went on without the lock or outlived it, a board  *)
(* is only replaced by a later one: requests that overlap, one that gives  *)
(* up, or a lock left behind by a reader that found the board fresh never  *)
(* bring back scores that were already replaced, nor lose a user of it.    *)
(***************************************************************************)
BoardAdvances == [][loose \/ BoardsAdvance]_rankVars
=============================================================================
