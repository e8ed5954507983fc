---------------------------- MODULE CallPresence ----------------------------
(***************************************************************************)
(* Who left an ongoing call: the Redis hash call:presence:<id> that each   *)
(* party's heartbeat writes (core/call_presence.py), and the billing       *)
(* passes that read it and force the call to end (core/call_watchdog.py).  *)
(* A pass is made by the watchdog and by every heartbeat after its own     *)
(* write.  Passes exclude each other by the lock on the call's row; the    *)
(* heartbeats' writes to Redis do not take that lock.                      *)
(*                                                                         *)
(* Timestamps are kept as ages in seconds, up to the age from which on     *)
(* nothing distinguishes them; the call is the only one in the hash.       *)
(***************************************************************************)
EXTENDS Integers

CONSTANTS
  Roles,        \* {"caller", "callee"} in the code
  Watchdog,     \* the leader's watchdog loop, as a maker of passes
  Nobody,
  None,         \* a field the hash does not have
  Detect,       \* call_presence_offline_detect_seconds
  Settle,       \* call_presence_settle_grace_seconds
  KeyTTL,       \* _CALL_PRESENCE_TTL_SECONDS
  Jitter,       \* most seconds between two heartbeats of a party that is there
  Interval,     \* most seconds the watchdog loop is away: its sleep, or an outage
  Prompt,       \* whether every started heartbeat and pass ends within its second
  MaxFailures   \* bound: failing Redis calls

ASSUME SecondsArePositive ==
  Detect \in Nat /\ Settle \in Nat /\ KeyTTL \in Nat \ {0} /\ Jitter \in Nat /\ Interval \in Nat /\ MaxFailures \in Nat
ASSUME MakersDiffer ==
  /\ Watchdog \notin Roles /\ Nobody \notin Roles \cup {Watchdog} /\ Prompt \in BOOLEAN
  /\ None \notin Nat \cup Roles

Makers == Roles \cup {Watchdog}

\* Ages above this one are alike: older than any of the times compared with.
Oldest == IF Jitter > Detect + Settle THEN Jitter + 1 ELSE Detect + Settle + 1

Ages == 0 .. Oldest

VARIABLES
  ended,      \* who was forced out of the call, Nobody, or None while it is ongoing
  endBasis,   \* what its end was counted from, see Basis
  connected,  \* seconds since connected_at
  seen,       \* {role}_last_seen_ms
  left,       \* {role}_left_candidate_ms
  hash,       \* seconds since the hash's expiry was renewed, None if it has none
  silence,    \* seconds since the last heartbeat of a role that Redis recorded
  sleep,      \* seconds since the watchdog loop last woke
  beaten,     \* roles with a recorded heartbeat
  gone,       \* roles that sent their last heartbeat
  lock,       \* the maker whose transaction holds the call_record row
  maker,      \* each maker's program counter and what its pass decided
  failures

vars == <<ended, endBasis, connected, seen, left, hash, silence, sleep, beaten, gone, lock, maker, failures>>

Idle == [pc |-> "idle", age |-> 0, clear |-> {}, mark |-> {}, exit |-> Nobody, basis |-> "none"]

Bases == {"none", "last_seen", "connected", "forgotten"}

Maker == [pc : {"idle", "unmark", "wait", "read", "write"}, age : Ages,
          clear : SUBSET Roles, mark : SUBSET Roles, exit : Roles \cup {Nobody},
          basis : Bases]

Init ==
  /\ ended = None /\ endBasis = "none" /\ connected = 0
  /\ seen = [r \in Roles |-> None] /\ left = [r \in Roles |-> None] /\ hash = None
  /\ silence = [r \in Roles |-> 0] /\ sleep = 0 /\ beaten = {} /\ gone = {}
  /\ lock = Nobody
  /\ maker = [m \in Makers |-> Idle]
  /\ failures = 0

Goto(m, pc) == maker' = [maker EXCEPT ![m].pc = pc]

-----------------------------------------------------------------------------
\* A party sends at most one heartbeat a second, over one connection.
Beats(r) ==
  /\ r \notin gone /\ ended = None /\ maker[r].pc = "idle"
  /\ silence[r] > 0 \/ r \notin beaten

\* A heartbeat finds the call ongoing and writes its last_seen.
BeatSeen(r) ==
  /\ Beats(r)
  /\ seen' = [seen EXCEPT ![r] = 0]
  /\ silence' = [silence EXCEPT ![r] = 0]
  /\ beaten' = beaten \cup {r}
  /\ Goto(r, "unmark")
  /\ UNCHANGED <<ended, endBasis, connected, left, hash, sleep, gone, lock, failures>>

RenewOnce == IF hash = None THEN 0 ELSE hash \* mutant of Renew
Renew     == 0

Unmark(r)   == [left EXCEPT ![r] = None]

\* It then takes back a left candidate and renews the hash's expiry.
BeatUnmark(r) ==
  /\ maker[r].pc = "unmark"
  /\ left' = Unmark(r)
  /\ hash' = Renew
  /\ Goto(r, "wait")
  /\ UNCHANGED <<ended, endBasis, connected, seen, silence, sleep, beaten, gone, lock, failures>>

\* A Redis error in either write is logged, and the heartbeat goes on to its pass.
BeatFails(r) ==
  /\ failures < MaxFailures
  /\ failures' = failures + 1
  /\ \/ Beats(r)
     \/ maker[r].pc = "unmark"
  /\ Goto(r, "wait")
  /\ UNCHANGED <<ended, endBasis, connected, seen, left, hash, silence, sleep, beaten, gone, lock>>

\* A party closes its app or loses its network for good.
Leave(r) ==
  /\ r \notin gone
  /\ gone' = gone \cup {r}
  /\ UNCHANGED <<ended, endBasis, connected, seen, left, hash, silence, sleep, beaten, lock, maker, failures>>

-----------------------------------------------------------------------------
WatchdogWakes ==
  /\ maker[Watchdog].pc = "idle" /\ ended = None
  /\ Goto(Watchdog, "wait")
  /\ sleep' = 0
  /\ UNCHANGED <<ended, endBasis, connected, seen, left, hash, silence, beaten, gone, lock, failures>>

LockFree == lock = Nobody

\* The pass locks the row of the call if it is still ongoing, and takes the time.
PassLock(m) ==
  /\ maker[m].pc = "wait" /\ LockFree
  /\ IF ended = None
     THEN lock' = m /\ maker' = [maker EXCEPT ![m].pc = "read", ![m].age = 0]
     ELSE lock' = lock /\ maker' = [maker EXCEPT ![m] = Idle]
  /\ UNCHANGED <<ended, endBasis, connected, seen, left, hash, silence, sleep, beaten, gone, failures>>

\* The age of a field when the pass took its time; a missing last_seen is connected_at.
Then(age, m) == IF age > maker[m].age THEN age - maker[m].age ELSE 0

LastSeen(r) == IF seen[r] = None THEN connected ELSE seen[r]

Stale(r, m) == Then(LastSeen(r), m) > Detect

StaleIsEnough(r, m) == Stale(r, m)                \* mutant of SettledOut
SettledOut(r, m)    == Stale(r, m) /\ left[r] # None /\ Then(left[r], m) >= Settle

\* The end is the last_seen of the one who left, or connected_at: because the
\* party never had a heartbeat, or because the hash has forgotten it.
Basis(exit) ==
  CASE exit = Nobody                               -> "none"
    [] exit # Nobody /\ seen[exit] # None           -> "last_seen"
    [] exit \in Roles \ beaten /\ seen[exit] = None -> "connected"
    [] OTHER                                       -> "forgotten"

MarkAgain(r, m) == Stale(r, m)               \* mutant of ToMark
ToMark(r, m)    == Stale(r, m) /\ left[r] = None

\* _resolve_force_exit_decision on the snapshot of the hash.
PassRead(m) ==
  LET out == {r \in Roles : SettledOut(r, m)}
  IN  /\ maker[m].pc = "read"
      /\ \E exit \in IF out = {} THEN {Nobody}
                     ELSE {r \in out : \A s \in out : LastSeen(r) >= LastSeen(s)} :
           maker' = [maker EXCEPT ![m].pc = "write", ![m].exit = exit, ![m].basis = Basis(exit),
                                  ![m].clear = {r \in Roles : ~Stale(r, m) /\ left[r] # None},
                                  ![m].mark  = {r \in Roles : ToMark(r, m)}]
      /\ UNCHANGED <<ended, endBasis, connected, seen, left, hash, silence, sleep, beaten, gone, lock, failures>>

\* One clear_left_candidate, one by one before the marks.
PassClear(m, r) ==
  /\ maker[m].pc = "write" /\ r \in maker[m].clear
  /\ left' = Unmark(r)
  /\ maker' = [maker EXCEPT ![m].clear = @ \ {r}]
  /\ UNCHANGED <<ended, endBasis, connected, seen, hash, silence, sleep, beaten, gone, lock, failures>>

\* One mark_left_candidate, with the time the pass took.
PassMark(m, r) ==
  /\ maker[m].pc = "write" /\ maker[m].clear = {} /\ r \in maker[m].mark
  /\ left' = [left EXCEPT ![r] = maker[m].age]
  /\ hash' = Renew
  /\ maker' = [maker EXCEPT ![m].mark = @ \ {r}]
  /\ UNCHANGED <<ended, endBasis, connected, seen, silence, sleep, beaten, gone, lock, failures>>

\* The pass ends the call if a party settled, commits, and lets go of the row.
PassCommit(m) ==
  /\ maker[m].pc = "write" /\ maker[m].clear = {} /\ maker[m].mark = {}
  /\ IF maker[m].exit = Nobody THEN UNCHANGED <<ended, endBasis>>
     ELSE ended' = maker[m].exit /\ endBasis' = maker[m].basis
  /\ lock' = Nobody
  /\ maker' = [maker EXCEPT ![m] = Idle]
  /\ UNCHANGED <<connected, seen, left, hash, silence, sleep, beaten, gone, failures>>

\* A Redis error in a pass rolls its transaction back.
PassFails(m) ==
  /\ failures < MaxFailures
  /\ failures' = failures + 1
  /\ maker[m].pc \in {"read", "write"}
  /\ lock' = Nobody
  /\ maker' = [maker EXCEPT ![m] = Idle]
  /\ UNCHANGED <<ended, endBasis, connected, seen, left, hash, silence, sleep, beaten, gone>>

-----------------------------------------------------------------------------
Older(age) == IF age = None THEN None ELSE IF age < Oldest THEN age + 1 ELSE Oldest

Expiring == hash # None /\ hash + 1 >= KeyTTL

(***************************************************************************)
(* A second passes.  A party that is there sends its next heartbeat within *)
(* Jitter seconds, once its connection is done with the one before.        *)
(***************************************************************************)
Tick ==
  /\ Prompt => \A m \in Makers : maker[m].pc = "idle"
  /\ ended = None
  /\ maker[Watchdog].pc = "idle" => sleep < Interval
  /\ \A r \in Roles \ gone : maker[r].pc = "idle" => silence[r] < Jitter
  /\ connected' = Older(connected)
  /\ seen' = [r \in Roles |-> IF Expiring THEN None ELSE Older(seen[r])]
  /\ left' = [r \in Roles |-> IF Expiring THEN None ELSE Older(left[r])]
  /\ hash' = IF Expiring \/ hash = None THEN None ELSE hash + 1
  /\ silence' = [r \in Roles |-> Older(silence[r])]
  /\ sleep' = IF sleep < Interval THEN sleep + 1 ELSE Interval
  /\ maker' = [m \in Makers |-> IF maker[m].pc \in {"read", "write"}
                                THEN [maker[m] EXCEPT !.age = Older(@)] ELSE maker[m]]
  /\ UNCHANGED <<ended, endBasis, beaten, gone, lock, failures>>

PassStep(m) ==
  \/ PassLock(m) \/ PassRead(m) \/ PassCommit(m)
  \/ \E r \in Roles : PassClear(m, r) \/ PassMark(m, r)

Next ==
  \/ \E r \in Roles : BeatSeen(r) \/ BeatUnmark(r) \/ BeatFails(r) \/ Leave(r)
  \/ WatchdogWakes
  \/ \E m \in Makers : PassStep(m) \/ PassFails(m)
  \/ Tick

Spec == Init /\ [][Next]_vars

\* Time passes, the loop of the watchdog and a client that is there go on, a started heartbeat and a started pass go on.
Fairness ==
  /\ SF_vars(Tick) /\ WF_vars(WatchdogWakes)
  /\ \A m \in Makers : WF_vars(PassRead(m) \/ PassCommit(m) \/ \E r \in Roles : PassClear(m, r) \/ PassMark(m, r))
  /\ \A m \in Makers : SF_vars(PassLock(m))
  /\ \A r \in Roles : WF_vars(BeatSeen(r) \/ BeatUnmark(r))

FairSpec == Spec /\ Fairness

-----------------------------------------------------------------------------
(***************************************************************************)
(* Every variable has its type, and exactly the maker that holds the row   *)
(* is between its read of the hash and its commit.                         *)
(***************************************************************************)
TypeOK ==
  /\ ended \in Roles \cup {None}
  /\ endBasis \in Bases /\ connected \in Ages
  /\ seen \in [Roles -> Ages \cup {None}]
  /\ left \in [Roles -> Ages \cup {None}]
  /\ hash \in 0 .. KeyTTL \cup {None}
  /\ silence \in [Roles -> Ages]
  /\ sleep \in 0 .. Interval
  /\ beaten \subseteq Roles /\ gone \subseteq Roles
  /\ lock \in Makers \cup {Nobody}
  /\ maker \in [Makers -> Maker]
  /\ failures \in 0 .. MaxFailures
  /\ \A m \in Makers : maker[m].pc \in {"read", "write"} <=> lock = m

(***************************************************************************)
(* A party that is there, and only stutters, is not forced out of the      *)
(* call, although its heartbeats come later than the detection time.       *)
(***************************************************************************)
PresentIsNotForcedOut == ended \in Roles => ended \in gone

\* A call that a party left for good is ended, whatever the other party does.
LeftCallEnds == \A r \in Roles : r \in gone ~> ended # None

(***************************************************************************)
(* A forced exit counts until the party was last seen, and until the       *)
(* call's start only if it never was: the hash outlives every pause of     *)
(* heartbeats and passes that is shorter than its expiry.                  *)
(***************************************************************************)
EndsAtLastSeen == endBasis # "forgotten"
=============================================================================
