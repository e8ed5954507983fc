--------------------------- MODULE WatchdogLeader ----------------------------
(***************************************************************************)
(* Which worker process runs the call watchdog: each runs the loop of      *)
(* run_call_watchdog, and the one that holds the Redis key watchdog:leader *)
(* (SET NX EX) makes the passes.  A worker remembers being the leader in a *)
(* local variable, and looks at the key only after a pass.                 *)
(***************************************************************************)
EXTENDS Integers

CONSTANTS
  Workers,
  Free,          \* the key does not exist
  Gone,          \* the key holds the pid of a process that is no more
  TTL,           \* _WATCHDOG_LEADER_TTL
  Cycle,         \* most seconds of one turn of the loop: a pass and its sleep
  MaxErrors,     \* bound: Redis calls that fail
  MaxRaises,     \* bound: turns in a row in which a pass or the load of the configuration raises
  MaxCrashes     \* bound: workers that die

ASSUME TimesAreSeconds == TTL \in Nat \ {0} /\ Cycle \in Nat \ {0}
ASSUME BoundsAreNat    == MaxErrors \in Nat /\ MaxRaises \in Nat /\ MaxCrashes \in Nat
ASSUME HoldersDiffer   == Free # Gone /\ Free \notin Workers /\ Gone \notin Workers

VARIABLES
  holder,        \* whose pid the key holds
  age,           \* seconds since the key's expiry was set
  pc,            \* where each worker's loop is
  isLeader,      \* its local variable is_leader
  turn,          \* seconds since its turn of the loop began
  raises,        \* its turns in a row that raised, so that it did not look at the key
  errors, crashes

leaderVars == <<holder, age, pc, isLeader, turn, raises, errors, crashes>>

Places == {"down", "start", "top", "refresh", "compete", "sleep"}

LeaderInit ==
  /\ holder = Free /\ age = 0
  /\ pc = [w \in Workers |-> "start"]
  /\ isLeader = [w \in Workers |-> FALSE]
  /\ turn = [w \in Workers |-> 0]
  /\ raises = [w \in Workers |-> 0]
  /\ errors = 0 /\ crashes = 0

LoopsTo(w, place) == pc' = [pc EXCEPT ![w] = place]

-----------------------------------------------------------------------------
AcquirableAnyway == TRUE                            \* mutant of Acquirable
Acquirable       == holder = Free

Looked(w) == raises' = [raises EXCEPT ![w] = 0]

\* try_acquire_watchdog_leader: SET NX EX; an error of Redis counts as a no.
TryAcquire(w) ==
  /\ Looked(w)
  /\ \/ /\ Acquirable
        /\ holder' = w /\ age' = 0
        /\ isLeader' = [isLeader EXCEPT ![w] = TRUE]
        /\ UNCHANGED errors
     \/ /\ \/ ~Acquirable /\ UNCHANGED errors
           \/ errors < MaxErrors /\ errors' = errors + 1
        /\ isLeader' = [isLeader EXCEPT ![w] = FALSE]
        /\ UNCHANGED <<holder, age>>

\* Before its loop a worker tries to become the leader.
Start(w) ==
  /\ pc[w] = "start"
  /\ TryAcquire(w)
  /\ LoopsTo(w, "top")
  /\ UNCHANGED <<turn, crashes>>

MayPass(w)       == isLeader[w]

\* The leader's two passes; it does not look at the key first.
Pass(w) ==
  /\ pc[w] = "top" /\ MayPass(w)
  /\ LoopsTo(w, "refresh")
  /\ UNCHANGED <<holder, age, isLeader, turn, errors, raises, crashes>>

\* A pass raises, or the load of the configuration before it: no refresh in this turn.
PassRaises(w) ==
  /\ raises[w] < MaxRaises
  /\ raises' = [raises EXCEPT ![w] = @ + 1]
  /\ pc[w] = "top"
  /\ LoopsTo(w, "sleep")
  /\ UNCHANGED <<holder, age, isLeader, turn, errors, crashes>>

\* refresh_watchdog_leader extends the key only if it holds the worker's own pid.
Refresh(w) ==
  /\ pc[w] = "refresh"
  /\ \/ /\ holder = w
        /\ age' = 0
        /\ Looked(w)
        /\ LoopsTo(w, "sleep")
        /\ UNCHANGED errors
     \/ /\ \/ holder # w /\ UNCHANGED errors
           \/ errors < MaxErrors /\ errors' = errors + 1
        /\ LoopsTo(w, "compete")
        /\ UNCHANGED <<age, raises>>
  /\ UNCHANGED <<holder, isLeader, turn, crashes>>

\* A leader that could not refresh competes, and so does a follower every turn.
Compete(w) ==
  /\ \/ pc[w] = "compete"
     \/ pc[w] = "top" /\ ~isLeader[w]
  /\ TryAcquire(w)
  /\ LoopsTo(w, "sleep")
  /\ UNCHANGED <<turn, crashes>>

Wake(w) ==
  /\ pc[w] = "sleep"
  /\ LoopsTo(w, "top")
  /\ turn' = [turn EXCEPT ![w] = 0]
  /\ UNCHANGED <<holder, age, isLeader, errors, raises, crashes>>

\* A worker dies; its key lives on until it expires.
Crash(w) ==
  /\ crashes < MaxCrashes
  /\ crashes' = crashes + 1
  /\ pc[w] # "down"
  /\ LoopsTo(w, "down")
  /\ holder' = IF holder = w THEN Gone ELSE holder
  /\ isLeader' = [isLeader EXCEPT ![w] = FALSE]
  /\ UNCHANGED <<age, turn, errors, raises>>

\* A new process takes its place.
Restart(w) ==
  /\ pc[w] = "down"
  /\ LoopsTo(w, "start")
  /\ turn' = [turn EXCEPT ![w] = 0]
  /\ UNCHANGED <<holder, age, isLeader, errors, raises, crashes>>

NeverExpires == FALSE                               \* mutant of KeyExpiring
KeyExpiring  == holder # Free /\ age + 1 >= TTL

LeaderTick ==
  /\ \A w \in Workers : pc[w] # "down" => turn[w] < Cycle
  /\ holder' = IF KeyExpiring THEN Free ELSE holder
  /\ age' = IF KeyExpiring \/ age + 1 > TTL THEN 0 ELSE age + 1
  /\ turn' = [w \in Workers |-> IF pc[w] = "down" THEN 0 ELSE turn[w] + 1]
  /\ UNCHANGED <<pc, isLeader, errors, raises, crashes>>

Step(w) == Start(w) \/ Pass(w) \/ Refresh(w) \/ Compete(w) \/ Wake(w)

LeaderNext ==
  \/ \E w \in Workers : Step(w) \/ PassRaises(w) \/ Crash(w) \/ Restart(w)
  \/ LeaderTick

LeaderSpec == LeaderInit /\ [][LeaderNext]_leaderVars

\* Time passes and the loop of a worker that is up goes on.
LeaderFairness == SF_leaderVars(LeaderTick) /\ \A w \in Workers : WF_leaderVars(Step(w))

LeaderFairSpec == LeaderSpec /\ LeaderFairness

-----------------------------------------------------------------------------
(***************************************************************************)
(* Every variable has its type, a worker that is down is no leader, and    *)
(* only a leader makes passes and refreshes.                               *)
(***************************************************************************)
LeaderTypeOK ==
  /\ holder \in Workers \cup {Free, Gone} /\ age \in 0 .. TTL
  /\ pc \in [Workers -> Places]
  /\ isLeader \in [Workers -> BOOLEAN]
  /\ turn \in [Workers -> 0 .. Cycle]
  /\ raises \in [Workers -> 0 .. MaxRaises]
  /\ errors \in 0 .. MaxErrors /\ crashes \in 0 .. MaxCrashes
  /\ \A w \in Workers : /\ pc[w] \in {"down", "start"} => ~isLeader[w]
                        /\ pc[w] \in {"refresh", "compete"} => isLeader[w]

(***************************************************************************)
(* Never do two workers take themselves for the leader: "SET NX EX ensures *)
(* that it is unique".                                                     *)
(***************************************************************************)
OneLeader == \A v, w \in Workers : isLeader[v] /\ isLeader[w] => v = w

(***************************************************************************)
(* A leader that dies, or that Redis made give up, is followed by another  *)
(* once the key has expired.                                               *)
(***************************************************************************)
SomeoneLeads == []<>(\E w \in Workers : isLeader[w])
=============================================================================
