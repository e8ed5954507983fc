--------------------------- MODULE WatchdogProofs ----------------------------
(***************************************************************************)
(* Proofs about the two parts of the call watchdog.  About CallPresence:   *)
(* its types, that a party that is there is not forced out of the call,    *)
(* however the heartbeats and the passes of the three makers interleave    *)
(* within a second, and that one who left is seen as of when it left.      *)
(* About WatchdogLeader: its types, and that no two workers take           *)
(* themselves for the leader if the key outlives the turns in which a      *)
(* leader does not look at it.                                             *)
(***************************************************************************)
EXTENDS CallPresence, WatchdogLeader, TLAPS

(***************************************************************************)
(* The times are such that a party that is there can be taken for one that *)
(* left only for less than the settling time, and heartbeats and passes    *)
(* are done within the second; of the Redis calls at most one fails.       *)
(***************************************************************************)
Tolerant == Prompt /\ Jitter < Settle /\ MaxFailures <= 1

AgesOK == Oldest \in Nat /\ Jitter < Oldest /\ None \notin Ages

\* The greatest age is beyond the jitter, and none is the mark of an empty field.
LEMMA OldestIsOld == AgesOK
  BY SecondsArePositive, MakersDiffer DEF AgesOK, Oldest, Ages

\* A maker at rest is a maker.
LEMMA IdleIsMaker == Idle \in Maker
  BY OldestIsOld DEF Idle, Maker, AgesOK, Ages, Bases

\* The first state has its types.
LEMMA PresenceTypesInit == Init => TypeOK
<1>1. Idle.pc = "idle" /\ 0 \in Ages
  BY OldestIsOld DEF Idle, Ages, AgesOK
<1>2. QED
  BY <1>1, IdleIsMaker, SecondsArePositive, MakersDiffer DEF Init, TypeOK, Bases, Makers

\* A second makes no age less than it was, and keeps the order of two.
LEMMA OlderKeepsOrder ==
  /\ \A a \in Ages : Older(a) \in Ages /\ Older(a) # None
  /\ Older(None) = None
  /\ \A a, b \in Ages : a <= b => Older(a) <= Older(b)
  /\ \A a \in Ages : a < Jitter => Older(a) <= Jitter
<1>1. Jitter \in Nat
  BY SecondsArePositive
<1>2. QED
  BY <1>1, OldestIsOld, MakersDiffer DEF Older, Ages, AgesOK

\* A maker whose counter moves stays one.
LEMMA GoesTyped ==
  ASSUME TypeOK, NEW m \in Makers, NEW place \in {"idle", "unmark", "wait", "read", "write"}, Goto(m, place)
  PROVE  /\ maker' \in [Makers -> Maker]
         /\ maker'[m].pc = place
         /\ \A o \in Makers \ {m} : maker'[o] = maker[o]
<1>1. maker[m] \in Maker
  BY DEF TypeOK
<1>2. [maker[m] EXCEPT !.pc = place] \in Maker /\ [maker[m] EXCEPT !.pc = place].pc = place
  BY <1>1 DEF Maker
<1>3. maker' = [maker EXCEPT ![m] = [maker[m] EXCEPT !.pc = place]]
  BY DEF Goto
<1>4. QED
  BY <1>2, <1>3 DEF TypeOK

\* Every step keeps the types and the row's lock with the maker that reads and writes.
THEOREM PresenceTypes == Spec => []TypeOK
<1> USE SecondsArePositive, MakersDiffer
<1>1. Init => TypeOK
  BY PresenceTypesInit
<1>2. TypeOK /\ [Next]_vars => TypeOK'
  <2> SUFFICES ASSUME TypeOK, [Next]_vars
               PROVE  TypeOK'
    OBVIOUS
  <2>1. ASSUME NEW r \in Roles, BeatSeen(r)
        PROVE  TypeOK'
    <3>1. r \in Makers /\ Goto(r, "unmark") /\ maker[r].pc = "idle"
      BY <2>1 DEF Makers, BeatSeen, Beats
    <3>2. /\ maker' \in [Makers -> Maker] /\ maker'[r].pc = "unmark"
          /\ \A o \in Makers \ {r} : maker'[o] = maker[o]
      BY <3>1, GoesTyped
    <3>3. QED
      BY <2>1, <3>1, <3>2, OldestIsOld DEF BeatSeen, TypeOK, Ages, AgesOK
  <2>2. ASSUME NEW r \in Roles, BeatUnmark(r)
        PROVE  TypeOK'
    <3>1. r \in Makers /\ Goto(r, "wait") /\ maker[r].pc = "unmark"
      BY <2>2 DEF Makers, BeatUnmark
    <3>2. /\ maker' \in [Makers -> Maker] /\ maker'[r].pc = "wait"
          /\ \A o \in Makers \ {r} : maker'[o] = maker[o]
      BY <3>1, GoesTyped
    <3>3. QED
      BY <2>2, <3>1, <3>2 DEF BeatUnmark, TypeOK, Unmark, Renew
  <2>3. ASSUME NEW r \in Roles, BeatFails(r)
        PROVE  TypeOK'
    <3>1. r \in Makers /\ Goto(r, "wait") /\ maker[r].pc \in {"idle", "unmark"}
      BY <2>3 DEF Makers, BeatFails, Beats
    <3>2. /\ maker' \in [Makers -> Maker] /\ maker'[r].pc = "wait"
          /\ \A o \in Makers \ {r} : maker'[o] = maker[o]
      BY <3>1, GoesTyped
    <3>3. QED
      BY <2>3, <3>1, <3>2 DEF BeatFails, TypeOK
  <2>4. ASSUME NEW r \in Roles, Leave(r)
        PROVE  TypeOK'
    BY <2>4 DEF Leave, TypeOK
  <2>5. CASE WatchdogWakes
    <3>1. Watchdog \in Makers /\ Goto(Watchdog, "wait") /\ maker[Watchdog].pc = "idle"
      BY <2>5 DEF Makers, WatchdogWakes
    <3>2. /\ maker' \in [Makers -> Maker] /\ maker'[Watchdog].pc = "wait"
          /\ \A o \in Makers \ {Watchdog} : maker'[o] = maker[o]
      BY <3>1, GoesTyped
    <3>3. QED
      BY <2>5, <3>1, <3>2 DEF WatchdogWakes, TypeOK
  <2>6. ASSUME NEW m \in Makers, PassLock(m)
        PROVE  TypeOK'
    <3> DEFINE t == [maker[m] EXCEPT !.pc = "read", !.age = 0]
    <3>1. maker[m] \in Maker /\ t \in Maker /\ t.pc = "read" /\ Idle.pc = "idle"
      <4>1. 0 \in Ages /\ maker[m] \in Maker
        BY OldestIsOld DEF TypeOK, Ages, AgesOK
      <4>2. t \in Maker /\ t.pc = "read"
        BY <4>1 DEF Maker
      <4>3. QED
        BY <4>1, <4>2 DEF Idle
    <3>2. \/ lock' = m /\ maker' = [maker EXCEPT ![m] = t]
          \/ lock' = lock /\ maker' = [maker EXCEPT ![m] = Idle]
      BY <2>6 DEF PassLock
    <3> HIDE DEF t
    <3>3. /\ maker[m].pc = "wait" /\ lock = Nobody
          /\ UNCHANGED <<ended, endBasis, connected, seen, left, hash, silence, sleep, beaten, gone, failures>>
      BY <2>6 DEF PassLock, LockFree
    <3>4. Nobody \notin Makers
      BY DEF Makers
    <3>5. QED
      BY <3>1, <3>2, <3>3, <3>4, IdleIsMaker DEF TypeOK
  <2>7. ASSUME NEW m \in Makers, PassRead(m)
        PROVE  TypeOK'
    <3>1. PICK exit \in Roles \cup {Nobody} :
            maker' = [maker EXCEPT ![m].pc = "write", ![m].exit = exit, ![m].basis = Basis(exit),
                                   ![m].clear = {r \in Roles : ~Stale(r, m) /\ left[r] # None},
                                   ![m].mark  = {r \in Roles : ToMark(r, m)}]
      BY <2>7 DEF PassRead
    <3> DEFINE clear == {r \in Roles : ~Stale(r, m) /\ left[r] # None}
               mark == {r \in Roles : ToMark(r, m)}
               basis == Basis(exit)
               t == [maker[m] EXCEPT !.pc = "write", !.exit = exit, !.basis = basis,
                                     !.clear = clear, !.mark = mark]
    <3>2. maker' = [maker EXCEPT ![m] = t]
      BY <3>1
    <3>3. /\ maker[m] \in Maker /\ clear \in SUBSET Roles /\ mark \in SUBSET Roles /\ basis \in Bases
      BY DEF TypeOK, Basis, Bases
    <3> HIDE DEF clear, mark, basis
    <3>4. t \in Maker /\ t.pc = "write"
      BY <3>3 DEF Maker
    <3> HIDE DEF t
    <3>5. /\ maker[m].pc = "read"
          /\ UNCHANGED <<ended, endBasis, connected, seen, left, hash, silence, sleep, beaten, gone, lock, failures>>
      BY <2>7 DEF PassRead
    <3>6. QED
      BY <3>2, <3>4, <3>5 DEF TypeOK
  <2>8. ASSUME NEW m \in Makers, NEW r \in Roles, PassClear(m, r) \/ PassMark(m, r)
        PROVE  TypeOK'
    <3>1. PICK field \in {"clear", "mark"} : maker' = [maker EXCEPT ![m][field] = @ \ {r}]
      BY <2>8 DEF PassClear, PassMark
    <3> DEFINE t == [maker[m] EXCEPT ![field] = @ \ {r}]
    <3>2. maker' = [maker EXCEPT ![m] = t]
      BY <3>1
    <3>3. maker[m] \in Maker /\ maker[m].age \in Ages
      BY DEF TypeOK, Maker
    <3>4. t \in Maker /\ t.pc = maker[m].pc
      <4>1. CASE field = "clear"
        BY <3>3, <4>1 DEF Maker
      <4>2. CASE field = "mark"
        BY <3>3, <4>2 DEF Maker
      <4>3. QED
        BY <4>1, <4>2
    <3> HIDE DEF t
    <3>5. /\ left' \in [Roles -> Ages \cup {None}] /\ hash' \in 0 .. KeyTTL \cup {None}
          /\ UNCHANGED <<ended, endBasis, connected, seen, silence, sleep, beaten, gone, lock, failures>>
      BY <2>8, <3>3 DEF PassClear, PassMark, Unmark, Renew, TypeOK
    <3>6. QED
      BY <3>2, <3>4, <3>5 DEF TypeOK
  <2>9. ASSUME NEW m \in Makers, PassCommit(m) \/ PassFails(m)
        PROVE  TypeOK'
    <3>1. /\ maker[m].pc \in {"read", "write"} /\ lock' = Nobody /\ maker' = [maker EXCEPT ![m] = Idle]
          /\ UNCHANGED <<connected, seen, left, hash, silence, sleep, beaten, gone>>
      BY <2>9 DEF PassCommit, PassFails
    <3>2. ended' \in Roles \cup {None} /\ endBasis' \in Bases /\ failures' \in 0 .. MaxFailures
      <4>1. maker[m].exit \in Roles \cup {Nobody} /\ maker[m].basis \in Bases
        BY DEF TypeOK, Maker
      <4>2. QED
        BY <2>9, <4>1 DEF PassCommit, PassFails, TypeOK
    <3>3. Idle.pc = "idle" /\ Nobody \notin Makers /\ lock = m
      BY <3>1 DEF Idle, Makers, TypeOK
    <3>4. QED
      BY <3>1, <3>2, <3>3, IdleIsMaker DEF TypeOK
  <2>10. CASE Tick
    <3>1. /\ connected' = Older(connected)
          /\ seen' = [r \in Roles |-> IF Expiring THEN None ELSE Older(seen[r])]
          /\ left' = [r \in Roles |-> IF Expiring THEN None ELSE Older(left[r])]
          /\ hash' = IF Expiring \/ hash = None THEN None ELSE hash + 1
          /\ silence' = [r \in Roles |-> Older(silence[r])]
          /\ sleep' = IF sleep < Interval THEN sleep + 1 ELSE Interval
          /\ maker' = [m \in Makers |-> IF maker[m].pc \in {"read", "write"}
                                        THEN [maker[m] EXCEPT !.age = Older(@)] ELSE maker[m]]
          /\ UNCHANGED <<ended, endBasis, beaten, gone, lock, failures>>
      BY <2>10 DEF Tick
    <3>2. /\ connected' \in Ages /\ silence' \in [Roles -> Ages]
          /\ seen' \in [Roles -> Ages \cup {None}] /\ left' \in [Roles -> Ages \cup {None}]
      BY <3>1, OlderKeepsOrder DEF TypeOK
    <3>3. hash' \in 0 .. KeyTTL \cup {None} /\ sleep' \in 0 .. Interval
      BY <3>1 DEF TypeOK, Expiring
    <3>4. ASSUME NEW m \in Makers
          PROVE  maker'[m] \in Maker /\ maker'[m].pc = maker[m].pc
      <4>1. maker[m] \in Maker /\ maker[m].age \in Ages
        BY DEF TypeOK, Maker
      <4>2. Older(maker[m].age) \in Ages
        BY <4>1, OlderKeepsOrder
      <4>3. /\ [maker[m] EXCEPT !.age = Older(@)] \in Maker
            /\ [maker[m] EXCEPT !.age = Older(@)].pc = maker[m].pc
        BY <4>1, <4>2 DEF Maker
      <4>4. QED
        BY <3>1, <4>1, <4>3
    <3>5. maker' \in [Makers -> Maker]
      BY <3>1, <3>4
    <3>6. QED
      BY <3>1, <3>2, <3>3, <3>4, <3>5 DEF TypeOK
  <2>11. CASE UNCHANGED vars
    BY <2>11 DEF vars, TypeOK
  <2>12. QED
    BY <2>1, <2>2, <2>3, <2>4, <2>5, <2>6, <2>7, <2>8, <2>9, <2>10, <2>11 DEF Next, PassStep
<1>3. QED
  BY <1>1, <1>2, PTL DEF Spec
-----------------------------------------------------------------------------
(***************************************************************************)
(* A left candidate is no older than the silence of its party; or its      *)
(* party was seen this second, and is about to take it back, by the second *)
(* write of its heartbeat or, when that one failed, by its own pass.       *)
(***************************************************************************)
TakesBack(r) ==
  \/ maker[r].pc = "unmark"
  \/ /\ failures = MaxFailures
     /\ \/ maker[r].pc \in {"wait", "read"}
        \/ maker[r].pc = "write" /\ r \in maker[r].clear

MarkOK(r) == left[r] # None => left[r] <= silence[r] \/ (seen[r] = 0 /\ TakesBack(r))

(***************************************************************************)
(* The inductive invariant: a party that is there was heard of in time and *)
(* its left candidate is young, passes take the time of the second, and    *)
(* none has decided against a party that is there.                         *)
(***************************************************************************)
PresentInv ==
  /\ TypeOK
  /\ \A m \in Makers : maker[m].age = 0 /\ (maker[m].exit \in Roles => maker[m].exit \in gone)
  /\ lock # Nobody => ended = None
  /\ ended = None => \A r \in Roles \ gone : silence[r] <= Jitter /\ MarkOK(r)
  /\ PresentIsNotForcedOut

\* No pass finds that a party left which did not.
LEMMA NobodyThereSettles ==
  ASSUME Tolerant, PresentInv, ended = None, NEW m \in Makers, NEW r \in Roles \ gone
  PROVE  ~SettledOut(r, m)
<1> SUFFICES ASSUME SettledOut(r, m)
             PROVE  FALSE
  OBVIOUS
<1>1. /\ Stale(r, m) /\ left[r] # None /\ Then(left[r], m) >= Settle /\ maker[m].age = 0
      /\ left[r] \in Nat /\ silence[r] \in Nat /\ silence[r] <= Jitter
  BY OldestIsOld DEF SettledOut, PresentInv, TypeOK, Ages, AgesOK
<1>2. Then(left[r], m) = left[r]
  BY <1>1 DEF Then
<1>3. left[r] > silence[r]
  BY <1>1, <1>2, SecondsArePositive DEF Tolerant
<1>4. seen[r] = 0
  BY <1>1, <1>3 DEF PresentInv, MarkOK
<1>5. LastSeen(r) = 0
  BY <1>4, MakersDiffer DEF LastSeen
<1>6. Then(LastSeen(r), m) = 0
  BY <1>1, <1>5 DEF Then
<1>7. QED
  BY <1>1, <1>6, SecondsArePositive DEF Stale

(***************************************************************************)
(* If the times are tolerant, the invariant holds whatever the parties and *)
(* the makers of passes do, and in whatever order they do it in a second.  *)
(***************************************************************************)
THEOREM PresenceInvariant == Tolerant => (Spec => []PresentInv)
<1> SUFFICES ASSUME Tolerant
             PROVE  Spec => []PresentInv
  OBVIOUS
<1>1. Init => PresentInv
  <2>1. Init => TypeOK
    BY PresenceTypesInit
  <2>2. Idle.age = 0 /\ Idle.exit = Nobody
    BY DEF Idle
  <2>3. QED
    BY <2>1, <2>2, MakersDiffer, SecondsArePositive DEF Init, PresentInv, MarkOK, PresentIsNotForcedOut
<1>2. PresentInv /\ TypeOK' /\ [Next]_vars => PresentInv'
  <2> SUFFICES ASSUME PresentInv, TypeOK', [Next]_vars
               PROVE  PresentInv'
    OBVIOUS
  <2> USE MakersDiffer, SecondsArePositive
  <2>0. \A m \in Makers : maker[m] \in Maker
    BY DEF PresentInv, TypeOK
  <2>1. ASSUME NEW r \in Roles, NEW place \in {"unmark", "wait"}, Goto(r, place), maker[r].pc \in {"idle", "unmark"},
               UNCHANGED <<ended, gone, lock>>,
               \A q \in Roles \ {r} : left'[q] = left[q] /\ silence'[q] = silence[q] /\ seen'[q] = seen[q],
               r \notin gone /\ ended = None => silence'[r] <= Jitter /\ MarkOK(r)',
               failures' = failures \/ failures' = MaxFailures
        PROVE  PresentInv'
    <3>1. /\ maker'[r].age = maker[r].age /\ maker'[r].exit = maker[r].exit
          /\ \A o \in Makers \ {r} : maker'[o] = maker[o]
      BY <2>0, <2>1 DEF Goto, Makers, PresentInv, TypeOK, Maker
    <3>2. ASSUME NEW q \in Roles \ gone, q # r, ended = None
          PROVE  silence'[q] <= Jitter /\ MarkOK(q)'
      BY <2>1, <3>1, <3>2 DEF PresentInv, MarkOK, TakesBack, Makers
    <3>3. QED
      BY <2>1, <3>1, <3>2 DEF PresentInv, PresentIsNotForcedOut, Makers
  <2>2. ASSUME NEW r \in Roles, BeatSeen(r)
        PROVE  PresentInv'
    <3>1. /\ Goto(r, "unmark") /\ maker[r].pc = "idle" /\ UNCHANGED <<ended, gone, lock, left, failures>>
          /\ seen' = [seen EXCEPT ![r] = 0] /\ silence' = [silence EXCEPT ![r] = 0]
      BY <2>2 DEF BeatSeen, Beats
    <3>2. seen'[r] = 0 /\ silence'[r] = 0 /\ maker'[r].pc = "unmark"
      BY <3>1, GoesTyped DEF PresentInv, TypeOK, Makers
    <3>3. silence'[r] <= Jitter /\ MarkOK(r)'
      BY <3>2 DEF MarkOK, TakesBack
    <3>4. \A q \in Roles \ {r} : silence'[q] = silence[q] /\ seen'[q] = seen[q]
      BY <3>1 DEF PresentInv, TypeOK
    <3>5. QED
      BY <2>1, <3>1, <3>3, <3>4
  <2>3. ASSUME NEW r \in Roles, BeatUnmark(r)
        PROVE  PresentInv'
    <3>1. /\ Goto(r, "wait") /\ maker[r].pc = "unmark"
          /\ UNCHANGED <<ended, gone, lock, seen, silence, failures>>
          /\ left' = [left EXCEPT ![r] = None]
      BY <2>3 DEF BeatUnmark, Unmark
    <3>2. left'[r] = None /\ \A q \in Roles \ {r} : left'[q] = left[q]
      BY <3>1 DEF PresentInv, TypeOK
    <3>3. r \notin gone /\ ended = None => silence'[r] <= Jitter /\ MarkOK(r)'
      BY <3>1, <3>2 DEF PresentInv, MarkOK
    <3>4. QED
      BY <2>1, <3>1, <3>2, <3>3
  <2>4. ASSUME NEW r \in Roles, BeatFails(r)
        PROVE  PresentInv'
    <3>1. /\ Goto(r, "wait") /\ maker[r].pc \in {"idle", "unmark"}
          /\ UNCHANGED <<ended, gone, lock, seen, left, silence>>
          /\ failures < MaxFailures /\ failures' = failures + 1
      BY <2>4 DEF BeatFails, Beats
    <3>2. failures' = MaxFailures
      BY <3>1 DEF Tolerant, PresentInv, TypeOK
    <3>3. maker'[r].pc = "wait"
      BY <3>1, GoesTyped DEF PresentInv, Makers
    <3>4. r \notin gone /\ ended = None => silence'[r] <= Jitter /\ MarkOK(r)'
      BY <3>1, <3>2, <3>3 DEF PresentInv, MarkOK, TakesBack
    <3>5. QED
      BY <2>1, <3>1, <3>2, <3>4
  <2>5. ASSUME NEW r \in Roles, Leave(r)
        PROVE  PresentInv'
    BY <2>5 DEF Leave, PresentInv, MarkOK, TakesBack, PresentIsNotForcedOut
  <2>6. CASE WatchdogWakes
    <3>1. /\ Goto(Watchdog, "wait")
          /\ UNCHANGED <<ended, gone, lock, seen, left, silence, failures>>
      BY <2>6 DEF WatchdogWakes
    <3>2. /\ maker'[Watchdog].age = maker[Watchdog].age /\ maker'[Watchdog].exit = maker[Watchdog].exit
          /\ \A o \in Makers \ {Watchdog} : maker'[o] = maker[o]
      BY <2>0, <3>1 DEF Goto, Makers, PresentInv, TypeOK, Maker
    <3>3. \A r \in Roles : maker'[r] = maker[r]
      BY <3>2 DEF Makers
    <3>4. QED
      BY <3>1, <3>2, <3>3 DEF PresentInv, MarkOK, TakesBack, PresentIsNotForcedOut
  <2>7. ASSUME NEW m \in Makers, PassLock(m)
        PROVE  PresentInv'
    <3> DEFINE t == [maker[m] EXCEPT !.pc = "read", !.age = 0]
    <3>1. /\ maker[m].pc = "wait" /\ UNCHANGED <<ended, seen, left, silence, gone, failures>>
          /\ IF ended = None THEN lock' = m /\ maker' = [maker EXCEPT ![m] = t]
             ELSE lock' = lock /\ maker' = [maker EXCEPT ![m] = Idle]
      BY <2>7 DEF PassLock
    <3>2. t.pc = "read" /\ t.age = 0 /\ t.exit = maker[m].exit /\ Idle.age = 0 /\ Idle.exit = Nobody
      BY <2>0 DEF Maker, Idle
    <3> HIDE DEF t
    <3>3. CASE ended = None
      <4>1. maker' = [maker EXCEPT ![m] = t] /\ lock' = m
        BY <3>1, <3>3
      <4>2. maker'[m] = t /\ \A o \in Makers \ {m} : maker'[o] = maker[o]
        BY <4>1 DEF PresentInv, TypeOK
      <4>3. ASSUME NEW r \in Roles \ gone
            PROVE  MarkOK(r)'
        BY <3>1, <3>2, <3>3, <4>2 DEF PresentInv, MarkOK, TakesBack, Makers
      <4>4. QED
        BY <3>1, <3>2, <3>3, <4>1, <4>2, <4>3 DEF PresentInv, PresentIsNotForcedOut
    <3>4. CASE ended # None
      <4>1. maker'[m] = Idle /\ \A o \in Makers \ {m} : maker'[o] = maker[o]
        BY <3>1, <3>4 DEF PresentInv, TypeOK
      <4>2. QED
        BY <3>1, <3>2, <3>4, <4>1 DEF PresentInv, PresentIsNotForcedOut
    <3>5. QED
      BY <3>3, <3>4
  <2>8. ASSUME NEW m \in Makers, PassRead(m)
        PROVE  PresentInv'
    <3> DEFINE clear == {r \in Roles : ~Stale(r, m) /\ left[r] # None}
               mark == {r \in Roles : ToMark(r, m)}
               out == {r \in Roles : SettledOut(r, m)}
    <3>1. /\ maker[m].pc = "read" /\ UNCHANGED <<ended, seen, left, silence, gone, lock, failures>>
          /\ \E exit \in out \cup {Nobody} :
               maker' = [maker EXCEPT ![m].pc = "write", ![m].exit = exit, ![m].basis = Basis(exit),
                                      ![m].clear = clear, ![m].mark = mark]
      BY <2>8 DEF PassRead
    <3>2. ended = None
      BY <3>1 DEF PresentInv, TypeOK, Makers
    <3>3. PICK exit \in out \cup {Nobody} :
            maker' = [maker EXCEPT ![m].pc = "write", ![m].exit = exit, ![m].basis = Basis(exit),
                                   ![m].clear = clear, ![m].mark = mark]
      BY <3>1
    <3>4. out \subseteq gone
      BY <3>2, NobodyThereSettles
    <3>5. \A r \in Roles : seen[r] = 0 /\ left[r] # None => r \in clear
      <4>1. ASSUME NEW r \in Roles, seen[r] = 0
            PROVE  ~Stale(r, m)
        BY <4>1 DEF Stale, LastSeen, Then, PresentInv
      <4>2. QED
        BY <4>1
    <3> DEFINE basis == Basis(exit)
    <3> HIDE DEF clear, mark, out, basis
    <3> DEFINE t == [maker[m] EXCEPT !.pc = "write", !.exit = exit, !.basis = basis,
                                     !.clear = clear, !.mark = mark]
    <3>6. maker' = [maker EXCEPT ![m] = t]
      BY <3>3 DEF basis
    <3>7. t.pc = "write" /\ t.age = maker[m].age /\ t.exit = exit /\ t.clear = clear
      BY <2>0 DEF Maker
    <3> HIDE DEF t
    <3>8. maker'[m] = t /\ \A o \in Makers \ {m} : maker'[o] = maker[o]
      BY <3>6 DEF PresentInv, TypeOK
    <3>9. ASSUME NEW r \in Roles \ gone
          PROVE  MarkOK(r)'
      BY <3>1, <3>2, <3>5, <3>7, <3>8 DEF PresentInv, MarkOK, TakesBack, Makers
    <3>10. exit \in Roles => exit \in gone
      BY <3>3, <3>4
    <3>11. QED
      BY <3>1, <3>2, <3>7, <3>8, <3>9, <3>10 DEF PresentInv, PresentIsNotForcedOut
  <2>9. ASSUME NEW m \in Makers, NEW r \in Roles, PassClear(m, r) \/ PassMark(m, r)
        PROVE  PresentInv'
    <3>1. PICK field \in {"clear", "mark"} : maker' = [maker EXCEPT ![m][field] = @ \ {r}]
      BY <2>9 DEF PassClear, PassMark
    <3> DEFINE t == [maker[m] EXCEPT ![field] = @ \ {r}]
    <3>2. maker' = [maker EXCEPT ![m] = t]
      BY <3>1
    <3>3. /\ t.pc = maker[m].pc /\ t.age = maker[m].age /\ t.exit = maker[m].exit
          /\ \A q \in Roles \ {r} : q \in maker[m].clear => q \in t.clear
      BY <2>0, <3>1 DEF Maker
    <3> HIDE DEF t
    <3>4. maker'[m] = t /\ \A o \in Makers \ {m} : maker'[o] = maker[o]
      BY <3>2 DEF PresentInv, TypeOK
    <3>5. UNCHANGED <<ended, seen, silence, gone, lock, failures>>
      BY <2>9 DEF PassClear, PassMark
    <3>6. left'[r] \in {None, 0} /\ \A q \in Roles \ {r} : left'[q] = left[q]
      BY <2>9 DEF PassClear, PassMark, Unmark, PresentInv, TypeOK
    <3>7. MarkOK(r)'
      BY <3>5, <3>6, OldestIsOld DEF MarkOK, PresentInv, TypeOK, Ages, AgesOK
    <3>8. ASSUME NEW q \in Roles \ gone, q # r, ended = None
          PROVE  MarkOK(q)'
      BY <3>3, <3>4, <3>5, <3>6, <3>8 DEF PresentInv, MarkOK, TakesBack, Makers
    <3>9. QED
      BY <3>3, <3>4, <3>5, <3>7, <3>8 DEF PresentInv, PresentIsNotForcedOut
  <2>10. ASSUME NEW m \in Makers, PassCommit(m)
         PROVE  PresentInv'
    <3>1. /\ maker[m].pc = "write" /\ maker[m].clear = {} /\ lock' = Nobody
          /\ IF maker[m].exit = Nobody THEN ended' = ended ELSE ended' = maker[m].exit
          /\ maker' = [maker EXCEPT ![m] = Idle] /\ UNCHANGED <<seen, left, silence, gone, failures>>
      BY <2>10 DEF PassCommit
    <3>2. maker'[m] = Idle /\ \A o \in Makers \ {m} : maker'[o] = maker[o]
      BY <3>1 DEF PresentInv, TypeOK
    <3>3. Idle.age = 0 /\ Idle.exit = Nobody
      BY DEF Idle
    <3>4. maker[m].exit \in gone \cup {Nobody}
      BY <2>0 DEF Maker, PresentInv
    <3>5. ended' = None => ended = None
      <4>1. gone \subseteq Roles
        BY DEF PresentInv, TypeOK
      <4>2. QED
        BY <3>1, <3>4, <4>1
    <3>6. ASSUME NEW r \in Roles \ gone, ended' = None
          PROVE  MarkOK(r)'
      <4>1. MarkOK(r)
        BY <3>5, <3>6 DEF PresentInv
      <4>2. TakesBack(r) => TakesBack(r)' \/ r = m
        BY <3>1, <3>2 DEF TakesBack, Makers
      <4>3. r = m => ~TakesBack(r)
        BY <3>1 DEF TakesBack
      <4>4. QED
        BY <3>1, <4>1, <4>2, <4>3 DEF MarkOK
    <3>7. QED
      BY <3>1, <3>2, <3>3, <3>4, <3>5, <3>6 DEF PresentInv, PresentIsNotForcedOut
  <2>11. ASSUME NEW m \in Makers, PassFails(m)
         PROVE  PresentInv'
    <3>1. /\ failures < MaxFailures /\ failures' = failures + 1 /\ maker[m].pc \in {"read", "write"} /\ lock' = Nobody
          /\ maker' = [maker EXCEPT ![m] = Idle] /\ UNCHANGED <<ended, seen, left, silence, gone>>
      BY <2>11 DEF PassFails
    <3>2. maker'[m] = Idle /\ \A o \in Makers \ {m} : maker'[o] = maker[o]
      BY <3>1 DEF PresentInv, TypeOK
    <3>3. Idle.age = 0 /\ Idle.exit = Nobody
      BY DEF Idle
    <3>4. failures # MaxFailures
      BY <3>1 DEF PresentInv, TypeOK
    <3>5. ASSUME NEW r \in Roles \ gone, ended = None
          PROVE  MarkOK(r)'
      <4>1. MarkOK(r)
        BY <3>5 DEF PresentInv
      <4>2. TakesBack(r) => r # m /\ maker[r].pc = "unmark"
        BY <3>1, <3>4 DEF TakesBack
      <4>3. TakesBack(r) => TakesBack(r)'
        BY <3>2, <4>2 DEF TakesBack, Makers
      <4>4. QED
        BY <3>1, <4>1, <4>3 DEF MarkOK
    <3>6. QED
      BY <3>1, <3>2, <3>3, <3>5 DEF PresentInv, PresentIsNotForcedOut
  <2>12. CASE Tick
    <3>1. /\ \A m \in Makers : maker[m].pc = "idle"
          /\ \A r \in Roles \ gone : silence[r] < Jitter
          /\ left' = [r \in Roles |-> IF Expiring THEN None ELSE Older(left[r])]
          /\ silence' = [r \in Roles |-> Older(silence[r])]
          /\ ended = None /\ UNCHANGED <<ended, gone, lock, failures>>
      BY <2>12 DEF Tick, Tolerant, Makers
    <3>2. \A m \in Makers : maker'[m] = maker[m]
      BY <2>12, <3>1 DEF Tick
    <3>3. ASSUME NEW r \in Roles \ gone
          PROVE  silence'[r] <= Jitter /\ MarkOK(r)'
      <4>1. left[r] # None => left[r] <= silence[r]
        BY <3>1 DEF PresentInv, MarkOK, TakesBack, Makers
      <4>2. /\ left[r] \in Ages \cup {None} /\ silence[r] \in Ages /\ silence[r] < Jitter
            /\ silence'[r] = Older(silence[r])
            /\ left'[r] = None \/ left'[r] = Older(left[r])
        BY <3>1 DEF PresentInv, TypeOK
      <4>3. QED
        BY <4>1, <4>2, OlderKeepsOrder DEF MarkOK
    <3>4. QED
      BY <3>1, <3>2, <3>3 DEF PresentInv, PresentIsNotForcedOut
  <2>13. CASE UNCHANGED vars
    BY <2>13 DEF vars, PresentInv, MarkOK, TakesBack, PresentIsNotForcedOut
  <2>14. QED
    BY <2>2, <2>3, <2>4, <2>5, <2>6, <2>7, <2>8, <2>9, <2>10, <2>11, <2>12, <2>13 DEF Next, PassStep
<1>3. QED
  BY <1>1, <1>2, PresenceTypes, PTL DEF Spec

\* A party that is there, and only stutters, stays in the call.
THEOREM StutteringIsNotLeaving == Tolerant => (Spec => []PresentIsNotForcedOut)
<1>1. PresentInv => PresentIsNotForcedOut
  BY DEF PresentInv
<1>2. QED
  BY <1>1, PresenceInvariant, PTL
-----------------------------------------------------------------------------
(***************************************************************************)
(* The longest the hash goes without being renewed: until every party is   *)
(* stale and those marked have settled; and each failing Redis call costs  *)
(* at most another round of the watchdog and another detection time.       *)
(***************************************************************************)
Longest(f) == (IF Settle > Detect THEN Settle ELSE Detect) + f * (Interval + Detect)

(***************************************************************************)
(* The hash outlives that, and the watchdog's absence after it; passes and *)
(* heartbeats are done within the second.                                  *)
(***************************************************************************)
Attended == Prompt /\ Longest(MaxFailures) + Interval < KeyTTL

\* A pass of the watchdog or a heartbeat is about to renew the hash, to end the call, or to see whether it must.
Renewing ==
  \/ maker[Watchdog].pc \in {"wait", "read"}
  \/ maker[Watchdog].pc = "write" /\ (maker[Watchdog].exit # Nobody \/ maker[Watchdog].mark # {})
  \/ \E r \in Roles : maker[r].pc = "unmark"

\* How long the hash has not been renewed.
Kept ==
  hash # None =>
    /\ Roles # {}
    /\ connected = Oldest \/ hash <= connected
    /\ hash <= Longest(failures) + Interval
    /\ ended = None => Renewing \/ hash <= Longest(failures) + sleep

\* A party was not seen since, but for a heartbeat that failed half way; and its mark is as old.
SilentOK(r) ==
  hash # None =>
    /\ seen[r] = None \/ seen[r] = Oldest \/ maker[r].pc = "unmark" \/ hash + Detect <= seen[r] + Longest(failures)
    /\ left[r] = None \/ left[r] = Oldest \/ hash <= left[r]

\* The inductive invariant: the hash is not forgotten, and nobody has counted from a start that was not one.
KeptInv ==
  /\ TypeOK
  /\ Kept /\ \A r \in Roles : SilentOK(r)
  /\ \A r \in beaten : seen[r] # None
  /\ \A m \in Makers : maker[m].age = 0 /\ maker[m].basis # "forgotten"
  /\ EndsAtLastSeen
\* Another failing call makes it longer by a round of the watchdog and a detection time.
LEMMA LongestGrows ==
  ASSUME NEW f \in Nat
  PROVE  /\ Longest(f) \in Nat /\ Detect <= Longest(f) /\ Settle <= Longest(f)
         /\ Longest(f + 1) = Longest(f) + Interval + Detect
<1> DEFINE round == Interval + Detect
<1>1. round \in Nat /\ f * round \in Nat /\ (f + 1) * round = f * round + round
  BY SecondsArePositive
<1>2. QED
  BY <1>1, SecondsArePositive DEF Longest

\* Nor is it ever longer than with all the failing calls.
LEMMA LongestIsBounded ==
  ASSUME NEW f \in 0 .. MaxFailures
  PROVE  Longest(f) <= Longest(MaxFailures)
<1> DEFINE round == Interval + Detect
           rest == MaxFailures - f
<1>1. round \in Nat /\ rest \in Nat /\ f \in Nat /\ MaxFailures = f + rest
  BY SecondsArePositive
<1> HIDE DEF round, rest
<1>2. rest * round \in Nat /\ f * round \in Nat /\ (f + rest) * round = f * round + rest * round
  BY <1>1
<1>3. Longest(f) + rest * round = Longest(MaxFailures)
  BY <1>1, <1>2, SecondsArePositive DEF Longest, round
<1>4. QED
  BY <1>1, <1>2, <1>3, LongestGrows, SecondsArePositive

\* A pass that finds the hash not renewed for longest marks every party, or finds that it settled.
LEMMA LongestIsEnough ==
  ASSUME KeptInv, hash # None, hash > Longest(failures),
         NEW m \in Makers, NEW r \in Roles, maker[r].pc # "unmark"
  PROVE  ToMark(r, m) \/ SettledOut(r, m)
<1> USE SecondsArePositive, MakersDiffer
<1>1. /\ hash \in Nat /\ failures \in Nat /\ connected \in Nat /\ maker[m].age = 0
      /\ seen[r] \in Nat \cup {None} /\ left[r] \in Nat \cup {None}
  BY DEF KeptInv, TypeOK, Ages, Oldest
<1>2. Longest(failures) \in Nat /\ Detect <= Longest(failures) /\ Settle <= Longest(failures)
  BY <1>1, LongestGrows
<1>3. Oldest > Detect /\ Oldest >= Settle /\ Oldest \in Nat
  BY DEF Oldest
<1>4. LastSeen(r) \in Nat /\ LastSeen(r) > Detect
  BY <1>1, <1>2, <1>3 DEF LastSeen, KeptInv, Kept, SilentOK
<1>5. Stale(r, m)
  BY <1>1, <1>4 DEF Stale, Then
<1>6. CASE left[r] = None
  BY <1>5, <1>6 DEF ToMark
<1>7. CASE left[r] # None
  <2>1. left[r] \in Nat /\ left[r] >= Settle
    BY <1>1, <1>2, <1>3, <1>7 DEF KeptInv, SilentOK
  <2>2. Then(left[r], m) >= Settle
    BY <1>1, <2>1 DEF Then
  <2>3. QED
    BY <1>5, <1>7, <2>2 DEF SettledOut
<1>8. QED
  BY <1>6, <1>7

\* A maker whose counter moves keeps what its pass decided.
LEMMA GoesKeeping ==
  ASSUME TypeOK, NEW m \in Makers, NEW place \in {"idle", "unmark", "wait", "read", "write"}, Goto(m, place)
  PROVE  maker'[m].age = maker[m].age /\ maker'[m].basis = maker[m].basis
<1>1. maker[m] \in Maker
  BY DEF TypeOK
<1>2. maker'[m] = [maker[m] EXCEPT !.pc = place]
  BY DEF Goto, TypeOK
<1>3. QED
  BY <1>1, <1>2 DEF Maker

\* A step of a party's heartbeat that begins it, or fails, keeps the invariant.
LEMMA HeartbeatKeeps ==
  ASSUME KeptInv, TypeOK', NEW r \in Roles, BeatSeen(r) \/ BeatUnmark(r) \/ BeatFails(r)
  PROVE  KeptInv'
<1> USE SecondsArePositive, MakersDiffer
<1>1. PICK place \in {"unmark", "wait"} : Goto(r, place) /\ (place = "unmark" <=> BeatSeen(r))
  BY DEF BeatSeen, BeatUnmark, BeatFails, Beats, KeptInv, TypeOK
<1>2. /\ maker'[r].pc = place /\ maker'[r].age = maker[r].age /\ maker'[r].basis = maker[r].basis
      /\ \A o \in Makers \ {r} : maker'[o] = maker[o]
      /\ Watchdog # r /\ Watchdog \in Makers /\ r \in Makers
  BY <1>1, GoesTyped, GoesKeeping DEF KeptInv, Makers
<1>3. /\ UNCHANGED <<ended, endBasis, connected, sleep>>
      /\ \A q \in Roles \ {r} : seen'[q] = seen[q] /\ left'[q] = left[q]
  BY DEF BeatSeen, BeatUnmark, BeatFails, Unmark, KeptInv, TypeOK
<1>4. /\ hash \in Nat \cup {None} /\ failures \in Nat /\ connected \in Nat /\ sleep \in 0 .. Interval /\ Interval \in Nat
      /\ \A q \in Roles : seen[q] \in Nat \cup {None} /\ left[q] \in Nat \cup {None}
  BY DEF KeptInv, TypeOK, Ages, Oldest
<1>5. /\ Longest(failures) \in Nat /\ Detect <= Longest(failures)
      /\ Longest(failures + 1) = Longest(failures) + Interval + Detect
  BY <1>4, LongestGrows
<1>6. \A m \in Makers : maker'[m].age = 0 /\ maker'[m].basis # "forgotten"
  BY <1>2 DEF KeptInv
<1>7. EndsAtLastSeen'
  BY <1>3 DEF KeptInv, EndsAtLastSeen
<1>8. CASE BeatSeen(r)
  <2>1. /\ seen'[r] = 0 /\ left' = left /\ hash' = hash /\ failures' = failures
        /\ beaten' = beaten \cup {r} /\ maker'[r].pc = "unmark"
    BY <1>1, <1>2, <1>8 DEF BeatSeen, KeptInv, TypeOK
  <2>2. Renewing'
    BY <2>1 DEF Renewing
  <2>3. Kept' /\ \A q \in Roles : SilentOK(q)'
    BY <1>2, <1>3, <2>1, <2>2 DEF KeptInv, Kept, SilentOK, Makers
  <2>4. \A q \in beaten' : seen'[q] # None
    BY <1>3, <2>1 DEF KeptInv, TypeOK
  <2>5. QED
    BY <1>6, <1>7, <2>3, <2>4 DEF KeptInv
<1>9. CASE BeatUnmark(r)
  <2>1. /\ hash' = 0 /\ left'[r] = None /\ seen' = seen /\ failures' = failures /\ beaten' = beaten
    BY <1>9 DEF BeatUnmark, Renew, Unmark, KeptInv, TypeOK
  <2>2. Kept'
    BY <1>3, <1>4, <1>5, <2>1 DEF Kept
  <2>3. \A q \in Roles : SilentOK(q)'
    BY <1>3, <1>4, <1>5, <2>1 DEF SilentOK
  <2>4. QED
    BY <1>6, <1>7, <2>1, <2>2, <2>3 DEF KeptInv
<1>10. CASE BeatFails(r)
  <2>1. UNCHANGED <<hash, left, seen, beaten>> /\ failures' = failures + 1 /\ maker[r].pc \in {"idle", "unmark"}
    BY <1>10 DEF BeatFails, Beats
  <2>2. Kept'
    BY <1>3, <1>4, <1>5, <2>1 DEF KeptInv, Kept
  <2>3. ASSUME NEW q \in Roles, hash # None
        PROVE  SilentOK(q)'
    <3>1. left[q] = left'[q] /\ seen'[q] = seen[q] /\ hash <= Longest(failures) + Interval
      BY <2>1, <2>3 DEF KeptInv, Kept
    <3>2. CASE maker[q].pc = "unmark"
      <4>1. hash + Detect <= seen[q] + Longest(failures + 1) \/ seen[q] = None
        BY <1>4, <1>5, <2>3, <3>1
      <4>2. QED
        BY <2>1, <2>3, <3>1, <4>1 DEF KeptInv, SilentOK
    <3>3. CASE maker[q].pc # "unmark"
      BY <1>4, <1>5, <2>1, <2>3, <3>1, <3>3 DEF KeptInv, SilentOK
    <3>4. QED
      BY <3>2, <3>3
  <2>4. QED
    BY <1>6, <1>7, <2>1, <2>2, <2>3 DEF KeptInv, SilentOK
<1>11. QED
  BY <1>8, <1>9, <1>10
\* A step of a pass that leaves the hash and the marks alone keeps what is told of them.
LEMMA RestKeeps ==
  ASSUME KeptInv, TypeOK', NEW m \in Makers,
         maker[m].pc # "unmark", \A o \in Makers \ {m} : maker'[o] = maker[o],
         maker'[m].age = 0, maker'[m].basis # "forgotten", maker'[m].pc # "unmark",
         UNCHANGED <<connected, seen, left, hash, beaten>>,
         endBasis' # "forgotten", ended' = None => ended = None,
         failures' \in {failures, failures + 1},
         hash # None /\ ended' = None /\ failures' = failures /\ ~(hash <= Longest(failures) + sleep') => Renewing'
  PROVE  KeptInv'
<1> USE SecondsArePositive, MakersDiffer
<1>1. /\ hash \in Nat \cup {None} /\ failures \in Nat /\ sleep' \in 0 .. Interval /\ Interval \in Nat /\ Detect \in Nat
      /\ \A q \in Roles : seen[q] \in Nat \cup {None}
  BY DEF KeptInv, TypeOK, Ages, Oldest
<1>2. /\ Longest(failures) \in Nat
      /\ Longest(failures + 1) = Longest(failures) + Interval + Detect
  BY <1>1, LongestGrows
<1>3. Longest(failures)' = Longest(failures')
  OBVIOUS
<1>4. Longest(failures') \in Nat /\ Longest(failures') >= Longest(failures)
  BY <1>1, <1>2
<1>5. Kept'
  <2>1. CASE hash = None
    BY <2>1 DEF Kept
  <2>2. CASE hash # None
    <3>1. hash <= Longest(failures) + Interval
      BY <2>2 DEF KeptInv, Kept
    <3>2. hash <= Longest(failures') + Interval
      BY <1>1, <1>2, <1>4, <2>2, <3>1
    <3>3. failures' # failures => hash <= Longest(failures') + sleep'
      BY <1>1, <1>2, <2>2, <3>1
    <3>4. QED
      BY <2>2, <3>2, <3>3 DEF KeptInv, Kept
  <2>3. QED
    BY <2>1, <2>2
<1>6. ASSUME NEW q \in Roles
      PROVE  SilentOK(q)'
  <2>1. maker[q].pc = "unmark" => maker'[q].pc = "unmark"
    BY DEF Makers
  <2>2. SilentOK(q)
    BY DEF KeptInv
  <2>3. hash # None /\ seen[q] # None /\ hash + Detect <= seen[q] + Longest(failures)
          => hash + Detect <= seen[q] + Longest(failures')
    BY <1>1, <1>2, <1>4
  <2>4. QED
    BY <2>1, <2>2, <2>3 DEF SilentOK
<1>7. QED
  BY <1>5, <1>6 DEF KeptInv, EndsAtLastSeen

\* Who was sent a heartbeat of is in the hash, so a pass counts from there or from the start.
LEMMA NothingIsForgotten ==
  ASSUME KeptInv, NEW exit \in Roles \cup {Nobody}
  PROVE  Basis(exit) # "forgotten"
BY DEF Basis, KeptInv

\* A pass that takes the row, or finds the call ended, keeps the invariant.
LEMMA LockKeeps ==
  ASSUME KeptInv, TypeOK', NEW m \in Makers, PassLock(m)
  PROVE  KeptInv'
<1> DEFINE t == [maker[m] EXCEPT !.pc = "read", !.age = 0]
<1>1. /\ maker[m].pc = "wait" /\ UNCHANGED <<ended, endBasis, connected, seen, left, hash, sleep, beaten, failures>>
      /\ maker' = [maker EXCEPT ![m] = IF ended = None THEN t ELSE Idle]
  BY DEF PassLock
<1>2. t.pc = "read" /\ t.age = 0 /\ t.basis = maker[m].basis /\ Idle.age = 0 /\ Idle.basis = "none" /\ Idle.pc = "idle"
  BY DEF KeptInv, TypeOK, Maker, Idle
<1> HIDE DEF t
<1>3. maker'[m] = (IF ended = None THEN t ELSE Idle) /\ \A o \in Makers \ {m} : maker'[o] = maker[o]
  BY <1>1 DEF KeptInv, TypeOK
<1>4. hash # None /\ ended' = None /\ ~(hash <= Longest(failures) + sleep') => Renewing'
  <2>1. SUFFICES ASSUME Renewing, ended = None
                 PROVE  Renewing'
    BY <1>1 DEF KeptInv, Kept
  <2>2. CASE m = Watchdog
    BY <1>2, <1>3, <2>1, <2>2 DEF Renewing
  <2>3. CASE m # Watchdog
    BY <1>1, <1>3, <2>1, <2>3 DEF Renewing, Makers
  <2>4. QED
    BY <2>2, <2>3
<1>5. endBasis' # "forgotten" /\ maker'[m].basis # "forgotten"
  BY <1>1, <1>2, <1>3 DEF KeptInv, EndsAtLastSeen
<1>6. QED
  BY <1>1, <1>2, <1>3, <1>4, <1>5, RestKeeps

\* A pass that reads the hash keeps the invariant: it marks, or ends the call, when it must.
LEMMA ReadKeeps ==
  ASSUME KeptInv, TypeOK', NEW m \in Makers, PassRead(m)
  PROVE  KeptInv'
<1> DEFINE clear == {r \in Roles : ~Stale(r, m) /\ left[r] # None}
           mark == {r \in Roles : ToMark(r, m)}
           out == {r \in Roles : SettledOut(r, m)}
<1>1. /\ maker[m].pc = "read"
      /\ UNCHANGED <<ended, endBasis, connected, seen, left, hash, sleep, beaten, failures>>
      /\ \E exit \in IF out = {} THEN {Nobody} ELSE out :
           maker' = [maker EXCEPT ![m].pc = "write", ![m].exit = exit, ![m].basis = Basis(exit),
                                  ![m].clear = clear, ![m].mark = mark]
  BY DEF PassRead
<1>2. PICK exit \in IF out = {} THEN {Nobody} ELSE out :
        maker' = [maker EXCEPT ![m].pc = "write", ![m].exit = exit, ![m].basis = Basis(exit),
                               ![m].clear = clear, ![m].mark = mark]
  BY <1>1
<1>3. exit \in Roles \cup {Nobody} /\ (out # {} => exit # Nobody)
  BY MakersDiffer
<1> DEFINE basis == Basis(exit)
           t == [maker[m] EXCEPT !.pc = "write", !.exit = exit, !.basis = basis, !.clear = clear, !.mark = mark]
<1>4. basis # "forgotten"
  BY <1>3, NothingIsForgotten
<1>5. ASSUME m = Watchdog, hash # None, hash > Longest(failures), mark = {}, out = {}
      PROVE  \E r \in Roles : maker[r].pc = "unmark"
  BY <1>5, LongestIsEnough DEF KeptInv, Kept
<1>6. maker' = [maker EXCEPT ![m] = t]
  BY <1>2
<1> HIDE DEF clear, mark, out, basis
<1>7. t.pc = "write" /\ t.age = 0 /\ t.basis = basis /\ t.exit = exit /\ t.mark = mark
  BY DEF KeptInv, TypeOK, Maker
<1> HIDE DEF t
<1>8. maker'[m] = t /\ \A o \in Makers \ {m} : maker'[o] = maker[o]
  BY <1>6 DEF KeptInv, TypeOK
<1>9. (\E r \in Roles : maker[r].pc = "unmark") => Renewing'
  BY <1>1, <1>8 DEF Renewing, Makers
<1>10. hash # None /\ ended' = None /\ ~(hash <= Longest(failures) + sleep') => Renewing'
  <2> SUFFICES ASSUME hash # None, ended' = None, ~(hash <= Longest(failures) + sleep')
               PROVE  Renewing'
    OBVIOUS
  <2>1. Renewing
    BY <1>1 DEF KeptInv, Kept
  <2>2. CASE m # Watchdog
    BY <1>8, <1>9, <2>1, <2>2 DEF Renewing, Makers
  <2>3. CASE m = Watchdog
    <3>1. hash \in Nat /\ failures \in Nat /\ sleep \in Nat
      BY SecondsArePositive DEF KeptInv, TypeOK
    <3>2. hash > Longest(failures)
      BY <1>1, <3>1, LongestGrows
    <3>3. mark # {} \/ exit # Nobody \/ \E r \in Roles : maker[r].pc = "unmark"
      BY <1>3, <1>5, <2>3, <3>2
    <3>4. mark # {} \/ exit # Nobody => Renewing'
      BY <1>7, <1>8, <2>3 DEF Renewing
    <3>5. QED
      BY <1>9, <3>3, <3>4
  <2>4. QED
    BY <2>2, <2>3
<1>11. endBasis' # "forgotten"
  BY <1>1 DEF KeptInv, EndsAtLastSeen
<1>12. QED
  BY <1>1, <1>4, <1>7, <1>8, <1>10, <1>11, RestKeeps

\* A pass that clears or sets a mark keeps the invariant.
LEMMA WriteKeeps ==
  ASSUME KeptInv, TypeOK', NEW m \in Makers, NEW r \in Roles, PassClear(m, r) \/ PassMark(m, r)
  PROVE  KeptInv'
<1> USE SecondsArePositive, MakersDiffer
<1>1. PICK field \in {"clear", "mark"} : maker' = [maker EXCEPT ![m][field] = @ \ {r}]
  BY DEF PassClear, PassMark
<1> DEFINE t == [maker[m] EXCEPT ![field] = @ \ {r}]
<1>2. maker' = [maker EXCEPT ![m] = t]
  BY <1>1
<1>3. /\ t.pc = maker[m].pc /\ t.age = maker[m].age /\ t.exit = maker[m].exit /\ t.basis = maker[m].basis
      /\ field = "clear" => t.mark = maker[m].mark
  BY DEF KeptInv, TypeOK, Maker
<1> HIDE DEF t
<1>4. maker'[m] = t /\ \A o \in Makers \ {m} : maker'[o] = maker[o]
  BY <1>2 DEF KeptInv, TypeOK
<1>5. /\ UNCHANGED <<ended, endBasis, connected, seen, sleep, beaten, failures>>
      /\ \A q \in Roles \ {r} : left'[q] = left[q]
  BY DEF PassClear, PassMark, Unmark, KeptInv, TypeOK
<1>6. /\ \A q \in Makers : maker'[q].pc = maker[q].pc /\ maker'[q].age = 0 /\ maker'[q].basis # "forgotten"
      /\ EndsAtLastSeen' /\ \A q \in beaten' : seen'[q] # None
  BY <1>3, <1>4, <1>5 DEF KeptInv, EndsAtLastSeen
<1>7. /\ failures \in Nat /\ Interval \in Nat /\ sleep \in Nat /\ Detect \in Nat /\ connected \in Nat
      /\ \A q \in Roles : seen[q] \in Nat \cup {None} /\ left'[q] \in Nat \cup {None}
  BY DEF KeptInv, TypeOK, Ages, Oldest
<1>8. Longest(failures) \in Nat /\ Detect <= Longest(failures)
  BY <1>7, LongestGrows
<1>9. CASE PassMark(m, r)
  <2>1. hash' = 0
    BY <1>9 DEF PassMark, Renew
  <2>2. Kept'
    BY <1>5, <1>7, <1>8, <2>1 DEF Kept
  <2>3. \A q \in Roles : SilentOK(q)'
    BY <1>5, <1>7, <1>8, <2>1 DEF SilentOK
  <2>4. QED
    BY <1>6, <2>2, <2>3 DEF KeptInv
<1>10. CASE PassClear(m, r)
  <2>1. hash' = hash /\ left'[r] = None
    BY <1>10 DEF PassClear, Unmark, KeptInv, TypeOK
  <2>2. maker'[m].exit = maker[m].exit /\ maker'[m].mark = maker[m].mark
    BY <1>3, <1>4, <1>10 DEF PassClear, KeptInv, TypeOK, Maker
  <2>3. Renewing => Renewing'
    BY <1>4, <1>6, <2>2 DEF Renewing, Makers
  <2>4. Kept'
    BY <1>5, <2>1, <2>3 DEF KeptInv, Kept
  <2>5. \A q \in Roles : SilentOK(q)'
    BY <1>5, <1>6, <2>1 DEF KeptInv, SilentOK, Makers
  <2>6. QED
    BY <1>6, <2>4, <2>5 DEF KeptInv
<1>11. QED
  BY <1>9, <1>10

\* A pass that commits or is rolled back keeps the invariant.
LEMMA CommitKeeps ==
  ASSUME KeptInv, TypeOK', NEW m \in Makers, PassCommit(m) \/ PassFails(m)
  PROVE  KeptInv'
<1> USE SecondsArePositive, MakersDiffer
<1>1. /\ maker[m].pc \in {"read", "write"} /\ maker' = [maker EXCEPT ![m] = Idle]
      /\ UNCHANGED <<connected, seen, left, hash, sleep, beaten>>
  BY DEF PassCommit, PassFails
<1>2. maker'[m] = Idle /\ \A o \in Makers \ {m} : maker'[o] = maker[o]
  BY <1>1 DEF KeptInv, TypeOK
<1>3. Idle.pc = "idle" /\ Idle.age = 0 /\ Idle.basis = "none"
  BY DEF Idle
<1>4. /\ endBasis' # "forgotten" /\ failures' \in {failures, failures + 1} /\ failures \in Nat
      /\ maker[m].exit \in Roles \cup {Nobody}
  BY DEF PassCommit, PassFails, KeptInv, EndsAtLastSeen, TypeOK, Maker
<1>5. ended' = None => ended = None
  BY <1>4 DEF PassCommit, PassFails
<1>6. hash # None /\ ended' = None /\ failures' = failures /\ ~(hash <= Longest(failures) + sleep') => Renewing'
  <2> SUFFICES ASSUME hash # None, ended' = None, failures' = failures, ~(hash <= Longest(failures) + sleep')
               PROVE  Renewing'
    OBVIOUS
  <2>1. PassCommit(m)
    BY <1>4 DEF PassFails
  <2>2. maker[m].pc = "write" /\ maker[m].mark = {} /\ maker[m].exit = Nobody
    BY <1>4, <2>1 DEF PassCommit
  <2>3. Renewing
    BY <1>1, <1>5 DEF KeptInv, Kept
  <2>4. QED
    BY <1>2, <2>2, <2>3 DEF Renewing, Makers
<1>7. QED
  BY <1>1, <1>2, <1>3, <1>4, <1>5, <1>6, RestKeeps

\* A second that passes does not bring the hash to its expiry.
LEMMA TickKeeps ==
  ASSUME Attended, KeptInv, TypeOK', Tick
  PROVE  KeptInv'
<1> USE SecondsArePositive, MakersDiffer
<1>1. /\ \A m \in Makers : maker[m].pc = "idle"
      /\ ended = None /\ sleep < Interval /\ sleep' = sleep + 1
      /\ connected' = Older(connected)
      /\ seen' = [r \in Roles |-> IF Expiring THEN None ELSE Older(seen[r])]
      /\ left' = [r \in Roles |-> IF Expiring THEN None ELSE Older(left[r])]
      /\ hash' = IF Expiring \/ hash = None THEN None ELSE hash + 1
      /\ UNCHANGED <<ended, endBasis, beaten, failures>>
  BY DEF Tick, Attended, Makers
<1>2. \A m \in Makers : maker'[m] = maker[m]
  BY <1>1 DEF Tick
<1>3. /\ hash \in Nat \cup {None} /\ failures \in 0 .. MaxFailures /\ connected \in Ages /\ sleep \in Nat
      /\ \A q \in Roles : seen[q] \in Ages \cup {None} /\ left[q] \in Ages \cup {None}
      /\ Oldest \in Nat /\ Ages = 0 .. Oldest
  BY DEF KeptInv, TypeOK, Ages, Oldest
<1>4. /\ Longest(failures) \in Nat /\ Longest(failures) <= Longest(MaxFailures) /\ Longest(MaxFailures) \in Nat
  <2>1. failures \in Nat /\ MaxFailures \in Nat
    BY <1>3
  <2>2. Longest(failures) \in Nat /\ Longest(MaxFailures) \in Nat
    BY <2>1, LongestGrows
  <2>3. QED
    BY <1>3, <2>2, LongestIsBounded
<1>5. ~Renewing
  BY <1>1 DEF Renewing, Makers
<1>6. hash # None => hash <= Longest(failures) + sleep
  BY <1>1, <1>5 DEF KeptInv, Kept
<1>7. ~Expiring
  BY <1>1, <1>3, <1>4, <1>6 DEF Expiring, Attended
<1>8. /\ hash' = IF hash = None THEN None ELSE hash + 1
      /\ \A q \in Roles : seen'[q] = Older(seen[q]) /\ left'[q] = Older(left[q])
  BY <1>1, <1>7
<1>9. \A a \in Ages : Older(a) # None /\ (Older(a) = Oldest \/ Older(a) = a + 1)
  BY <1>3 DEF Older
<1>10. Older(None) = None
  BY DEF Older
<1>11. Kept'
  <2>1. hash # None => connected = Oldest \/ hash <= connected
    BY DEF KeptInv, Kept
  <2>2. hash # None => connected' = Oldest \/ hash + 1 <= connected'
    <3>1. connected = Oldest => connected' = Oldest
      BY <1>1, <1>3 DEF Older
    <3>2. QED
      BY <1>1, <1>3, <1>9, <2>1, <3>1
  <2>3. hash # None => hash + 1 <= Longest(failures) + sleep' /\ hash + 1 <= Longest(failures) + Interval
    BY <1>1, <1>3, <1>4, <1>6
  <2>4. Roles # {} \/ hash = None
    BY DEF KeptInv, Kept
  <2>5. QED
    BY <1>1, <1>8, <2>2, <2>3, <2>4 DEF Kept
<1>12. ASSUME NEW q \in Roles
       PROVE  SilentOK(q)'
  <2>1. Older(Oldest) = Oldest
    BY <1>3 DEF Older
  <2>2. SilentOK(q) /\ maker[q].pc # "unmark"
    BY <1>1 DEF KeptInv, Makers
  <2>3. ASSUME hash # None, seen[q] # None
        PROVE  seen'[q] = Oldest \/ hash + 1 + Detect <= seen'[q] + Longest(failures)
    BY <1>3, <1>4, <1>8, <1>9, <2>1, <2>2, <2>3 DEF SilentOK
  <2>4. ASSUME hash # None, left[q] # None
        PROVE  left'[q] = Oldest \/ hash + 1 <= left'[q]
    BY <1>3, <1>8, <1>9, <2>1, <2>2, <2>4 DEF SilentOK
  <2>5. QED
    BY <1>1, <1>8, <1>10, <2>3, <2>4 DEF SilentOK
<1>13. \A q \in beaten' : seen'[q] # None
  BY <1>1, <1>3, <1>8, <1>9 DEF KeptInv, TypeOK
<1>14. QED
  BY <1>1, <1>2, <1>11, <1>12, <1>13 DEF KeptInv, EndsAtLastSeen

(***************************************************************************)
(* If the hash outlives the watchdog's absences and the failing calls, it  *)
(* is renewed by somebody, or the call ended, before it expires.           *)
(***************************************************************************)
THEOREM HashIsKept == Attended => (Spec => []KeptInv)
<1> SUFFICES ASSUME Attended
             PROVE  Spec => []KeptInv
  OBVIOUS
<1>1. Init => KeptInv
  <2>1. Init => TypeOK
    BY PresenceTypesInit
  <2>2. Idle.age = 0 /\ Idle.basis = "none"
    BY DEF Idle
  <2>3. QED
    BY <2>1, <2>2, MakersDiffer DEF Init, KeptInv, Kept, SilentOK, EndsAtLastSeen
<1>2. KeptInv /\ TypeOK' /\ [Next]_vars => KeptInv'
  <2> SUFFICES ASSUME KeptInv, TypeOK', [Next]_vars
               PROVE  KeptInv'
    OBVIOUS
  <2>1. ASSUME NEW r \in Roles, Leave(r)
        PROVE  KeptInv'
    BY <2>1 DEF Leave, KeptInv, Kept, Renewing, SilentOK, EndsAtLastSeen
  <2>2. CASE WatchdogWakes
    <3>1. /\ Watchdog \in Makers /\ Goto(Watchdog, "wait")
          /\ UNCHANGED <<ended, endBasis, connected, seen, left, hash, beaten, failures>>
      BY <2>2 DEF WatchdogWakes, Makers
    <3>2. /\ maker'[Watchdog].pc = "wait" /\ maker'[Watchdog].age = maker[Watchdog].age
          /\ maker'[Watchdog].basis = maker[Watchdog].basis
          /\ \A o \in Makers \ {Watchdog} : maker'[o] = maker[o]
      BY <3>1, GoesTyped, GoesKeeping DEF KeptInv
    <3>3. Renewing'
      BY <3>2 DEF Renewing
    <3>4. \A r \in Roles : maker'[r] = maker[r]
      BY <3>2, MakersDiffer DEF Makers
    <3>5. QED
      BY <3>1, <3>2, <3>3, <3>4 DEF KeptInv, Kept, SilentOK, EndsAtLastSeen
  <2>3. CASE UNCHANGED vars
    BY <2>3 DEF vars, KeptInv, Kept, Renewing, SilentOK, EndsAtLastSeen
  <2>4. QED
    BY <2>1, <2>2, <2>3, HeartbeatKeeps, LockKeeps, ReadKeeps, WriteKeeps, CommitKeeps, TickKeeps DEF Next, PassStep
<1>3. QED
  BY <1>1, <1>2, PresenceTypes, PTL DEF Spec

\* A forced exit counts until the party was last seen, or from the start if it never was.
THEOREM EndIsNotForgotten == Attended => (Spec => []EndsAtLastSeen)
<1>1. KeptInv => EndsAtLastSeen
  BY DEF KeptInv
<1>2. QED
  BY <1>1, HashIsKept, PTL

-----------------------------------------------------------------------------
(***************************************************************************)
(* The leader                                                              *)
(***************************************************************************)
(***************************************************************************)
(* The key outlives the longest time between two looks at it: the rest of  *)
(* the turn of the first look, the turns in a row that raise, and the turn *)
(* of the second.                                                          *)
(***************************************************************************)
KeyOutlivesTurns == Cycle * (MaxRaises + 2) < TTL

\* The turns that a worker has begun since it looked at the key, each of them at most Cycle long.
Turns(w) == raises[w] + (IF pc[w] = "sleep" THEN 0 ELSE 1)

(***************************************************************************)
(* The inductive invariant: a leader's pid is in the key, and the key is   *)
(* no older than the turns the leader made since it looked at it.          *)
(***************************************************************************)
HoldsInTime(w) == isLeader[w] => holder = w /\ age <= Cycle * Turns(w) + turn[w]

LeaderInv == LeaderTypeOK /\ \A w \in Workers : HoldsInTime(w)

\* Every step keeps the types; in particular, only leaders refresh.
THEOREM LeaderTypes == LeaderSpec => []LeaderTypeOK
<1> USE TimesAreSeconds, BoundsAreNat, HoldersDiffer DEF LeaderTypeOK, Places
<1>1. LeaderInit => LeaderTypeOK
  BY DEF LeaderInit
<1>2. LeaderTypeOK /\ [LeaderNext]_leaderVars => LeaderTypeOK'
  <2> SUFFICES ASSUME LeaderTypeOK, [LeaderNext]_leaderVars
               PROVE  LeaderTypeOK'
    OBVIOUS
  <2>1. ASSUME NEW w \in Workers, TryAcquire(w), turn' = turn, crashes' = crashes,
               \/ pc[w] = "start" /\ LoopsTo(w, "top")
               \/ pc[w] \in {"compete", "top"} /\ LoopsTo(w, "sleep")
        PROVE  LeaderTypeOK'
    <3>1. /\ holder' \in Workers \cup {Free, Gone} /\ age' \in 0 .. TTL
          /\ raises' \in [Workers -> 0 .. MaxRaises] /\ errors' \in 0 .. MaxErrors
      BY <2>1 DEF TryAcquire, Looked
    <3>2. /\ isLeader' \in [Workers -> BOOLEAN] /\ \A v \in Workers \ {w} : isLeader'[v] = isLeader[v]
      BY <2>1 DEF TryAcquire
    <3>3. pc' \in [Workers -> Places] /\ \A v \in Workers \ {w} : pc'[v] = pc[v]
      BY <2>1 DEF LoopsTo
    <3>4. pc'[w] \in {"top", "sleep"}
      BY <2>1 DEF LoopsTo
    <3>5. QED
      BY <2>1, <3>1, <3>2, <3>3, <3>4
  <2>2. ASSUME NEW w \in Workers, Start(w) \/ Compete(w)
        PROVE  LeaderTypeOK'
    BY <2>1, <2>2 DEF Start, Compete
  <2>3. ASSUME NEW w \in Workers, Pass(w)
        PROVE  LeaderTypeOK'
    BY <2>3 DEF Pass, MayPass, LoopsTo
  <2>4. ASSUME NEW w \in Workers, PassRaises(w)
        PROVE  LeaderTypeOK'
    BY <2>4 DEF PassRaises, LoopsTo
  <2>5. ASSUME NEW w \in Workers, Refresh(w)
        PROVE  LeaderTypeOK'
    BY <2>5 DEF Refresh, Looked, LoopsTo
  <2>6. ASSUME NEW w \in Workers, Wake(w) \/ Restart(w)
        PROVE  LeaderTypeOK'
    BY <2>6 DEF Wake, Restart, LoopsTo
  <2>7. ASSUME NEW w \in Workers, Crash(w)
        PROVE  LeaderTypeOK'
    BY <2>7 DEF Crash, LoopsTo
  <2>8. CASE LeaderTick
    BY <2>8 DEF LeaderTick, KeyExpiring
  <2>9. CASE UNCHANGED leaderVars
    BY <2>9 DEF leaderVars
  <2>10. QED
    BY <2>2, <2>3, <2>4, <2>5, <2>6, <2>7, <2>8, <2>9 DEF LeaderNext, Step
<1>3. QED
  BY <1>1, <1>2, PTL DEF LeaderSpec

\* A turn that raised, was left or begun is one more turn for the key to outlive.
LEMMA OneTurnMore == \A n \in Nat : Cycle * (n + 1) = Cycle * n + Cycle
  BY TimesAreSeconds

\* The clock never reaches the expiry of a leader's key.
LEMMA LeadersKeyLives ==
  ASSUME KeyOutlivesTurns, LeaderInv, NEW w \in Workers, isLeader[w], turn[w] < Cycle
  PROVE  age + 1 < TTL
<1>1. /\ raises[w] \in 0 .. MaxRaises /\ turn[w] \in Nat /\ age \in Nat /\ Turns(w) \in 0 .. MaxRaises + 1
      /\ age <= Cycle * Turns(w) + turn[w]
  BY TimesAreSeconds, BoundsAreNat DEF LeaderInv, LeaderTypeOK, HoldsInTime, Turns
<1>2. Cycle * Turns(w) <= Cycle * (MaxRaises + 1)
  <2>1. \A m, n, k \in Nat : m <= n => k * m <= k * n
    BY SMT
  <2>2. QED
    BY <1>1, <2>1, TimesAreSeconds, BoundsAreNat
<1>3. Cycle * (MaxRaises + 2) = Cycle * (MaxRaises + 1) + Cycle
  <2>1. MaxRaises + 1 \in Nat /\ (MaxRaises + 1) + 1 = MaxRaises + 2
    BY BoundsAreNat
  <2>2. QED
    BY <2>1, OneTurnMore
<1> DEFINE made == Cycle * Turns(w)
           most == Cycle * (MaxRaises + 1)
<1>4. made \in Nat /\ most \in Nat
  <2>1. \A m, n \in Nat : m * n \in Nat
    BY SMT
  <2>2. QED
    BY <1>1, <2>1, TimesAreSeconds, BoundsAreNat
<1>5. made <= most /\ most + Cycle < TTL /\ age <= made + turn[w]
  BY <1>1, <1>2, <1>3 DEF KeyOutlivesTurns
<1> HIDE DEF made, most
<1>6. QED
  BY <1>1, <1>4, <1>5, TimesAreSeconds

\* Who just acquired the key holds it, and it is new.
LEMMA AcquiringHolds ==
  ASSUME LeaderInv, LeaderTypeOK', NEW w \in Workers, TryAcquire(w),
         turn' = turn, \A v \in Workers \ {w} : pc'[v] = pc[v]
  PROVE  \A v \in Workers : HoldsInTime(v)'
<1> SUFFICES ASSUME NEW v \in Workers, isLeader'[v]
             PROVE  holder' = v /\ age' <= Cycle * Turns(v)' + turn'[v]
  BY DEF HoldsInTime
<1>1. CASE v = w
  <2>1. holder' = w /\ age' = 0
    BY <1>1 DEF TryAcquire, LeaderInv, LeaderTypeOK
  <2>2. Turns(w)' \in Nat /\ turn'[w] \in Nat
    BY BoundsAreNat DEF LeaderTypeOK, Turns
  <2>3. Cycle * Turns(w)' \in Nat
    BY <2>2, TimesAreSeconds
  <2>4. QED
    BY <1>1, <2>1, <2>2, <2>3
<1>2. CASE v # w
  <2>1. isLeader[v]
    BY <1>2 DEF TryAcquire, LeaderInv, LeaderTypeOK
  <2>2. holder = v /\ age <= Cycle * Turns(v) + turn[v]
    BY <2>1 DEF LeaderInv, HoldsInTime
  <2>3. UNCHANGED <<holder, age>>
    BY <2>2, HoldersDiffer DEF TryAcquire, Acquirable
  <2>4. Turns(v)' = Turns(v)
    BY <1>2 DEF Turns, TryAcquire, Looked, LeaderInv, LeaderTypeOK
  <2>5. QED
    BY <2>2, <2>3, <2>4
<1>3. QED
  BY <1>1, <1>2

(***************************************************************************)
(* A leader holds the key, and in time, as long as the key outlives the    *)
(* turns in which it may not be looked at.                                 *)
(***************************************************************************)
THEOREM LeaderInvariant == KeyOutlivesTurns => (LeaderSpec => []LeaderInv)
<1> SUFFICES ASSUME KeyOutlivesTurns
             PROVE  LeaderSpec => []LeaderInv
  OBVIOUS
<1>1. LeaderInit => LeaderInv
  <2>1. LeaderInit => LeaderTypeOK
    BY TimesAreSeconds, BoundsAreNat, HoldersDiffer DEF LeaderInit, LeaderTypeOK, Places
  <2>2. QED
    BY <2>1 DEF LeaderInit, LeaderInv, HoldsInTime
<1>2. LeaderInv /\ LeaderTypeOK' /\ [LeaderNext]_leaderVars => LeaderInv'
  <2> SUFFICES ASSUME LeaderInv, LeaderTypeOK', [LeaderNext]_leaderVars
               PROVE  \A v \in Workers : HoldsInTime(v)'
    BY DEF LeaderInv
  <2>1. ASSUME NEW w \in Workers, Start(w) \/ Compete(w)
        PROVE  \A v \in Workers : HoldsInTime(v)'
    <3>1. TryAcquire(w) /\ turn' = turn /\ \A v \in Workers \ {w} : pc'[v] = pc[v]
      BY <2>1 DEF Start, Compete, LoopsTo, LeaderInv, LeaderTypeOK
    <3>2. QED
      BY <3>1, AcquiringHolds
  <2>2. ASSUME NEW w \in Workers, Pass(w)
        PROVE  \A v \in Workers : HoldsInTime(v)'
    BY <2>2 DEF Pass, LoopsTo, LeaderInv, LeaderTypeOK, HoldsInTime, Turns
  <2>3. ASSUME NEW w \in Workers, PassRaises(w)
        PROVE  \A v \in Workers : HoldsInTime(v)'
    <3>1. /\ pc[w] = "top" /\ raises' = [raises EXCEPT ![w] = @ + 1] /\ pc' = [pc EXCEPT ![w] = "sleep"]
          /\ UNCHANGED <<holder, age, isLeader, turn>>
      BY <2>3 DEF PassRaises, LoopsTo
    <3>2. ASSUME NEW v \in Workers
          PROVE  Turns(v)' = Turns(v)
      BY <3>1, BoundsAreNat DEF LeaderInv, LeaderTypeOK, Turns
    <3>3. QED
      BY <3>1, <3>2 DEF LeaderInv, HoldsInTime
  <2>4. ASSUME NEW w \in Workers, Refresh(w)
        PROVE  \A v \in Workers : HoldsInTime(v)'
    <3>1. CASE UNCHANGED <<age, raises>> /\ LoopsTo(w, "compete")
      BY <2>4, <3>1 DEF Refresh, LoopsTo, LeaderInv, LeaderTypeOK, HoldsInTime, Turns
    <3>2. CASE holder = w /\ age' = 0
      <4>1. ASSUME NEW v \in Workers
            PROVE  0 <= Cycle * Turns(v)' + turn'[v]
        <5>1. Turns(v)' \in Nat /\ turn'[v] \in Nat
          BY BoundsAreNat DEF LeaderTypeOK, Turns
        <5>2. Cycle * Turns(v)' \in Nat
          BY <5>1, TimesAreSeconds
        <5>3. QED
          BY <5>1, <5>2
      <4>2. UNCHANGED <<holder, isLeader>>
        BY <2>4 DEF Refresh
      <4>3. QED
        BY <3>2, <4>1, <4>2 DEF LeaderInv, HoldsInTime
    <3>3. QED
      BY <2>4, <3>1, <3>2 DEF Refresh
  <2>5. ASSUME NEW w \in Workers, Wake(w)
        PROVE  \A v \in Workers : HoldsInTime(v)'
    <3>1. /\ pc[w] = "sleep" /\ pc' = [pc EXCEPT ![w] = "top"] /\ turn' = [turn EXCEPT ![w] = 0]
          /\ UNCHANGED <<holder, age, isLeader, raises>>
      BY <2>5 DEF Wake, LoopsTo
    <3>2. ASSUME NEW v \in Workers, v # w
          PROVE  Turns(v)' = Turns(v) /\ turn'[v] = turn[v]
      BY <3>1, <3>2 DEF LeaderInv, LeaderTypeOK, Turns
    <3>3. Turns(w) \in Nat /\ Turns(w)' = Turns(w) + 1 /\ turn'[w] = 0 /\ turn[w] \in 0 .. Cycle
      BY <3>1, BoundsAreNat DEF LeaderInv, LeaderTypeOK, Turns
    <3>4. Cycle * Turns(w)' = Cycle * Turns(w) + Cycle
      BY <3>3, OneTurnMore
    <3>5. Cycle * Turns(w) + turn[w] <= Cycle * Turns(w)' + turn'[w]
      <4> DEFINE n == Cycle * Turns(w)
      <4>1. n \in Int
        BY <3>3, TimesAreSeconds
      <4> HIDE DEF n
      <4>2. n + turn[w] <= n + Cycle
        BY <3>3, <4>1, TimesAreSeconds
      <4>3. QED
        BY <3>3, <3>4, <4>1, <4>2, TimesAreSeconds DEF n
    <3>6. isLeader[w] => age <= Cycle * Turns(w)' + turn'[w]
      <4> DEFINE n == Cycle * Turns(w) + turn[w]
                 m == Cycle * Turns(w)' + turn'[w]
      <4>1. n \in Int /\ m \in Int /\ n <= m /\ age \in Int
        <5>1. Cycle * Turns(w) \in Int /\ Cycle * Turns(w)' \in Int
          BY <3>3, TimesAreSeconds
        <5>2. QED
          BY <3>3, <3>5, <5>1, TimesAreSeconds DEF LeaderInv, LeaderTypeOK
      <4>2. isLeader[w] => age <= n
        BY DEF LeaderInv, HoldsInTime
      <4> HIDE DEF n, m
      <4>3. isLeader[w] => age <= m
        BY <4>1, <4>2
      <4>4. QED
        BY <4>3 DEF m
    <3>7. QED
      BY <3>1, <3>2, <3>6 DEF LeaderInv, HoldsInTime
  <2>6. ASSUME NEW w \in Workers, Restart(w)
        PROVE  \A v \in Workers : HoldsInTime(v)'
    BY <2>6 DEF Restart, LoopsTo, LeaderInv, LeaderTypeOK, HoldsInTime, Turns
  <2>7. ASSUME NEW w \in Workers, Crash(w)
        PROVE  \A v \in Workers : HoldsInTime(v)'
    BY <2>7 DEF Crash, LoopsTo, LeaderInv, LeaderTypeOK, HoldsInTime, Turns
  <2>8. CASE LeaderTick
    <3> SUFFICES ASSUME NEW v \in Workers, isLeader'[v]
                 PROVE  holder' = v /\ age' <= Cycle * Turns(v)' + turn'[v]
      BY DEF HoldsInTime
    <3>1. isLeader[v] /\ pc[v] # "down" /\ turn[v] < Cycle /\ Turns(v)' = Turns(v) /\ turn'[v] = turn[v] + 1
      BY <2>8 DEF LeaderTick, LeaderInv, LeaderTypeOK, Turns
    <3>2. age + 1 < TTL /\ holder = v /\ age <= Cycle * Turns(v) + turn[v]
      BY <3>1, LeadersKeyLives DEF LeaderInv, HoldsInTime
    <3>3. age \in Nat /\ turn[v] \in Nat /\ Cycle * Turns(v) \in Int
      <4>1. Turns(v) \in Nat
        BY BoundsAreNat DEF LeaderInv, LeaderTypeOK, Turns
      <4>2. QED
        BY <4>1, TimesAreSeconds DEF LeaderInv, LeaderTypeOK
    <3>4. ~KeyExpiring
      BY <3>2, <3>3, TimesAreSeconds DEF KeyExpiring
    <3>5. holder' = holder /\ age' = age + 1
      BY <2>8, <3>2, <3>3, <3>4, TimesAreSeconds DEF LeaderTick
    <3> DEFINE n == Cycle * Turns(v)
    <3>6. n \in Int /\ age <= n + turn[v] /\ Cycle * Turns(v)' + turn'[v] = n + (turn[v] + 1)
      BY <3>1, <3>2, <3>3
    <3> HIDE DEF n
    <3>7. age + 1 <= n + (turn[v] + 1)
      BY <3>3, <3>6
    <3>8. QED
      BY <3>2, <3>5, <3>6, <3>7
  <2>9. CASE UNCHANGED leaderVars
    BY <2>9 DEF leaderVars, LeaderInv, HoldsInTime, Turns
  <2>10. QED
    BY <2>1, <2>2, <2>3, <2>4, <2>5, <2>6, <2>7, <2>8, <2>9 DEF LeaderNext, Step
<1>3. QED
  BY <1>1, <1>2, LeaderTypes, PTL DEF LeaderSpec, LeaderInv

\* No two workers ever take themselves for the leader.
THEOREM OneLeaderAtATime == KeyOutlivesTurns => (LeaderSpec => []OneLeader)
<1>1. LeaderInv => OneLeader
  BY DEF LeaderInv, HoldsInTime, OneLeader
<1>2. QED
  BY <1>1, LeaderInvariant, PTL
=============================================================================
