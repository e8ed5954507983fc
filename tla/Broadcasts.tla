----------------------------- MODULE Broadcasts ------------------------------
(***************************************************************************)
(* What the apps are shown of other users: online, busy, not to be         *)
(* disturbed or offline.  Every change of it starts a task that reads the  *)
(* user's availability anew and pushes it to whoever is online by then.    *)
(* Nothing orders these tasks.  A push that is sent here arrives; a user   *)
(* who was not sent one has missed it.                                     *)
(***************************************************************************)
EXTENDS Integers, Sequences, FiniteSets

CONSTANTS
  People,
  Caller, Callee,      \* the two of the one call
  MaxChanges,          \* bound on changes
  MaxMidway            \* bound on tasks that have read and not yet pushed

VARIABLES
  calling,        \* the call is pending or ongoing on record
  ending,         \* a transaction ends it and has not committed
  connected,      \* users with a connection and a lease
  hidden,         \* users who set themselves offline
  dnd,            \* users who do not want video calls
  due,            \* tasks that have to read next: the users left to announce
  midway,         \* tasks that have read one user, in the order they did
  shown,          \* what each user's app shows of each user
  crossed,        \* users announced out of order, too early, or not at all
  changes

castVars == <<calling, ending, connected, hidden, dnd, due, midway, shown, crossed, changes>>

Missed == "missed"

CallerOnly == {Caller}                   \* mutant of Concerned
Concerned  == {Caller, Callee}

IsOnline(u) == u \in connected \ hidden
IsBusy(u)   == calling /\ u \in {Caller, Callee}

Availability(u) ==
  CASE ~IsOnline(u)                          -> "offline"
    [] IsOnline(u) /\ u \in dnd              -> "dnd"
    [] IsOnline(u) /\ u \notin dnd /\ IsBusy(u) -> "busy"
    [] OTHER                                 -> "online"

CastInit ==
  /\ calling = FALSE /\ ending = FALSE
  /\ connected = People /\ hidden = {} /\ dnd = {}
  /\ due = {} /\ midway = <<>>
  /\ shown = [v \in People |-> [u \in People |-> "online"]]
  /\ crossed = {} /\ changes = 0

-----------------------------------------------------------------------------
Changes(announced) ==
  /\ changes < MaxChanges
  /\ changes' = changes + 1
  /\ due' = due \cup {announced}
  /\ UNCHANGED midway

\* The app of a user who comes or goes is not told anything until it is back.
Forgets(v) == shown' = [shown EXCEPT ![v] = [u \in People |-> Missed]]

Connect(u) ==
  /\ u \notin connected /\ Changes({u})
  /\ connected' = connected \cup {u}
  /\ Forgets(u)
  /\ UNCHANGED <<calling, ending, hidden, dnd, crossed>>

Disconnect(u) ==
  /\ u \in connected /\ Changes({u})
  /\ connected' = connected \ {u}
  /\ Forgets(u)
  /\ UNCHANGED <<calling, ending, hidden, dnd, crossed>>

SetOnlineStatus(u) ==
  /\ u \in connected /\ Changes({u})
  /\ hidden' \in {hidden \cup {u}, hidden \ {u}}
  /\ UNCHANGED <<calling, ending, connected, dnd, shown, crossed>>

\* Only a change of the video setting is announced.
UpdateDnd(u) ==
  /\ Changes({u})
  /\ dnd' = IF u \in dnd THEN dnd \ {u} ELSE dnd \cup {u}
  /\ UNCHANGED <<calling, ending, connected, hidden, shown, crossed>>

Dial ==
  /\ ~calling /\ Changes(Concerned)
  /\ calling' = TRUE
  /\ UNCHANGED <<ending, connected, hidden, dnd, shown, crossed>>

\* Rejecting, cancelling, hanging up and the watchdog announce after the commit,
CallEnds ==
  /\ calling /\ ~ending /\ Changes(Concerned)
  /\ calling' = FALSE
  /\ UNCHANGED <<ending, connected, hidden, dnd, shown, crossed>>

\* the accept handler that finds the call late or its payer broke before it.
AcceptGivesUp ==
  /\ calling /\ ~ending /\ Changes(Concerned)
  /\ ending' = TRUE
  /\ UNCHANGED <<calling, connected, hidden, dnd, shown, crossed>>

\* Its transaction is committed or rolled back.
AcceptIsOver ==
  /\ ending
  /\ calling' \in BOOLEAN /\ ending' = FALSE
  /\ UNCHANGED <<connected, hidden, dnd, due, midway, shown, crossed, changes>>

\* Nobody announces a lease, or the mark of a hidden user, that expires.
Lapses(u) ==
  /\ changes < MaxChanges
  /\ \/ u \in connected /\ connected' = connected \ {u} /\ UNCHANGED hidden
     \/ u \in hidden /\ hidden' = hidden \ {u} /\ UNCHANGED connected
  /\ changes' = changes + 1
  /\ crossed' = crossed \cup {u}
  /\ UNCHANGED <<calling, ending, dnd, due, midway, shown>>

-----------------------------------------------------------------------------
\* A task reads the availability of one of its users,
Read(left, u) ==
  /\ Len(midway) < MaxMidway
  /\ due' = due \ {left}
  /\ midway' = Append(midway, [left |-> left \ {u}, user |-> u, said |-> Availability(u),
                               passed |-> FALSE])
  /\ crossed' = IF ending /\ u \in Concerned THEN crossed \cup {u} ELSE crossed
  /\ UNCHANGED <<calling, ending, connected, hidden, dnd, shown, changes>>

\* and then pushes it to every user online by now, passing earlier readers.
Push(k) ==
  LET task == midway[k]
      Told(v) == IF IsOnline(v) THEN task.said ELSE Missed
      Rest(j) == IF j < k /\ midway[j].user = task.user THEN [midway[j] EXCEPT !.passed = TRUE]
                 ELSE midway[j]
  IN  /\ shown'   = [v \in People |-> [shown[v] EXCEPT ![task.user] = Told(v)]]
      /\ midway'  = [j \in 1..Len(midway) - 1 |-> IF j < k THEN Rest(j) ELSE midway[j + 1]]
      /\ due'     = IF task.left = {} THEN due ELSE due \cup {task.left}
      /\ crossed' = IF task.passed THEN crossed \cup {task.user} ELSE crossed
      /\ UNCHANGED <<calling, ending, connected, hidden, dnd, changes>>

CastNext ==
  \/ Dial \/ CallEnds \/ AcceptGivesUp \/ AcceptIsOver
  \/ \E u \in People : Connect(u) \/ Disconnect(u) \/ SetOnlineStatus(u) \/ UpdateDnd(u) \/ Lapses(u)
  \/ \E left \in due : \E u \in left : Read(left, u)
  \/ \E k \in DOMAIN midway : Push(k)

-----------------------------------------------------------------------------
Quiet == due = {} /\ midway = <<>> /\ ~ending

(***************************************************************************)
(* Once every announcement is out, an app shows each user as that user is, *)
(* or was away when it was told: though a task reads after other changes,  *)
(* and is late with what it read.  Users of whom an older reading was      *)
(* pushed last, who were read before the end of their call was committed,  *)
(* or whose lease lapsed unannounced are set apart.                        *)
(***************************************************************************)
ShownIsActual ==
  Quiet => \A v \in People, u \in People \ crossed : shown[v][u] \in {Missed, Availability(u)}
=============================================================================
