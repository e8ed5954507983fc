----------------------------- MODULE WsPresence -----------------------------
(***************************************************************************)
(* Who is online, and who hears an event (websocket/manager.py,            *)
(* presence.py, router.py, events.py).  One user's app connects to any of  *)
(* several worker processes, and may be connected twice while an old       *)
(* connection lingers.  A worker keeps its connections in memory; Redis    *)
(* keeps what all workers share.  Every call of Redis is a step of its     *)
(* own, may fail, and then ends the procedure it belongs to.  Keys that    *)
(* decide nothing here are left out: ws:pid:<pid>:users, which nobody      *)
(* reads, ws:online_since, by which lists of online users are ordered, and *)
(* the manual offline mark, which hides an online user from the readers.   *)
(*                                                                         *)
(* The user is in a call that ends: the event is published, may be lost,   *)
(* and the app also asks by the heartbeats it sends.                       *)
(***************************************************************************)
EXTENDS Integers

CONSTANTS
  Workers,
  Conns,         \* the connections the app makes, numbered as they come
  None,
  LeaseTTL,      \* _ONLINE_LEASE_TTL_SECONDS
  Timeout,       \* _HEARTBEAT_TIMEOUT
  MaxFailures,   \* bound: Redis calls and subscriptions that fail
  MaxCrashes     \* bound: workers that die

ASSUME TimesAreSeconds == LeaseTTL \in Nat \ {0} /\ Timeout \in Nat
ASSUME BoundsAreNat    == MaxFailures \in Nat /\ MaxCrashes \in Nat
ASSUME ConnsAreNumbers == Conns \subseteq Nat
ASSUME NoneIsNothing   == None \notin Workers \cup Conns \cup Nat

VARIABLES
  pc,          \* where the handler of each connection is
  at,          \* the worker a connection was made to
  silent,      \* seconds since the last message of an open connection
  current,     \* _ws_conns of each worker: its connection of the user
  online,      \* the user is in ws:online
  lease,       \* age of ws:online_lease, None when it expired
  owner,       \* ws:user:<id>:pid
  reader,      \* where a reader of the online state is
  call,        \* the user's call: "ongoing", "ended"
  push,        \* where the push of the end is
  subscribed,  \* workers whose listener is subscribed to ws:broadcast
  inbox,       \* subscribed workers that have the event to deliver
  heard,       \* the app knows of the end
  down,        \* workers that died
  failures,
  lastOwner,   \* history: the worker that wrote owner last
  raced        \* history: a connect overlapped a disconnect or a reader's drop

handlers == <<pc, at, silent, current>>
keys     == <<online, lease, owner>>
events   == <<call, push, subscribed, inbox, heard>>
state    == <<handlers, keys, reader, events, down, failures, lastOwner>>
wsVars   == <<state, raced>>

Joining == {"add", "lease", "own"}
Leaving == {"owner", "remove", "disown", "release"}

WsInit ==
  /\ pc = [c \in Conns |-> "new"] /\ at = [c \in Conns |-> None]
  /\ silent = [c \in Conns |-> 0] /\ current = [w \in Workers |-> None]
  /\ online = FALSE /\ lease = None /\ owner = None /\ reader = "idle"
  /\ call = "ongoing" /\ push = "none" /\ subscribed = Workers /\ inbox = {} /\ heard = FALSE
  /\ down = {} /\ failures = 0 /\ lastOwner = None /\ raced = FALSE

Goto(c, place) == pc' = [pc EXCEPT ![c] = place]

Fails == failures < MaxFailures /\ failures' = failures + 1

-----------------------------------------------------------------------------
\* connect: the new connection replaces the worker's old one, which is closed.
Register(c, w) ==
  /\ pc[c] = "new" /\ w \notin down
  /\ \A older \in Conns : older < c => pc[older] # "new"
  /\ at' = [at EXCEPT ![c] = w]
  /\ silent' = [silent EXCEPT ![c] = 0]
  /\ current' = [current EXCEPT ![w] = c]
  /\ Goto(c, "add")
  /\ UNCHANGED <<keys, reader, events, down, failures, lastOwner>>

\* connect, its calls of Redis in turn.
Join(c) ==
  /\ \/ /\ pc[c] = "add"
        /\ online' = TRUE /\ Goto(c, "lease")
        /\ UNCHANGED <<lease, owner, lastOwner>>
     \/ /\ pc[c] = "lease"
        /\ lease' = 0 /\ Goto(c, "own")
        /\ UNCHANGED <<online, owner, lastOwner>>
     \/ /\ pc[c] = "own"
        /\ owner' = at[c] /\ lastOwner' = at[c] /\ Goto(c, "open")
        /\ UNCHANGED <<online, lease>>
  /\ UNCHANGED <<at, silent, current, reader, events, down, failures>>

\* A failing call of Redis is logged and the connection goes on without the rest.
JoinFails(c) ==
  /\ pc[c] \in Joining /\ Fails
  /\ Goto(c, "open")
  /\ UNCHANGED <<at, silent, current, keys, reader, events, down, lastOwner>>

\* refresh_online_lease is for the worker's current connection only.
Refreshes(c) == current[at[c]] = c

AnswersNothing == FALSE                              \* mutant of AnswersEnd
\* _handle_call_heartbeat_message: the heartbeat of a call that ended is answered with its end.
AnswersEnd     == call = "ended"

\* A message of the app, at most one a second: a ping, or the heartbeat of its call.
Message(c) ==
  /\ pc[c] = "open"
  /\ silent[c] > 0
  /\ silent' = [silent EXCEPT ![c] = 0]
  /\ \/ /\ lease' = IF Refreshes(c) THEN 0 ELSE lease
        /\ UNCHANGED failures
     \/ Refreshes(c) /\ Fails /\ UNCHANGED lease
  /\ heard' = (heard \/ AnswersEnd)
  /\ UNCHANGED <<pc, at, current, online, owner, reader,
                 call, push, subscribed, inbox, down, lastOwner>>

\* A connection that was replaced on its worker removes nothing.
RemovesCurrent(c) == current[at[c]] = c

\* disconnect: after a close by the app, the heartbeat timeout, or a send that failed.
Leave(c) ==
  /\ pc[c] = "open"
  /\ IF RemovesCurrent(c)
     THEN current' = [current EXCEPT ![at[c]] = None] /\ Goto(c, "owner")
     ELSE Goto(c, "closed") /\ UNCHANGED current
  /\ silent' = [silent EXCEPT ![c] = 0]
  /\ UNCHANGED <<at, keys, reader, events, down, failures, lastOwner>>

OwnsAnyway(w) == TRUE                                \* mutant of Owns
\* Only the worker that owns the user takes it offline.
Owns(w)       == owner = w

\* disconnect, its calls of Redis in turn.
Depart(c) ==
  /\ \/ /\ pc[c] = "owner"
        /\ Goto(c, IF Owns(at[c]) THEN "remove" ELSE "closed")
        /\ UNCHANGED keys
     \/ /\ pc[c] = "remove"
        /\ online' = FALSE /\ Goto(c, "disown")
        /\ UNCHANGED <<owner, lease>>
     \/ /\ pc[c] = "disown"
        /\ owner' = None /\ Goto(c, "release")
        /\ UNCHANGED <<online, lease>>
     \/ /\ pc[c] = "release"
        /\ lease' = None /\ Goto(c, "closed")
        /\ UNCHANGED <<online, owner>>
  /\ UNCHANGED <<at, silent, current, reader, events, down, failures, lastOwner>>

DepartFails(c) ==
  /\ pc[c] \in Leaving /\ Fails
  /\ Goto(c, "closed")
  /\ UNCHANGED <<at, silent, current, keys, reader, events, down, lastOwner>>

-----------------------------------------------------------------------------
\* is_online and its batch forms: a member without a lease is stale and is dropped.
ReadOnline ==
  /\ \/ reader = "idle" /\ online /\ reader' = "lease" /\ UNCHANGED online
     \/ reader = "lease" /\ reader' = (IF lease = None THEN "drop" ELSE "idle") /\ UNCHANGED online
     \/ reader = "drop" /\ online' = FALSE /\ reader' = "idle"
  /\ UNCHANGED <<handlers, lease, owner, events, down, failures, lastOwner>>

\* A failing read degrades to offline, and a failing drop is passed over.
ReadFails ==
  /\ reader # "idle" /\ Fails
  /\ reader' = "idle"
  /\ UNCHANGED <<handlers, keys, events, down, lastOwner>>

-----------------------------------------------------------------------------
\* The other party, or the watchdog, ends the call; the push is a task of its own.
EndHappens ==
  /\ call = "ongoing"
  /\ call' = "ended" /\ push' = "check"
  /\ UNCHANGED <<handlers, keys, reader, subscribed, inbox, heard, down, failures, lastOwner>>

\* push_to_user: skipped for a user who is not in ws:online, else published to all workers.
PushToUser ==
  /\ \/ push = "check" /\ push' = (IF online THEN "publish" ELSE "done") /\ UNCHANGED inbox
     \/ push = "publish" /\ push' = "done" /\ inbox' = subscribed
  /\ UNCHANGED <<handlers, keys, reader, call, subscribed, heard, down, failures, lastOwner>>

PushFails ==
  /\ push \in {"check", "publish"} /\ Fails
  /\ push' = "done"
  /\ UNCHANGED <<handlers, keys, reader, call, subscribed, inbox, heard, down, lastOwner>>

\* _pubsub_loop hands the event to _send_ws: to the worker's own connection, if it has one.
\* The app hears it unless the socket is dead, which then ends that connection;
\* a socket that dies before its connect is over is left out.
Deliver(w) ==
  /\ w \in inbox /\ inbox' = inbox \ {w}
  /\ LET c == current[w] IN
       \/ c = None /\ UNCHANGED <<pc, silent, current, heard>>
       \/ c # None /\ heard' = TRUE /\ UNCHANGED <<pc, silent, current>>
       \/ /\ c # None /\ pc[c] = "open"
          /\ current' = [current EXCEPT ![w] = None]
          /\ silent' = [silent EXCEPT ![c] = 0]
          /\ Goto(c, "owner") /\ UNCHANGED heard
  /\ UNCHANGED <<at, keys, reader, call, push, subscribed, down, failures, lastOwner>>

\* The listener's connection breaks: what was published meanwhile is lost.
ListenerBreaks(w) ==
  /\ w \in subscribed /\ Fails
  /\ subscribed' = subscribed \ {w} /\ inbox' = inbox \ {w}
  /\ UNCHANGED <<handlers, keys, reader, call, push, heard, down, lastOwner>>

\* After its delay the loop subscribes again.
Resubscribe(w) ==
  /\ w \notin subscribed \cup down
  /\ subscribed' = subscribed \cup {w}
  /\ UNCHANGED <<handlers, keys, reader, call, push, inbox, heard, down, failures, lastOwner>>

-----------------------------------------------------------------------------
\* A worker dies with its connections; what it wrote to Redis stays.
Crash(w) ==
  /\ down = {} /\ MaxCrashes > 0 /\ down' = {w}
  /\ pc' = [c \in Conns |-> IF at[c] = w THEN "closed" ELSE pc[c]]
  /\ silent' = [c \in Conns |-> IF at[c] = w THEN 0 ELSE silent[c]]
  /\ current' = [current EXCEPT ![w] = None]
  /\ subscribed' = subscribed \ {w} /\ inbox' = inbox \ {w}
  /\ UNCHANGED <<at, keys, reader, call, push, heard, failures, lastOwner>>

NeverExpires == FALSE                                \* mutant of Expiring
Expiring     == lease # None /\ lease + 1 >= LeaseTTL

OpenOnes == {c \in Conns : pc[c] = "open"}

\* A second passes: calls of Redis take less, and a silent connection has been closed.
Second ==
  /\ \A c \in Conns : pc[c] \in {"new", "open", "closed"}
  /\ \A c \in OpenOnes : silent[c] < Timeout
  /\ lease # None \/ OpenOnes # {}
  /\ silent' = [c \in Conns |-> IF pc[c] = "open" THEN silent[c] + 1 ELSE 0]
  /\ lease' = CASE Expiring -> None
                [] lease = None -> None
                [] OTHER -> IF lease + 1 < LeaseTTL THEN lease + 1 ELSE lease
  /\ UNCHANGED <<pc, at, current, online, owner, reader, events,
                 down, failures, lastOwner>>

\* A connect overlaps a disconnect, or a reader that found no lease and has not dropped the user.
Overlap ==
  /\ \E c \in Conns : pc[c] \in Joining
  /\ reader \in {"lease", "drop"} \/ \E c \in Conns : pc[c] \in Leaving

Step(c)   == Join(c) \/ Depart(c)
Listen(w) == Deliver(w) \/ Resubscribe(w)

WsNext ==
  /\ \/ \E c \in Conns, w \in Workers : Register(c, w)
     \/ \E c \in Conns : \/ Step(c) \/ JoinFails(c) \/ DepartFails(c)
                         \/ Message(c) \/ Leave(c)
     \/ \E w \in Workers : Listen(w) \/ ListenerBreaks(w) \/ Crash(w)
     \/ ReadOnline \/ ReadFails \/ EndHappens \/ PushToUser \/ PushFails \/ Second
  /\ raced' = (raced \/ Overlap')

WsSpec == WsInit /\ [][WsNext]_wsVars

\* Procedures end, time passes, and the loop reads the next message or times out.
WsFairness ==
  /\ SF_state(Second) /\ WF_state(PushToUser)
  /\ \A c \in Conns : WF_state(Step(c)) /\ WF_state(Message(c) \/ Leave(c))
  /\ \A w \in Workers : WF_state(Listen(w))

WsFairSpec == WsSpec /\ WsFairness

-----------------------------------------------------------------------------
\* What is_online answers.
Reachable == online /\ lease # None

(***************************************************************************)
(* Every variable has its type, a connection is at a worker once made, and *)
(* a worker's current connection is one made to it that has not left.      *)
(***************************************************************************)
WsTypes ==
  /\ pc \in [Conns -> {"new", "open", "closed"} \cup Joining \cup Leaving]
  /\ at \in [Conns -> Workers \cup {None}] /\ silent \in [Conns -> 0 .. Timeout]
  /\ current \in [Workers -> Conns \cup {None}]
  /\ online \in BOOLEAN /\ heard \in BOOLEAN
  /\ lease \in 0 .. LeaseTTL - 1 \cup {None}
  /\ owner \in Workers \cup {None} /\ lastOwner \in Workers \cup {None}
  /\ inbox \subseteq subscribed /\ subscribed \subseteq Workers \ down
  /\ reader \in {"idle", "lease", "drop"}
  /\ call \in {"ongoing", "ended"} /\ push \in {"none", "check", "publish", "done"}
  /\ failures \in 0 .. MaxFailures /\ raced \in BOOLEAN
  /\ \A c \in Conns : pc[c] = "new" <=> at[c] = None
  /\ \A w \in Workers : current[w] # None => at[current[w]] = w /\ pc[current[w]] \in Joining \cup {"open"}

(***************************************************************************)
(* The user whose newest connection is open is in ws:online, has a lease   *)
(* and is owned by that connection's worker, whatever an older connection, *)
(* on the same worker or on another, does when it leaves late: "only when  *)
(* the global owner still is this process may the user be marked offline". *)
(* It takes Redis calls that do not fail and a connect that overlaps no    *)
(* disconnect and no drop: the owner is read in one call and the keys are  *)
(* removed in others.                                                      *)
(***************************************************************************)
NewestKeepsOnline ==
  ~raced /\ failures = 0 =>
    \A c \in OpenOnes :
      current[at[c]] = c /\ lastOwner = at[c] => online /\ lease # None /\ owner = at[c]

(***************************************************************************)
(* Once a user has no connection left the user goes offline, although the  *)
(* worker that would have removed the keys died or could not reach Redis.  *)
(***************************************************************************)
Connected == \E c \in Conns : pc[c] \in Joining \cup {"open"}

AbandonedFades == ~Connected ~> ~Reachable \/ Connected

(***************************************************************************)
(* The end of a call reaches an app that stays connected, although the     *)
(* event is pushed once and lost when the user is missing from ws:online,  *)
(* Redis fails or the listener is reconnecting: the next heartbeat of the  *)
(* call asks again.                                                        *)
(***************************************************************************)
EndIsHeard == (call = "ended") ~> (heard \/ OpenOnes = {})
=============================================================================
