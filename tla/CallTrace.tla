------------------------------ MODULE CallTrace ------------------------------
(***************************************************************************)
(* The traces of calls in the chat of the two users.  Whoever ends a call  *)
(* has one appended: the trace claims its call and phase in Redis for a    *)
(* week, and is sent through the chat service in up to three attempts.     *)
(* Most traces start after the commit of the end they tell; two of the     *)
(* accept handler start inside its transaction.                            *)
(***************************************************************************)
EXTENDS Integers, Sequences, FiniteSets

CONSTANTS
  Calls,
  MaxTries        \* attempts to send one trace

ASSUME TriesArePositive == MaxTries \in Nat \ {0}

VARIABLES
  record,         \* the committed record of each call: its status, or why it ended
  closing,        \* how a transaction that is not committed yet ends it
  late,           \* calls that have rung for too long
  traces,         \* traces being appended
  claims,         \* calls and phases claimed in Redis
  told,           \* what the chat service accepted about each call, in order
  undone          \* calls an end of which was told and then rolled back

traceVars == <<record, closing, late, traces, claims, told, undone>>

Pending   == "pending"
Ongoing   == "ongoing"
Unended   == {Pending, Ongoing}

Trace(c, phase, actor) ==
  [call |-> c, phase |-> phase, actor |-> actor, claimed |-> FALSE, tries |-> 0]

\* The trace goes from the actor to the other one of the two.
PeerOf(actor) == IF actor = "callee" THEN "caller" ELSE "callee"
Event(t)      == [phase |-> t.phase, to |-> PeerOf(t.actor)]

TraceInit ==
  /\ record  = [c \in Calls |-> Pending]
  /\ closing = [c \in Calls |-> "no"]
  /\ late = {} /\ traces = {} /\ claims = {} /\ undone = {}
  /\ told = [c \in Calls |-> <<>>]

RingsOut(c) ==
  /\ record[c] = Pending
  /\ late' = late \cup {c}
  /\ UNCHANGED <<record, closing, traces, claims, told, undone>>

-----------------------------------------------------------------------------
\* A handler holds the row of a call until it commits.
Locked(c) == closing[c] # "no"

Accept(c) ==
  /\ record[c] = Pending /\ c \notin late /\ ~Locked(c)
  /\ record' = [record EXCEPT ![c] = Ongoing]
  /\ UNCHANGED <<closing, late, traces, claims, told, undone>>

\* The accept handler finds that the call has timed out, or that its payer is
\* broke, and tells so before its end of the call is committed.
AcceptEnds(c) ==
  /\ record[c] = Pending /\ ~Locked(c)
  /\ closing' = [closing EXCEPT ![c] = IF c \in late THEN "timeout" ELSE "balance_empty"]
  /\ traces'  = traces \cup {IF c \in late THEN Trace(c, "timeout", "caller")
                             ELSE Trace(c, "balance_empty", "callee")}
  /\ UNCHANGED <<record, late, claims, told, undone>>

\* It waits for the trace of a timeout, and not for the other one.
Waits(c) == closing[c] = "timeout" /\ \E t \in traces : t.call = c

Commit(c) ==
  /\ Locked(c) /\ ~Waits(c)
  /\ record'  = [record EXCEPT ![c] = closing[c]]
  /\ closing' = [closing EXCEPT ![c] = "no"]
  /\ UNCHANGED <<late, traces, claims, told, undone>>

Rollback(c) ==
  /\ Locked(c)
  /\ closing' = [closing EXCEPT ![c] = "no"]
  /\ traces'  = IF Waits(c) THEN {t \in traces : t.call # c} ELSE traces
  /\ undone'  = undone \cup {c}
  /\ UNCHANGED <<record, late, claims, told>>

-----------------------------------------------------------------------------
\* The other ends are committed first and told afterwards.
Ends(c, reason, phase, actor) ==
  /\ ~Locked(c)
  /\ record' = [record EXCEPT ![c] = reason]
  /\ traces' = traces \cup {Trace(c, phase, actor)}
  /\ UNCHANGED <<closing, late, claims, told, undone>>

Reject(c) == record[c] = Pending /\ Ends(c, "rejected", "rejected", "callee")
Cancel(c) == record[c] = Pending /\ Ends(c, "cancelled", "cancelled", "caller")

\* Hanging up is told as that even when the last minutes were not paid.
HangUp(c, actor) ==
  \/ record[c] \in Unended /\ Ends(c, "normal", "ended", actor)
  \/ record[c] = Ongoing /\ Ends(c, "balance_empty", "ended", actor)

\* The watchdog, or a heartbeat that bills, ends a call and tells why.
TraceOfEnd(reason) == IF reason \in {"balance_empty", "force_exit"} THEN reason ELSE "ended"

BillingEnds(c, reason, actor) ==
  /\ record[c] = Ongoing
  /\ reason = "balance_empty" => actor = "caller"
  /\ Ends(c, reason, TraceOfEnd(reason), actor)

TimeableAlways(c) == TRUE                   \* mutant of Timeable
Timeable(c)       == record[c] = Pending

\* Found late in one query, the calls are ended by a conditional update each.
WatchdogTimesOut(found) ==
  LET ended == {c \in found : Timeable(c)}
  IN  /\ found # {} /\ found \subseteq late
      /\ \A c \in found : ~Locked(c)
      /\ record' = [c \in Calls |-> IF c \in ended THEN "timeout" ELSE record[c]]
      /\ traces' = traces \cup {Trace(c, "timeout", "caller") : c \in ended}
      /\ UNCHANGED <<closing, late, claims, told, undone>>

-----------------------------------------------------------------------------
Claims(t) ==
  /\ ~t.claimed
  /\ LET claim == <<t.call, t.phase>>
     IN  /\ claims' = claims \cup {claim}
         /\ traces' = (traces \ {t}) \cup
                        IF claim \in claims THEN {} ELSE {[t EXCEPT !.claimed = TRUE]}
  /\ UNCHANGED <<record, closing, late, told, undone>>

\* An attempt may arrive, be answered, both or neither; the claim stays.
Sends(t) ==
  /\ t.claimed
  /\ \E arrives, answered \in BOOLEAN :
        /\ answered => arrives
        /\ told'   = IF arrives THEN [told EXCEPT ![t.call] = Append(@, Event(t))] ELSE told
        /\ traces' = (traces \ {t}) \cup
                       IF answered \/ t.tries + 1 = MaxTries THEN {}
                       ELSE {[t EXCEPT !.tries = @ + 1]}
  /\ UNCHANGED <<record, closing, late, claims, undone>>

\* Traces are switched off, Redis fails, or the worker stops.
Drops(t) ==
  /\ traces' = traces \ {t}
  /\ UNCHANGED <<record, closing, late, claims, told, undone>>

TraceNext ==
  \/ \E c \in Calls :
       \/ RingsOut(c) \/ Accept(c) \/ AcceptEnds(c) \/ Commit(c) \/ Rollback(c)
       \/ Reject(c) \/ Cancel(c)
       \/ \E actor \in {"caller", "callee"} :
             HangUp(c, actor) \/ \E reason \in {"balance_empty", "force_exit"} : BillingEnds(c, reason, actor)
  \/ \E found \in SUBSET Calls : WatchdogTimesOut(found)
  \/ \E t \in traces : Claims(t) \/ Sends(t) \/ Drops(t)

-----------------------------------------------------------------------------
\* What may be told of a call that is over: a broke payer may be met by a
\* hang-up, which is told as an end.
Truth(reason) ==
  CASE reason = "normal"        -> {"ended"}
    [] reason = "balance_empty" -> {"balance_empty", "ended"}
    [] OTHER                    -> {reason}

(***************************************************************************)
(* However many handlers end a call, and however often its traces are      *)
(* sent, the two users read of one end, from one side, at most as often as *)
(* it is tried; and unless a transaction that ended the call was undone it *)
(* is the end on record.                                                   *)
(***************************************************************************)
OneEndIsTold ==
  \A c \in Calls : \A k \in DOMAIN told[c] :
    LET event == told[c][k]
    IN  /\ Cardinality({j \in DOMAIN told[c] : told[c][j].phase = event.phase}) <= MaxTries
        /\ c \in undone \/ /\ \A j \in DOMAIN told[c] : told[c][j] = event
                           /\ IF record[c] \in Unended THEN closing[c] = event.phase
                              ELSE event.phase \in Truth(record[c])
=============================================================================
