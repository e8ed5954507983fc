------------------------------ MODULE Greeting -------------------------------
(***************************************************************************)
(* The greetings a certified user sends to everybody who is online         *)
(* (flirt.py, flirt_greet_service.py): a number of them a day, counted in  *)
(* Redis under the day's key, and a pause after each.  flirt_greet takes   *)
(* one of the day's greetings by a script, finds out whom it may greet     *)
(* with the list of blocks of Social, and then either gives it back or     *)
(* starts the pause and the sending.                                       *)
(***************************************************************************)
EXTENDS Social

CONSTANTS
  Greeter,        \* the certified user
  DailyLimit,     \* flirt_greet_daily_limit; 0 closes the greetings
  Pause,          \* flirt_greet_cooldown_seconds, in ticks
  MaxDay          \* bound: midnights

ASSUME GreeterIsUser == Greeter \in Users
ASSUME LimitsAreNat == {DailyLimit, Pause, MaxDay} \subseteq Nat

VARIABLES
  used,           \* the counter under today's key
  pause,          \* ticks the pause key has left, 0 when there is none
  day,
  sent,           \* history: greetings of today's counter that went out
  lost,           \* history: those taken by a request that died, or not given back
  shifted         \* history: those of yesterday given back to today's counter

greets == <<used, pause, day, sent, lost, shifted>>
allVars == <<vars, greets>>

GreetInit == Init /\ used = 0 /\ pause = 0 /\ day = 0 /\ sent = 0 /\ lost = 0 /\ shifted = 0

Still == UNCHANGED <<tables, shows, cache, past>>

-----------------------------------------------------------------------------
PausedOnly == pause = 0                                 \* mutant of Takeable
Takeable   == pause = 0 /\ used < DailyLimit

\* reserve_greet_quota: the script takes a greeting unless there is a pause or none is left.
\* What is read before the script can only refuse earlier.
Greet(p) ==
  /\ DailyLimit > 0 /\ Takeable
  /\ Starts(p, Request("greet", Greeter, day, "read", <<Greeter>>))
  /\ used' = used + 1
  /\ Still /\ UNCHANGED <<pause, day, sent, lost, shifted>>

Today(p) == proc[p].what = day

\* Whom it may greet: some of the users it need not leave out are online, not
\* in text DND and allowed by the interaction rules.
Greets(p) ==
  /\ At(p, "greet", "go")
  /\ Users \ (proc[p].got \cup {Greeter}) # {}
  /\ \/ pause' = Pause /\ UNCHANGED failures
     \/ MayFail /\ failures' = failures + 1 /\ UNCHANGED pause
  /\ sent' = IF Today(p) THEN sent + 1 ELSE sent
  /\ proc' = [proc EXCEPT ![p] = Idle] /\ UNCHANGED started
  /\ Still /\ UNCHANGED <<used, day, lost, shifted>>

\* Nobody is: release_greet_quota reads today's counter,
GivesBack(p) ==
  /\ At(p, "greet", "go")
  /\ IF used > 0
     THEN /\ proc' = [proc EXCEPT ![p].step = "release", ![p].got = {day}]
          /\ UNCHANGED <<lost, counts>>
     ELSE /\ Ends(p)
          /\ lost' = IF Today(p) THEN lost + 1 ELSE lost
  /\ Still /\ UNCHANGED <<used, pause, day, sent, shifted>>

SameKey(p) == day \in proc[p].got

\* and takes one off under the key it read, which is yesterday's if midnight came between.
Release(p) ==
  /\ At(p, "greet", "release")
  /\ used'    = IF SameKey(p) THEN used - 1 ELSE used
  /\ shifted' = IF SameKey(p) /\ ~Today(p) THEN shifted + 1 ELSE shifted
  /\ Ends(p)
  /\ Still /\ UNCHANGED <<pause, day, sent, lost>>

\* The request dies, or Redis fails in the release: the greeting is not given back.
Loses(p) ==
  /\ proc[p].op = "greet" /\ Dies(p)
  /\ lost' = IF Today(p) THEN lost + 1 ELSE lost
  /\ UNCHANGED <<used, pause, day, sent, shifted>>

\* At midnight the day's key expires, and another one counts.
Midnight ==
  /\ subject = "greets" /\ day < MaxDay /\ day' = day + 1
  /\ used' = 0 /\ sent' = 0 /\ lost' = 0 /\ shifted' = 0
  /\ UNCHANGED <<vars, pause>>

-----------------------------------------------------------------------------
\* Social goes on; what happens to a greeting that dies is in Loses.
SocialNext ==
  /\ \/ /\ RequestMoves /\ UNCHANGED pause
        /\ ~(\E p \in Procs : proc[p].op = "greet" /\ proc'[p] = Idle)
     \/ /\ TimePasses /\ UNCHANGED subject
        /\ pause' = IF pause > 0 THEN pause - 1 ELSE pause
  /\ UNCHANGED <<used, day, sent, lost, shifted>>

GreetNext ==
  \/ SocialNext
  \/ \E p \in Procs :
       /\ subject = "greets"
       /\ \/ Greet(p) \/ Greets(p) \/ GivesBack(p) \/ Release(p) \/ Loses(p)
          \/ \E v \in Users \ {Greeter} :
               (Block(p, Greeter, v) \/ Unblock(p, Greeter, v)) /\ UNCHANGED greets
       /\ UNCHANGED subject
  \/ Midnight

GreetSpec == GreetInit /\ [][GreetNext]_allVars

-----------------------------------------------------------------------------
\* The requests that hold a greeting of today's counter.
Holding == {p \in Procs : proc[p].op = "greet" /\ Today(p)}

(***************************************************************************)
(* The day's counter is what was sent, what requests under way hold, and   *)
(* what was lost, less what requests of the day before gave back to it: a  *)
(* greeting that reached nobody is neither kept nor given back twice.  So  *)
(* no more go out in a day than the limit, and those that midnight gave.   *)
(***************************************************************************)
GreetsAreCounted ==
  /\ used + shifted = sent + Cardinality(Holding) + lost
  /\ used <= DailyLimit /\ sent <= DailyLimit + shifted
=============================================================================
