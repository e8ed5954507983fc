----------------------------- MODULE WatchdogMC ------------------------------
(***************************************************************************)
(* The two parts of the call watchdog, the passes over one call and the    *)
(* election of the worker that makes them, side by side: `part' says which *)
(* of them moves in a behaviour.  Behind the passes that are looked at one *)
(* worker is the leader throughout.                                        *)
(***************************************************************************)
EXTENDS CallPresence, WatchdogLeader

VARIABLE part

\* Instead of LeaderInit, for the passes: what Start leaves where the key was free.
Elected ==
  LET first == CHOOSE w \in Workers : TRUE
  IN  /\ holder = first /\ age = 0
      /\ pc = [w \in Workers |-> "top"]
      /\ isLeader = [w \in Workers |-> w = first]
      /\ turn = [w \in Workers |-> 0] /\ raises = [w \in Workers |-> 0]
      /\ errors = 0 /\ crashes = 0

WatchdogInit ==
  /\ Init
  /\ \/ part = "passes" /\ Elected
     \/ part = "election" /\ LeaderInit

WatchdogNext ==
  /\ UNCHANGED part
  /\ \/ part = "passes" /\ Next /\ UNCHANGED leaderVars
     \/ part = "election" /\ LeaderNext /\ UNCHANGED vars

WatchdogSpec ==
  /\ WatchdogInit /\ [][WatchdogNext]_<<part, vars, leaderVars>>
  /\ (part = "passes" /\ Fairness) \/ (part = "election" /\ LeaderFairness)
=============================================================================
