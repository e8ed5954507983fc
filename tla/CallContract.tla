---------------------------- MODULE CallContract ----------------------------
(***************************************************************************)
(* What a call promises its parties, whichever handler or pass makes a     *)
(* step of it: it rings for two free users, runs from one moment on with a *)
(* payer and a tariff, and is over once.  Every coin a payer loses to it   *)
(* is on its bill, the bill never exceeds the tariff of the minutes owed,  *)
(* and a party earns at most a share of the final bill, when it is over.   *)
(***************************************************************************)
EXTENDS CallBilling

CONSTANTS Users, Calls, NoUser, FreeSeconds, ShareBps

VARIABLES
  now,      \* seconds
  deal,     \* what is agreed of each call, and its bill so far
  spent,    \* what calls cost each user, in hundredths of a coin
  earned    \* what calls gave each user, in hundredths of a diamond

vars == <<now, deal, spent, earned>>

NoTariff == [price |-> 0, surcharge |-> 0, threshold |-> 0]

Unagreed == [stage |-> "none", parties |-> {}, payer |-> NoUser, since |-> 0,
             tariff |-> NoTariff, lasted |-> 0, bill |-> 0]

Over(lasted, bill) == [Unagreed EXCEPT !.stage = "over", !.lasted = lasted, !.bill = bill]

\* The most that a number of minutes costs, in hundredths of a coin.
Cost(tariff, minutes) ==
  100 * tariff.price * minutes + tariff.surcharge * ChargeableMinutes(minutes, tariff.threshold)

Init ==
  /\ now    = 0
  /\ deal   = [c \in Calls |-> Unagreed]
  /\ spent  = [u \in Users |-> 0]
  /\ earned = [u \in Users |-> 0]

Engaged(u) == \E c \in Calls : u \in deal[c].parties

\* Every other call is as it was.
Only(c) == \A d \in Calls \ {c} : deal'[d] = deal[d]

\* The payer's loss is what the bill grew by; nobody else loses.
Paid(c) ==
  spent' = [u \in Users |-> IF u = deal[c].payer THEN spent[u] + deal'[c].bill - deal[c].bill
                            ELSE spent[u]]

Ring(c) ==
  /\ deal[c] = Unagreed
  /\ \E u, v \in Users :
       /\ u # v /\ ~Engaged(u) /\ ~Engaged(v)
       /\ deal' = [deal EXCEPT ![c] = [Unagreed EXCEPT !.stage = "ringing", !.parties = {u, v}]]
  /\ UNCHANGED <<now, spent, earned>>

Answer(c) ==
  /\ deal[c].stage = "ringing"
  /\ Only(c)
  /\ deal'[c] = [deal[c] EXCEPT !.stage = "running", !.since = now,
                                !.payer = deal'[c].payer, !.tariff = deal'[c].tariff]
  /\ deal'[c].payer \in deal[c].parties \cup {NoUser}
  /\ UNCHANGED <<now, spent, earned>>

\* Refused, cancelled, timed out, or not affordable: it cost nothing.
Miss(c) ==
  /\ deal[c].stage = "ringing"
  /\ deal' = [deal EXCEPT ![c] = Over(0, 0)]
  /\ UNCHANGED <<now, spent, earned>>

\* A minute that has begun is paid.
Meter(c) ==
  LET d == deal[c]
  IN  /\ d.stage = "running"
      /\ Only(c)
      /\ deal'[c] = [d EXCEPT !.bill = deal'[c].bill]
      /\ deal'[c].bill \in d.bill .. Cost(d.tariff, DueMinutes(now - d.since, FreeSeconds))
      /\ Paid(c)
      /\ UNCHANGED <<now, earned>>

\* The call is over as of some second it ran, on record; the bill becomes that second's.
HangUp(c) ==
  LET d == deal[c]
  IN  /\ d.stage = "running"
      /\ Only(c)
      /\ deal'[c] = Over(deal'[c].lasted, deal'[c].bill)
      /\ deal'[c].lasted \in 0 .. now - d.since
      /\ deal'[c].bill \in 0 .. Cost(d.tariff, DueMinutes(deal'[c].lasted, FreeSeconds))
      /\ Paid(c)
      /\ \E earner \in d.parties :
           /\ \A u \in Users \ {earner} : earned'[u] = earned[u]
           /\ earned'[earner] - earned[earner] \in 0 .. (deal'[c].bill * ShareBps) \div 10000
      /\ UNCHANGED now

TimePasses == now' \in Nat /\ now' > now /\ UNCHANGED <<deal, spent, earned>>

Next ==
  \/ \E c \in Calls : Ring(c) \/ Answer(c) \/ Miss(c) \/ Meter(c) \/ HangUp(c)
  \/ TimePasses

Spec == Init /\ [][Next]_vars
=============================================================================
