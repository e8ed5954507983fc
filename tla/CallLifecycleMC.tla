-------------------------- MODULE CallLifecycleMC ---------------------------
(* Small instances of CallLifecycle: prices, balances and fee rates that     *)
(* make every branch of the bill happen within a few minutes of three        *)
(* seconds.                                                                  *)
EXTENDS CallLifecycle

CONSTANTS ann, bob, eve

\* ann and eve charge two coins a minute when certified, bob one.
Prices == [u \in Users |-> IF u = bob THEN 1 ELSE 2]

\* bob can pay two minutes of ann and half of a third.
Coins == [u \in Users |-> IF u = bob THEN 5 ELSE 3]

Certified == {ann}

NobodyYet == {}

\* No fee, or after a first free minute a quarter of the price and half the income.
Fees == {NoFee, [threshold |-> 1, payerBps |-> 2500, incomeBps |-> 5000]}

NoFees == {NoFee}

Swings   == {-1, 2}
NoSwings   == {}

-----------------------------------------------------------------------------
\* The same arithmetic with the sixty seconds of a real minute.
Seconds == INSTANCE CallBilling WITH Minute <- 60

LoopAgreesAt(price, bps, free, balance, duration) ==
  LET fee     == Seconds!PayerFeePerMinute(price, bps)
      minutes == Seconds!DueMinutes(duration, free)
      paid    == fee * Seconds!MinutesCovered(balance, fee, minutes)
  IN  Seconds!LoopOutcome(balance, fee, minutes) = [balance |-> balance - paid, paid |-> paid]

LoopAgrees ==
  \A price \in {0, 1, 3, 30}, bps \in {0, 50, 1500, 10000}, free \in {0, 10, 60, 75} :
    \A balance \in {0, 1, 45, 900, 901}, duration \in 0 .. 190 :
      LoopAgreesAt(price, bps, free, balance, duration)

(***************************************************************************)
(* The closed form of the fee loop is the loop: what it takes and what it  *)
(* leaves, for every second of three minutes and balances around the fee's *)
(* multiples.  It needs no more than one look, at the start.               *)
(***************************************************************************)
LoopIsClosedForm == now = 0 /\ (\A c \in Calls : call[c] = NoCall) => LoopAgrees

(***************************************************************************)
(* A call whose users are both uncertified has no payer and is not billed  *)
(* (_resolve_payer_id): it never ends for an empty balance.                *)
(***************************************************************************)
UnpaidNeverBroke ==
  \A c \in Calls :
    call[c].status = "ended" /\ call[c].payer = NoUser => call[c].reason # "balance_empty"
=============================================================================
