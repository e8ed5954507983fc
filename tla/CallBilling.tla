---------------------------- MODULE CallBilling -----------------------------
(***************************************************************************)
(* The arithmetic of a call's bill: the minutes a duration owes, the       *)
(* platform's fees on them, and the certified user's share.  Prices and    *)
(* deducted amounts are whole coins; balances and fees have two decimals   *)
(* (quantize_decimal_2, half up) and are counted here in hundredths.       *)
(***************************************************************************)
EXTENDS Integers

CONSTANT Minute   \* seconds in a billed minute (60 in the code)

ASSUME MinuteIsPositive == Minute \in Nat \ {0}

Bps == 0 .. 10000   \* rates are clamped to basis points

Positive(n) == IF n > 0 THEN n ELSE 0
Least(a, b) == IF a <= b THEN a ELSE b

\* calc_due_minutes: nothing below the free seconds, then every started minute.
DueMinutes(duration, free) ==
  IF duration < free THEN 0 ELSE (duration + Minute - 1) \div Minute

\* next_due_second: when the first minute after the deducted ones is owed.
NextDueSecond(minutes, free) == IF minutes = 0 THEN free ELSE minutes * Minute

\* calc_service_fee_decimal on an amount in hundredths, rounded half up.
ServiceFee(amount, bps) == (amount * bps + 5000) \div 10000

\* calc_certified_user_income_diamonds: whole diamonds, rounded down.
GrossIncome(fee, share) == (fee * share) \div 10000

PayerFeePerMinute(price, bps) == ServiceFee(100 * price, bps)

IncomeFeePerMinute(price, share, bps) == ServiceFee(100 * GrossIncome(price, share), bps)

\* calc_call_chargeable_minutes: minutes above the fee threshold.
ChargeableMinutes(minutes, threshold) == Positive(minutes - threshold)

MinutesAbove(balance, fee, minutes) ==       \* mutant of MinutesCovered
  IF fee = 0 \/ balance = 0 THEN 0 ELSE Least(minutes, (balance - 1) \div fee)

(***************************************************************************)
(* The loop that charges a fee minute by minute while the balance covers   *)
(* it: all fees are equal, so the first minute it skips is the first of    *)
(* the ones the balance no longer covers.                                  *)
(***************************************************************************)
MinutesCovered(balance, fee, minutes) ==
  IF fee = 0 THEN 0 ELSE Least(minutes, balance \div fee)

(***************************************************************************)
(* What the same loop does, one iteration at a time, over the record of    *)
(* the balance and of what was paid: the reference for MinutesCovered.     *)
(***************************************************************************)
LoopOutcome(balance, fee, minutes) ==
  LET after[n \in 0 .. minutes] ==
        IF n = 0 THEN [balance |-> balance, paid |-> 0]
        ELSE LET before == after[n - 1]
             IN  IF fee > 0 /\ before.balance >= fee
                 THEN [balance |-> before.balance - fee, paid |-> before.paid + fee]
                 ELSE before
  IN  after[minutes]
=============================================================================
