------------------------ MODULE CallLifecycleProofs -------------------------
(***************************************************************************)
(* Proofs about CallLifecycle, for any users, prices, fees and times: its  *)
(* types (so no balance below zero), one call per user, that an ended call *)
(* is final, that a bill never exceeds the time it was talked, that calls  *)
(* neither lose nor invent a coin or a diamond, that the handlers keep     *)
(* the contract of CallContract, and that the fee loop is the closed form  *)
(* the model bills with.                                                   *)
(***************************************************************************)
EXTENDS CallLifecycleMC, SumProofs

-----------------------------------------------------------------------------
\* Arithmetic: what the prover needs of products and quotients.

\* A product of naturals is a natural.
LEMMA ProductIsNat == \A a, b \in Nat : a * b \in Nat
  BY SMT

\* A quotient of naturals is a natural.
LEMMA QuotientIsNat == \A a \in Nat, b \in Nat \ {0} : a \div b \in Nat
  BY SMT

\* Whole parts make up at most the whole.
LEMMA QuotientTimes == \A a \in Nat, b \in Nat \ {0} : (a \div b) * b <= a
  BY SMT

\* What is left of a quotient is less than the divisor.
LEMMA QuotientRest == \A a \in Nat, b \in Nat \ {0} : a < (a \div b) * b + b
  BY SMT

\* A product divided by one factor is the other.
LEMMA TimesQuotient == \A k \in Nat, p \in Nat \ {0} : (k * p) \div p = k
  BY SMT

\* More divides into at least as many parts.
LEMMA QuotientMonotonic == \A a, b \in Nat, d \in Nat \ {0} : a <= b => a \div d <= b \div d
  BY SMT

\* More of one factor makes a larger product.
LEMMA ProductMonotonic == \A a, b, c \in Nat : a <= b => a * c <= b * c
  BY SMT

-----------------------------------------------------------------------------
\* The arithmetic of a bill.

\* The minutes due are a natural number.
LEMMA DueIsNat == \A d, f \in Nat : DueMinutes(d, f) \in Nat
  BY QuotientIsNat, MinuteIsPositive DEF DueMinutes

\* A longer call owes no fewer minutes.
LEMMA DueIsMonotonic == \A d, e, f \in Nat : d <= e => DueMinutes(d, f) <= DueMinutes(e, f)
<1> SUFFICES ASSUME NEW d \in Nat, NEW e \in Nat, NEW f \in Nat, d <= e
             PROVE  DueMinutes(d, f) <= DueMinutes(e, f)
  OBVIOUS
<1>1. (d + Minute - 1) \div Minute <= (e + Minute - 1) \div Minute
  <2>1. d + Minute - 1 \in Nat /\ e + Minute - 1 \in Nat /\ d + Minute - 1 <= e + Minute - 1
    BY MinuteIsPositive
  <2>2. QED
    BY <2>1, MinuteIsPositive, QuotientMonotonic
<1>2. (e + Minute - 1) \div Minute \in Nat
  BY MinuteIsPositive, QuotientIsNat
<1>3. QED
  BY <1>1, <1>2 DEF DueMinutes

\* Fees and incomes are natural numbers, whatever the rate.
LEMMA ServiceFeeIsNat == \A a \in Nat, b \in Bps : ServiceFee(a, b) \in Nat
<1> SUFFICES ASSUME NEW a \in Nat, NEW b \in Bps
             PROVE  ServiceFee(a, b) \in Nat
  OBVIOUS
<1>1. b \in Nat
  BY DEF Bps
<1>2. a * b \in Nat
  BY <1>1, ProductIsNat
<1>3. (a * b + 5000) \div 10000 \in Nat
  BY <1>2, QuotientIsNat
<1>4. QED
  BY <1>3 DEF ServiceFee

\* The payer's fee of a minute is a natural number.
LEMMA PayerFeeIsNat == \A p \in Nat, b \in Bps : PayerFeePerMinute(p, b) \in Nat
  BY ServiceFeeIsNat DEF PayerFeePerMinute

\* The share of a fee is no more than the fee.
LEMMA GrossIncomeWithinFee ==
  \A fee \in Nat, share \in Bps : GrossIncome(fee, share) \in Nat /\ GrossIncome(fee, share) <= fee
<1> SUFFICES ASSUME NEW fee \in Nat, NEW share \in Bps
             PROVE  GrossIncome(fee, share) \in Nat /\ GrossIncome(fee, share) <= fee
  OBVIOUS
<1>1. fee * share \in Nat /\ fee * share <= fee * 10000
  BY ProductIsNat, ProductMonotonic DEF Bps
<1>2. (fee * share) \div 10000 <= (fee * 10000) \div 10000
  BY <1>1, QuotientMonotonic
<1>3. QED
  BY <1>1, <1>2, QuotientIsNat, TimesQuotient DEF GrossIncome

\* The certified user's fee of a minute is a natural number.
LEMMA IncomeFeeIsNat ==
  \A p \in Nat, share, b \in Bps : IncomeFeePerMinute(p, share, b) \in Nat
  BY GrossIncomeWithinFee, ServiceFeeIsNat DEF IncomeFeePerMinute

\* No minutes are chargeable of none.
LEMMA ChargeableIsNat ==
  \A m, t \in Nat : ChargeableMinutes(m, t) \in Nat /\ ChargeableMinutes(0, t) = 0
  BY DEF ChargeableMinutes, Positive

\* The minutes a balance covers are among those asked for, and it does cover them.
LEMMA CoveredIsNat ==
  \A b, f, m \in Nat : /\ MinutesCovered(b, f, m) \in Nat
                       /\ MinutesCovered(b, f, m) <= m
                       /\ f * MinutesCovered(b, f, m) <= b
<1> SUFFICES ASSUME NEW b \in Nat, NEW f \in Nat, NEW m \in Nat
             PROVE  /\ MinutesCovered(b, f, m) \in Nat
                    /\ MinutesCovered(b, f, m) <= m
                    /\ f * MinutesCovered(b, f, m) <= b
  OBVIOUS
<1>1. CASE f = 0
  BY <1>1 DEF MinutesCovered
<1>2. CASE f # 0
  <2>1. b \div f \in Nat /\ (b \div f) * f <= b
    BY <1>2, QuotientIsNat, QuotientTimes
  <2>2. /\ Least(m, b \div f) \in Nat /\ Least(m, b \div f) <= m
        /\ Least(m, b \div f) <= b \div f
    BY <2>1 DEF Least
  <2>3. Least(m, b \div f) * f <= (b \div f) * f
    BY <2>1, <2>2, ProductMonotonic
  <2>4. Least(m, b \div f) * f \in Nat /\ (b \div f) * f \in Nat
    BY <2>1, <2>2, ProductIsNat
  <2>5. QED
    BY <1>2, <2>1, <2>2, <2>3, <2>4 DEF MinutesCovered
<1>3. QED
  BY <1>1, <1>2

-----------------------------------------------------------------------------
(***************************************************************************)
(* The inductive invariant.  A call that has not ended owes and has paid   *)
(* what its deducted minutes cost, and its service fee what its processed  *)
(* fee minutes cost at most; nobody's call has cost nothing.  An ended one *)
(* has the bill BillMatchesDuration asks for.                              *)
(***************************************************************************)
Timely(r, time) ==
  /\ r.connected <= time
  /\ r.minutes <= DueMinutes(time - r.connected, FreeSeconds)

OpenBill(r, time) ==
  /\ r.payer = NoUser => r.deducted = 0 /\ r.feePaid = 0
  /\ r.payer # NoUser => r.deducted = r.minutes * r.price
  /\ r.feeMinutes <= ChargeableMinutes(r.minutes, r.fee.threshold)
  /\ r.feePaid <= r.feeMinutes * PayerFeePerMinute(r.price, r.fee.payerBps)
  /\ r.income = 0
  /\ r.status # "ongoing" => r.payer = NoUser /\ r.minutes = 0 /\ r.feeMinutes = 0
  /\ r.status = "ongoing" => Timely(r, time)

FinalBill(r) ==
  r.payer # NoUser =>
    /\ r.deducted = r.minutes * r.price
    /\ r.deducted <= DueMinutes(r.duration, FreeSeconds) * r.price
    /\ r.feePaid <= FeeCap(r)
    /\ r.income <= r.deducted

RecordOK(r, time) ==
  /\ r \in CallRecord
  /\ r.status # "ended" => OpenBill(r, time)
  /\ r.status = "ended" => FinalBill(r)

IInv ==
  /\ TypeOK
  /\ \A c \in Calls : RecordOK(call[c], now)

\* A step that replaces one record by a good one, at an unchanged time, keeps IInv.
LEMMA OneRecordChanges ==
  ASSUME IInv, NEW c \in Calls, NEW r,
         call' = [call EXCEPT ![c] = r], now' = now,
         RecordOK(r, now),
         coins' \in [Users -> Nat], diamonds' \in [Users -> Nat],
         outlay' = outlay, certified' = certified, normal' = normal
  PROVE  IInv'
<1>1. call' \in [Calls -> CallRecord]
  BY DEF IInv, TypeOK, RecordOK
<1>2. \A d \in Calls : RecordOK(call'[d], now')
  <2> SUFFICES ASSUME NEW d \in Calls
               PROVE  RecordOK(call'[d], now)
    OBVIOUS
  <2>1. CASE d = c
    BY <2>1 DEF IInv, TypeOK
  <2>2. CASE d # c
    BY <2>2 DEF IInv, TypeOK
  <2>3. QED
    BY <2>1, <2>2
<1>3. QED
  BY <1>1, <1>2 DEF IInv, TypeOK

\* The first state has the invariant.
LEMMA InitIInv == Init => IInv
<1> SUFFICES ASSUME Init
             PROVE  IInv
  OBVIOUS
<1>1. NoFee \in FeeConfig
  BY DEF NoFee, FeeConfig, Bps
<1>2. NoCall \in CallRecord
  BY <1>1 DEF NoCall, CallRecord, Reasons
<1>3. TypeOK
  BY <1>2, InitCoinsAreNat, CertifiedUsers, SecondsAreNat, MovesAreInt DEF Init, TypeOK
<1>4. OpenBill(NoCall, 0)
  <2>1. PayerFeePerMinute(0, 0) \in Nat
    <3>1. 0 \in Bps
      BY DEF Bps
    <3>2. QED
      BY <3>1, PayerFeeIsNat
  <2>2. ChargeableMinutes(0, 0) = 0
    BY ChargeableIsNat
  <2>3. /\ NoCall.payer = NoUser /\ NoCall.deducted = 0 /\ NoCall.feePaid = 0 /\ NoCall.minutes = 0
        /\ NoCall.feeMinutes = 0 /\ NoCall.income = 0 /\ NoCall.status = "absent"
        /\ NoCall.price = 0 /\ NoCall.fee.threshold = 0 /\ NoCall.fee.payerBps = 0
    BY DEF NoCall, NoFee
  <2>4. /\ NoCall.feeMinutes <= ChargeableMinutes(NoCall.minutes, NoCall.fee.threshold)
        /\ NoCall.feePaid <= NoCall.feeMinutes * PayerFeePerMinute(NoCall.price, NoCall.fee.payerBps)
    BY <2>1, <2>2, <2>3
  <2>5. QED
    BY <2>3, <2>4 DEF OpenBill, Timely
<1>5. RecordOK(NoCall, 0)
  BY <1>2, <1>4 DEF RecordOK, NoCall
<1>6. QED
  BY <1>3, <1>5 DEF IInv, Init

-----------------------------------------------------------------------------
\* The fee covered by a balance fits in it, and is what some of the fee minutes cost.
LEMMA FeeCoveredFits ==
  ASSUME NEW r \in CallRecord, NEW b \in Nat
  PROVE  /\ UnprocessedFeeMinutes(r) \in Nat
         /\ FeeCovered(r, b) \in Nat /\ FeeCovered(r, b) <= b
         /\ FeeCovered(r, b) <= UnprocessedFeeMinutes(r) * PayerFeePerMinute(r.price, r.fee.payerBps)
<1> DEFINE perMinute == PayerFeePerMinute(r.price, r.fee.payerBps)
           m == UnprocessedFeeMinutes(r)
<1>1. /\ r.price \in Nat /\ r.minutes \in Nat /\ r.feeMinutes \in Nat
      /\ r.fee.payerBps \in Bps /\ r.fee.threshold \in Nat
  BY DEF CallRecord, FeeConfig
<1>2. perMinute \in Nat
  BY <1>1, PayerFeeIsNat
<1>3. m \in Nat
  <2>1. ChargeableMinutes(r.minutes, r.fee.threshold) \in Nat
    BY <1>1, ChargeableIsNat
  <2>2. QED
    BY <1>1, <2>1 DEF UnprocessedFeeMinutes, Positive
<1> HIDE DEF perMinute, m
<1>4. /\ MinutesCovered(b, perMinute, m) \in Nat
      /\ MinutesCovered(b, perMinute, m) <= m
      /\ perMinute * MinutesCovered(b, perMinute, m) <= b
  BY <1>2, <1>3, CoveredIsNat
<1>5. /\ perMinute * MinutesCovered(b, perMinute, m) \in Nat
      /\ perMinute * MinutesCovered(b, perMinute, m) <= m * perMinute
      /\ m * perMinute \in Nat
  <2>1. MinutesCovered(b, perMinute, m) * perMinute <= m * perMinute
    BY <1>2, <1>3, <1>4, ProductMonotonic
  <2>2. QED
    BY <1>2, <1>3, <1>4, <2>1, ProductIsNat
<1>6. FeeCovered(r, b) = IF r.payer = NoUser THEN 0 ELSE perMinute * MinutesCovered(b, perMinute, m)
  BY DEF FeeCovered, perMinute, m
<1>7. /\ FeeCovered(r, b) \in Nat /\ FeeCovered(r, b) <= b
      /\ FeeCovered(r, b) <= m * perMinute
  BY <1>2, <1>3, <1>4, <1>5, <1>6
<1>8. QED
  BY <1>3, <1>7 DEF m, perMinute

\* What a settlement makes of a record with a final bill.
LEMMA SettledBill ==
  ASSUME NEW r \in CallRecord, NEW b \in Nat
  PROVE  /\ Settled(r, b) \in CallRecord
         /\ \A f \in {"status", "payer", "price", "minutes", "deducted", "duration", "fee", "earner",
                      "caller", "callee"} : Settled(r, b)[f] = r[f]
         /\ Settled(r, b).feePaid <= r.feePaid + b
         /\ Settled(r, b).feePaid <= FeeCap(r)
         /\ Settled(r, b).income <= r.deducted
<1> DEFINE chargeable == ChargeableMinutes(r.minutes, r.fee.threshold)
           gross == GrossIncome(r.deducted, ShareBps)
           paid == Least(r.feePaid + FeeCovered(r, b), FeeCap(r))
           incomeFee == chargeable * IncomeFeePerMinute(r.price, ShareBps, IncomeBps(r.fee))
           earns == r.earner # NoUser /\ gross > 0
           income == IF earns THEN gross ELSE 0
<1>1. /\ r.price \in Nat /\ r.minutes \in Nat /\ r.feePaid \in Nat /\ r.deducted \in Nat
      /\ r.fee.payerBps \in Bps /\ r.fee.incomeBps \in Bps /\ r.fee.threshold \in Nat
  BY DEF CallRecord, FeeConfig
<1>2. chargeable \in Nat
  BY <1>1, ChargeableIsNat
<1>3. gross \in Nat /\ gross <= r.deducted
  BY <1>1, GrossIncomeWithinFee, ShareIsBps
<1>4. FeeCap(r) \in Nat
  <2>1. PayerFeePerMinute(r.price, r.fee.payerBps) \in Nat
    BY <1>1, PayerFeeIsNat
  <2>2. QED
    BY <1>2, <2>1, ProductIsNat DEF FeeCap
<1>5. FeeCovered(r, b) \in Nat /\ FeeCovered(r, b) <= b
  BY FeeCoveredFits
<1>6. paid \in Nat /\ paid <= FeeCap(r) /\ paid <= r.feePaid + b
  BY <1>1, <1>4, <1>5 DEF Least
<1>7. incomeFee \in Nat
  <2>1. IncomeBps(r.fee) \in Bps
    BY <1>1 DEF IncomeBps
  <2>2. IncomeFeePerMinute(r.price, ShareBps, IncomeBps(r.fee)) \in Nat
    BY <1>1, <2>1, ShareIsBps, IncomeFeeIsNat
  <2>3. QED
    BY <1>2, <2>2, ProductIsNat
<1>8. earns \in BOOLEAN /\ income \in Nat /\ income <= r.deducted
  BY <1>1, <1>3
<1>9. Settled(r, b) = [r EXCEPT !.feeMinutes = chargeable, !.feePaid = paid, !.incomeFee = incomeFee,
                                !.income = income, !.settled = earns]
  BY DEF Settled
<1> HIDE DEF chargeable, gross, paid, incomeFee, earns, income
<1>10. Settled(r, b) \in CallRecord
  <2>1. [r EXCEPT !.feeMinutes = chargeable] \in CallRecord
    BY <1>2 DEF CallRecord
  <2>2. [r EXCEPT !.feeMinutes = chargeable, !.feePaid = paid] \in CallRecord
    BY <1>6, <2>1 DEF CallRecord
  <2>3. [r EXCEPT !.feeMinutes = chargeable, !.feePaid = paid, !.incomeFee = incomeFee] \in CallRecord
    BY <1>7, <2>2 DEF CallRecord
  <2>4. [r EXCEPT !.feeMinutes = chargeable, !.feePaid = paid, !.incomeFee = incomeFee,
                  !.income = income] \in CallRecord
    BY <1>8, <2>3 DEF CallRecord
  <2>5. ASSUME NEW s \in CallRecord, NEW e \in BOOLEAN
        PROVE  [s EXCEPT !.settled = e] \in CallRecord
    BY DEF CallRecord
  <2>6. earns \in BOOLEAN
    BY <1>8
  <2>7. QED
    BY <1>9, <2>4, <2>5, <2>6
<1>11. \A f \in {"status", "payer", "price", "minutes", "deducted", "duration", "fee", "earner",
                 "caller", "callee"} : Settled(r, b)[f] = r[f]
  BY <1>9 DEF CallRecord
<1>12. Settled(r, b).feePaid = paid /\ Settled(r, b).income = income
  BY <1>9 DEF CallRecord
<1>13. QED
  BY <1>6, <1>8, <1>10, <1>11, <1>12

\* A book that is credited stays one of natural numbers if the one entry does.
LEMMA CreditIsNat ==
  ASSUME NEW book \in [Users -> Nat], NEW u, NEW n \in Int,
         u \in Users => book[u] + n >= 0
  PROVE  Credit(book, u, n) \in [Users -> Nat]
<1>1. \A v \in Users : (IF v = u THEN book[v] + n ELSE book[v]) \in Nat
  OBVIOUS
<1>2. QED
  BY <1>1 DEF Credit

(***************************************************************************)
(* Closing a call with a record whose deducted amount the payer can top up *)
(* to, and which is a good bill for its duration, keeps the invariant.     *)
(***************************************************************************)
LEMMA CloseKeeps ==
  ASSUME IInv, NEW c \in Calls, NEW r \in CallRecord, Close(c, r),
         r.status = "ended",
         100 * TopUp(c, r) <= Balance(r.payer),
         r.payer # NoUser => /\ r.deducted = r.minutes * r.price
                             /\ r.deducted <= DueMinutes(r.duration, FreeSeconds) * r.price
  PROVE  IInv'
<1> DEFINE topUp == 100 * TopUp(c, r)
           b     == Balance(r.payer) - topUp
           final == Settled(r, b)
<1>1. /\ r.payer \in Users \cup {NoUser} /\ r.deducted \in Nat /\ r.feePaid \in Nat
      /\ call[c].deducted \in Nat
  BY DEF IInv, TypeOK, CallRecord
<1>2. Balance(r.payer) \in Nat
  BY <1>1 DEF IInv, TypeOK, Balance
<1>3. topUp \in Int
  BY <1>1 DEF TopUp
<1>4. b \in Nat
  BY <1>2, <1>3
<1>5. /\ final \in CallRecord
      /\ \A f \in {"status", "payer", "price", "minutes", "deducted", "duration", "fee", "earner",
                   "caller", "callee"} : final[f] = r[f]
      /\ final.feePaid <= r.feePaid + b
      /\ final.feePaid <= FeeCap(r)
      /\ final.income <= r.deducted
  BY <1>4, SettledBill
<1>6. /\ call' = [call EXCEPT ![c] = final]
      /\ coins' = Credit(coins, r.payer, r.feePaid - final.feePaid - topUp)
      /\ diamonds' = Credit(diamonds, final.earner, NetIncome(final))
      /\ now' = now /\ outlay' = outlay /\ certified' = certified /\ normal' = normal
  BY DEF Close
<1>7. final.feePaid \in Nat /\ final.income \in Nat /\ final.incomeFee \in Nat
  BY <1>5 DEF CallRecord
<1> HIDE DEF final
<1>8. coins' \in [Users -> Nat]
  <2>1. coins \in [Users -> Nat]
    BY DEF IInv, TypeOK
  <2>2. r.feePaid - final.feePaid - topUp \in Int
    BY <1>1, <1>3, <1>7
  <2>3. ASSUME r.payer \in Users
        PROVE  coins[r.payer] + (r.feePaid - final.feePaid - topUp) >= 0
    <3>1. Balance(r.payer) = coins[r.payer]
      BY <2>3 DEF Balance
    <3>2. QED
      BY <1>1, <1>2, <1>3, <1>5, <1>7, <3>1
  <2>4. QED
    BY <1>6, <2>1, <2>2, <2>3, CreditIsNat
<1>9. diamonds' \in [Users -> Nat]
  <2>1. diamonds \in [Users -> Nat]
    BY DEF IInv, TypeOK
  <2>2. NetIncome(final) \in Nat
    BY <1>7 DEF NetIncome, Positive
  <2>3. final.earner \in Users => diamonds[final.earner] + NetIncome(final) >= 0
    BY <2>1, <2>2
  <2>4. QED
    BY <1>6, <2>1, <2>2, <2>3, CreditIsNat
<1>10. RecordOK(final, now)
  <2>1. /\ final.status = "ended" /\ final.payer = r.payer /\ final.price = r.price
        /\ final.minutes = r.minutes /\ final.deducted = r.deducted
        /\ final.duration = r.duration /\ final.fee = r.fee
    BY <1>5
  <2>2. FeeCap(final) = FeeCap(r)
    BY <2>1 DEF FeeCap
  <2>3. FinalBill(final)
    BY <1>5, <2>1, <2>2 DEF FinalBill
  <2>4. QED
    BY <1>5, <2>1, <2>3 DEF RecordOK
<1>11. QED
  BY <1>6, <1>8, <1>9, <1>10, OneRecordChanges

(***************************************************************************)
(* The bill of a duration, for a call with an open bill: whole minutes, at *)
(* most those the duration owes, at most what the payer has.               *)
(***************************************************************************)
LEMMA FinalChargeFits ==
  ASSUME IInv, NEW c \in Calls, NEW d \in Nat, call[c].status # "ended",
         NEW r, r = call[c]
  PROVE  /\ FinalCharge(r, d) \in Nat /\ FinalMinutes(r, d) \in Nat
         /\ 100 * (FinalCharge(r, d) - r.deducted) <= Balance(r.payer)
         /\ r.payer # NoUser => /\ FinalCharge(r, d) = FinalMinutes(r, d) * r.price
                                /\ FinalCharge(r, d) <= DueMinutes(d, FreeSeconds) * r.price
<1> DEFINE due == DueMinutes(d, FreeSeconds)
           owed == due * r.price
<1>1. /\ r \in CallRecord /\ r.price \in Nat /\ r.deducted \in Nat /\ r.minutes \in Nat
      /\ r.payer \in Users \cup {NoUser}
  BY DEF IInv, TypeOK, CallRecord
<1>2. Balance(r.payer) \in Nat
  BY <1>1 DEF IInv, TypeOK, Balance
<1>3. due \in Nat
  BY DueIsNat, SecondsAreNat
<1>4. owed \in Nat
  BY <1>1, <1>3, ProductIsNat
<1>5. r.payer # NoUser => r.deducted = r.minutes * r.price
  BY DEF IInv, RecordOK, OpenBill, Timely
<1> HIDE DEF due
<1>6. FinalCharge(r, d) = IF r.payer = NoUser \/ 100 * (owed - r.deducted) > Balance(r.payer)
                          THEN r.deducted ELSE owed
  BY DEF FinalCharge, due
<1>7. /\ FinalCharge(r, d) \in Nat
      /\ 100 * (FinalCharge(r, d) - r.deducted) <= Balance(r.payer)
      /\ r.payer # NoUser => FinalCharge(r, d) <= owed
  <2> HIDE DEF owed
  <2>1. QED
    BY <1>1, <1>2, <1>4, <1>6
<1>8. r.payer # NoUser => \E k \in Nat : FinalCharge(r, d) = k * r.price
  BY <1>1, <1>3, <1>5, <1>6
<1>9. r.payer # NoUser /\ r.price > 0 =>
        FinalMinutes(r, d) \in Nat /\ FinalMinutes(r, d) * r.price = FinalCharge(r, d)
  <2> SUFFICES ASSUME r.payer # NoUser, r.price > 0
               PROVE  FinalMinutes(r, d) \in Nat /\ FinalMinutes(r, d) * r.price = FinalCharge(r, d)
    OBVIOUS
  <2>1. PICK k \in Nat : FinalCharge(r, d) = k * r.price
    BY <1>8
  <2>2. FinalMinutes(r, d) = (k * r.price) \div r.price
    BY <2>1 DEF FinalMinutes
  <2>3. FinalMinutes(r, d) = k
    BY <1>1, <2>2, TimesQuotient
  <2>4. QED
    BY <2>1, <2>3
<1>10. r.payer # NoUser /\ r.price = 0 =>
         FinalMinutes(r, d) \in Nat /\ FinalMinutes(r, d) * r.price = FinalCharge(r, d)
  <2> SUFFICES ASSUME r.payer # NoUser, r.price = 0
               PROVE  FinalMinutes(r, d) \in Nat /\ FinalMinutes(r, d) * r.price = FinalCharge(r, d)
    OBVIOUS
  <2>1. FinalMinutes(r, d) = due
    BY DEF FinalMinutes, due
  <2>2. FinalCharge(r, d) = 0
    BY <1>8
  <2>3. QED
    BY <1>3, <2>1, <2>2
<1>11. r.payer = NoUser => FinalMinutes(r, d) \in Nat
  BY <1>3 DEF FinalMinutes, due
<1>12. QED
  BY <1>1, <1>7, <1>9, <1>10, <1>11 DEF due

-----------------------------------------------------------------------------
\* Each handler keeps the invariant.

\* Dialing keeps the invariant.
LEMMA DialingKeeps ==
  ASSUME IInv, NEW caller \in Users, NEW callee \in Users, NEW c \in Calls, DialingIn(caller, callee, c)
  PROVE  IInv'
<1> DEFINE earner == DialEarner(caller, callee)
           price  == IF earner = NoUser THEN 0 ELSE CallPrice[earner]
           r == [NoCall EXCEPT !.status = "pending", !.caller = caller, !.callee = callee,
                               !.price = price, !.earner = earner, !.created = now]
<1>1. earner \in Users \cup {NoUser}
  BY DEF DialEarner
<1>2. price \in Nat
  BY <1>1, PricesAreNat, NoUserIsNew
<1>3. now \in Nat
  BY SecondsAreNat DEF IInv, TypeOK
<1>4. NoCall \in CallRecord
  <2>1. NoFee \in FeeConfig
    BY DEF NoFee, FeeConfig, Bps
  <2>2. QED
    BY <2>1 DEF NoCall, CallRecord, Reasons
<1>5. /\ call' = [call EXCEPT ![c] = r]
      /\ now' = now /\ coins' = coins /\ diamonds' = diamonds
      /\ outlay' = outlay /\ certified' = certified /\ normal' = normal
  BY DEF DialingIn
<1> HIDE DEF earner, price
<1>6. r \in CallRecord
  BY <1>1, <1>2, <1>3, <1>4 DEF CallRecord
<1>7. /\ r.status = "pending" /\ r.payer = NoUser /\ r.deducted = 0 /\ r.feePaid = 0 /\ r.income = 0
      /\ r.minutes = 0 /\ r.feeMinutes = 0
  BY DEF NoCall
<1> HIDE DEF r
<1>8. OpenBill(r, now)
  <2>1. ChargeableMinutes(r.minutes, r.fee.threshold) \in Nat /\ PayerFeePerMinute(r.price, r.fee.payerBps) \in Nat
    BY <1>6, ChargeableIsNat, PayerFeeIsNat DEF CallRecord, FeeConfig
  <2>2. QED
    BY <1>7, <2>1 DEF OpenBill, Timely
<1>9. RecordOK(r, now)
  BY <1>6, <1>7, <1>8 DEF RecordOK
<1>10. QED
  BY <1>5, <1>9, OneRecordChanges DEF IInv, TypeOK

\* A pending call has cost nothing.
LEMMA PendingIsFree ==
  ASSUME IInv, NEW c \in Calls, call[c].status = "pending"
  PROVE  /\ call[c] \in CallRecord /\ call[c].payer = NoUser /\ call[c].deducted = 0 /\ call[c].feePaid = 0
         /\ call[c].minutes = 0 /\ call[c].feeMinutes = 0 /\ call[c].income = 0
  BY DEF IInv, RecordOK, OpenBill, Timely

\* Ending a call that never connected keeps the invariant.
LEMMA UnconnectedKeeps ==
  ASSUME IInv, NEW c \in Calls, NEW reason \in Reasons, NEW payer \in Users \cup {NoUser},
         call[c].status = "pending", Unconnected(c, reason, payer)
  PROVE  IInv'
<1> DEFINE r == [call[c] EXCEPT !.status = "ended", !.reason = reason, !.ended = now, !.payer = payer]
<1>1. /\ call[c] \in CallRecord /\ call[c].deducted = 0 /\ call[c].feePaid = 0
      /\ call[c].minutes = 0 /\ call[c].income = 0
  BY PendingIsFree
<1>2. now \in Nat
  BY SecondsAreNat DEF IInv, TypeOK
<1>3. /\ call' = [call EXCEPT ![c] = r]
      /\ now' = now /\ coins' = coins /\ diamonds' = diamonds
      /\ outlay' = outlay /\ certified' = certified /\ normal' = normal
  BY DEF Unconnected
<1>4. r \in CallRecord
  BY <1>1, <1>2 DEF CallRecord
<1>5. r.status = "ended" /\ r.deducted = 0 /\ r.feePaid = 0 /\ r.minutes = 0 /\ r.income = 0
  BY <1>1 DEF CallRecord
<1> HIDE DEF r
<1>6. FinalBill(r)
  <2>1. r.price \in Nat /\ r.duration \in Nat /\ r.fee.threshold \in Nat /\ r.fee.payerBps \in Bps
    BY <1>4 DEF CallRecord, FeeConfig
  <2>2. DueMinutes(r.duration, FreeSeconds) * r.price \in Nat
    BY <2>1, DueIsNat, ProductIsNat, SecondsAreNat
  <2>3. ChargeableMinutes(r.minutes, r.fee.threshold) = 0
    BY <1>5, <2>1, ChargeableIsNat
  <2>4. PayerFeePerMinute(r.price, r.fee.payerBps) \in Nat
    BY <2>1, PayerFeeIsNat
  <2>5. FeeCap(r) = 0
    BY <2>3, <2>4 DEF FeeCap
  <2>6. r.deducted = r.minutes * r.price
    BY <1>5, <2>1
  <2>7. QED
    BY <1>5, <2>2, <2>5, <2>6 DEF FinalBill
<1>7. RecordOK(r, now)
  BY <1>4, <1>5, <1>6 DEF RecordOK
<1>8. QED
  BY <1>3, <1>7, OneRecordChanges DEF IInv, TypeOK

\* Whoever is found to pay is a user or nobody.
LEMMA ResolvePayerIsUser ==
  ASSUME NEW caller \in Users \cup {NoUser}, NEW callee \in Users \cup {NoUser}
  PROVE  ResolvePayer(caller, callee) \in Users \cup {NoUser}
  BY DEF ResolvePayer

\* Accepting keeps the invariant.
LEMMA AcceptKeeps ==
  ASSUME IInv, NEW c \in Calls, NEW fee \in FeeConfigs, AcceptCall(c, fee)
  PROVE  IInv'
<1> DEFINE payer == ResolvePayer(call[c].caller, call[c].callee)
           r == [call[c] EXCEPT !.status = "ongoing", !.connected = now, !.payer = payer, !.fee = fee]
<1>1. /\ call[c] \in CallRecord /\ call[c].status = "pending" /\ call[c].deducted = 0 /\ call[c].feePaid = 0
      /\ call[c].minutes = 0 /\ call[c].feeMinutes = 0 /\ call[c].income = 0
  <2>1. call[c].status = "pending"
    BY DEF AcceptCall
  <2>2. QED
    BY <2>1, PendingIsFree
<1>2. payer \in Users \cup {NoUser}
  BY <1>1, ResolvePayerIsUser DEF CallRecord
<1>3. now \in Nat
  BY SecondsAreNat DEF IInv, TypeOK
<1>4. fee \in FeeConfig
  BY FeesAreConfigs
<1>5. CASE Unconnected(c, "balance_empty", payer)
  BY <1>1, <1>2, <1>5, UnconnectedKeeps DEF Reasons
<1>6. CASE /\ call' = [call EXCEPT ![c] = r]
           /\ UNCHANGED <<now, coins, diamonds, outlay, certified, normal>>
  <2> HIDE DEF payer
  <2>1. r \in CallRecord
    BY <1>1, <1>2, <1>3, <1>4 DEF CallRecord
  <2>2. /\ r.status = "ongoing" /\ r.deducted = 0 /\ r.feePaid = 0 /\ r.minutes = 0
        /\ r.feeMinutes = 0 /\ r.income = 0 /\ r.connected = now
    BY <1>1 DEF CallRecord
  <2> HIDE DEF r
  <2>3. OpenBill(r, now)
    <3>1. r.price \in Nat /\ r.fee.threshold \in Nat /\ r.fee.payerBps \in Bps
      BY <2>1 DEF CallRecord, FeeConfig
    <3>2. /\ ChargeableMinutes(r.minutes, r.fee.threshold) \in Nat
          /\ PayerFeePerMinute(r.price, r.fee.payerBps) \in Nat
      BY <2>2, <3>1, ChargeableIsNat, PayerFeeIsNat
    <3>3. DueMinutes(0, FreeSeconds) \in Nat
      BY DueIsNat, SecondsAreNat
    <3>4. now - r.connected = 0
      BY <1>3, <2>2
    <3>5. r.deducted = r.minutes * r.price
      BY <2>2, <3>1
    <3>6. QED
      BY <1>3, <2>2, <3>2, <3>3, <3>4, <3>5 DEF OpenBill, Timely
  <2>4. RecordOK(r, now)
    BY <2>1, <2>2, <2>3 DEF RecordOK
  <2>5. QED
    BY <1>6, <2>4, OneRecordChanges DEF IInv, TypeOK
<1>7. QED
  BY <1>5, <1>6 DEF AcceptCall

\* A renewal keeps the invariant: the bill and its fee grow with the minutes.
LEMMA RenewKeeps ==
  ASSUME IInv, NEW c \in Calls, Renew(c)
  PROVE  IInv'
<1> DEFINE r      == call[c]
           due    == DueMinutes(now - r.connected, FreeSeconds)
           charge == RenewalCharge(r)
           billed == [r EXCEPT !.minutes = due, !.deducted = r.deducted + charge]
           new    == UnprocessedFeeMinutes(billed)
           b      == Balance(r.payer) - 100 * charge
           fee    == FeeCovered(billed, b)
           final  == [billed EXCEPT !.feeMinutes = r.feeMinutes + new, !.feePaid = r.feePaid + fee]
           perMinute == PayerFeePerMinute(r.price, r.fee.payerBps)
<1>1. /\ r.status = "ongoing" /\ due > r.minutes /\ r.payer # NoUser /\ coins[r.payer] >= 100 * charge
      /\ call' = [call EXCEPT ![c] = final]
      /\ coins' = Credit(coins, r.payer, 0 - 100 * charge - fee)
      /\ now' = now /\ diamonds' = diamonds
      /\ outlay' = outlay /\ certified' = certified /\ normal' = normal
  BY DEF Renew, RenewalDue, Covers
<1>2. /\ r \in CallRecord /\ r.price \in Nat /\ r.minutes \in Nat /\ r.deducted \in Nat /\ r.feePaid \in Nat
      /\ r.feeMinutes \in Nat /\ r.fee.threshold \in Nat /\ r.fee.payerBps \in Bps
      /\ r.payer \in Users /\ r.connected \in Nat /\ now \in Nat /\ coins \in [Users -> Nat]
  BY <1>1, SecondsAreNat DEF IInv, TypeOK, CallRecord, FeeConfig
<1>3. /\ r.deducted = r.minutes * r.price /\ r.connected <= now
      /\ r.feeMinutes <= ChargeableMinutes(r.minutes, r.fee.threshold)
      /\ r.feePaid <= r.feeMinutes * perMinute
      /\ r.income = 0
  BY <1>1 DEF IInv, RecordOK, OpenBill, Timely
<1>4. due \in Nat
  <2>1. now - r.connected \in Nat
    BY <1>2, <1>3
  <2>2. QED
    BY <2>1, DueIsNat, SecondsAreNat
<1>5. charge = (due - r.minutes) * r.price
  BY DEF RenewalCharge
<1> HIDE DEF due, charge
<1>6. charge \in Nat
  BY <1>1, <1>2, <1>4, <1>5, ProductIsNat
<1>7. r.deducted + charge = due * r.price
  BY <1>2, <1>3, <1>4, <1>5
<1>8. billed \in CallRecord
  <2>1. r.deducted + charge \in Nat
    BY <1>2, <1>6
  <2>2. QED
    BY <1>2, <1>4, <2>1 DEF CallRecord
<1>9. /\ billed.minutes = due /\ billed.deducted = due * r.price /\ billed.price = r.price
      /\ billed.payer = r.payer /\ billed.fee = r.fee /\ billed.feeMinutes = r.feeMinutes
      /\ billed.status = "ongoing" /\ billed.income = 0 /\ billed.connected = r.connected
  BY <1>1, <1>2, <1>3, <1>7 DEF CallRecord
<1> HIDE DEF billed
<1>10. Balance(r.payer) = coins[r.payer] /\ b \in Nat
  BY <1>1, <1>2, <1>6 DEF Balance
<1>11. new \in Nat /\ fee \in Nat /\ fee <= b /\ fee <= new * perMinute
  BY <1>8, <1>9, <1>10, FeeCoveredFits
<1>12. perMinute \in Nat
  BY <1>2, PayerFeeIsNat
<1>13. r.feeMinutes + new <= ChargeableMinutes(due, r.fee.threshold)
  <2>1. new = IF r.fee.payerBps = 0 /\ r.fee.incomeBps = 0 THEN 0
              ELSE Positive(ChargeableMinutes(due, r.fee.threshold) - r.feeMinutes)
    BY <1>9 DEF UnprocessedFeeMinutes
  <2>2. ChargeableMinutes(r.minutes, r.fee.threshold) <= ChargeableMinutes(due, r.fee.threshold)
    BY <1>1, <1>2, <1>4 DEF ChargeableMinutes, Positive
  <2>3. ChargeableMinutes(r.minutes, r.fee.threshold) \in Nat /\ ChargeableMinutes(due, r.fee.threshold) \in Nat
    BY <1>2, <1>4, ChargeableIsNat
  <2>4. QED
    BY <1>2, <1>3, <2>1, <2>2, <2>3 DEF Positive
<1> HIDE DEF new, fee, b, perMinute
<1>14. r.feePaid + fee <= (r.feeMinutes + new) * perMinute
  <2>1. r.feeMinutes * perMinute \in Nat /\ new * perMinute \in Nat
    BY <1>2, <1>11, <1>12, ProductIsNat
  <2>2. (r.feeMinutes + new) * perMinute = r.feeMinutes * perMinute + new * perMinute
    BY <1>2, <1>11, <1>12
  <2>3. QED
    BY <1>2, <1>3, <1>11, <2>1, <2>2
<1>15. final \in CallRecord
  <2>1. r.feeMinutes + new \in Nat /\ r.feePaid + fee \in Nat
    BY <1>2, <1>11
  <2>2. QED
    BY <1>8, <2>1 DEF CallRecord
<1>16. /\ final.minutes = due /\ final.deducted = due * r.price /\ final.price = r.price
       /\ final.payer = r.payer /\ final.fee = r.fee /\ final.feeMinutes = r.feeMinutes + new
       /\ final.feePaid = r.feePaid + fee
       /\ final.status = "ongoing" /\ final.income = 0 /\ final.connected = r.connected
  BY <1>8, <1>9 DEF CallRecord
<1> HIDE DEF final
<1>17. OpenBill(final, now)
  <2>1. DueMinutes(now - final.connected, FreeSeconds) = due
    BY <1>16 DEF due
  <2>2. PayerFeePerMinute(final.price, final.fee.payerBps) = perMinute
    BY <1>16 DEF perMinute
  <2>3. /\ final.payer # NoUser /\ final.deducted = final.minutes * final.price
        /\ final.connected <= now /\ final.minutes <= due
    BY <1>1, <1>2, <1>3, <1>4, <1>16
  <2>4. /\ final.feeMinutes <= ChargeableMinutes(final.minutes, final.fee.threshold)
        /\ final.feePaid <= final.feeMinutes * perMinute
    BY <1>13, <1>14, <1>16
  <2>5. QED
    BY <1>16, <2>1, <2>2, <2>3, <2>4 DEF OpenBill, Timely
<1>18. RecordOK(final, now)
  BY <1>15, <1>16, <1>17 DEF RecordOK
<1>19. coins' \in [Users -> Nat]
  <2>1. 0 - 100 * charge - fee \in Int
    BY <1>6, <1>11
  <2>2. coins[r.payer] + (0 - 100 * charge - fee) >= 0
    BY <1>2, <1>6, <1>10, <1>11 DEF b
  <2>3. QED
    BY <1>1, <1>2, <2>1, <2>2, CreditIsNat
<1>20. QED
  BY <1>1, <1>18, <1>19, OneRecordChanges DEF IInv, TypeOK

\* Ending a call with the bill of a duration.
LEMMA BilledKeeps ==
  ASSUME IInv, NEW c \in Calls, call[c].status # "ended", NEW d \in Nat, NEW endedAt \in Nat,
         NEW reason \in Reasons, NEW earner \in Users \cup {NoUser},
         Close(c, Billed(call[c], d, endedAt, reason, earner))
  PROVE  IInv'
<1> DEFINE r == Billed(call[c], d, endedAt, reason, earner)
<1>1. call[c] \in CallRecord
  BY DEF IInv, TypeOK
<1>2. /\ FinalCharge(call[c], d) \in Nat /\ FinalMinutes(call[c], d) \in Nat
      /\ 100 * (FinalCharge(call[c], d) - call[c].deducted) <= Balance(call[c].payer)
      /\ call[c].payer # NoUser =>
            /\ FinalCharge(call[c], d) = FinalMinutes(call[c], d) * call[c].price
            /\ FinalCharge(call[c], d) <= DueMinutes(d, FreeSeconds) * call[c].price
  BY FinalChargeFits
<1>3. r \in CallRecord
  BY <1>1, <1>2 DEF Billed, CallRecord
<1>4. /\ r.status = "ended" /\ r.payer = call[c].payer /\ r.price = call[c].price
      /\ r.deducted = FinalCharge(call[c], d) /\ r.minutes = FinalMinutes(call[c], d) /\ r.duration = d
  BY <1>1 DEF Billed, CallRecord
<1> HIDE DEF r
<1>5. 100 * TopUp(c, r) <= Balance(r.payer)
  BY <1>2, <1>4 DEF TopUp
<1>6. Close(c, r)
  BY DEF r
<1>7. QED
  BY <1>2, <1>3, <1>4, <1>5, <1>6, CloseKeeps

\* Whoever is found to earn is a user or nobody.
LEMMA EarnerIsUser ==
  ASSUME NEW r \in CallRecord, NEW payer
  PROVE  EarnerOf(r, payer) \in Users \cup {NoUser}
  BY DEF EarnerOf, CallRecord

\* Ending a call, ringing or running, keeps the invariant.
LEMMA CallEndKeeps ==
  ASSUME IInv, NEW c \in Calls, CallEnd(c)
  PROVE  IInv'
<1> DEFINE r == call[c]
           d == IF r.status = "ongoing" THEN now - r.connected ELSE 0
           payer == IF r.status = "ongoing" THEN r.payer ELSE ResolvePayer(r.caller, r.callee)
           owed  == DueMinutes(d, FreeSeconds) * r.price
           broke == payer # NoUser /\ 100 * (owed - r.deducted) > Balance(payer)
           reason == IF broke THEN "balance_empty" ELSE "normal"
<1>1. r \in CallRecord /\ r.status # "ended" /\ now \in Nat /\ r.connected \in Nat
  BY SecondsAreNat DEF IInv, TypeOK, CallEnd, IsActive, CallRecord
<1>2. d \in Nat
  BY <1>1 DEF IInv, RecordOK, OpenBill, Timely
<1>3. EarnerOf(r, payer) \in Users \cup {NoUser}
  BY <1>1, EarnerIsUser
<1>4. reason \in Reasons
  BY DEF Reasons
<1>5. Close(c, Billed(r, d, now, reason, EarnerOf(r, payer)))
  BY DEF CallEnd
<1> HIDE DEF d, payer, reason
<1>6. QED
  BY <1>1, <1>2, <1>3, <1>4, <1>5, BilledKeeps

\* A forced exit keeps the invariant.
LEMMA ForceExitKeeps ==
  ASSUME IInv, NEW c \in Calls, NEW lastSeen \in 0 .. now, ForceExit(c, lastSeen)
  PROVE  IInv'
<1>1. /\ call[c] \in CallRecord /\ call[c].status # "ended"
      /\ lastSeen \in Nat /\ lastSeen - call[c].connected \in Nat
  BY SecondsAreNat DEF IInv, TypeOK, ForceExit, CallRecord
<1>2. EarnerOf(call[c], call[c].payer) \in Users \cup {NoUser}
  BY <1>1, EarnerIsUser
<1>3. Close(c, Billed(call[c], lastSeen - call[c].connected, lastSeen, "force_exit",
                      EarnerOf(call[c], call[c].payer)))
  BY DEF ForceExit
<1>4. "force_exit" \in Reasons
  BY DEF Reasons
<1>5. QED
  BY <1>1, <1>2, <1>3, <1>4, BilledKeeps

\* Closing a call that cannot be paid on keeps the invariant.
LEMMA CloseBrokeKeeps ==
  ASSUME IInv, NEW c \in Calls, CloseBroke(c)
  PROVE  IInv'
<1> DEFINE e == EarnerOf(call[c], call[c].payer)
           r == [call[c] EXCEPT !.status = "ended", !.ended = now, !.duration = now - call[c].connected,
                                !.reason = "balance_empty", !.earner = e]
<1>1. /\ call[c] \in CallRecord /\ call[c].status = "ongoing" /\ now \in Nat
      /\ call[c].connected \in Nat /\ call[c].price \in Nat /\ call[c].minutes \in Nat
      /\ call[c].deducted \in Nat /\ call[c].payer \in Users \cup {NoUser}
  BY SecondsAreNat DEF IInv, TypeOK, CloseBroke, RenewalDue, CallRecord
<1>2. /\ call[c].connected <= now
      /\ call[c].minutes <= DueMinutes(now - call[c].connected, FreeSeconds)
      /\ call[c].payer # NoUser => call[c].deducted = call[c].minutes * call[c].price
  BY <1>1 DEF IInv, RecordOK, OpenBill, Timely
<1>3. e \in Users \cup {NoUser}
  BY <1>1, EarnerIsUser
<1>4. Close(c, r)
  BY DEF CloseBroke
<1> HIDE DEF e
<1>5. now - call[c].connected \in Nat /\ r \in CallRecord
  <2>1. now - call[c].connected \in Nat
    BY <1>1, <1>2
  <2>2. QED
    BY <1>1, <1>3, <2>1 DEF CallRecord, Reasons
<1>6. /\ r.status = "ended" /\ r.payer = call[c].payer /\ r.price = call[c].price
      /\ r.deducted = call[c].deducted /\ r.minutes = call[c].minutes
      /\ r.duration = now - call[c].connected
  BY <1>1 DEF CallRecord
<1> HIDE DEF r
<1>7. 100 * TopUp(c, r) <= Balance(r.payer)
  <2>1. Balance(r.payer) \in Nat
    BY <1>1, <1>6 DEF IInv, TypeOK, Balance
  <2>2. TopUp(c, r) = 0
    BY <1>1, <1>6 DEF TopUp
  <2>3. QED
    BY <2>1, <2>2
<1>8. r.payer # NoUser => /\ r.deducted = r.minutes * r.price
                          /\ r.deducted <= DueMinutes(r.duration, FreeSeconds) * r.price
  <2>1. DueMinutes(r.duration, FreeSeconds) \in Nat
    BY <1>5, <1>6, DueIsNat, SecondsAreNat
  <2>2. r.minutes * r.price <= DueMinutes(r.duration, FreeSeconds) * r.price
    BY <1>1, <1>2, <1>6, <2>1, ProductMonotonic
  <2>3. QED
    BY <1>2, <1>6, <2>2
<1>9. QED
  BY <1>4, <1>5, <1>6, <1>7, <1>8, CloseKeeps

\* Coins that move elsewhere keep the invariant.
LEMMA MoveWalletKeeps ==
  ASSUME IInv, NEW u \in Users, NEW n \in WalletMoves, MoveWallet(u, n)
  PROVE  IInv'
<1>1. /\ n \in Int /\ coins \in [Users -> Nat] /\ outlay \in [Users -> -MaxOutlay .. MaxOutlay]
      /\ coins[u] + 100 * n >= 0 /\ outlay[u] - n \in -MaxOutlay .. MaxOutlay
      /\ coins' = Credit(coins, u, 100 * n) /\ outlay' = [outlay EXCEPT ![u] = @ - n]
      /\ UNCHANGED <<now, diamonds, certified, normal, call>>
  BY MovesAreInt DEF IInv, TypeOK, MoveWallet
<1>2. coins' \in [Users -> Nat]
  BY <1>1, CreditIsNat
<1>3. outlay' \in [Users -> -MaxOutlay .. MaxOutlay]
  BY <1>1
<1>4. QED
  BY <1>1, <1>2, <1>3 DEF IInv, TypeOK

\* Time only adds to what an ongoing call may owe.
LEMMA TickKeeps ==
  ASSUME IInv, Tick
  PROVE  IInv'
<1>1. now \in Nat /\ now' = now + 1 /\ now' \in 0 .. Horizon
  BY SecondsAreNat DEF IInv, TypeOK, Tick
<1>2. UNCHANGED <<coins, diamonds, outlay, certified, normal, call>>
  BY DEF Tick
<1>3. ASSUME NEW c \in Calls
      PROVE  RecordOK(call[c], now + 1)
  <2>1. RecordOK(call[c], now)
    BY DEF IInv
  <2>2. ASSUME call[c].status = "ongoing"
        PROVE  Timely(call[c], now + 1)
    <3>1. /\ call[c].connected \in Nat /\ call[c].minutes \in Nat /\ call[c].connected <= now
          /\ call[c].minutes <= DueMinutes(now - call[c].connected, FreeSeconds)
      BY <2>1, <2>2 DEF RecordOK, OpenBill, Timely, CallRecord
    <3>2. now - call[c].connected \in Nat /\ now + 1 - call[c].connected \in Nat
      BY <1>1, <3>1
    <3>3. now - call[c].connected <= now + 1 - call[c].connected
      BY <1>1, <3>1
    <3>4. DueMinutes(now - call[c].connected, FreeSeconds) <= DueMinutes(now + 1 - call[c].connected, FreeSeconds)
      BY <3>2, <3>3, DueIsMonotonic, SecondsAreNat
    <3>5. /\ DueMinutes(now - call[c].connected, FreeSeconds) \in Nat
          /\ DueMinutes(now + 1 - call[c].connected, FreeSeconds) \in Nat
      BY <3>2, DueIsNat, SecondsAreNat
    <3>6. QED
      BY <1>1, <3>1, <3>4, <3>5 DEF Timely
  <2>3. ASSUME OpenBill(call[c], now)
        PROVE  OpenBill(call[c], now + 1)
    BY <2>2, <2>3, Zenon DEF OpenBill
  <2>4. QED
    BY ONLY <2>1, <2>3 DEF RecordOK
<1>4. QED
  BY <1>1, <1>2, <1>3 DEF IInv, TypeOK

\* The inductive invariant holds, whatever the users, prices, fees and times.
THEOREM CallInvariant == Spec => []IInv
<1>1. IInv /\ [Next]_vars => IInv'
  <2> SUFFICES ASSUME IInv, [Next]_vars
               PROVE  IInv'
    OBVIOUS
  <2>1. ASSUME NEW caller \in Users, NEW callee \in Users, NEW c \in Calls, DialingIn(caller, callee, c)
        PROVE  IInv'
    BY <2>1, DialingKeeps
  <2>2. ASSUME NEW c \in Calls, AcceptTooLate(c)
        PROVE  IInv'
    BY <2>2, UnconnectedKeeps DEF AcceptTooLate, Reasons
  <2>3. ASSUME NEW c \in Calls, NEW fee \in FeeConfigs, AcceptCall(c, fee)
        PROVE  IInv'
    BY <2>3, AcceptKeeps
  <2>4. ASSUME NEW c \in Calls, RejectCall(c)
        PROVE  IInv'
    BY <2>4, UnconnectedKeeps DEF RejectCall, Reasons
  <2>5. ASSUME NEW c \in Calls, CancelCall(c)
        PROVE  IInv'
    BY <2>5, UnconnectedKeeps DEF CancelCall, Reasons
  <2>6. ASSUME NEW c \in Calls, CallEnd(c)
        PROVE  IInv'
    BY <2>6, CallEndKeeps
  <2>7. ASSUME NEW c \in Calls, CloseTimeoutPending(c)
        PROVE  IInv'
    BY <2>7, UnconnectedKeeps DEF CloseTimeoutPending, Reasons
  <2>8. ASSUME NEW c \in Calls, Renew(c)
        PROVE  IInv'
    BY <2>8, RenewKeeps
  <2>9. ASSUME NEW c \in Calls, CloseBroke(c)
        PROVE  IInv'
    BY <2>9, CloseBrokeKeeps
  <2>10. ASSUME NEW c \in Calls, NEW lastSeen \in 0 .. now, ForceExit(c, lastSeen)
         PROVE  IInv'
    BY <2>10, ForceExitKeeps
  <2>11. ASSUME NEW u \in Users, ChangeCertification(u)
         PROVE  IInv'
    BY <2>11 DEF ChangeCertification, IInv, TypeOK
  <2>12. ASSUME NEW u \in Users, ChangeAccount(u)
         PROVE  IInv'
    BY <2>12 DEF ChangeAccount, IInv, TypeOK
  <2>13. ASSUME NEW u \in Users, NEW n \in WalletMoves, MoveWallet(u, n)
         PROVE  IInv'
    BY <2>13, MoveWalletKeeps
  <2>14. CASE Tick
    BY <2>14, TickKeeps
  <2>15. CASE UNCHANGED vars
    BY <2>15 DEF vars, IInv, TypeOK
  <2>16. QED
    BY <2>1, <2>2, <2>3, <2>4, <2>5, <2>6, <2>7, <2>8, <2>9, <2>10, <2>11, <2>12, <2>13, <2>14, <2>15
    DEF Next
<1>2. QED
  BY <1>1, InitIInv, PTL DEF Spec

\* Every variable keeps its type; no handler takes a balance below zero.
THEOREM TypeCorrect == Spec => []TypeOK
<1>1. IInv => TypeOK
  BY DEF IInv
<1>2. QED
  BY <1>1, CallInvariant, PTL

\* No call costs more than the minutes it lasted, nor a higher fee than theirs.
THEOREM BillFitsDuration == Spec => []BillMatchesDuration
<1>1. IInv => BillMatchesDuration
  <2> SUFFICES ASSUME IInv, NEW c \in Calls, call[c].payer # NoUser
               PROVE  LET r    == call[c]
                          time == IF r.status = "ended" THEN r.duration ELSE now - r.connected
                      IN  /\ r.deducted = r.minutes * r.price
                          /\ r.deducted <= DueMinutes(time, FreeSeconds) * r.price
                          /\ r.feePaid <= FeeCap(r)
                          /\ r.income <= r.deducted
    BY DEF BillMatchesDuration
  <2> DEFINE r == call[c]
  <2>1. CASE r.status = "ended"
    BY <2>1 DEF IInv, RecordOK, FinalBill
  <2>2. CASE r.status # "ended"
    <3>1. r.status = "ongoing" /\ OpenBill(r, now)
      BY <2>2 DEF IInv, RecordOK, OpenBill, Timely
    <3>2. /\ r.price \in Nat /\ r.minutes \in Nat /\ r.feeMinutes \in Nat /\ r.deducted \in Nat
          /\ r.feePaid \in Nat /\ r.connected \in Nat /\ now \in Nat
          /\ r.fee.threshold \in Nat /\ r.fee.payerBps \in Bps
      BY SecondsAreNat DEF IInv, TypeOK, CallRecord, FeeConfig
    <3>3. now - r.connected \in Nat
      BY <3>1, <3>2 DEF OpenBill, Timely
    <3>4. DueMinutes(now - r.connected, FreeSeconds) \in Nat
      BY <3>3, DueIsNat, SecondsAreNat
    <3>5. /\ r.deducted = r.minutes * r.price /\ r.income = 0
          /\ r.minutes <= DueMinutes(now - r.connected, FreeSeconds)
          /\ r.feeMinutes <= ChargeableMinutes(r.minutes, r.fee.threshold)
          /\ r.feePaid <= r.feeMinutes * PayerFeePerMinute(r.price, r.fee.payerBps)
      BY <3>1 DEF OpenBill, Timely
    <3>6. r.minutes * r.price <= DueMinutes(now - r.connected, FreeSeconds) * r.price
      BY <3>2, <3>4, <3>5, ProductMonotonic
    <3>7. r.feePaid <= FeeCap(r)
      <4> DEFINE chargeable == ChargeableMinutes(r.minutes, r.fee.threshold)
                 perMinute  == PayerFeePerMinute(r.price, r.fee.payerBps)
      <4>1. chargeable \in Nat /\ perMinute \in Nat
        BY <3>2, ChargeableIsNat, PayerFeeIsNat
      <4>2. r.feeMinutes * perMinute <= chargeable * perMinute
        BY <3>2, <3>5, <4>1, ProductMonotonic
      <4>3. r.feeMinutes * perMinute \in Nat /\ chargeable * perMinute \in Nat
        BY <3>2, <4>1, ProductIsNat
      <4>4. FeeCap(r) = chargeable * perMinute
        BY DEF FeeCap
      <4> HIDE DEF chargeable, perMinute
      <4>5. r.feePaid <= r.feeMinutes * perMinute
        BY <3>5 DEF perMinute
      <4>6. QED
        BY <3>2, <4>2, <4>3, <4>4, <4>5
    <3>8. QED
      BY <3>1, <3>2, <3>5, <3>6, <3>7
  <2>3. QED
    BY <2>1, <2>2
<1>2. QED
  BY <1>1, CallInvariant, PTL

-----------------------------------------------------------------------------
(***************************************************************************)
(* The effect of any step on the records: it leaves all but one call alone *)
(* and that one has not ended; if it is active afterwards, it was dialed   *)
(* between users without a call, or was active before with these parties.  *)
(***************************************************************************)
Advances(c) ==
  /\ call[c].status # "ended"
  /\ \A d \in Calls : d # c => call'[d] = call[d]
  /\ \/ call'[c].status = "ended"
     \/ IsActive(c) /\ call'[c].caller = call[c].caller /\ call'[c].callee = call[c].callee
     \/ ~Busy(call'[c].caller) /\ ~Busy(call'[c].callee)

\* A call that never connected advances by ending.
LEMMA UnconnectedAdvances ==
  ASSUME IInv, NEW c \in Calls, call[c].status = "pending", NEW reason, NEW payer,
         Unconnected(c, reason, payer)
  PROVE  Advances(c)
<1> DEFINE r == [call[c] EXCEPT !.status = "ended", !.reason = reason, !.ended = now, !.payer = payer]
<1>1. call' = [call EXCEPT ![c] = r]
  BY DEF Unconnected
<1>2. r.status = "ended"
  BY DEF IInv, TypeOK, CallRecord
<1> HIDE DEF r
<1>3. QED
  BY <1>1, <1>2 DEF Advances, IInv, TypeOK

\* Every step leaves the calls, or advances one of them.
LEMMA StepAdvances ==
  ASSUME IInv, [Next]_vars
  PROVE  call' = call \/ \E c \in Calls : Advances(c)
<1> USE DEF IInv, TypeOK
<1>1. ASSUME NEW caller \in Users, NEW callee \in Users, NEW c \in Calls, DialingIn(caller, callee, c)
      PROVE  Advances(c)
  <2> DEFINE earner == DialEarner(caller, callee)
             price  == IF earner = NoUser THEN 0 ELSE CallPrice[earner]
             r == [NoCall EXCEPT !.status = "pending", !.caller = caller, !.callee = callee,
                                 !.price = price, !.earner = earner, !.created = now]
  <2>1. /\ call[c].status = "absent" /\ ~Busy(caller) /\ ~Busy(callee)
        /\ call' = [call EXCEPT ![c] = r]
    BY <1>1 DEF DialingIn
  <2>2. r.caller = caller /\ r.callee = callee
    BY DEF NoCall
  <2> HIDE DEF r
  <2>3. QED
    BY <2>1, <2>2 DEF Advances
<1>2. ASSUME NEW c \in Calls, AcceptTooLate(c) \/ RejectCall(c) \/ CancelCall(c) \/ CloseTimeoutPending(c)
      PROVE  Advances(c)
  BY <1>2, UnconnectedAdvances DEF AcceptTooLate, RejectCall, CancelCall, CloseTimeoutPending
<1>3. ASSUME NEW c \in Calls, NEW fee \in FeeConfigs, AcceptCall(c, fee)
      PROVE  Advances(c)
  <2> DEFINE payer == ResolvePayer(call[c].caller, call[c].callee)
             r == [call[c] EXCEPT !.status = "ongoing", !.connected = now, !.payer = payer, !.fee = fee]
  <2>1. call[c].status = "pending"
    BY <1>3 DEF AcceptCall
  <2>2. CASE Unconnected(c, "balance_empty", payer)
    BY <2>1, <2>2, UnconnectedAdvances
  <2>3. CASE call' = [call EXCEPT ![c] = r]
    <3>1. r.caller = call[c].caller /\ r.callee = call[c].callee
      BY DEF CallRecord
    <3> HIDE DEF r
    <3>2. QED
      BY <2>1, <2>3, <3>1 DEF Advances, IsActive
  <2>4. QED
    BY <1>3, <2>2, <2>3 DEF AcceptCall
<1>4. ASSUME NEW c \in Calls, Renew(c)
      PROVE  Advances(c)
  <2> DEFINE charge == RenewalCharge(call[c])
             billed == [call[c] EXCEPT !.minutes = DueMinutes(now - call[c].connected, FreeSeconds),
                                       !.deducted = call[c].deducted + charge]
             fee == FeeCovered(billed, Balance(call[c].payer) - 100 * charge)
             final == [billed EXCEPT !.feeMinutes = call[c].feeMinutes + UnprocessedFeeMinutes(billed),
                                     !.feePaid = call[c].feePaid + fee]
  <2>1. call[c].status = "ongoing" /\ call' = [call EXCEPT ![c] = final]
    BY <1>4 DEF Renew, RenewalDue
  <2> HIDE DEF charge, fee
  <2>2. final.caller = call[c].caller /\ final.callee = call[c].callee
    BY DEF CallRecord
  <2> HIDE DEF final
  <2>3. QED
    BY <2>1, <2>2 DEF Advances, IsActive
<1>5. ASSUME NEW c \in Calls, NEW d, NEW endedAt, NEW reason, NEW earner, call[c].status # "ended",
             Close(c, Billed(call[c], d, endedAt, reason, earner))
      PROVE  Advances(c)
  <2> DEFINE r == Billed(call[c], d, endedAt, reason, earner)
             final == Settled(r, Balance(r.payer) - 100 * TopUp(c, r))
  <2>1. call' = [call EXCEPT ![c] = final]
    BY <1>5 DEF Close
  <2>2. final.status = "ended"
    BY DEF Settled, Billed, CallRecord
  <2> HIDE DEF final
  <2>3. QED
    BY <1>5, <2>1, <2>2 DEF Advances
<1>6. ASSUME NEW c \in Calls, CallEnd(c)
      PROVE  Advances(c)
  BY <1>5, <1>6 DEF CallEnd, IsActive
<1>7. ASSUME NEW c \in Calls, NEW lastSeen \in 0 .. now, ForceExit(c, lastSeen)
      PROVE  Advances(c)
  BY <1>5, <1>7 DEF ForceExit
<1>8. ASSUME NEW c \in Calls, CloseBroke(c)
      PROVE  Advances(c)
  <2> DEFINE r == [call[c] EXCEPT !.status = "ended", !.ended = now, !.duration = now - call[c].connected,
                                  !.reason = "balance_empty", !.earner = EarnerOf(call[c], call[c].payer)]
             final == Settled(r, Balance(r.payer) - 100 * TopUp(c, r))
  <2>1. call[c].status # "ended" /\ call' = [call EXCEPT ![c] = final]
    BY <1>8 DEF CloseBroke, Close, RenewalDue
  <2>2. final.status = "ended"
    BY DEF Settled, CallRecord
  <2> HIDE DEF final
  <2>3. QED
    BY <2>1, <2>2 DEF Advances
<1>9. ASSUME \/ Tick \/ UNCHANGED vars
             \/ \E u \in Users : \/ ChangeCertification(u) \/ ChangeAccount(u)
                                \/ \E n \in WalletMoves : MoveWallet(u, n)
      PROVE  call' = call
  BY <1>9 DEF Tick, vars, ChangeCertification, ChangeAccount, MoveWallet
<1> HIDE DEF IInv, TypeOK
<1>10. QED
  BY <1>1, <1>2, <1>3, <1>4, <1>6, <1>7, <1>8, <1>9 DEF Next

\* An ended call's bill, settlement and end never change.
THEOREM EndedStays == Spec => EndedIsFinal
<1>1. IInv /\ [Next]_vars => [\A c \in Calls : call[c].status = "ended" => call'[c] = call[c]]_vars
  BY StepAdvances DEF Advances
<1>2. QED
  BY <1>1, CallInvariant, PTL DEF Spec, EndedIsFinal

\* No interleaving of handlers puts a user into two active calls.
THEOREM NoUserInTwoCalls == Spec => []OneCallPerUser
<1>1. Init => OneCallPerUser
  BY DEF Init, NoCall, OneCallPerUser, IsActive
<1>2. IInv /\ OneCallPerUser /\ [Next]_vars => OneCallPerUser'
  <2> SUFFICES ASSUME IInv, OneCallPerUser, [Next]_vars
               PROVE  OneCallPerUser'
    OBVIOUS
  <2>1. CASE call' = call
    BY <2>1 DEF OneCallPerUser, IsActive, Parties
  <2>2. CASE \E c \in Calls : Advances(c)
    BY <2>2 DEF Advances, OneCallPerUser, IsActive, Busy, Parties
  <2>3. QED
    BY <2>1, <2>2, StepAdvances
<1>3. QED
  BY <1>1, <1>2, CallInvariant, PTL DEF Spec

-----------------------------------------------------------------------------
(***************************************************************************)
(* The money: every step of the handlers is one of five kinds of step of   *)
(* one call, or leaves the calls alone.  From the kinds follow the         *)
(* conservation of coins and diamonds and the refinement of CallContract.  *)
(***************************************************************************)
Bill(r) == 100 * r.deducted + r.feePaid

(***************************************************************************)
(* What IInv leaves out: a call that has not ended has no duration and is  *)
(* not settled, an active one has two users as parties, and nobody else    *)
(* earns of it.                                                            *)
(***************************************************************************)
PartiesOK(r) ==
  /\ r.status # "ended" => r.duration = 0 /\ ~r.settled
  /\ r.status \in {"pending", "ongoing"} =>
       /\ r.caller \in Users /\ r.callee \in Users
       /\ r.earner \in {r.caller, r.callee, NoUser}

MInv == IInv /\ \A c \in Calls : PartiesOK(call[c])

-----------------------------------------------------------------------------
\* Nobody's balance or spending changes, and only call c may.
Alone(c) ==
  /\ \A d \in Calls \ {c} : call'[d] = call[d]
  /\ call'[c] \in CallRecord
  /\ UNCHANGED <<now, outlay>>

Free == UNCHANGED <<coins, diamonds>>

\* The call after the step has the parties, and the earner, of before.
SameParties(r, s) == s.caller = r.caller /\ s.callee = r.callee

SameTerms(r, s) == s.payer = r.payer /\ s.price = r.price /\ s.fee = r.fee

\* It begins to ring between two free users.
Dials(c) ==
  LET s == call'[c]
  IN  /\ call[c].status = "absent" /\ s.status = "pending"
      /\ s.caller \in Users /\ s.callee \in Users /\ s.caller # s.callee
      /\ ~Busy(s.caller) /\ ~Busy(s.callee)
      /\ s.earner \in {s.caller, s.callee, NoUser}
      /\ Bill(s) = 0 /\ s.duration = 0 /\ ~s.settled
      /\ Free

\* It is over before it ran.
Misses(c) ==
  LET s == call'[c]
  IN  /\ call[c].status = "pending" /\ s.status = "ended"
      /\ Bill(s) = 0 /\ s.duration = 0 /\ (s.settled => 100 * s.income <= s.incomeFee)
      /\ Free

\* It runs from now on.
Answers(c) ==
  LET r == call[c]
      s == call'[c]
  IN  /\ r.status = "pending" /\ s.status = "ongoing"
      /\ SameParties(r, s) /\ s.earner = r.earner
      /\ s.payer \in Parties(r) \cup {NoUser}
      /\ s.connected = now
      /\ Bill(s) = 0 /\ s.duration = 0 /\ ~s.settled
      /\ Free

\* Its payer pays for the minutes that began.
Meters(c) ==
  LET r == call[c]
      s == call'[c]
  IN  /\ r.status = "ongoing" /\ s.status = "ongoing"
      /\ SameParties(r, s) /\ SameTerms(r, s) /\ s.earner = r.earner /\ s.connected = r.connected
      /\ Bill(r) <= Bill(s) /\ s.duration = 0 /\ ~s.settled
      /\ coins' = Credit(coins, r.payer, Bill(r) - Bill(s))
      /\ diamonds' = diamonds

\* It is over after it ran: the payer pays or gets back what is left, and the earner gets the income.
HangsUp(c) ==
  LET r == call[c]
      s == call'[c]
  IN  /\ r.status = "ongoing" /\ s.status = "ended"
      /\ SameTerms(r, s)
      /\ s.duration \in 0 .. now - r.connected
      /\ s.payer = NoUser => Bill(s) = 0
      /\ s.payer # NoUser => s.minutes <= DueMinutes(s.duration, FreeSeconds)
      /\ s.earner \in {r.caller, r.callee, NoUser}
      /\ s.settled => s.earner # NoUser /\ s.income <= GrossIncome(s.deducted, ShareBps)
      /\ coins' = Credit(coins, r.payer, Bill(r) - Bill(s))
      /\ diamonds' = Credit(diamonds, s.earner, NetIncome(s))

\* No call is touched: time passes, users change, or coins move elsewhere.
Elsewhere ==
  /\ call' = call /\ diamonds' = diamonds
  /\ now' \in Nat /\ now' >= now /\ (now' # now => UNCHANGED <<coins, outlay>>)
  /\ \A u \in Users : coins'[u] + 100 * outlay'[u] = coins[u] + 100 * outlay[u]

Moves(c) == Alone(c) /\ (Dials(c) \/ Misses(c) \/ Answers(c) \/ Meters(c) \/ HangsUp(c))

-----------------------------------------------------------------------------
\* A call that never connected.
LEMMA UnconnectedMisses ==
  ASSUME MInv, NEW c \in Calls, NEW reason \in Reasons, NEW payer \in Users \cup {NoUser},
         call[c].status = "pending", Unconnected(c, reason, payer)
  PROVE  Alone(c) /\ Misses(c)
<1> DEFINE r == [call[c] EXCEPT !.status = "ended", !.reason = reason, !.ended = now, !.payer = payer]
<1>1. call[c] \in CallRecord /\ call[c].deducted = 0 /\ call[c].feePaid = 0
  BY PendingIsFree DEF MInv
<1>2. call[c].duration = 0 /\ ~call[c].settled
  BY DEF MInv, PartiesOK
<1>3. now \in Nat /\ call \in [Calls -> CallRecord]
  BY SecondsAreNat DEF MInv, IInv, TypeOK
<1>4. call' = [call EXCEPT ![c] = r] /\ UNCHANGED <<now, coins, diamonds, outlay>>
  BY DEF Unconnected
<1>5. r \in CallRecord
  BY <1>1, <1>3 DEF CallRecord
<1>6. r.status = "ended" /\ r.deducted = 0 /\ r.feePaid = 0 /\ r.duration = 0 /\ ~r.settled
  BY <1>1, <1>2 DEF CallRecord
<1> HIDE DEF r
<1>7. call'[c] = r /\ \A d \in Calls \ {c} : call'[d] = call[d]
  BY <1>3, <1>4
<1>8. QED
  BY <1>4, <1>5, <1>6, <1>7 DEF Alone, Misses, Free, Bill

\* Dialing begins a call that rings between two free users.
LEMMA DialingDials ==
  ASSUME MInv, NEW caller \in Users, NEW callee \in Users, NEW c \in Calls, DialingIn(caller, callee, c)
  PROVE  Alone(c) /\ Dials(c)
<1> DEFINE earner == DialEarner(caller, callee)
           price  == IF earner = NoUser THEN 0 ELSE CallPrice[earner]
           r == [NoCall EXCEPT !.status = "pending", !.caller = caller, !.callee = callee,
                               !.price = price, !.earner = earner, !.created = now]
<1>1. earner \in {caller, callee, NoUser}
  BY DEF DialEarner
<1>2. price \in Nat
  BY <1>1, PricesAreNat, NoUserIsNew
<1>3. now \in Nat /\ call \in [Calls -> CallRecord]
  BY SecondsAreNat DEF MInv, IInv, TypeOK
<1>4. NoCall \in CallRecord
  <2>1. NoFee \in FeeConfig
    BY DEF NoFee, FeeConfig, Bps
  <2>2. QED
    BY <2>1 DEF NoCall, CallRecord, Reasons
<1>5. /\ call[c].status = "absent" /\ caller # callee /\ ~Busy(caller) /\ ~Busy(callee)
      /\ call' = [call EXCEPT ![c] = r] /\ UNCHANGED <<now, coins, diamonds, outlay>>
  BY DEF DialingIn
<1> HIDE DEF earner, price
<1>6. r \in CallRecord
  BY <1>1, <1>2, <1>3, <1>4 DEF CallRecord
<1>7. /\ r.status = "pending" /\ r.caller = caller /\ r.callee = callee /\ r.earner = earner
      /\ r.deducted = 0 /\ r.feePaid = 0 /\ r.duration = 0 /\ ~r.settled
  BY DEF NoCall
<1> HIDE DEF r
<1>8. call'[c] = r /\ \A d \in Calls \ {c} : call'[d] = call[d]
  BY <1>3, <1>5
<1>9. QED
  BY <1>1, <1>5, <1>6, <1>7, <1>8 DEF Alone, Dials, Free, Bill

\* Accepting makes a call run, or misses it when the payer cannot pay a minute.
LEMMA AcceptAnswers ==
  ASSUME MInv, NEW c \in Calls, NEW fee \in FeeConfigs, AcceptCall(c, fee)
  PROVE  Alone(c) /\ (Answers(c) \/ Misses(c))
<1> DEFINE payer == ResolvePayer(call[c].caller, call[c].callee)
           r == [call[c] EXCEPT !.status = "ongoing", !.connected = now, !.payer = payer, !.fee = fee]
<1>1. call[c].status = "pending"
  BY DEF AcceptCall
<1>2. /\ call[c] \in CallRecord /\ call[c].deducted = 0 /\ call[c].feePaid = 0
      /\ call[c].duration = 0 /\ ~call[c].settled
  BY <1>1, PendingIsFree DEF MInv, PartiesOK
<1>3. payer \in Parties(call[c]) \cup {NoUser} /\ payer \in Users \cup {NoUser}
  BY <1>2 DEF ResolvePayer, Parties, CallRecord
<1>4. now \in Nat /\ call \in [Calls -> CallRecord] /\ fee \in FeeConfig
  BY SecondsAreNat, FeesAreConfigs DEF MInv, IInv, TypeOK
<1>5. CASE Unconnected(c, "balance_empty", payer)
  BY <1>1, <1>3, <1>5, UnconnectedMisses DEF Reasons
<1>6. CASE /\ call' = [call EXCEPT ![c] = r]
           /\ UNCHANGED <<now, coins, diamonds, outlay, certified, normal>>
  <2> HIDE DEF payer
  <2>1. r \in CallRecord
    BY <1>2, <1>3, <1>4 DEF CallRecord
  <2>2. /\ r.status = "ongoing" /\ SameParties(call[c], r) /\ r.earner = call[c].earner /\ r.payer = payer
        /\ r.connected = now /\ r.deducted = 0 /\ r.feePaid = 0 /\ r.duration = 0 /\ ~r.settled
    BY <1>2 DEF CallRecord, SameParties
  <2> HIDE DEF r
  <2>3. call'[c] = r /\ \A d \in Calls \ {c} : call'[d] = call[d]
    BY <1>4, <1>6
  <2>4. QED
    BY <1>1, <1>3, <1>6, <2>1, <2>2, <2>3 DEF Alone, Answers, Free, Bill
<1>7. QED
  BY <1>5, <1>6 DEF AcceptCall

\* A renewal takes from the payer what it adds to the bill.
LEMMA RenewMeters ==
  ASSUME MInv, NEW c \in Calls, Renew(c)
  PROVE  Alone(c) /\ Meters(c)
<1> DEFINE r      == call[c]
           due    == DueMinutes(now - r.connected, FreeSeconds)
           charge == RenewalCharge(r)
           billed == [r EXCEPT !.minutes = due, !.deducted = r.deducted + charge]
           new    == UnprocessedFeeMinutes(billed)
           b      == Balance(r.payer) - 100 * charge
           fee    == FeeCovered(billed, b)
           final  == [billed EXCEPT !.feeMinutes = r.feeMinutes + new, !.feePaid = r.feePaid + fee]
<1>1. /\ r.status = "ongoing" /\ due > r.minutes /\ r.payer # NoUser /\ coins[r.payer] >= 100 * charge
      /\ call' = [call EXCEPT ![c] = final]
      /\ coins' = Credit(coins, r.payer, 0 - 100 * charge - fee)
      /\ now' = now /\ diamonds' = diamonds /\ outlay' = outlay
  BY DEF Renew, RenewalDue, Covers
<1>2. /\ r \in CallRecord /\ r.price \in Nat /\ r.minutes \in Nat /\ r.deducted \in Nat /\ r.feePaid \in Nat
      /\ r.feeMinutes \in Nat /\ r.payer \in Users /\ r.connected \in Nat /\ now \in Nat
      /\ coins \in [Users -> Nat] /\ call \in [Calls -> CallRecord]
  BY <1>1, SecondsAreNat DEF MInv, IInv, TypeOK, CallRecord
<1>3. r.connected <= now /\ r.duration = 0 /\ ~r.settled
  BY <1>1 DEF MInv, IInv, RecordOK, OpenBill, Timely, PartiesOK
<1>4. due \in Nat
  <2>1. now - r.connected \in Nat
    BY <1>2, <1>3
  <2>2. QED
    BY <2>1, DueIsNat, SecondsAreNat
<1>5. charge = (due - r.minutes) * r.price
  BY DEF RenewalCharge
<1> HIDE DEF due, charge
<1>6. charge \in Nat
  BY <1>1, <1>2, <1>4, <1>5, ProductIsNat
<1>7. billed \in CallRecord
  <2>1. r.deducted + charge \in Nat
    BY <1>2, <1>6
  <2>2. QED
    BY <1>2, <1>4, <2>1 DEF CallRecord
<1>8. /\ billed.deducted = r.deducted + charge /\ SameParties(r, billed) /\ SameTerms(r, billed)
      /\ billed.earner = r.earner /\ billed.status = "ongoing" /\ billed.connected = r.connected
      /\ billed.duration = 0 /\ ~billed.settled
  BY <1>1, <1>2, <1>3 DEF CallRecord, SameParties, SameTerms
<1> HIDE DEF billed
<1>9. b \in Nat
  BY <1>1, <1>2, <1>6 DEF Balance
<1>10. new \in Nat /\ fee \in Nat
  BY <1>7, <1>9, FeeCoveredFits
<1> HIDE DEF new, fee, b
<1>11. final \in CallRecord
  <2>1. r.feeMinutes + new \in Nat /\ r.feePaid + fee \in Nat
    BY <1>2, <1>10
  <2>2. QED
    BY <1>7, <2>1 DEF CallRecord
<1>12. /\ final.deducted = r.deducted + charge /\ final.feePaid = r.feePaid + fee
       /\ SameParties(r, final) /\ SameTerms(r, final)
       /\ final.earner = r.earner /\ final.status = "ongoing" /\ final.connected = r.connected
       /\ final.duration = 0 /\ ~final.settled
  BY <1>7, <1>8 DEF CallRecord, SameParties, SameTerms
<1> HIDE DEF final
<1>13. Bill(r) - Bill(final) = 0 - 100 * charge - fee /\ Bill(r) <= Bill(final)
  BY <1>2, <1>6, <1>10, <1>12 DEF Bill
<1>14. call'[c] = final /\ \A d \in Calls \ {c} : call'[d] = call[d]
  BY <1>1, <1>2
<1>15. QED
  BY <1>1, <1>11, <1>12, <1>13, <1>14 DEF Alone, Meters
-----------------------------------------------------------------------------
\* What a settlement makes of the fee and the income.
LEMMA SettledIncome ==
  ASSUME NEW r \in CallRecord, NEW b \in Nat
  PROVE  /\ Settled(r, b).settled => Settled(r, b).earner # NoUser
         /\ Settled(r, b).income <= GrossIncome(r.deducted, ShareBps)
         /\ r.payer = NoUser => Settled(r, b).feePaid <= r.feePaid
<1> DEFINE chargeable == ChargeableMinutes(r.minutes, r.fee.threshold)
           gross == GrossIncome(r.deducted, ShareBps)
           paid == Least(r.feePaid + FeeCovered(r, b), FeeCap(r))
           incomeFee == chargeable * IncomeFeePerMinute(r.price, ShareBps, IncomeBps(r.fee))
           earns == r.earner # NoUser /\ gross > 0
           income == IF earns THEN gross ELSE 0
<1>1. gross \in Nat /\ r.feePaid \in Nat
  BY GrossIncomeWithinFee, ShareIsBps DEF CallRecord
<1>2. Settled(r, b) = [r EXCEPT !.feeMinutes = chargeable, !.feePaid = paid, !.incomeFee = incomeFee,
                                !.income = income, !.settled = earns]
  BY DEF Settled
<1>3. r.payer = NoUser => paid <= r.feePaid
  <2>1. r.payer = NoUser => FeeCovered(r, b) = 0
    BY DEF FeeCovered
  <2>2. FeeCap(r) \in Nat
    <3>1. /\ r.price \in Nat /\ r.minutes \in Nat /\ r.fee.payerBps \in Bps /\ r.fee.threshold \in Nat
      BY DEF CallRecord, FeeConfig
    <3>2. PayerFeePerMinute(r.price, r.fee.payerBps) \in Nat /\ chargeable \in Nat
      BY <3>1, PayerFeeIsNat, ChargeableIsNat
    <3>3. QED
      BY <3>2, ProductIsNat DEF FeeCap
  <2>3. QED
    BY <1>1, <2>1, <2>2 DEF Least
<1>4. income <= gross
  BY <1>1
<1> HIDE DEF chargeable, gross, paid, incomeFee, income, earns
<1>5. /\ Settled(r, b).settled = earns /\ Settled(r, b).income = income /\ Settled(r, b).feePaid = paid
      /\ Settled(r, b).earner = r.earner
  BY <1>2 DEF CallRecord
<1>6. QED
  BY <1>3, <1>4, <1>5 DEF earns, gross

\* Closing a call moves what its bill changes by, and pays its income out.
LEMMA CloseMoves ==
  ASSUME IInv, NEW c \in Calls, NEW r \in CallRecord, Close(c, r),
         r.status = "ended", r.payer = call[c].payer, r.feePaid = call[c].feePaid,
         100 * TopUp(c, r) <= Balance(r.payer)
  PROVE  /\ Alone(c)
         /\ \A f \in {"status", "payer", "price", "minutes", "deducted", "duration", "fee", "earner",
                      "caller", "callee"} : call'[c][f] = r[f]
         /\ coins' = Credit(coins, r.payer, Bill(call[c]) - Bill(call'[c]))
         /\ diamonds' = Credit(diamonds, r.earner, NetIncome(call'[c]))
         /\ call'[c].settled => r.earner # NoUser
         /\ call'[c].income <= GrossIncome(r.deducted, ShareBps)
         /\ r.payer = NoUser => call'[c].feePaid <= r.feePaid
<1> DEFINE topUp == 100 * TopUp(c, r)
           b     == Balance(r.payer) - topUp
           final == Settled(r, b)
<1>1. /\ call \in [Calls -> CallRecord] /\ r.payer \in Users \cup {NoUser} /\ r.deducted \in Nat
      /\ r.feePaid \in Nat /\ call[c].deducted \in Nat
  BY DEF IInv, TypeOK, CallRecord
<1>2. Balance(r.payer) \in Nat /\ topUp \in Int
  BY <1>1 DEF IInv, TypeOK, Balance, TopUp
<1>3. b \in Nat
  BY <1>2
<1>4. /\ final \in CallRecord
      /\ \A f \in {"status", "payer", "price", "minutes", "deducted", "duration", "fee", "earner",
                   "caller", "callee"} : final[f] = r[f]
  BY <1>3, SettledBill
<1>5. /\ final.settled => final.earner # NoUser
      /\ final.income <= GrossIncome(r.deducted, ShareBps)
      /\ r.payer = NoUser => final.feePaid <= r.feePaid
  BY <1>3, SettledIncome
<1>6. /\ call' = [call EXCEPT ![c] = final]
      /\ coins' = Credit(coins, r.payer, r.feePaid - final.feePaid - topUp)
      /\ diamonds' = Credit(diamonds, final.earner, NetIncome(final))
      /\ UNCHANGED <<now, outlay>>
  BY DEF Close
<1> HIDE DEF final
<1>7. r.feePaid - final.feePaid - topUp = Bill(call[c]) - Bill(final)
  <2>1. final.feePaid \in Nat /\ final.deducted = r.deducted
    BY <1>4 DEF CallRecord
  <2>2. QED
    BY <1>1, <2>1 DEF Bill, TopUp
<1>8. call'[c] = final /\ \A d \in Calls \ {c} : call'[d] = call[d]
  BY <1>1, <1>6
<1>9. final.earner = r.earner
  BY <1>4
<1>10. QED
  BY <1>4, <1>5, <1>6, <1>7, <1>8, <1>9 DEF Alone

\* Whoever a settlement finds to earn is a party.
LEMMA PartyEarns ==
  ASSUME NEW r \in CallRecord, NEW payer, r.earner \in {r.caller, r.callee, NoUser}
  PROVE  EarnerOf(r, payer) \in {r.caller, r.callee, NoUser}
  BY DEF EarnerOf

\* A running call that is closed with the bill of a duration it ran, or with what it paid.
LEMMA RunningHangsUp ==
  ASSUME MInv, NEW c \in Calls, NEW r \in CallRecord, Close(c, r),
         call[c].status = "ongoing", r.status = "ended",
         SameTerms(call[c], r), r.feePaid = call[c].feePaid,
         100 * TopUp(c, r) <= Balance(r.payer),
         r.duration \in 0 .. now - call[c].connected,
         r.payer = NoUser => r.deducted = 0,
         r.payer # NoUser => r.minutes <= DueMinutes(r.duration, FreeSeconds),
         r.earner \in {call[c].caller, call[c].callee, NoUser}
  PROVE  Alone(c) /\ HangsUp(c)
<1> DEFINE s == call'[c]
<1>1. /\ Alone(c)
      /\ \A f \in {"status", "payer", "price", "minutes", "deducted", "duration", "fee", "earner",
                   "caller", "callee"} : s[f] = r[f]
      /\ coins' = Credit(coins, r.payer, Bill(call[c]) - Bill(s))
      /\ diamonds' = Credit(diamonds, r.earner, NetIncome(s))
      /\ s.settled => r.earner # NoUser
      /\ s.income <= GrossIncome(r.deducted, ShareBps)
      /\ r.payer = NoUser => s.feePaid <= r.feePaid
  BY CloseMoves DEF MInv, SameTerms
<1>2. /\ s.status = "ended" /\ s.payer = r.payer /\ s.price = r.price /\ s.minutes = r.minutes
      /\ s.deducted = r.deducted /\ s.duration = r.duration /\ s.fee = r.fee /\ s.earner = r.earner
  BY <1>1
<1>3. s \in CallRecord
  BY <1>1 DEF Alone
<1>4. s.payer = NoUser => Bill(s) = 0
  <2> SUFFICES ASSUME s.payer = NoUser
               PROVE  Bill(s) = 0
    OBVIOUS
  <2>1. call[c].feePaid = 0
    BY <1>2 DEF MInv, IInv, RecordOK, OpenBill, SameTerms
  <2>2. s.feePaid <= 0 /\ s.feePaid \in Nat /\ s.deducted = 0
    BY <1>1, <1>2, <1>3, <2>1 DEF CallRecord
  <2>3. QED
    BY <2>2 DEF Bill
<1> HIDE DEF s
<1>5. QED
  BY <1>1, <1>2, <1>4 DEF HangsUp, SameTerms, s
\* The minutes of a final bill are no more than the duration owes.
LEMMA FinalMinutesAreDue ==
  ASSUME MInv, NEW c \in Calls, call[c].status = "ongoing", call[c].payer # NoUser, NEW d \in Nat
  PROVE  FinalMinutes(call[c], d) <= DueMinutes(d, FreeSeconds)
<1> DEFINE r == call[c]
           due == DueMinutes(d, FreeSeconds)
<1>1. /\ r \in CallRecord /\ r.price \in Nat /\ r.deducted \in Nat /\ r.minutes \in Nat
      /\ r.payer \in Users \cup {NoUser} /\ r.deducted = r.minutes * r.price
  BY DEF MInv, IInv, TypeOK, CallRecord, RecordOK, OpenBill
<1>2. Balance(r.payer) \in Nat
  BY <1>1 DEF MInv, IInv, TypeOK, Balance
<1>3. due \in Nat
  BY DueIsNat, SecondsAreNat
<1>4. FinalCharge(r, d) = IF 100 * (due * r.price - r.deducted) > Balance(r.payer) THEN r.deducted
                          ELSE due * r.price
  BY DEF FinalCharge
<1>5. FinalMinutes(r, d) = IF r.price > 0 THEN FinalCharge(r, d) \div r.price ELSE due
  BY DEF FinalMinutes
<1> HIDE DEF r, due
<1>6. CASE r.price = 0
  BY <1>3, <1>5, <1>6 DEF r, due
<1>7. CASE r.price > 0 /\ FinalCharge(r, d) = due * r.price
  <2>1. (due * r.price) \div r.price = due
    BY <1>1, <1>3, <1>7, TimesQuotient
  <2>2. QED
    BY <1>3, <1>5, <1>7, <2>1 DEF r, due
<1>8. CASE r.price > 0 /\ FinalCharge(r, d) = r.deducted /\ 100 * (due * r.price - r.deducted) > Balance(r.payer)
  <2>1. (r.minutes * r.price) \div r.price = r.minutes
    BY <1>1, <1>8, TimesQuotient
  <2>2. due * r.price > r.minutes * r.price
    <3>1. due * r.price \in Nat
      BY <1>1, <1>3, ProductIsNat
    <3>2. due * r.price > r.deducted
      <4> DEFINE owed == due * r.price
      <4> HIDE DEF owed
      <4>1. 100 * (owed - r.deducted) > Balance(r.payer) /\ owed \in Nat
        BY <1>8, <3>1 DEF owed
      <4>2. owed > r.deducted
        BY <1>1, <1>2, <4>1
      <4>3. QED
        BY <4>2 DEF owed
    <3>3. QED
      BY <1>1, <3>2
  <2>3. ~(due <= r.minutes)
    <3>1. due * r.price \in Nat /\ r.minutes * r.price \in Nat
      BY <1>1, <1>3, ProductIsNat
    <3>2. due <= r.minutes => due * r.price <= r.minutes * r.price
      BY <1>1, <1>3, ProductMonotonic
    <3>3. QED
      BY <2>2, <3>1, <3>2
  <2>4. FinalMinutes(r, d) = r.minutes
    BY <1>1, <1>5, <1>8, <2>1
  <2>5. QED
    BY <1>1, <1>3, <2>3, <2>4 DEF r, due
<1>9. QED
  BY <1>1, <1>4, <1>6, <1>7, <1>8

\* A running call that ends with the bill of a duration it ran.
LEMMA BilledHangsUp ==
  ASSUME MInv, NEW c \in Calls, call[c].status = "ongoing", NEW d \in 0 .. now - call[c].connected,
         NEW endedAt \in Nat, NEW reason \in Reasons, NEW payer,
         Close(c, Billed(call[c], d, endedAt, reason, EarnerOf(call[c], payer)))
  PROVE  Alone(c) /\ HangsUp(c)
<1> DEFINE earner == EarnerOf(call[c], payer)
           r == Billed(call[c], d, endedAt, reason, earner)
<1>1. call[c] \in CallRecord /\ d \in Nat /\ now - call[c].connected \in Int
  BY SecondsAreNat DEF MInv, IInv, TypeOK, CallRecord
<1>2. earner \in {call[c].caller, call[c].callee, NoUser} /\ earner \in Users \cup {NoUser}
  BY <1>1, PartyEarns, EarnerIsUser DEF MInv, PartiesOK
<1>3. /\ FinalCharge(call[c], d) \in Nat /\ FinalMinutes(call[c], d) \in Nat
      /\ 100 * (FinalCharge(call[c], d) - call[c].deducted) <= Balance(call[c].payer)
  BY <1>1, FinalChargeFits DEF MInv
<1> HIDE DEF earner
<1>4. r \in CallRecord
  BY <1>1, <1>2, <1>3 DEF Billed, CallRecord
<1>5. /\ r.status = "ended" /\ SameTerms(call[c], r) /\ r.feePaid = call[c].feePaid
      /\ r.deducted = FinalCharge(call[c], d) /\ r.minutes = FinalMinutes(call[c], d)
      /\ r.duration = d /\ r.earner = earner
  BY <1>1 DEF Billed, CallRecord, SameTerms
<1>6. Close(c, r)
  BY DEF earner
<1> HIDE DEF r
<1>7. 100 * TopUp(c, r) <= Balance(r.payer)
  BY <1>3, <1>5 DEF TopUp, SameTerms
<1>8. r.payer = NoUser => r.deducted = 0
  BY <1>5 DEF FinalCharge, SameTerms, MInv, IInv, RecordOK, OpenBill
<1>9. r.payer # NoUser => r.minutes <= DueMinutes(r.duration, FreeSeconds)
  BY <1>1, <1>5, FinalMinutesAreDue DEF SameTerms
<1>10. QED
  BY <1>2, <1>4, <1>5, <1>6, <1>7, <1>8, <1>9, RunningHangsUp

\* A party that hangs up ends a call that runs, or one that rings, which costs nothing.
LEMMA EndingEnds ==
  ASSUME MInv, NEW c \in Calls, CallEnd(c)
  PROVE  Alone(c) /\ (HangsUp(c) \/ Misses(c))
<1> DEFINE d == IF call[c].status = "ongoing" THEN now - call[c].connected ELSE 0
           payer == IF call[c].status = "ongoing" THEN call[c].payer
                    ELSE ResolvePayer(call[c].caller, call[c].callee)
           owed  == DueMinutes(d, FreeSeconds) * call[c].price
           broke == payer # NoUser /\ 100 * (owed - call[c].deducted) > Balance(payer)
           reason == IF broke THEN "balance_empty" ELSE "normal"
           earner == EarnerOf(call[c], payer)
           r == Billed(call[c], d, now, reason, earner)
<1>1. call[c] \in CallRecord /\ call[c].status \in {"pending", "ongoing"} /\ now \in Nat
  BY SecondsAreNat DEF MInv, IInv, TypeOK, CallEnd, IsActive
<1>2. reason \in Reasons
  BY DEF Reasons
<1>3. Close(c, r)
  BY DEF CallEnd
<1>4. CASE call[c].status = "ongoing"
  <2>1. d \in 0 .. now - call[c].connected
    <3>1. call[c].connected \in Nat /\ call[c].connected <= now
      BY <1>4 DEF MInv, IInv, RecordOK, OpenBill, Timely, CallRecord
    <3>2. QED
      BY <1>1, <1>4, <3>1
  <2> HIDE DEF d, payer, reason
  <2>2. QED
    BY <1>1, <1>2, <1>3, <1>4, <2>1, BilledHangsUp
<1>5. CASE call[c].status = "pending"
  <2>1. /\ call[c].payer = NoUser /\ call[c].deducted = 0 /\ call[c].feePaid = 0 /\ d = 0
    BY <1>5, PendingIsFree DEF MInv
  <2>2. earner \in Users \cup {NoUser}
    BY <1>1, EarnerIsUser
  <2>3. /\ FinalCharge(call[c], d) = 0 /\ FinalMinutes(call[c], d) \in Nat
    BY <1>5, <2>1, FinalChargeFits DEF FinalCharge, MInv
  <2> HIDE DEF d, payer, reason, earner
  <2>4. r \in CallRecord
    <3>1. FinalCharge(call[c], d) \in Nat /\ d \in Nat
      BY <2>1, <2>3
    <3>2. QED
      BY <1>1, <1>2, <2>2, <2>3, <3>1 DEF Billed, CallRecord
  <2>5. /\ r.status = "ended" /\ r.payer = NoUser /\ r.feePaid = 0 /\ r.deducted = 0 /\ r.duration = 0
        /\ r.feePaid = call[c].feePaid /\ r.payer = call[c].payer
    BY <1>1, <2>1, <2>3 DEF Billed, CallRecord
  <2> HIDE DEF r
  <2>6. 100 * TopUp(c, r) <= Balance(r.payer)
    BY <2>1, <2>5, NoUserIsNew DEF TopUp, Balance
  <2> DEFINE s == call'[c]
  <2>7. /\ Alone(c)
        /\ \A f \in {"status", "payer", "price", "minutes", "deducted", "duration", "fee", "earner",
                     "caller", "callee"} : s[f] = r[f]
        /\ coins' = Credit(coins, r.payer, Bill(call[c]) - Bill(s))
        /\ diamonds' = Credit(diamonds, r.earner, NetIncome(s))
        /\ s.income <= GrossIncome(r.deducted, ShareBps)
        /\ r.payer = NoUser => s.feePaid <= r.feePaid
    BY <1>3, <2>4, <2>5, <2>6, CloseMoves DEF MInv
  <2>8. s \in CallRecord /\ s.status = "ended" /\ s.deducted = 0 /\ s.duration = 0 /\ s.feePaid = 0
    <3>1. s \in CallRecord /\ s.feePaid <= 0
      BY <2>5, <2>7 DEF Alone
    <3>2. QED
      BY <2>5, <2>7, <3>1 DEF CallRecord
  <2>9. s.income = 0 /\ s.incomeFee \in Nat
    <3>1. GrossIncome(0, ShareBps) = 0
      BY ShareIsBps DEF GrossIncome, Bps
    <3>2. QED
      BY <2>5, <2>7, <2>8, <3>1 DEF CallRecord
  <2>10. NetIncome(s) = 0
    BY <2>9 DEF NetIncome, Positive
  <2>11. coins \in [Users -> Nat] /\ diamonds \in [Users -> Nat]
    BY DEF MInv, IInv, TypeOK
  <2> HIDE DEF s
  <2>12. coins' = coins /\ diamonds' = diamonds
    BY <2>5, <2>7, <2>10, <2>11, NoUserIsNew DEF Credit
  <2>13. QED
    BY <1>5, <2>7, <2>8, <2>9, <2>12 DEF Misses, Free, Bill, s
<1>6. QED
  BY <1>1, <1>4, <1>5

\* A forced exit bills the call as of the second of the last sign.
LEMMA ForceExitHangsUp ==
  ASSUME MInv, NEW c \in Calls, NEW lastSeen \in 0 .. now, ForceExit(c, lastSeen)
  PROVE  Alone(c) /\ HangsUp(c)
<1>1. /\ call[c].status = "ongoing" /\ call[c].connected \in Nat /\ now \in Nat /\ lastSeen \in Nat
      /\ lastSeen - call[c].connected \in 0 .. now - call[c].connected
  BY SecondsAreNat DEF MInv, IInv, TypeOK, ForceExit, CallRecord
<1>2. Close(c, Billed(call[c], lastSeen - call[c].connected, lastSeen, "force_exit",
                      EarnerOf(call[c], call[c].payer)))
  BY DEF ForceExit
<1>3. "force_exit" \in Reasons
  BY DEF Reasons
<1>4. QED
  BY <1>1, <1>2, <1>3, BilledHangsUp

\* A payer who does not cover the next minutes ends the call at what he paid.
LEMMA BrokeHangsUp ==
  ASSUME MInv, NEW c \in Calls, CloseBroke(c)
  PROVE  Alone(c) /\ HangsUp(c)
<1> DEFINE e == EarnerOf(call[c], call[c].payer)
           r == [call[c] EXCEPT !.status = "ended", !.ended = now, !.duration = now - call[c].connected,
                                !.reason = "balance_empty", !.earner = e]
<1>1. /\ call[c] \in CallRecord /\ call[c].status = "ongoing" /\ now \in Nat
      /\ call[c].connected \in Nat /\ call[c].minutes \in Nat
      /\ call[c].deducted \in Nat /\ call[c].payer \in Users \cup {NoUser}
  BY SecondsAreNat DEF MInv, IInv, TypeOK, CloseBroke, RenewalDue, CallRecord
<1>2. /\ call[c].connected <= now
      /\ call[c].minutes <= DueMinutes(now - call[c].connected, FreeSeconds)
      /\ call[c].payer = NoUser => call[c].deducted = 0
  BY <1>1 DEF MInv, IInv, RecordOK, OpenBill, Timely
<1>3. e \in {call[c].caller, call[c].callee, NoUser} /\ e \in Users \cup {NoUser}
  BY <1>1, PartyEarns, EarnerIsUser DEF MInv, PartiesOK
<1>4. Close(c, r)
  BY DEF CloseBroke
<1> HIDE DEF e
<1>5. now - call[c].connected \in Nat /\ r \in CallRecord
  <2>1. now - call[c].connected \in Nat
    BY <1>1, <1>2
  <2>2. QED
    BY <1>1, <1>3, <2>1 DEF CallRecord, Reasons
<1>6. /\ r.status = "ended" /\ SameTerms(call[c], r) /\ r.payer = call[c].payer /\ r.feePaid = call[c].feePaid
      /\ r.deducted = call[c].deducted /\ r.minutes = call[c].minutes
      /\ r.duration = now - call[c].connected /\ r.earner = e
  BY <1>1 DEF CallRecord, SameTerms
<1> HIDE DEF r
<1>7. 100 * TopUp(c, r) <= Balance(r.payer)
  <2>1. Balance(r.payer) \in Nat
    BY <1>1, <1>6 DEF MInv, IInv, TypeOK, Balance
  <2>2. TopUp(c, r) = 0
    BY <1>1, <1>6 DEF TopUp
  <2>3. QED
    BY <2>1, <2>2
<1>8. r.duration \in 0 .. now - call[c].connected
  BY <1>5, <1>6
<1>9. QED
  BY <1>1, <1>2, <1>3, <1>4, <1>5, <1>6, <1>7, <1>8, RunningHangsUp

(***************************************************************************)
(* Every step of the system is one kind of step of one call, or elsewhere. *)
(***************************************************************************)
LEMMA StepMoves ==
  ASSUME MInv, [Next]_vars
  PROVE  Elsewhere \/ \E c \in Calls : Moves(c)
<1>1. /\ now \in Nat /\ coins \in [Users -> Nat] /\ outlay \in [Users -> -MaxOutlay .. MaxOutlay]
      /\ \A u \in Users : outlay[u] \in Int
  BY SecondsAreNat, MovesAreInt DEF MInv, IInv, TypeOK
<1>2. ASSUME NEW caller \in Users, NEW callee \in Users, NEW c \in Calls, DialingIn(caller, callee, c)
      PROVE  Moves(c)
  BY <1>2, DialingDials DEF Moves
<1>3. ASSUME NEW c \in Calls, AcceptTooLate(c) \/ RejectCall(c) \/ CancelCall(c) \/ CloseTimeoutPending(c)
      PROVE  Moves(c)
  BY <1>3, UnconnectedMisses
     DEF Moves, AcceptTooLate, RejectCall, CancelCall, CloseTimeoutPending, Reasons
<1>4. ASSUME NEW c \in Calls, NEW fee \in FeeConfigs, AcceptCall(c, fee)
      PROVE  Moves(c)
  BY <1>4, AcceptAnswers DEF Moves
<1>5. ASSUME NEW c \in Calls, CallEnd(c) \/ Renew(c) \/ CloseBroke(c)
      PROVE  Moves(c)
  BY <1>5, EndingEnds, RenewMeters, BrokeHangsUp DEF Moves
<1>6. ASSUME NEW c \in Calls, NEW lastSeen \in 0 .. now, ForceExit(c, lastSeen)
      PROVE  Moves(c)
  BY <1>6, ForceExitHangsUp DEF Moves
<1>7. ASSUME NEW u \in Users, NEW n \in WalletMoves, MoveWallet(u, n)
      PROVE  Elsewhere
  <2>1. /\ n \in Int /\ coins' = Credit(coins, u, 100 * n) /\ outlay' = [outlay EXCEPT ![u] = @ - n]
        /\ UNCHANGED <<now, diamonds, call>>
    BY <1>7, MovesAreInt DEF MoveWallet
  <2>2. ASSUME NEW v \in Users
        PROVE  coins'[v] + 100 * outlay'[v] = coins[v] + 100 * outlay[v]
    BY <1>1, <2>1 DEF Credit
  <2>3. QED
    BY <1>1, <2>1, <2>2 DEF Elsewhere
<1>8. ASSUME \/ Tick \/ UNCHANGED vars
             \/ \E u \in Users : ChangeCertification(u) \/ ChangeAccount(u)
      PROVE  Elsewhere
  BY <1>1, <1>8 DEF Elsewhere, Tick, vars, ChangeCertification, ChangeAccount
<1>9. QED
  BY <1>2, <1>3, <1>4, <1>5, <1>6, <1>7, <1>8 DEF Next
-----------------------------------------------------------------------------
\* No kind of step breaks what MInv adds to IInv.
LEMMA PartiesStayOK ==
  ASSUME MInv, Elsewhere \/ \E c \in Calls : Moves(c)
  PROVE  \A d \in Calls : PartiesOK(call'[d])
<1>1. CASE Elsewhere
  BY <1>1 DEF MInv, Elsewhere
<1>2. ASSUME NEW c \in Calls, Moves(c), NEW d \in Calls
      PROVE  PartiesOK(call'[d])
  <2>1. CASE d # c
    BY <1>2, <2>1 DEF MInv, Moves, Alone
  <2>2. PartiesOK(call[c])
    BY DEF MInv
  <2>3. CASE d = c /\ (Dials(c) \/ Misses(c) \/ HangsUp(c))
    BY <2>3 DEF PartiesOK, Dials, Misses, HangsUp
  <2>4. CASE d = c /\ (Answers(c) \/ Meters(c))
    BY <2>2, <2>4 DEF PartiesOK, Answers, Meters, SameParties
  <2>5. QED
    BY <1>2, <2>1, <2>3, <2>4 DEF Moves
<1>3. QED
  BY <1>1, <1>2

\* The parties of a call and what it has earned, whatever step was the last.
THEOREM PartiesInvariant == Spec => []MInv
<1>1. Init => \A c \in Calls : PartiesOK(call[c])
  BY DEF Init, NoCall, PartiesOK
<1>2. MInv /\ IInv' /\ [Next]_vars => MInv'
  BY StepMoves, PartiesStayOK DEF MInv
<1>3. QED
  BY <1>1, <1>2, InitIInv, CallInvariant, PTL DEF Spec, MInv

-----------------------------------------------------------------------------
\* What u paid for all calls, and what they gave u.
PaidInAll(u)   == SumFunction([c \in Calls |-> PaidBy(call[c], u)])
EarnedInAll(u) == SumFunction([c \in Calls |-> EarnedBy(call[c], u)])

\* What a user paid for all calls is a natural number.
LEMMA PaidIsNat ==
  ASSUME call \in [Calls -> CallRecord], NEW u
  PROVE  PaidInAll(u) \in Nat
<1> DEFINE p == [d \in Calls |-> PaidBy(call[d], u)]
<1>1. p \in [Calls -> Nat]
  BY DEF PaidBy, CallRecord
<1>2. SumFunction(p) \in Nat
  <2> HIDE DEF p
  <2>1. QED
    BY <1>1, CallsAreFinite, TotalOfNats
<1>3. QED
  BY <1>2 DEF PaidInAll

\* A step of one call changes the sums by what it changes of this call.
LEMMA SumsMove ==
  ASSUME call \in [Calls -> CallRecord], call' \in [Calls -> CallRecord], NEW c \in Calls, Alone(c), NEW u
  PROVE  /\ PaidInAll(u) \in Int /\ EarnedInAll(u) \in Int
         /\ PaidInAll(u)' = PaidInAll(u) + (PaidBy(call'[c], u) - PaidBy(call[c], u))
         /\ EarnedInAll(u)' = EarnedInAll(u) + (EarnedBy(call'[c], u) - EarnedBy(call[c], u))
<1> DEFINE p == [d \in Calls |-> PaidBy(call[d], u)]
           q == [d \in Calls |-> PaidBy(call'[d], u)]
           e == [d \in Calls |-> EarnedBy(call[d], u)]
           f == [d \in Calls |-> EarnedBy(call'[d], u)]
<1>1. \A r \in CallRecord : PaidBy(r, u) \in Int /\ EarnedBy(r, u) \in Int
  BY DEF PaidBy, EarnedBy, Positive, CallRecord
<1>2. p \in [Calls -> Int] /\ q \in [Calls -> Int] /\ e \in [Calls -> Int] /\ f \in [Calls -> Int]
  BY <1>1
<1>3. \A d \in Calls \ {c} : p[d] = q[d] /\ e[d] = f[d]
  BY DEF Alone
<1>4. /\ SumFunction(p) \in Int /\ SumFunction(e) \in Int
      /\ SumFunction(q) = SumFunction(p) + (q[c] - p[c])
      /\ SumFunction(f) = SumFunction(e) + (f[c] - e[c])
  <2> HIDE DEF p, q, e, f
  <2>1. QED
    BY <1>2, <1>3, CallsAreFinite, TotalChanges
<1>5. QED
  BY <1>4 DEF PaidInAll, EarnedInAll

\* What a step of a call takes from a user, or gives back, is what the user's share of its bill changes by.
LEMMA CoinsFollowBills ==
  ASSUME MInv, NEW c \in Calls, Moves(c), NEW u \in Users
  PROVE  /\ coins'[u] = coins[u] - (PaidBy(call'[c], u) - PaidBy(call[c], u))
         /\ diamonds'[u] = diamonds[u] + (EarnedBy(call'[c], u) - EarnedBy(call[c], u))
<1> DEFINE r == call[c]
           s == call'[c]
<1>1. /\ r \in CallRecord /\ s \in CallRecord /\ coins \in [Users -> Nat] /\ diamonds \in [Users -> Nat]
  BY DEF MInv, IInv, TypeOK, Moves, Alone
<1>2. r.status # "ended" /\ ~r.settled
  BY DEF Moves, Dials, Misses, Answers, Meters, HangsUp, MInv, PartiesOK
<1>3. r.status # "ongoing" => r.payer = NoUser
  BY <1>2 DEF MInv, IInv, RecordOK, OpenBill
<1>4. Bill(r) \in Int /\ Bill(s) \in Int /\ u # NoUser
  BY <1>1, NoUserIsNew DEF Bill, CallRecord
<1>5. EarnedBy(r, u) = 0 /\ PaidBy(r, u) = (IF r.payer = u THEN Bill(r) ELSE 0)
      /\ PaidBy(s, u) = (IF s.payer = u THEN Bill(s) ELSE 0)
  BY <1>2 DEF EarnedBy, PaidBy, Bill
<1>6. CASE Dials(c) \/ Misses(c) \/ Answers(c)
  <2>1. Bill(s) = 0 /\ r.status # "ongoing" /\ coins' = coins /\ diamonds' = diamonds
    BY <1>6 DEF Dials, Misses, Answers, Free
  <2>2. EarnedBy(s, u) = 0
    <3>1. s.settled => 100 * s.income <= s.incomeFee
      BY <1>6 DEF Dials, Misses, Answers
    <3>2. QED
      BY <1>1, <3>1 DEF EarnedBy, Positive, CallRecord
  <2> HIDE DEF r, s
  <2>3. QED
    BY <1>1, <1>3, <1>4, <1>5, <2>1, <2>2 DEF r, s
<1>7. CASE Meters(c)
  <2>1. ~s.settled /\ s.payer = r.payer /\ diamonds' = diamonds /\ coins' = Credit(coins, r.payer, Bill(r) - Bill(s))
    BY <1>7 DEF Meters, SameTerms
  <2>2. EarnedBy(s, u) = 0
    BY <2>1 DEF EarnedBy
  <2>3. coins'[u] = IF u = r.payer THEN coins[u] + (Bill(r) - Bill(s)) ELSE coins[u]
    BY <2>1 DEF Credit
  <2> HIDE DEF r, s
  <2>4. QED
    BY <1>1, <1>4, <1>5, <2>1, <2>2, <2>3 DEF r, s
<1>8. CASE HangsUp(c)
  <2>1. /\ s.payer = r.payer /\ coins' = Credit(coins, r.payer, Bill(r) - Bill(s))
        /\ diamonds' = Credit(diamonds, s.earner, NetIncome(s))
    BY <1>8 DEF HangsUp, SameTerms
  <2>2. NetIncome(s) \in Nat /\ EarnedBy(s, u) = IF s.earner = u THEN NetIncome(s) ELSE 0
    BY <1>1 DEF EarnedBy, NetIncome, Positive, CallRecord
  <2>3. /\ coins'[u] = IF u = r.payer THEN coins[u] + (Bill(r) - Bill(s)) ELSE coins[u]
        /\ diamonds'[u] = IF u = s.earner THEN diamonds[u] + NetIncome(s) ELSE diamonds[u]
    BY <2>1 DEF Credit
  <2> HIDE DEF r, s
  <2>4. QED
    BY <1>1, <1>4, <1>5, <2>1, <2>2, <2>3 DEF r, s
<1>9. QED
  BY <1>6, <1>7, <1>8 DEF Moves

\* Both books keep balancing.
LEMMA BooksBalance ==
  ASSUME MInv, MInv', CoinsConserved, DiamondsBacked, [Next]_vars
  PROVE  CoinsConserved' /\ DiamondsBacked'
<1> USE DEF PaidInAll, EarnedInAll
<1>1. /\ call \in [Calls -> CallRecord] /\ call' \in [Calls -> CallRecord]
      /\ \A u \in Users : /\ coins[u] \in Int /\ coins'[u] \in Int /\ InitCoins[u] \in Int
                          /\ outlay[u] \in Int /\ outlay'[u] \in Int
  BY InitCoinsAreNat, MovesAreInt DEF MInv, IInv, TypeOK
<1>2. \A u \in Users : /\ coins[u] = 100 * (InitCoins[u] - outlay[u]) - PaidInAll(u)
                       /\ diamonds[u] = EarnedInAll(u)
  BY DEF CoinsConserved, DiamondsBacked
<1> HIDE DEF PaidInAll, EarnedInAll
<1>3. ASSUME NEW u \in Users
      PROVE  /\ coins'[u] = 100 * (InitCoins[u] - outlay'[u]) - PaidInAll(u)'
             /\ diamonds'[u] = EarnedInAll(u)'
  <2>1. CASE Elsewhere
    <3>1. PaidInAll(u)' = PaidInAll(u) /\ EarnedInAll(u)' = EarnedInAll(u)
      BY <2>1 DEF Elsewhere, PaidInAll, EarnedInAll
    <3>2. diamonds' = diamonds /\ coins'[u] + 100 * outlay'[u] = coins[u] + 100 * outlay[u]
      BY <2>1 DEF Elsewhere
    <3>3. PaidInAll(u) \in Int
      BY <1>1, PaidIsNat
    <3>4. /\ coins[u] \in Int /\ coins'[u] \in Int /\ InitCoins[u] \in Int /\ outlay[u] \in Int /\ outlay'[u] \in Int
          /\ coins[u] = 100 * (InitCoins[u] - outlay[u]) - PaidInAll(u)
      BY <1>1, <1>2
    <3>5. coins'[u] = 100 * (InitCoins[u] - outlay'[u]) - PaidInAll(u)
      <4> DEFINE had == coins[u]
                 has == coins'[u]
                 first == InitCoins[u]
                 spent == outlay[u]
                 spends == outlay'[u]
                 paid == PaidInAll(u)
      <4>1. /\ had \in Int /\ has \in Int /\ first \in Int /\ spent \in Int /\ spends \in Int /\ paid \in Int
            /\ had = 100 * (first - spent) - paid /\ has + 100 * spends = had + 100 * spent
        BY <3>2, <3>3, <3>4
      <4> HIDE DEF had, has, first, spent, spends, paid
      <4>2. has = 100 * (first - spends) - paid
        BY <4>1
      <4>3. QED
        BY <4>2 DEF has, first, spends, paid
    <3>6. QED
      BY <1>2, <3>1, <3>2, <3>5
  <2>2. ASSUME NEW c \in Calls, Moves(c)
        PROVE  /\ coins'[u] = 100 * (InitCoins[u] - outlay'[u]) - PaidInAll(u)'
               /\ diamonds'[u] = EarnedInAll(u)'
    <3>1. Alone(c) /\ outlay' = outlay
      BY <2>2 DEF Moves, Alone
    <3>2. /\ PaidInAll(u) \in Int /\ EarnedInAll(u) \in Int
          /\ PaidInAll(u)' = PaidInAll(u) + (PaidBy(call'[c], u) - PaidBy(call[c], u))
          /\ EarnedInAll(u)' = EarnedInAll(u) + (EarnedBy(call'[c], u) - EarnedBy(call[c], u))
      BY <1>1, <3>1, SumsMove
    <3>3. /\ coins'[u] = coins[u] - (PaidBy(call'[c], u) - PaidBy(call[c], u))
          /\ diamonds'[u] = diamonds[u] + (EarnedBy(call'[c], u) - EarnedBy(call[c], u))
      BY <2>2, CoinsFollowBills
    <3>4. /\ PaidBy(call'[c], u) \in Int /\ PaidBy(call[c], u) \in Int
      BY <1>1 DEF PaidBy, CallRecord
    <3>5. QED
      BY <1>1, <1>2, <3>1, <3>2, <3>3, <3>4
  <2>3. QED
    BY <2>1, <2>2, StepMoves
<1>4. QED
  BY <1>3 DEF CoinsConserved, DiamondsBacked, PaidInAll, EarnedInAll

\* At first nobody has paid or earned.
LEMMA BooksBegin == Init => CoinsConserved /\ DiamondsBacked
<1> SUFFICES ASSUME Init, NEW u \in Users
             PROVE  /\ coins[u] = 100 * (InitCoins[u] - outlay[u]) - PaidInAll(u)
                    /\ diamonds[u] = EarnedInAll(u)
  BY DEF CoinsConserved, DiamondsBacked, PaidInAll, EarnedInAll
<1> DEFINE p == [c \in Calls |-> PaidBy(call[c], u)]
           e == [c \in Calls |-> EarnedBy(call[c], u)]
<1>1. p \in [Calls -> {0}] /\ e \in [Calls -> {0}]
  BY NoUserIsNew DEF Init, NoCall, PaidBy, EarnedBy
<1>2. SumFunction(p) = 0 /\ SumFunction(e) = 0
  <2> HIDE DEF p, e
  <2>1. QED
    BY <1>1, CallsAreFinite, TotalOfZeros
<1>3. QED
  BY <1>2, InitCoinsAreNat DEF Init, PaidInAll, EarnedInAll

(***************************************************************************)
(* Calls neither lose nor invent a coin: a user's balance is what he had,  *)
(* less what other features took, less what his calls' records say he      *)
(* paid, whatever handlers and passes billed, refunded and closed them.    *)
(***************************************************************************)
THEOREM NoCoinIsLost == Spec => []CoinsConserved
<1>1. MInv /\ MInv' /\ CoinsConserved /\ DiamondsBacked /\ [Next]_vars => CoinsConserved' /\ DiamondsBacked'
  BY BooksBalance
<1>2. QED
  BY <1>1, BooksBegin, PartiesInvariant, PTL DEF Spec

(***************************************************************************)
(* A user's diamonds are the net incomes of the calls that settled on him: *)
(* each settles once, whichever handlers race to end it.                   *)
(***************************************************************************)
THEOREM DiamondsAreIncomes == Spec => []DiamondsBacked
<1>1. MInv /\ MInv' /\ CoinsConserved /\ DiamondsBacked /\ [Next]_vars => CoinsConserved' /\ DiamondsBacked'
  BY BooksBalance
<1>2. QED
  BY <1>1, BooksBegin, PartiesInvariant, PTL DEF Spec
-----------------------------------------------------------------------------
\* The contract's view of the calls, and what it says of one.
Deal  == [c \in Calls |-> Agreed(call[c])]
Spent == [u \in Users |-> 100 * (InitCoins[u] - outlay[u]) - coins[u]]

\* The contract's records, field by field.
DealFields == {"stage", "parties", "payer", "since", "tariff", "lasted", "bill"}

\* An unagreed deal, field by field.
LEMMA UnagreedFields ==
  /\ DOMAIN Contract!Unagreed = DealFields
  /\ Contract!Unagreed = [f \in DealFields |-> Contract!Unagreed[f]]
  /\ Contract!Unagreed.stage = "none" /\ Contract!Unagreed.parties = {} /\ Contract!Unagreed.payer = NoUser
  /\ Contract!Unagreed.since = 0 /\ Contract!Unagreed.tariff = Contract!NoTariff
  /\ Contract!Unagreed.lasted = 0 /\ Contract!Unagreed.bill = 0
<1> DEFINE t == Contract!NoTariff
<1>1. Contract!Unagreed = [stage |-> "none", parties |-> {}, payer |-> NoUser, since |-> 0,
                           tariff |-> t, lasted |-> 0, bill |-> 0]
  BY DEF Contract!Unagreed
<1> HIDE DEF t
<1>2. QED
  BY <1>1 DEF DealFields, t

\* A deal that begins to ring, written out.
LEMMA RingingDeal ==
  ASSUME NEW p
  PROVE  [Contract!Unagreed EXCEPT !.stage = "ringing", !.parties = p] =
           [stage |-> "ringing", parties |-> p, payer |-> NoUser, since |-> 0,
            tariff |-> Contract!NoTariff, lasted |-> 0, bill |-> 0]
<1> DEFINE q == [stage |-> "ringing", parties |-> p, payer |-> NoUser, since |-> 0,
                 tariff |-> Contract!NoTariff, lasted |-> 0, bill |-> 0]
           u == Contract!Unagreed
<1>1. q = [f \in DealFields |-> q[f]]
  BY DEF DealFields
<1>2. \A f \in DealFields : q[f] = IF f = "parties" THEN p ELSE IF f = "stage" THEN "ringing" ELSE u[f]
  BY UnagreedFields DEF DealFields
<1>3. [u EXCEPT !.stage = "ringing", !.parties = p] =
        [f \in DealFields |-> IF f = "parties" THEN p ELSE IF f = "stage" THEN "ringing" ELSE u[f]]
  BY UnagreedFields
<1> HIDE DEF q
<1>4. QED
  BY <1>1, <1>2, <1>3 DEF q

\* A deal that is over, written out.
LEMMA OverDeal ==
  ASSUME NEW lasted, NEW bill
  PROVE  Contract!Over(lasted, bill) =
           [stage |-> "over", parties |-> {}, payer |-> NoUser, since |-> 0,
            tariff |-> Contract!NoTariff, lasted |-> lasted, bill |-> bill]
<1> DEFINE q == [stage |-> "over", parties |-> {}, payer |-> NoUser, since |-> 0,
                 tariff |-> Contract!NoTariff, lasted |-> lasted, bill |-> bill]
           u == Contract!Unagreed
<1>1. q = [f \in DealFields |-> q[f]]
  BY DEF DealFields
<1>2. \A f \in DealFields :
        q[f] = IF f = "bill" THEN bill ELSE IF f = "lasted" THEN lasted
               ELSE IF f = "stage" THEN "over" ELSE u[f]
  BY UnagreedFields DEF DealFields
<1>3. [u EXCEPT !.stage = "over", !.lasted = lasted, !.bill = bill] =
        [f \in DealFields |-> IF f = "bill" THEN bill ELSE IF f = "lasted" THEN lasted
                             ELSE IF f = "stage" THEN "over" ELSE u[f]]
  BY UnagreedFields
<1> HIDE DEF q
<1>4. QED
  BY <1>1, <1>2, <1>3 DEF q, Contract!Over

\* What is agreed of a call that does not run.
LEMMA AgreedUnsettled ==
  ASSUME NEW r \in CallRecord
  PROVE  /\ r.status = "absent" /\ r.deducted = 0 /\ r.feePaid = 0 => Agreed(r) = Contract!Unagreed
         /\ r.status = "pending" /\ r.deducted = 0 /\ r.feePaid = 0 =>
              Agreed(r) = [Contract!Unagreed EXCEPT !.stage = "ringing", !.parties = Parties(r)]
         /\ r.status = "pending" => Agreed(r).stage = "ringing"
         /\ r.status = "ended" => Agreed(r) = Contract!Over(r.duration, Bill(r))
<1>1. r.status \in {"absent", "pending", "ended"} =>
        Agreed(r) = [stage   |-> Stage[r.status],
                     parties |-> IF r.status = "pending" THEN Parties(r) ELSE {},
                     payer   |-> NoUser,
                     since   |-> 0,
                     tariff  |-> Contract!NoTariff,
                     lasted  |-> IF r.status = "ended" THEN r.duration ELSE 0,
                     bill    |-> Bill(r)]
  BY DEF Agreed, Bill, Contract!NoTariff
<1>2. Stage["absent"] = "none" /\ Stage["pending"] = "ringing" /\ Stage["ended"] = "over"
  BY DEF Stage
<1>3. r.deducted = 0 /\ r.feePaid = 0 => Bill(r) = 0
  BY DEF Bill
<1>4. CASE r.status = "absent"
  BY <1>1, <1>2, <1>3, <1>4 DEF Contract!Unagreed
<1>5. CASE r.status = "pending"
  <2>1. [Contract!Unagreed EXCEPT !.stage = "ringing", !.parties = Parties(r)] =
          [stage |-> "ringing", parties |-> Parties(r), payer |-> NoUser, since |-> 0,
           tariff |-> Contract!NoTariff, lasted |-> 0, bill |-> 0]
    BY RingingDeal
  <2>2. /\ Agreed(r).stage = "ringing"
        /\ Bill(r) = 0 =>
             Agreed(r) = [stage |-> "ringing", parties |-> Parties(r), payer |-> NoUser, since |-> 0,
                          tariff |-> Contract!NoTariff, lasted |-> 0, bill |-> 0]
    BY <1>1, <1>2, <1>5
  <2>3. QED
    BY <1>3, <1>5, <2>1, <2>2
<1>6. CASE r.status = "ended"
  <2>1. Contract!Over(r.duration, Bill(r)) =
          [stage |-> "over", parties |-> {}, payer |-> NoUser, since |-> 0,
           tariff |-> Contract!NoTariff, lasted |-> r.duration, bill |-> Bill(r)]
    BY OverDeal
  <2>2. Agreed(r) = [stage |-> "over", parties |-> {}, payer |-> NoUser, since |-> 0,
                     tariff |-> Contract!NoTariff, lasted |-> r.duration, bill |-> Bill(r)]
    BY <1>1, <1>2, <1>6
  <2>3. QED
    BY <1>6, <2>1, <2>2
<1>7. CASE r.status = "ongoing"
  BY <1>7
<1>8. QED
  BY <1>4, <1>5, <1>6, <1>7 DEF CallRecord

\* What is agreed of a call that runs.
LEMMA AgreedRunning ==
  ASSUME NEW r \in CallRecord, r.status = "ongoing"
  PROVE  /\ Agreed(r).stage = "running" /\ Agreed(r).parties = Parties(r) /\ Agreed(r).payer = r.payer
         /\ Agreed(r).since = r.connected /\ Agreed(r).bill = Bill(r)
         /\ Agreed(r).tariff = [price |-> r.price, surcharge |-> PayerFeePerMinute(r.price, r.fee.payerBps),
                                threshold |-> r.fee.threshold]
         /\ Agreed(r).lasted = 0
  BY DEF Agreed, Stage, Bill, CallRecord

\* A step of one call changes what is agreed of this one.
LEMMA DealMoves ==
  ASSUME NEW c \in Calls, Alone(c)
  PROVE  /\ Deal' = [Deal EXCEPT ![c] = Agreed(call'[c])]
         /\ Deal[c] = Agreed(call[c]) /\ Deal'[c] = Agreed(call'[c])
         /\ \A d \in Calls \ {c} : Deal'[d] = Deal[d]
  BY DEF Alone, Deal

\* What a call that runs costs more is its payer's, and nobody else's.
LEMMA SpentMoves ==
  ASSUME MInv, NEW c \in Calls, Alone(c), call[c].status = "ongoing",
         coins' = Credit(coins, call[c].payer, Bill(call[c]) - Bill(call'[c]))
  PROVE  Spent' = [u \in Users |-> IF u = call[c].payer THEN Spent[u] + Bill(call'[c]) - Bill(call[c])
                                   ELSE Spent[u]]
<1>1. call[c] \in CallRecord /\ call'[c] \in CallRecord
  BY DEF Alone, MInv, IInv, TypeOK
<1>2. Bill(call[c]) \in Int /\ Bill(call'[c]) \in Int
  BY <1>1 DEF Bill, CallRecord
<1>3. ASSUME NEW u \in Users
      PROVE  100 * (InitCoins[u] - outlay'[u]) - coins'[u] =
               IF u = call[c].payer THEN 100 * (InitCoins[u] - outlay[u]) - coins[u] + Bill(call'[c]) - Bill(call[c])
               ELSE 100 * (InitCoins[u] - outlay[u]) - coins[u]
  <2> DEFINE n == 100 * (InitCoins[u] - outlay[u])
             before == Bill(call[c])
             after == Bill(call'[c])
  <2>1. n \in Int /\ coins[u] \in Int /\ outlay'[u] = outlay[u]
    BY InitCoinsAreNat, MovesAreInt DEF Alone, MInv, IInv, TypeOK
  <2>2. coins'[u] = IF u = call[c].payer THEN coins[u] + (before - after) ELSE coins[u]
    BY DEF Credit
  <2>3. before \in Int /\ after \in Int
    BY <1>2
  <2> HIDE DEF n, before, after
  <2>4. n - coins'[u] = IF u = call[c].payer THEN n - coins[u] + after - before ELSE n - coins[u]
    BY <2>1, <2>2, <2>3
  <2>5. QED
    BY <2>1, <2>4 DEF n, before, after
<1>4. QED
  BY <1>3 DEF Spent

\* A dialed call rings, in the contract.
LEMMA DialsRings ==
  ASSUME MInv, MInv', NEW c \in Calls, Alone(c), Dials(c)
  PROVE  Contract!Ring(c)
<1> DEFINE r == call[c]
           s == call'[c]
<1>1. r \in CallRecord /\ s \in CallRecord
  BY DEF Alone, MInv, IInv, TypeOK
<1>2. /\ r.status = "absent" /\ s.status = "pending" /\ s.caller \in Users /\ s.callee \in Users
      /\ s.caller # s.callee /\ ~Busy(s.caller) /\ ~Busy(s.callee) /\ Bill(s) = 0 /\ Free
  BY DEF Dials
<1>3. r.deducted = 0 /\ r.feePaid = 0
  BY <1>2 DEF MInv, IInv, RecordOK, OpenBill
<1>4. s.deducted = 0 /\ s.feePaid = 0
  BY <1>1, <1>2 DEF Bill, CallRecord
<1>5. /\ Agreed(r) = Contract!Unagreed
      /\ Agreed(s) = [Contract!Unagreed EXCEPT !.stage = "ringing", !.parties = {s.caller, s.callee}]
  BY <1>1, <1>2, <1>3, <1>4, AgreedUnsettled DEF Parties
<1>6. ASSUME NEW u \in Users, ~Busy(u)
      PROVE  ~Contract!Engaged(u)
  BY <1>6 DEF Contract!Engaged, Busy, IsActive, Agreed, Parties
<1>7. /\ Deal[c] = Contract!Unagreed
      /\ Deal' = [Deal EXCEPT ![c] = [Contract!Unagreed EXCEPT !.stage = "ringing", !.parties = {s.caller, s.callee}]]
  BY <1>5, DealMoves
<1>8. UNCHANGED <<now, Spent, diamonds>>
  BY <1>2 DEF Alone, Free, Spent
<1> HIDE DEF s
<1>9. QED
  BY <1>2, <1>6, <1>7, <1>8 DEF Contract!Ring, Deal, Spent

\* A call that ends before it ran is missed, in the contract.
LEMMA MissesMisses ==
  ASSUME MInv, MInv', NEW c \in Calls, Alone(c), Misses(c)
  PROVE  Contract!Miss(c)
<1> DEFINE r == call[c]
           s == call'[c]
<1>1. r \in CallRecord /\ s \in CallRecord
  BY DEF Alone, MInv, IInv, TypeOK
<1>2. r.status = "pending" /\ s.status = "ended" /\ s.duration = 0 /\ Bill(s) = 0 /\ Free
  BY DEF Misses
<1>3. Deal[c].stage = "ringing"
  BY <1>1, <1>2, DealMoves, AgreedUnsettled
<1>4. Deal' = [Deal EXCEPT ![c] = Contract!Over(0, 0)]
  BY <1>1, <1>2, DealMoves, AgreedUnsettled
<1>5. UNCHANGED <<now, Spent, diamonds>>
  BY <1>2 DEF Alone, Free, Spent
<1>6. QED
  BY <1>3, <1>4, <1>5 DEF Contract!Miss, Deal, Spent

\* What is agreed of a record is a function on the contract's fields.
LEMMA AgreedFields ==
  ASSUME NEW r
  PROVE  DOMAIN Agreed(r) = DealFields /\ Agreed(r) = [f \in DealFields |-> Agreed(r)[f]]
<1> DEFINE t == [price     |-> IF r.status = "ongoing" THEN r.price ELSE 0,
                 surcharge |-> IF r.status = "ongoing" THEN PayerFeePerMinute(r.price, r.fee.payerBps) ELSE 0,
                 threshold |-> IF r.status = "ongoing" THEN r.fee.threshold ELSE 0]
           ps == IF r.status \in {"pending", "ongoing"} THEN Parties(r) ELSE {}
           b == 100 * r.deducted + r.feePaid
           stage == Stage[r.status]
<1>1. Agreed(r) = [stage |-> stage, parties |-> ps,
                   payer   |-> IF r.status = "ongoing" THEN r.payer ELSE NoUser,
                   since   |-> IF r.status = "ongoing" THEN r.connected ELSE 0,
                   tariff  |-> t,
                   lasted  |-> IF r.status = "ended" THEN r.duration ELSE 0,
                   bill    |-> b]
  BY DEF Agreed
<1> HIDE DEF t, ps, b, stage
<1>2. QED
  BY <1>1 DEF DealFields

\* An accepted call is answered, in the contract.
LEMMA AnswersAnswer ==
  ASSUME MInv, MInv', NEW c \in Calls, Alone(c), Answers(c)
  PROVE  Contract!Answer(c)
<1> DEFINE r == call[c]
           s == call'[c]
           a == Agreed(r)
           b == Agreed(s)
<1>1. r \in CallRecord /\ s \in CallRecord
  BY DEF Alone, MInv, IInv, TypeOK
<1>2. /\ r.status = "pending" /\ s.status = "ongoing" /\ Parties(s) = Parties(r)
      /\ s.payer \in Parties(r) \cup {NoUser} /\ s.connected = now /\ Bill(s) = 0 /\ Free
  BY DEF Answers, SameParties, Parties
<1>3. r.deducted = 0 /\ r.feePaid = 0
  BY <1>2, PendingIsFree DEF MInv
<1>4. a.stage = "ringing" /\ a.parties = Parties(r) /\ a.lasted = 0 /\ a.bill = 0
  <2>1. a = [stage |-> "ringing", parties |-> Parties(r), payer |-> NoUser, since |-> 0,
             tariff |-> Contract!NoTariff, lasted |-> 0, bill |-> 0]
    BY <1>1, <1>2, <1>3, AgreedUnsettled, RingingDeal
  <2> HIDE DEF a
  <2>2. QED
    BY <2>1
<1>5. /\ b.stage = "running" /\ b.parties = Parties(r) /\ b.payer = s.payer /\ b.since = now
      /\ b.lasted = 0 /\ b.bill = 0
  BY <1>1, <1>2, AgreedRunning
<1>6. DOMAIN a = DealFields /\ a = [f \in DealFields |-> a[f]] /\ b = [f \in DealFields |-> b[f]]
  BY AgreedFields
<1>7. Deal[c] = a /\ Deal'[c] = b /\ \A d \in Calls \ {c} : Deal'[d] = Deal[d]
  BY DealMoves
<1>8. UNCHANGED <<now, Spent, diamonds>>
  BY <1>2 DEF Alone, Free, Spent
<1> HIDE DEF a, b, r, s
<1>9. b = [a EXCEPT !.stage = "running", !.since = now, !.payer = b.payer, !.tariff = b.tariff]
  <2>1. [a EXCEPT !.stage = "running", !.since = now, !.payer = b.payer, !.tariff = b.tariff] =
          [f \in DealFields |-> IF f = "tariff" THEN b.tariff ELSE IF f = "payer" THEN b.payer
                               ELSE IF f = "since" THEN now ELSE IF f = "stage" THEN "running" ELSE a[f]]
    BY <1>6
  <2>2. \A f \in DealFields :
          b[f] = IF f = "tariff" THEN b.tariff ELSE IF f = "payer" THEN b.payer
                 ELSE IF f = "since" THEN now ELSE IF f = "stage" THEN "running" ELSE a[f]
    BY <1>4, <1>5 DEF DealFields
  <2>3. QED
    BY <1>6, <2>1, <2>2
<1>10. QED
  BY <1>2, <1>4, <1>5, <1>7, <1>8, <1>9 DEF Contract!Answer, Contract!Only, Deal, Spent

(***************************************************************************)
(* A bill of whole minutes, and of no more fee than theirs, costs no more  *)
(* than the contract lets any longer time cost.                            *)
(***************************************************************************)
LEMMA BillWithinCost ==
  ASSUME NEW price \in Nat, NEW perMinute \in Nat, NEW threshold \in Nat,
         NEW minutes \in Nat, NEW due \in Nat, minutes <= due,
         NEW deducted \in Nat, deducted = minutes * price,
         NEW fee \in Nat, fee <= ChargeableMinutes(minutes, threshold) * perMinute
  PROVE  100 * deducted + fee <=
           Contract!Cost([price |-> price, surcharge |-> perMinute, threshold |-> threshold], due)
<1> DEFINE more == ChargeableMinutes(due, threshold)
           some == ChargeableMinutes(minutes, threshold)
           charge == due * price
           cap == more * perMinute
           t == [price |-> price, surcharge |-> perMinute, threshold |-> threshold]
<1>1. some \in Nat /\ more \in Nat /\ some <= more
  BY DEF ChargeableMinutes, Positive
<1>2. deducted <= charge /\ charge \in Nat
  BY ProductMonotonic, ProductIsNat
<1>3. fee <= cap /\ cap \in Nat
  <2>1. some * perMinute <= more * perMinute /\ more * perMinute \in Nat /\ some * perMinute \in Nat
    BY <1>1, ProductMonotonic, ProductIsNat
  <2>2. QED
    BY <2>1
<1>4. 100 * price * due = 100 * charge
  <2>1. \A x, y \in Nat : 100 * x * y = 100 * (y * x)
    BY SMT
  <2>2. QED
    BY <2>1
<1>5. Contract!ChargeableMinutes(due, threshold) = more
  BY DEF Contract!ChargeableMinutes, Contract!Positive, ChargeableMinutes, Positive
<1>6. perMinute * more = cap
  <2>1. \A x, y \in Nat : x * y = y * x
    BY SMT
  <2>2. QED
    BY <1>1, <2>1
<1>7. Contract!Cost(t, due) = 100 * price * due + perMinute * more
  BY <1>5 DEF Contract!Cost
<1> HIDE DEF charge, cap, more
<1>8. QED
  BY <1>2, <1>3, <1>4, <1>6, <1>7

\* No number of minutes costs less than nothing.
LEMMA CostIsNat ==
  ASSUME NEW price \in Nat, NEW perMinute \in Nat, NEW threshold \in Nat, NEW due \in Nat
  PROVE  0 <= Contract!Cost([price |-> price, surcharge |-> perMinute, threshold |-> threshold], due)
<1>1. 0 <= ChargeableMinutes(0, threshold) * perMinute
  BY ChargeableIsNat, ProductIsNat
<1>2. 0 = 0 * price
  OBVIOUS
<1>3. 100 * 0 + 0 <=
           Contract!Cost([price |-> price, surcharge |-> perMinute, threshold |-> threshold], due)
  BY <1>1, <1>2, BillWithinCost
<1>4. QED
  BY <1>3

\* The contract counts due minutes as the code does.
LEMMA DueIsContracts == \A d \in Nat : Contract!DueMinutes(d, FreeSeconds) = DueMinutes(d, FreeSeconds)
  BY DEF Contract!DueMinutes, DueMinutes

\* A renewal meters, in the contract: its bill is within the cost of the minutes that began.
LEMMA MetersMeter ==
  ASSUME MInv, MInv', NEW c \in Calls, Alone(c), Meters(c)
  PROVE  Contract!Meter(c)
<1> DEFINE r == call[c]
           s == call'[c]
           a == Agreed(r)
           b == Agreed(s)
           perMinute == PayerFeePerMinute(r.price, r.fee.payerBps)
           due == DueMinutes(now - r.connected, FreeSeconds)
<1>1. r \in CallRecord /\ s \in CallRecord /\ now \in Nat /\ now' = now
  BY SecondsAreNat DEF Alone, MInv, IInv, TypeOK
<1>2. /\ r.status = "ongoing" /\ s.status = "ongoing" /\ Parties(s) = Parties(r)
      /\ s.payer = r.payer /\ s.price = r.price /\ s.fee = r.fee /\ s.connected = r.connected
      /\ Bill(r) <= Bill(s)
      /\ coins' = Credit(coins, r.payer, Bill(r) - Bill(s)) /\ diamonds' = diamonds
  BY DEF Meters, SameParties, SameTerms, Parties
<1>3. /\ s.deducted \in Nat /\ s.feePaid \in Nat /\ s.minutes \in Nat /\ s.feeMinutes \in Nat
      /\ r.price \in Nat /\ r.fee.payerBps \in Bps /\ r.fee.threshold \in Nat /\ r.connected \in Nat
      /\ Bill(r) \in Int /\ Bill(s) \in Int
  BY <1>1 DEF CallRecord, FeeConfig, Bill
<1>4. OpenBill(s, now) /\ r.connected <= now
  <2>1. OpenBill(s, now') /\ OpenBill(r, now)
    BY <1>2 DEF MInv, IInv, RecordOK
  <2>2. QED
    BY <1>1, <1>2, <2>1 DEF OpenBill, Timely
<1>5. perMinute \in Nat /\ due \in Nat /\ Contract!DueMinutes(now - r.connected, FreeSeconds) = due
  <2>1. now - r.connected \in Nat
    BY <1>1, <1>3, <1>4
  <2>2. QED
    BY <1>3, <2>1, PayerFeeIsNat, DueIsNat, DueIsContracts, SecondsAreNat
<1>6. /\ a.stage = "running" /\ a.parties = Parties(r) /\ a.payer = r.payer /\ a.since = r.connected
      /\ a.bill = Bill(r) /\ a.lasted = 0
      /\ a.tariff = [price |-> r.price, surcharge |-> perMinute, threshold |-> r.fee.threshold]
  BY <1>1, <1>2, AgreedRunning
<1>7. /\ b.stage = "running" /\ b.parties = Parties(r) /\ b.payer = r.payer /\ b.since = r.connected
      /\ b.bill = Bill(s) /\ b.lasted = 0 /\ b.tariff = a.tariff
  BY <1>1, <1>2, <1>6, AgreedRunning
<1>8. DOMAIN a = DealFields /\ a = [f \in DealFields |-> a[f]] /\ b = [f \in DealFields |-> b[f]]
  BY AgreedFields
<1>9. Deal[c] = a /\ Deal'[c] = b /\ \A d \in Calls \ {c} : Deal'[d] = Deal[d]
  BY DealMoves
<1>10. Spent' = [u \in Users |-> IF u = r.payer THEN Spent[u] + Bill(s) - Bill(r) ELSE Spent[u]]
  BY <1>2, SpentMoves
<1>11. Bill(s) <= Contract!Cost(a.tariff, due)
  <2>1. CASE s.payer = NoUser
    <3>1. Bill(s) = 0
      BY <1>4, <2>1 DEF OpenBill, Bill
    <3>2. QED
      BY <1>3, <1>5, <1>6, <3>1, CostIsNat
  <2>2. CASE s.payer # NoUser
    <3>1. /\ s.deducted = s.minutes * r.price
          /\ s.minutes <= due
          /\ s.feeMinutes <= ChargeableMinutes(s.minutes, r.fee.threshold)
          /\ s.feePaid <= s.feeMinutes * perMinute
      BY <1>2, <1>4, <2>2 DEF OpenBill, Timely
    <3>2. s.feePaid <= ChargeableMinutes(s.minutes, r.fee.threshold) * perMinute
      <4>1. ChargeableMinutes(s.minutes, r.fee.threshold) \in Nat
        BY <1>3, ChargeableIsNat
      <4>2. /\ s.feeMinutes * perMinute <= ChargeableMinutes(s.minutes, r.fee.threshold) * perMinute
            /\ s.feeMinutes * perMinute \in Nat
            /\ ChargeableMinutes(s.minutes, r.fee.threshold) * perMinute \in Nat
        BY <1>3, <1>5, <3>1, <4>1, ProductMonotonic, ProductIsNat
      <4> DEFINE n == s.feeMinutes * perMinute
                 m == ChargeableMinutes(s.minutes, r.fee.threshold) * perMinute
      <4>3. s.feePaid <= n /\ n <= m /\ n \in Nat /\ m \in Nat
        BY <3>1, <4>2
      <4> HIDE DEF n, m
      <4>4. s.feePaid <= m
        BY <1>3, <4>3
      <4>5. QED
        BY <4>4 DEF m
    <3> HIDE DEF perMinute, due
    <3>3. 100 * s.deducted + s.feePaid <=
            Contract!Cost([price |-> r.price, surcharge |-> perMinute, threshold |-> r.fee.threshold], due)
      BY <1>3, <1>5, <3>1, <3>2, BillWithinCost
    <3>4. QED
      BY <1>6, <3>3 DEF Bill
  <2>3. QED
    BY <2>1, <2>2
<1> HIDE DEF a, b, r, s, due, perMinute
<1>12. b = [a EXCEPT !.bill = b.bill]
  <2>1. [a EXCEPT !.bill = b.bill] = [f \in DealFields |-> IF f = "bill" THEN b.bill ELSE a[f]]
    BY <1>8
  <2>2. \A f \in DealFields : b[f] = IF f = "bill" THEN b.bill ELSE a[f]
    BY <1>6, <1>7 DEF DealFields
  <2>3. QED
    BY <1>8, <2>1, <2>2
<1>13. b.bill \in a.bill .. Contract!Cost(a.tariff, Contract!DueMinutes(now - a.since, FreeSeconds))
  <2> DEFINE most == Contract!Cost(a.tariff, due)
  <2>1. most \in Int
    <3>1. \A x \in Nat : ChargeableMinutes(x, r.fee.threshold) \in Nat
      BY <1>3, ChargeableIsNat
    <3>2. Contract!ChargeableMinutes(due, r.fee.threshold) \in Nat
      BY <1>3, <1>5 DEF Contract!ChargeableMinutes, Contract!Positive
    <3>3. QED
      BY <1>3, <1>5, <1>6, <3>2 DEF Contract!Cost
  <2> HIDE DEF most
  <2>2. Bill(s) \in Bill(r) .. most
    BY <1>2, <1>3, <1>11, <2>1 DEF most
  <2>3. QED
    BY <1>5, <1>6, <1>7, <2>2 DEF most
<1>14. QED
  BY <1>1, <1>2, <1>6, <1>7, <1>9, <1>10, <1>12, <1>13
     DEF Contract!Meter, Contract!Only, Contract!Paid, Deal, Spent

\* A share of a call's whole coins, rounded down, is within the same share of its bill.
LEMMA ShareWithinBill ==
  ASSUME NEW r \in CallRecord
  PROVE  /\ GrossIncome(r.deducted, ShareBps) \in Nat
         /\ 100 * GrossIncome(r.deducted, ShareBps) <= (Bill(r) * ShareBps) \div 10000
         /\ (Bill(r) * ShareBps) \div 10000 \in Nat
<1> DEFINE deducted == r.deducted
           gross == GrossIncome(deducted, ShareBps)
           bill == Bill(r)
           share == deducted * ShareBps
           most == bill * ShareBps
<1>1. ShareBps \in Nat /\ bill \in Nat /\ deducted \in Nat /\ 100 * deducted <= bill
  BY ShareIsBps DEF Bps, CallRecord, Bill
<1> HIDE DEF deducted, bill
<1>2. gross \in Nat /\ share \in Nat /\ most \in Nat
  BY <1>1, ShareIsBps, GrossIncomeWithinFee, ProductIsNat
<1>3. gross * 10000 <= share
  BY <1>2, QuotientTimes DEF GrossIncome
<1>4. 100 * share <= most
  <2>1. (100 * deducted) * ShareBps <= bill * ShareBps
    <3>1. 100 * deducted \in Nat
      BY <1>1
    <3>2. QED
      BY <1>1, <3>1, ProductMonotonic
  <2>2. \A x, y \in Nat : 100 * (x * y) = (100 * x) * y
    BY SMT
  <2>3. 100 * (deducted * ShareBps) = (100 * deducted) * ShareBps
    BY <1>1, <2>2
  <2>4. QED
    BY <2>1, <2>3
<1> HIDE DEF gross, share, most, bill
<1>5. (100 * gross) * 10000 <= most /\ 100 * gross \in Nat
  BY <1>2, <1>3, <1>4
<1>6. ((100 * gross) * 10000) \div 10000 <= most \div 10000
  BY <1>2, <1>5, QuotientMonotonic
<1>7. ((100 * gross) * 10000) \div 10000 = 100 * gross
  BY <1>5, TimesQuotient
<1>8. most \div 10000 \in Nat
  BY <1>2, QuotientIsNat
<1>9. QED
  BY <1>2, <1>6, <1>7, <1>8 DEF gross, most, bill, deducted

\* What a call that hangs up gives, one party gets, and no more than the share.
LEMMA EarnerGets ==
  ASSUME MInv, MInv', NEW c \in Calls, Alone(c), HangsUp(c)
  PROVE  \E earner \in Parties(call[c]) :
           /\ \A u \in Users \ {earner} : diamonds'[u] = diamonds[u]
           /\ diamonds'[earner] - diamonds[earner] \in 0 .. (Bill(call'[c]) * ShareBps) \div 10000
<1> DEFINE r == call[c]
           s == call'[c]
           net == NetIncome(s)
           most == (Bill(s) * ShareBps) \div 10000
<1>1. /\ r.caller \in Users /\ r.callee \in Users /\ diamonds \in [Users -> Nat] /\ s \in CallRecord
  BY DEF HangsUp, MInv, PartiesOK, IInv, TypeOK, Alone
<1>2. /\ s.earner \in {r.caller, r.callee, NoUser}
      /\ s.settled => s.earner # NoUser /\ s.income <= GrossIncome(s.deducted, ShareBps)
      /\ diamonds' = Credit(diamonds, s.earner, net)
  BY DEF HangsUp
<1>3. s.deducted \in Nat /\ s.feePaid \in Nat /\ s.income \in Nat /\ s.incomeFee \in Nat
  BY <1>1 DEF CallRecord
<1>4. /\ GrossIncome(s.deducted, ShareBps) \in Nat /\ most \in Nat
      /\ 100 * GrossIncome(s.deducted, ShareBps) <= most
  BY <1>1, ShareWithinBill
<1>5. net \in Int /\ 0 <= net /\ net <= most
  <2> DEFINE gross == GrossIncome(s.deducted, ShareBps)
  <2>1. gross \in Nat /\ 100 * gross <= most
    BY <1>4
  <2>2. s.settled => s.income <= gross
    BY <1>2
  <2> HIDE DEF gross, most
  <2>3. QED
    BY <1>3, <1>4, <2>1, <2>2 DEF NetIncome, Positive, most
<1> HIDE DEF net, most
<1>6. CASE s.earner = NoUser
  <2>1. \A u \in Users : diamonds'[u] = diamonds[u]
    BY <1>2, <1>6, NoUserIsNew DEF Credit
  <2>2. diamonds'[r.caller] - diamonds[r.caller] \in 0 .. most
    BY <1>1, <1>4, <2>1 DEF most
  <2>3. QED
    BY <2>1, <2>2 DEF Parties, most
<1>7. CASE s.earner # NoUser
  <2>1. s.earner \in Parties(r) /\ s.earner \in Users
    BY <1>1, <1>2, <1>7 DEF Parties
  <2>2. \A u \in Users \ {s.earner} : diamonds'[u] = diamonds[u]
    BY <1>2 DEF Credit
  <2>3. diamonds'[s.earner] - diamonds[s.earner] \in 0 .. most
    <3>1. diamonds'[s.earner] = diamonds[s.earner] + net /\ diamonds[s.earner] \in Int
      BY <1>1, <1>2, <2>1 DEF Credit
    <3>2. most \in Int
      BY <1>4 DEF most
    <3>3. QED
      BY <1>5, <3>1, <3>2
  <2>4. QED
    BY <2>1, <2>2, <2>3 DEF most
<1>8. QED
  BY <1>6, <1>7

\* A closed call is hung up, in the contract: its bill is within the cost of the time on record.
LEMMA HangsUpHangsUp ==
  ASSUME MInv, MInv', NEW c \in Calls, Alone(c), HangsUp(c)
  PROVE  Contract!HangUp(c)
<1> DEFINE r == call[c]
           s == call'[c]
           a == Agreed(r)
           b == Agreed(s)
           perMinute == PayerFeePerMinute(r.price, r.fee.payerBps)
           due == DueMinutes(s.duration, FreeSeconds)
           over == [stage |-> "over", parties |-> {}, payer |-> NoUser, since |-> 0,
                    tariff |-> Contract!NoTariff, lasted |-> s.duration, bill |-> Bill(s)]
<1>1. r \in CallRecord /\ s \in CallRecord /\ now \in Nat /\ now' = now
  BY SecondsAreNat DEF Alone, MInv, IInv, TypeOK
<1>2. /\ r.status = "ongoing" /\ s.status = "ended"
      /\ s.payer = r.payer /\ s.price = r.price /\ s.fee = r.fee
      /\ s.duration \in 0 .. now - r.connected
      /\ s.payer = NoUser => Bill(s) = 0
      /\ s.payer # NoUser => s.minutes <= due
      /\ coins' = Credit(coins, r.payer, Bill(r) - Bill(s))
  BY DEF HangsUp, SameTerms
<1>3. /\ s.deducted \in Nat /\ s.feePaid \in Nat /\ s.minutes \in Nat /\ s.duration \in Nat
      /\ r.price \in Nat /\ r.fee.payerBps \in Bps /\ r.fee.threshold \in Nat /\ r.connected \in Nat
      /\ Bill(s) \in Nat
  BY <1>1 DEF CallRecord, FeeConfig, Bill
<1>4. FinalBill(s)
  BY <1>2 DEF MInv, IInv, RecordOK
<1>5. perMinute \in Nat /\ due \in Nat /\ Contract!DueMinutes(s.duration, FreeSeconds) = due
  BY <1>3, PayerFeeIsNat, DueIsNat, DueIsContracts, SecondsAreNat
<1>6. /\ a.stage = "running" /\ a.parties = Parties(r) /\ a.payer = r.payer /\ a.since = r.connected
      /\ a.bill = Bill(r)
      /\ a.tariff = [price |-> r.price, surcharge |-> perMinute, threshold |-> r.fee.threshold]
  BY <1>1, <1>2, AgreedRunning
<1>7. b = Contract!Over(s.duration, Bill(s))
  BY <1>1, <1>2, AgreedUnsettled
<1>8. b.lasted = s.duration /\ b.bill = Bill(s)
  <2>1. b = over
    BY <1>7, OverDeal
  <2> HIDE DEF b
  <2>2. QED
    BY <2>1
<1>9. Deal[c] = a /\ Deal'[c] = b /\ \A d \in Calls \ {c} : Deal'[d] = Deal[d]
  BY DealMoves
<1>10. Spent' = [u \in Users |-> IF u = r.payer THEN Spent[u] + Bill(s) - Bill(r) ELSE Spent[u]]
  BY <1>2, SpentMoves
<1>11. Bill(s) <= Contract!Cost(a.tariff, due)
  <2>1. CASE s.payer = NoUser
    BY <1>2, <1>3, <1>5, <1>6, <2>1, CostIsNat
  <2>2. CASE s.payer # NoUser
    <3>1. /\ s.deducted = s.minutes * r.price /\ s.minutes <= due
          /\ s.feePaid <= ChargeableMinutes(s.minutes, r.fee.threshold) * perMinute
      BY <1>2, <1>4, <2>2 DEF FinalBill, FeeCap
    <3> HIDE DEF perMinute, due
    <3>2. 100 * s.deducted + s.feePaid <=
            Contract!Cost([price |-> r.price, surcharge |-> perMinute, threshold |-> r.fee.threshold], due)
      BY <1>3, <1>5, <3>1, BillWithinCost
    <3>3. QED
      BY <1>6, <3>2 DEF Bill
  <2>3. QED
    BY <2>1, <2>2
<1>12. PICK earner \in Parties(r) :
         /\ \A u \in Users \ {earner} : diamonds'[u] = diamonds[u]
         /\ diamonds'[earner] - diamonds[earner] \in 0 .. (Bill(s) * ShareBps) \div 10000
  BY EarnerGets
<1> HIDE DEF a, b, r, s, due, perMinute, over
<1>13. b.bill \in 0 .. Contract!Cost(a.tariff, Contract!DueMinutes(b.lasted, FreeSeconds))
  <2> DEFINE most == Contract!Cost(a.tariff, due)
  <2>1. most \in Int
    <3>1. Contract!ChargeableMinutes(due, r.fee.threshold) \in Nat
      BY <1>3, <1>5 DEF Contract!ChargeableMinutes, Contract!Positive
    <3>2. QED
      BY <1>3, <1>5, <1>6, <3>1 DEF Contract!Cost
  <2> HIDE DEF most
  <2>2. Bill(s) \in 0 .. most
    BY <1>3, <1>11, <2>1 DEF most
  <2>3. QED
    BY <1>5, <1>8, <2>2 DEF most
<1>14. b.lasted \in 0 .. now - a.since
  BY <1>2, <1>6, <1>8
<1>15. \E e \in a.parties :
         /\ \A u \in Users \ {e} : diamonds'[u] = diamonds[u]
         /\ diamonds'[e] - diamonds[e] \in 0 .. (b.bill * ShareBps) \div 10000
  BY <1>6, <1>8, <1>12
<1>16. b = Contract!Over(b.lasted, b.bill)
  BY <1>7, <1>8
<1>17. Spent' = [u \in Users |-> IF u = a.payer THEN Spent[u] + b.bill - a.bill ELSE Spent[u]]
  BY <1>6, <1>8, <1>10
<1>18. QED
  BY <1>1, <1>6, <1>9, <1>13, <1>14, <1>15, <1>16, <1>17
     DEF Contract!HangUp, Contract!Only, Contract!Paid, Deal, Spent

\* What happens elsewhere is time passing, or nothing the contract sees.
LEMMA ElsewhereStutters ==
  ASSUME MInv, MInv', Elsewhere
  PROVE  Contract!TimePasses \/ UNCHANGED Contract!vars
<1>1. Deal' = Deal /\ diamonds' = diamonds
  BY DEF Elsewhere, Deal
<1>2. Spent' = Spent
  <2>1. ASSUME NEW u \in Users
        PROVE  100 * (InitCoins[u] - outlay'[u]) - coins'[u] = 100 * (InitCoins[u] - outlay[u]) - coins[u]
    <3>1. /\ InitCoins[u] \in Int /\ outlay[u] \in Int /\ outlay'[u] \in Int
          /\ coins[u] \in Int /\ coins'[u] \in Int
      BY InitCoinsAreNat, MovesAreInt DEF MInv, IInv, TypeOK
    <3>2. coins'[u] + 100 * outlay'[u] = coins[u] + 100 * outlay[u]
      BY DEF Elsewhere
    <3>3. QED
      BY <3>1, <3>2
  <2>2. QED
    BY <2>1 DEF Spent
<1>3. now \in Nat /\ now' \in Nat /\ now' >= now
  BY SecondsAreNat DEF Elsewhere, MInv, IInv, TypeOK
<1>4. CASE now' = now
  BY <1>1, <1>2, <1>4 DEF Contract!vars, Deal, Spent
<1>5. CASE now' > now
  BY <1>1, <1>2, <1>3, <1>5 DEF Contract!TimePasses, Deal, Spent
<1>6. QED
  BY <1>3, <1>4, <1>5

(***************************************************************************)
(* The handlers and passes of CallLifecycle keep the contract: the first   *)
(* state is one of the contract's, and every step one of the contract's    *)
(* steps or none.                                                          *)
(***************************************************************************)
THEOREM HandlersKeepContract == Spec => KeepsContract
<1>1. Init => Contract!Init
  <2> SUFFICES ASSUME Init
               PROVE  Contract!Init
    OBVIOUS
  <2>1. Deal = [c \in Calls |-> Contract!Unagreed]
    <3>1. NoCall.status = "absent" /\ NoCall.deducted = 0 /\ NoCall.feePaid = 0 /\ NoCall \in CallRecord
      <4>1. NoFee \in FeeConfig
        BY DEF NoFee, FeeConfig, Bps
      <4>2. QED
        BY <4>1 DEF NoCall, CallRecord, Reasons
    <3>2. Agreed(NoCall) = Contract!Unagreed
      BY <3>1, AgreedUnsettled
    <3>3. QED
      BY <3>2 DEF Init, Deal
  <2>2. Spent = [u \in Users |-> 0]
    BY InitCoinsAreNat DEF Init, Spent
  <2>3. now = 0 /\ diamonds = [u \in Users |-> 0]
    BY DEF Init
  <2>4. QED
    BY <2>1, <2>2, <2>3 DEF Contract!Init, Deal, Spent
<1>2. MInv /\ MInv' /\ [Next]_vars => [Contract!Next]_(Contract!vars)
  <2> SUFFICES ASSUME MInv, MInv', [Next]_vars
               PROVE  Contract!Next \/ UNCHANGED Contract!vars
    OBVIOUS
  <2>1. CASE Elsewhere
    BY <2>1, ElsewhereStutters DEF Contract!Next
  <2>2. ASSUME NEW c \in Calls, Moves(c)
        PROVE  Contract!Next
    BY <2>2, DialsRings, MissesMisses, AnswersAnswer, MetersMeter, HangsUpHangsUp
       DEF Moves, Contract!Next
  <2>3. QED
    BY <2>1, <2>2, StepMoves
<1>3. QED
  BY <1>1, <1>2, PartiesInvariant, PTL DEF Spec, KeepsContract, Contract!Spec

-----------------------------------------------------------------------------
(* The fee loop *)

\* h goes through the minutes as the loop does.
Charges(balance, fee, minutes, h) ==
  h = [n \in 0 .. minutes |->
         IF n = 0 THEN [balance |-> balance, paid |-> 0]
         ELSE IF fee > 0 /\ h[n - 1].balance >= fee
              THEN [balance |-> h[n - 1].balance - fee, paid |-> h[n - 1].paid + fee]
              ELSE h[n - 1]]

\* What the closed form says of the first n minutes.
Closed(balance, fee, n) ==
  [balance |-> balance - fee * MinutesCovered(balance, fee, n), paid |-> fee * MinutesCovered(balance, fee, n)]

\* The loop's outcome is the last of what its iterations leave.
LEMMA LoopIsIteration ==
  \A b, f, m : LoopOutcome(b, f, m) = (CHOOSE h : Charges(b, f, m, h))[m]
  BY DEF LoopOutcome, Charges

\* One minute more is charged just when the balance still covers it.
LEMMA ClosedGoesOn ==
  ASSUME NEW b \in Nat, NEW f \in Nat, NEW n \in Nat
  PROVE  LET c == Closed(b, f, n)
         IN  Closed(b, f, n + 1) = IF f > 0 /\ c.balance >= f
                                   THEN [balance |-> c.balance - f, paid |-> c.paid + f]
                                   ELSE c
<1>1. CASE f = 0
  BY <1>1 DEF Closed, MinutesCovered
<1>2. CASE f > 0
  <2> DEFINE q == b \div f
  <2>1. q \in Nat /\ q * f <= b /\ b < q * f + f
    BY <1>2, QuotientIsNat, QuotientTimes, QuotientRest
  <2>2. MinutesCovered(b, f, n) = Least(n, q) /\ MinutesCovered(b, f, n + 1) = Least(n + 1, q)
    BY <1>2 DEF MinutesCovered
  <2> HIDE DEF q
  <2>3. CASE n < q
    <3>1. Least(n, q) = n /\ Least(n + 1, q) = n + 1
      BY <2>1, <2>3 DEF Least
    <3>2. (n + 1) * f <= q * f
      BY <2>1, <2>3, ProductMonotonic
    <3>3. PICK p \in Nat : p = f * n /\ f * (n + 1) = p + f /\ (n + 1) * f = p + f
      <4>1. f * n \in Nat /\ f * (n + 1) = f * n + f /\ (n + 1) * f = f * n + f
        BY SMT
      <4>2. QED
        BY <4>1
    <3>4. b - p >= f
      <4>1. q * f \in Nat
        BY <2>1, ProductIsNat
      <4>2. QED
        BY <2>1, <3>2, <3>3, <4>1
    <3>5. b - (p + f) = (b - p) - f
      BY <3>3
    <3>6. QED
      BY <1>2, <2>2, <3>1, <3>3, <3>4, <3>5 DEF Closed
  <2>4. CASE n >= q
    <3>1. Least(n, q) = q /\ Least(n + 1, q) = q
      BY <2>1, <2>4 DEF Least
    <3>2. PICK p \in Nat : p = f * q /\ p = q * f
      <4>1. f * q \in Nat /\ f * q = q * f
        BY <2>1, SMT
      <4>2. QED
        BY <4>1
    <3>3. ~(b - p >= f)
      BY <2>1, <3>2
    <3>4. QED
      BY <2>2, <3>1, <3>2, <3>3 DEF Closed
  <2>5. QED
    BY <2>1, <2>3, <2>4
<1>3. QED
  BY <1>1, <1>2

(***************************************************************************)
(* The fee loop (_apply_incremental_call_service_fee) is the closed form   *)
(* the model bills with, for every balance, fee and number of minutes: of  *)
(* the minutes at which the two differ there would be a least, and the     *)
(* minute before it leads to it.                                           *)
(***************************************************************************)
THEOREM LoopIsClosed ==
  ASSUME NEW b \in Nat, NEW f \in Nat, NEW m \in Nat
  PROVE  LoopOutcome(b, f, m) = Closed(b, f, m)
<1> DEFINE g == [n \in 0 .. m |-> Closed(b, f, n)]
           h == CHOOSE k : Charges(b, f, m, k)
<1>1. Closed(b, f, 0) = [balance |-> b, paid |-> 0]
  <2>1. MinutesCovered(b, f, 0) = 0
    BY CoveredIsNat
  <2>2. QED
    BY <2>1 DEF Closed
<1>2. Charges(b, f, m, g)
  <2>1. ASSUME NEW n \in 0 .. m
        PROVE  g[n] = IF n = 0 THEN [balance |-> b, paid |-> 0]
                      ELSE IF f > 0 /\ g[n - 1].balance >= f
                           THEN [balance |-> g[n - 1].balance - f, paid |-> g[n - 1].paid + f]
                           ELSE g[n - 1]
    <3>1. CASE n = 0
      BY <1>1, <3>1
    <3>2. CASE n # 0
      <4>1. n - 1 \in Nat /\ n - 1 \in 0 .. m /\ (n - 1) + 1 = n
        BY <3>2
      <4>2. g[n - 1] = Closed(b, f, n - 1) /\ g[n] = Closed(b, f, (n - 1) + 1)
        BY <4>1
      <4>3. QED
        BY <3>2, <4>1, <4>2, ClosedGoesOn
    <3>3. QED
      BY <3>1, <3>2
  <2>2. QED
    BY <2>1 DEF Charges
<1>3. Charges(b, f, m, h)
  BY <1>2
<1>4. ASSUME NEW n \in 0 .. m, h[n] # Closed(b, f, n)
      PROVE  FALSE
  <2> HIDE DEF h
  <2> DEFINE Wrong == {i \in 0 .. m : h[i] # Closed(b, f, i)}
  <2>1. Wrong \subseteq 0 .. m /\ Wrong # {}
    BY <1>4
  <2> HIDE DEF Wrong
  <2>2. PICK k \in Wrong : \A i \in Wrong : i >= k
    BY <2>1, LeastOfSome
  <2>3. k \in 0 .. m /\ h[k] # Closed(b, f, k)
    BY DEF Wrong
  <2>4. k # 0
    <3>1. h[0] = [balance |-> b, paid |-> 0]
      BY <1>3 DEF Charges
    <3>2. QED
      BY <1>1, <2>3, <3>1
  <2>5. k - 1 \in 0 .. m /\ k - 1 \in Nat /\ (k - 1) + 1 = k
    BY <2>3, <2>4
  <2>6. h[k - 1] = Closed(b, f, k - 1)
    <3>1. k - 1 \notin Wrong
      BY <2>2, <2>3
    <3>2. QED
      BY <2>5, <3>1 DEF Wrong
  <2>7. h[k] = IF f > 0 /\ h[k - 1].balance >= f
               THEN [balance |-> h[k - 1].balance - f, paid |-> h[k - 1].paid + f]
               ELSE h[k - 1]
    BY <1>3, <2>3, <2>4 DEF Charges
  <2>8. h[k] = Closed(b, f, (k - 1) + 1)
    BY <2>5, <2>6, <2>7, ClosedGoesOn
  <2>9. QED
    BY <2>3, <2>5, <2>8
<1>5. h[m] = Closed(b, f, m)
  BY <1>4
<1>6. QED
  BY <1>5, LoopIsIteration

\* So it is for the sixty seconds of a real minute, and for the prices and balances of the run.
THEOREM FeeLoopIsClosed == Spec => []LoopIsClosedForm
<1>1. ASSUME NEW b \in Nat, NEW f \in Nat, NEW m \in Nat
      PROVE  LET paid == f * Seconds!MinutesCovered(b, f, m)
             IN  Seconds!LoopOutcome(b, f, m) = [balance |-> b - paid, paid |-> paid]
  <2>1. Seconds!LoopOutcome(b, f, m) = LoopOutcome(b, f, m)
    BY DEF Seconds!LoopOutcome, LoopOutcome
  <2>2. Seconds!MinutesCovered(b, f, m) = MinutesCovered(b, f, m)
    BY DEF Seconds!MinutesCovered, MinutesCovered, Seconds!Least, Least
  <2>3. QED
    BY <2>1, <2>2, LoopIsClosed DEF Closed
<1>2. ASSUME NEW d \in Nat, NEW free \in Nat
      PROVE  Seconds!DueMinutes(d, free) \in Nat
  <2>1. (d + 60 - 1) \div 60 \in Nat
    BY SMT
  <2>2. QED
    BY <2>1 DEF Seconds!DueMinutes
<1>3. ASSUME NEW p \in Nat, NEW bps \in Nat
      PROVE  Seconds!PayerFeePerMinute(p, bps) \in Nat
  <2>1. 100 * p \in Nat /\ (100 * p) * bps \in Nat
    BY ProductIsNat
  <2>2. ((100 * p) * bps + 5000) \div 10000 \in Nat
    BY <2>1, QuotientIsNat
  <2>3. QED
    BY <2>2 DEF Seconds!PayerFeePerMinute, Seconds!ServiceFee
<1>4. ASSUME NEW price \in Nat, NEW bps \in Nat, NEW free \in Nat, NEW balance \in Nat, NEW duration \in Nat
      PROVE  LoopAgreesAt(price, bps, free, balance, duration)
  <2> DEFINE fee     == Seconds!PayerFeePerMinute(price, bps)
             minutes == Seconds!DueMinutes(duration, free)
  <2>1. fee \in Nat
    BY <1>3
  <2>2. minutes \in Nat
    BY <1>2
  <2> HIDE DEF fee, minutes
  <2>3. LET paid == fee * Seconds!MinutesCovered(balance, fee, minutes)
        IN  Seconds!LoopOutcome(balance, fee, minutes) = [balance |-> balance - paid, paid |-> paid]
    BY <1>1, <2>1, <2>2
  <2>4. QED
    BY <2>3 DEF LoopAgreesAt, fee, minutes
<1>5. LoopAgrees
  <2> DEFINE prices    == {0, 1, 3, 30}
             rates     == {0, 50, 1500, 10000}
             frees     == {0, 10, 60, 75}
             balances  == {0, 1, 45, 900, 901}
             durations == 0 .. 190
  <2>1. /\ prices \subseteq Nat /\ rates \subseteq Nat /\ frees \subseteq Nat
        /\ balances \subseteq Nat /\ durations \subseteq Nat
    OBVIOUS
  <2> SUFFICES \A price \in prices, bps \in rates, free \in frees :
                 \A balance \in balances, duration \in durations :
                   LoopAgreesAt(price, bps, free, balance, duration)
    BY DEF LoopAgrees
  <2> HIDE DEF prices, rates, frees, balances, durations
  <2>2. QED
    BY <1>4, <2>1
<1>6. LoopIsClosedForm
  BY <1>5 DEF LoopIsClosedForm
<1>7. QED
  BY <1>6, PTL
=============================================================================
