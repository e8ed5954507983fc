--------------------------- MODULE CallLifecycle ----------------------------
(***************************************************************************)
(* A paid 1v1 video call from its dialing to its settlement: the HTTP      *)
(* handlers of call.py, the passes of call_watchdog.py (also made by a     *)
(* heartbeat, process_ongoing_call_billing_once) and the settlement in     *)
(* service_fee_service.py and call_income_service.py.                      *)
(*                                                                         *)
(* Every handler runs in one database transaction that locks the call's    *)
(* row before it reads the call, and a user's row before it reads a        *)
(* balance, so a transaction is one step here.  Which party went silent is *)
(* decided from Redis: here any moment old enough may be the one.  What is *)
(* pushed to clients is left out.                                          *)
(***************************************************************************)
EXTENDS CallBilling, FiniteSets, Functions

CONSTANTS
  Users, Calls,
  NoUser,            \* the user id 0: nobody
  CallPrice,         \* certified_call_price of each user, in coins a minute
  InitCoins,         \* coins each user starts with
  InitCertified,     \* the certified users at the start
  Unstable,          \* users whose certification or account may change
  FeeConfigs,        \* service-fee configurations an administrator may have set
  ShareBps,          \* certified users' share of a call's fee
  FreeSeconds,       \* call_billing_free_seconds
  RingTimeout,       \* CALL_RING_TIMEOUT_SECONDS, checked by accept
  WatchdogRing,      \* call_watchdog_ring_timeout_seconds
  RenewGrace,        \* call_watchdog_renew_grace_seconds
  OfflineDetect,     \* call_presence_offline_detect_seconds
  InboundProtect,    \* call_reject_inbound_protect_seconds
  PairProtect,       \* call_reject_pair_protect_seconds
  WalletMoves,       \* coins other features add or take in one go
  MaxOutlay,         \* bound: net coins other features may take from a user
  Horizon            \* bound: the last second of the clock

FeeConfig == [threshold : Nat, payerBps : Bps, incomeBps : Bps]

NoFee == [threshold |-> 0, payerBps |-> 0, incomeBps |-> 0]

ASSUME CallsAreFinite  == IsFiniteSet(Calls)
ASSUME NoUserIsNew     == NoUser \notin Users
ASSUME PricesAreNat    == CallPrice \in [Users -> Nat]
ASSUME InitCoinsAreNat == InitCoins \in [Users -> Nat]
ASSUME CertifiedUsers  == InitCertified \subseteq Users /\ Unstable \subseteq Users
ASSUME FeesAreConfigs  == FeeConfigs \subseteq FeeConfig
ASSUME ShareIsBps      == ShareBps \in Bps
ASSUME SecondsAreNat   == /\ FreeSeconds \in Nat /\ RingTimeout \in Nat /\ WatchdogRing \in Nat
                          /\ RenewGrace \in Nat /\ OfflineDetect \in Nat /\ Horizon \in Nat
                          /\ InboundProtect \in Nat /\ PairProtect \in Nat
ASSUME MovesAreInt     == WalletMoves \subseteq Int /\ MaxOutlay \in Nat

VARIABLES
  now,         \* seconds
  coins,       \* app_user.coins, in hundredths
  diamonds,    \* app_user.diamonds, in hundredths
  outlay,      \* coins a user spent (or, if negative, received) outside calls
  certified,   \* app_user.is_certified_user
  normal,      \* app_user.status = "normal"
  call         \* the call_record rows

vars == <<now, coins, diamonds, outlay, certified, normal, call>>

Reasons == {"none", "timeout", "rejected", "cancelled", "normal", "balance_empty", "force_exit"}

CallRecord ==
  [status     : {"absent", "pending", "ongoing", "ended"},
   caller     : Users \cup {NoUser},
   callee     : Users \cup {NoUser},
   price      : Nat,                     \* call_price
   payer      : Users \cup {NoUser},     \* payer_user_id, snapshot of accept
   earner     : Users \cup {NoUser},     \* income_certified_user_id, snapshot of dialing
   created    : Nat,
   connected  : Nat,
   ended      : Nat,
   duration   : Nat,
   reason     : Reasons,
   minutes    : Nat,                     \* deducted_minutes
   deducted   : Nat,                     \* deducted_amount, and total_fee once ended
   fee        : FeeConfig,               \* the service_fee_* snapshots
   feeMinutes : Nat,                     \* service_fee_processed_chargeable_minutes
   feePaid    : Nat,                     \* service_fee_payer_actual_coins
   incomeFee  : Nat,                     \* service_fee_income_actual_diamonds
   income     : Nat,                     \* certified_user_income_diamonds
   settled    : BOOLEAN]                 \* income_settled_at is set

NoCall ==
  [status |-> "absent", caller |-> NoUser, callee |-> NoUser, price |-> 0, payer |-> NoUser,
   earner |-> NoUser, created |-> 0, connected |-> 0, ended |-> 0, duration |-> 0,
   reason |-> "none", minutes |-> 0, deducted |-> 0, fee |-> NoFee, feeMinutes |-> 0,
   feePaid |-> 0, incomeFee |-> 0, income |-> 0, settled |-> FALSE]

Init ==
  /\ now       = 0
  /\ coins     = [u \in Users |-> 100 * InitCoins[u]]
  /\ diamonds  = [u \in Users |-> 0]
  /\ outlay    = [u \in Users |-> 0]
  /\ certified = InitCertified
  /\ normal    = Users
  /\ call      = [c \in Calls |-> NoCall]

-----------------------------------------------------------------------------
Parties(r)  == {r.caller, r.callee}
WasDialed(c) == call[c].status # "absent"                  \* mutant of IsActive
IsActive(c)  == call[c].status \in {"pending", "ongoing"}

InACall(u) == \E c \in Calls : call[c].status = "ongoing" /\ u \in Parties(call[c])   \* mutant of Busy
Busy(u)    == \E c \in Calls : IsActive(c) /\ u \in Parties(call[c])

Balance(u) == IF u \in Users THEN coins[u] ELSE 0

Credit(book, u, n) == [v \in Users |-> IF v = u THEN book[v] + n ELSE book[v]]

(***************************************************************************)
(* Who pays: the uncertified party of a mixed pair, the caller of two      *)
(* certified users, nobody when neither is certified.                      *)
(***************************************************************************)
ResolvePayer(caller, callee) ==
  CASE callee \in certified -> caller
    [] callee \notin certified /\ caller \in certified -> callee
    [] OTHER -> NoUser

\* Who earns, as dialing snapshots it; the price is this user's.
DialEarner(caller, callee) ==
  CASE callee \in certified -> callee
    [] callee \notin certified /\ caller \in certified -> caller
    [] OTHER -> NoUser

\* A settlement that finds no snapshot takes the payer's certified peer, if any.
EarnerOf(r, payer) ==
  LET peer == IF payer = r.caller THEN r.callee ELSE r.caller
  IN  IF r.earner = NoUser /\ payer # NoUser /\ peer \in certified THEN peer ELSE r.earner

-----------------------------------------------------------------------------
(***************************************************************************)
(* A zero rate falls back to the record's legacy service_fee_rate_bps,     *)
(* which the snapshot of accept sets to the payer's rate.                  *)
(***************************************************************************)
IncomeBps(fee) == IF fee.incomeBps = 0 THEN fee.payerBps ELSE fee.incomeBps

\* Chargeable fee minutes of r.minutes that were not processed yet.
UnprocessedFeeMinutes(r) ==
  IF r.fee.payerBps = 0 /\ r.fee.incomeBps = 0 THEN 0
  ELSE Positive(ChargeableMinutes(r.minutes, r.fee.threshold) - r.feeMinutes)

\* The fee the payer's balance covers of those minutes.
FeeCovered(r, balance) ==
  LET perMinute == PayerFeePerMinute(r.price, r.fee.payerBps)
  IN  IF r.payer = NoUser THEN 0
      ELSE perMinute * MinutesCovered(balance, perMinute, UnprocessedFeeMinutes(r))

FeeOfProcessed(r) == r.feePaid + FeeCovered(r, 0)            \* mutant of FeeCap

\* The service fee the final minutes owe at most: anything above is refunded.
FeeCap(r) ==
  ChargeableMinutes(r.minutes, r.fee.threshold) * PayerFeePerMinute(r.price, r.fee.payerBps)

(***************************************************************************)
(* apply_call_service_fee_final_adjustment and then                        *)
(* settle_call_certified_user_income_once, on a record whose minutes and   *)
(* deducted amount are final.                                              *)
(***************************************************************************)
Settled(r, balance) ==
  LET chargeable == ChargeableMinutes(r.minutes, r.fee.threshold)
      gross      == GrossIncome(r.deducted, ShareBps)
      earns      == r.earner # NoUser /\ gross > 0
  IN  [r EXCEPT !.feeMinutes = chargeable,
                !.feePaid    = Least(r.feePaid + FeeCovered(r, balance), FeeCap(r)),
                !.incomeFee  = chargeable * IncomeFeePerMinute(r.price, ShareBps, IncomeBps(r.fee)),
                !.income     = IF earns THEN gross ELSE 0,
                !.settled    = earns]

\* What the settlement adds to the certified user's diamonds.
NetIncome(r) == IF r.settled THEN Positive(100 * r.income - r.incomeFee) ELSE 0

DueTopUp(c, r) == Positive(r.deducted - call[c].deducted)     \* mutant of TopUp

\* Coins still to take for the final bill; negative when coins go back.
TopUp(c, r) == r.deducted - call[c].deducted

(***************************************************************************)
(* Close call c with record r, which holds the final bill: the difference  *)
(* to what was deducted so far is topped up or refunded, then r settles.   *)
(***************************************************************************)
Close(c, r) ==
  LET topUp == 100 * TopUp(c, r)
      final == Settled(r, Balance(r.payer) - topUp)
  IN  /\ call'     = [call EXCEPT ![c] = final]
      /\ coins'    = Credit(coins, r.payer, r.feePaid - final.feePaid - topUp)
      /\ diamonds' = Credit(diamonds, final.earner, NetIncome(final))
      /\ UNCHANGED <<now, outlay, certified, normal>>

KeptCharge(r, duration) == r.deducted        \* mutant of FinalCharge

\* The bill of a duration: what it owes, or what was deducted if the payer cannot top up.
FinalCharge(r, duration) ==
  LET owed == DueMinutes(duration, FreeSeconds) * r.price
  IN  IF r.payer = NoUser \/ 100 * (owed - r.deducted) > Balance(r.payer) THEN r.deducted ELSE owed

FinalMinutes(r, duration) ==
  IF r.payer # NoUser /\ r.price > 0 THEN FinalCharge(r, duration) \div r.price
  ELSE DueMinutes(duration, FreeSeconds)

Billed(r, duration, endedAt, reason, earner) ==
  [r EXCEPT !.status = "ended", !.ended = endedAt, !.duration = duration, !.reason = reason,
            !.minutes = FinalMinutes(r, duration), !.deducted = FinalCharge(r, duration),
            !.earner = earner]

-----------------------------------------------------------------------------
\* The rejections that still shield the callee from the caller.
Shielded(caller, callee) ==
  \E d \in Calls :
    /\ call[d].status = "ended" /\ call[d].reason = "rejected" /\ call[d].callee = callee
    /\ \/ now - call[d].ended < InboundProtect
       \/ call[d].caller = caller /\ now - call[d].ended < PairProtect

DialingIn(caller, callee, c) ==
  LET earner == DialEarner(caller, callee)
      price  == IF earner = NoUser THEN 0 ELSE CallPrice[earner]
  IN  /\ call[c].status = "absent"
      /\ caller # callee
      /\ {caller, callee} \subseteq normal
      /\ earner = callee => coins[caller] >= 100 * price
      /\ ~Busy(caller) /\ ~Busy(callee)
      /\ ~Shielded(caller, callee)
      /\ call' = [call EXCEPT ![c] =
                   [NoCall EXCEPT !.status = "pending", !.caller = caller, !.callee = callee,
                                  !.price = price, !.earner = earner, !.created = now]]
      /\ UNCHANGED <<now, coins, diamonds, outlay, certified, normal>>

\* End a call that never connected, or that accept finds unpayable: no bill.
Unconnected(c, reason, payer) ==
  /\ call' = [call EXCEPT ![c] = [@ EXCEPT !.status = "ended", !.reason = reason,
                                           !.ended = now, !.payer = payer]]
  /\ UNCHANGED <<now, coins, diamonds, outlay, certified, normal>>

\* accept_call on a call that rang for too long.
AcceptTooLate(c) ==
  /\ call[c].status = "pending"
  /\ now - call[c].created > RingTimeout
  /\ Unconnected(c, "timeout", NoUser)

CanPay(u, price) == u \in normal /\ coins[u] >= 100 * price

AcceptCall(c, fee) ==
  LET r     == call[c]
      payer == ResolvePayer(r.caller, r.callee)
  IN  /\ r.status = "pending"
      /\ now - r.created <= RingTimeout
      /\ ~\E d \in Calls \ {c} : /\ call[d].status = "ongoing"
                                 /\ call[d].callee = r.callee \/ call[d].caller = r.caller
      /\ IF payer # NoUser /\ r.price > 0 /\ ~CanPay(payer, r.price)
         THEN Unconnected(c, "balance_empty", payer)
         ELSE /\ call' = [call EXCEPT ![c] = [r EXCEPT !.status = "ongoing", !.connected = now,
                                                       !.payer = payer, !.fee = fee]]
              /\ UNCHANGED <<now, coins, diamonds, outlay, certified, normal>>

RejectCall(c) ==
  /\ call[c].status = "pending"
  /\ Unconnected(c, "rejected", NoUser)

CancelCall(c) ==
  /\ call[c].status = "pending"
  /\ Unconnected(c, "cancelled", NoUser)

RangOutEarly(c) == now - call[c].created < WatchdogRing       \* mutant of RangOut
RangOut(c)      == now - call[c].created > WatchdogRing

\* The watchdog's pass over pending calls.
CloseTimeoutPending(c) ==
  /\ call[c].status = "pending"
  /\ RangOut(c)
  /\ Unconnected(c, "timeout", NoUser)

(***************************************************************************)
(* call_end by either party.  A pending call has no payer yet and owes     *)
(* nothing; its settlement still looks for a payer to name the earner.     *)
(***************************************************************************)
CallEnd(c) ==
  LET r        == call[c]
      duration == IF r.status = "ongoing" THEN now - r.connected ELSE 0
      owed     == DueMinutes(duration, FreeSeconds) * r.price
      payer    == IF r.status = "ongoing" THEN r.payer ELSE ResolvePayer(r.caller, r.callee)
      broke    == payer # NoUser /\ 100 * (owed - r.deducted) > Balance(payer)
  IN  /\ IsActive(c)
      /\ Close(c, Billed(r, duration, now, IF broke THEN "balance_empty" ELSE "normal",
                         EarnerOf(r, payer)))

-----------------------------------------------------------------------------
RenewalDueOnce(r) ==                         \* mutant of RenewalDue
  /\ r.status = "ongoing"
  /\ DueMinutes(now - r.connected, FreeSeconds) > r.minutes
  /\ now - r.connected - NextDueSecond(r.minutes, FreeSeconds) = RenewGrace

RenewalDueEver(r) ==                         \* mutant of RenewalDue
  /\ DueMinutes(now - r.connected, FreeSeconds) > r.minutes
  /\ now - r.connected - NextDueSecond(r.minutes, FreeSeconds) >= RenewGrace

\* A billing pass finds a minute owed, and its grace used up.
RenewalDue(r) ==
  LET duration == now - r.connected
  IN  /\ r.status = "ongoing"
      /\ DueMinutes(duration, FreeSeconds) > r.minutes
      /\ duration - NextDueSecond(r.minutes, FreeSeconds) >= RenewGrace

RenewalCharge(r) == (DueMinutes(now - r.connected, FreeSeconds) - r.minutes) * r.price

\* The payer, looked up by id: the nobody of an unpaid call is not found.
Covers(u, charge) == u # NoUser /\ coins[u] >= 100 * charge

\* The payer covers the owed minutes; the service fee takes what the rest covers.
Renew(c) ==
  LET r      == call[c]
      charge == RenewalCharge(r)
      billed == [r EXCEPT !.minutes = DueMinutes(now - r.connected, FreeSeconds),
                          !.deducted = r.deducted + charge]
      fee    == FeeCovered(billed, Balance(r.payer) - 100 * charge)
  IN  /\ RenewalDue(r)
      /\ Covers(r.payer, charge)
      /\ call'  = [call EXCEPT ![c] =
                     [billed EXCEPT !.feeMinutes = r.feeMinutes + UnprocessedFeeMinutes(billed),
                                    !.feePaid = r.feePaid + fee]]
      /\ coins' = Credit(coins, r.payer, 0 - 100 * charge - fee)
      /\ UNCHANGED <<now, diamonds, outlay, certified, normal>>

\* The payer does not cover them, or there is none.
CloseBroke(c) ==
  LET r == call[c]
  IN  /\ RenewalDue(r)
      /\ ~Covers(r.payer, RenewalCharge(r))
      /\ Close(c, [r EXCEPT !.status = "ended", !.ended = now, !.duration = now - r.connected,
                            !.reason = "balance_empty", !.earner = EarnerOf(r, r.payer)])

(***************************************************************************)
(* A party that was silent for longer than the detection time ends the     *)
(* call as of the second it was last seen.                                 *)
(***************************************************************************)
ForceExit(c, lastSeen) ==
  LET r == call[c]
  IN  /\ r.status = "ongoing"
      /\ lastSeen >= r.connected
      /\ now - lastSeen > OfflineDetect
      /\ Close(c, Billed(r, lastSeen - r.connected, lastSeen, "force_exit",
                         EarnerOf(r, r.payer)))

-----------------------------------------------------------------------------
\* Certification reviews and account restrictions by administrators.
ChangeCertification(u) ==
  /\ u \in Unstable
  /\ certified' = IF u \in certified THEN certified \ {u} ELSE certified \cup {u}
  /\ UNCHANGED <<now, coins, diamonds, outlay, normal, call>>

ChangeAccount(u) ==
  /\ u \in Unstable
  /\ normal' = IF u \in normal THEN normal \ {u} ELSE normal \cup {u}
  /\ UNCHANGED <<now, coins, diamonds, outlay, certified, call>>

\* Gifts, texts and recharges: they never take more coins than there are.
MoveWallet(u, n) ==
  /\ coins[u] + 100 * n >= 0
  /\ outlay[u] - n \in -MaxOutlay .. MaxOutlay
  /\ coins'  = Credit(coins, u, 100 * n)
  /\ outlay' = [outlay EXCEPT ![u] = @ - n]
  /\ UNCHANGED <<now, diamonds, certified, normal, call>>

Tick ==
  /\ now < Horizon
  /\ now' = now + 1
  /\ UNCHANGED <<coins, diamonds, outlay, certified, normal, call>>

Next ==
  \/ \E caller, callee \in Users, c \in Calls : DialingIn(caller, callee, c)
  \/ \E c \in Calls : \/ AcceptTooLate(c)
                      \/ \E fee \in FeeConfigs : AcceptCall(c, fee)
                      \/ RejectCall(c)
                      \/ CancelCall(c)
                      \/ CallEnd(c)
                      \/ CloseTimeoutPending(c)
                      \/ Renew(c)
                      \/ CloseBroke(c)
                      \/ \E lastSeen \in 0 .. now : ForceExit(c, lastSeen)
  \/ \E u \in Users : \/ ChangeCertification(u)
                      \/ ChangeAccount(u)
                      \/ \E n \in WalletMoves : MoveWallet(u, n)
  \/ Tick

Spec == Init /\ [][Next]_vars

(***************************************************************************)
(* A leader runs the watchdog loop and the clock goes on; users and        *)
(* heartbeats may stay away for ever.                                      *)
(***************************************************************************)
Fairness ==
  /\ WF_vars(Tick)
  /\ \A c \in Calls : WF_vars(CloseTimeoutPending(c)) /\ WF_vars(Renew(c) \/ CloseBroke(c))

FairSpec == Spec /\ Fairness

-----------------------------------------------------------------------------
(***************************************************************************)
(* Every variable has its type; in particular no charge, top-up or service *)
(* fee takes a balance below zero.                                         *)
(***************************************************************************)
TypeOK ==
  /\ now       \in 0 .. Horizon
  /\ coins     \in [Users -> Nat]
  /\ diamonds  \in [Users -> Nat]
  /\ outlay    \in [Users -> -MaxOutlay .. MaxOutlay]
  /\ certified \subseteq Users
  /\ normal    \subseteq Users
  /\ call      \in [Calls -> CallRecord]

(***************************************************************************)
(* No user is a party of two calls that ring or run: the busy checks of    *)
(* dialing, made under both user rows' locks, suffice for all that accept, *)
(* the watchdog and the other handlers do later.                           *)
(***************************************************************************)
OneCallPerUser ==
  \A c, d \in Calls : c # d /\ IsActive(c) /\ IsActive(d) => Parties(call[c]) \cap Parties(call[d]) = {}

\* What u paid for a call, fee included, and what a call's settlement gave u.
PaidBy(r, u)   == IF r.payer = u THEN 100 * r.deducted + r.feePaid ELSE 0
EarnedBy(r, u) == IF r.settled /\ r.earner = u THEN Positive(100 * r.income - r.incomeFee) ELSE 0

(***************************************************************************)
(* A payer's coins are exactly what he had, less what other features took, *)
(* less what the call records say he paid: deducted_amount and the service *)
(* fee.  Renewals, top-ups, refunds and fee caps lose or invent no coin.   *)
(***************************************************************************)
CoinsConserved ==
  \A u \in Users :
    coins[u] = 100 * (InitCoins[u] - outlay[u]) - SumFunction([c \in Calls |-> PaidBy(call[c], u)])

(***************************************************************************)
(* A certified user's diamonds are the net incomes of his settled calls:   *)
(* each call settles once, whichever of the handlers that end it race.     *)
(***************************************************************************)
DiamondsBacked ==
  \A u \in Users : diamonds[u] = SumFunction([c \in Calls |-> EarnedBy(call[c], u)])

(***************************************************************************)
(* A paid call costs whole minutes, never more of them than the time it    *)
(* has run or finally lasted owes, and its service fee never more than the *)
(* fee of those minutes: a call a party silently left is billed only to    *)
(* the second he was last seen.                                            *)
(***************************************************************************)
BillMatchesDuration ==
  \A c \in Calls :
    LET r    == call[c]
        time == IF r.status = "ended" THEN r.duration ELSE now - r.connected
    IN  r.payer # NoUser =>
          /\ r.deducted = r.minutes * r.price
          /\ r.deducted <= DueMinutes(time, FreeSeconds) * r.price
          /\ r.feePaid <= FeeCap(r)
          /\ r.income <= r.deducted

(***************************************************************************)
(* An ended call's record never changes again: whichever of a party, the   *)
(* watchdog or a heartbeat ends it first decides its bill.                 *)
(***************************************************************************)
EndedIsFinal == [][\A c \in Calls : call[c].status = "ended" => call'[c] = call[c]]_vars

(***************************************************************************)
(* A call that rings is taken, refused or, by the watchdog, timed out,     *)
(* unless the clock's bound stops it first.                                *)
(***************************************************************************)
PendingEnds ==
  \A c \in Calls :
    call[c].status = "pending" /\ call[c].created + WatchdogRing < Horizon ~> call[c].status # "pending"

(***************************************************************************)
(* A running call is never left with an overdue minute: the watchdog bills *)
(* it or ends the call.                                                    *)
(***************************************************************************)
Overdue(r) ==
  /\ r.status = "ongoing"
  /\ now - r.connected > NextDueSecond(r.minutes, FreeSeconds) + RenewGrace

OverdueIsBilled == \A c \in Calls : Overdue(call[c]) ~> ~Overdue(call[c])

-----------------------------------------------------------------------------
(***************************************************************************)
(* The records, seen as the contract: once over, only the bill is left.    *)
(***************************************************************************)
Stage == [absent |-> "none", pending |-> "ringing", ongoing |-> "running", ended |-> "over"]

Agreed(r) ==
  LET runs == r.status = "ongoing"
  IN  [stage   |-> Stage[r.status],
       parties |-> IF r.status \in {"pending", "ongoing"} THEN Parties(r) ELSE {},
       payer   |-> IF runs THEN r.payer ELSE NoUser,
       since   |-> IF runs THEN r.connected ELSE 0,
       tariff  |-> [price     |-> IF runs THEN r.price ELSE 0,
                    surcharge |-> IF runs THEN PayerFeePerMinute(r.price, r.fee.payerBps) ELSE 0,
                    threshold |-> IF runs THEN r.fee.threshold ELSE 0],
       lasted  |-> IF r.status = "ended" THEN r.duration ELSE 0,
       bill    |-> 100 * r.deducted + r.feePaid]

Contract == INSTANCE CallContract WITH
  deal   <- [c \in Calls |-> Agreed(call[c])],
  spent  <- [u \in Users |-> 100 * (InitCoins[u] - outlay[u]) - coins[u]],
  earned <- diamonds

(***************************************************************************)
(* The handlers and passes keep the contract of CallContract: nothing is   *)
(* paid or earned but by a call that runs or just ended, each step of it   *)
(* is paid by the payer to the last hundredth, and a forced exit refunds   *)
(* what was charged, fees included, beyond the second of the last sign.    *)
(***************************************************************************)
KeepsContract == Contract!Spec
=============================================================================
