----------------------------- MODULE TokenLedger -----------------------------
(***************************************************************************)
(* Coins and diamonds of two users, everything that moves them, and the    *)
(* reports that are to explain them: recharge orders (wallet.py,           *)
(* recharge.py), gifts (gift.py), billed texts (im_text_billing_service),  *)
(* VIP orders (vip_service), the administrator's adjustments (app_users),  *)
(* and, as single steps, calls and withdrawals, whose modules are          *)
(* CallLifecycle and Withdraw.                                             *)
(*                                                                         *)
(* A transaction that begins with an update or a row lock is one step.     *)
(* What a handler reads before it, without a lock, is a step of its own.   *)
(* A transaction may also fail, and the database then restores the rows.   *)
(* Amounts are hundredths.                                                 *)
(***************************************************************************)
EXTENDS Integers, FiniteSets, FiniteSetsExt

CONSTANTS
  Payer, Peer,                       \* the two users; Payer buys and sends
  None,
  Start,                             \* coins of each at the start
  GiftTries, TextTries,              \* requests that repeat one request_id
  GiftPrice, GiftIncome, GiftFee,
  TextPrice, TextIncome,
  OrderAmount,
  VipOrders, VipDays,
  CallFee, CallIncome, CallServiceFee,
  WithdrawAmount,
  AdjustAmount,
  MaxStarted,                        \* bound: operations begun
  MaxFailures,                       \* bound: Redis calls and transactions that fail
  MaxDay                             \* bound: the clock

ASSUME AmountsAreNat ==
  /\ {Start, GiftIncome, GiftFee, TextIncome, CallIncome, CallServiceFee} \subseteq Nat
  /\ {GiftPrice, TextPrice, OrderAmount, CallFee, WithdrawAmount, AdjustAmount, VipDays} \subseteq Nat \ {0}
  /\ CallServiceFee <= CallIncome
ASSUME BoundsAreNat   == {MaxStarted, MaxFailures, MaxDay} \subseteq Nat
ASSUME TwoUsers       == Payer # Peer
ASSUME TriesAreApart  == GiftTries \cap TextTries = {} /\ None \notin VipOrders

VARIABLES
  coins, diamonds, vipUntil,  \* columns of app_user; vipUntil of the payer, in days
  order, vipOrder,            \* the recharge_order and vip_order rows
  gifts, texts, adjusts,      \* gift_record, im_text_message_charge_record, token adjust rows
  call, withdrawal,           \* a call_record and a withdraw_apply row
  giftKey, callbackKey,       \* the idempotency keys in Redis
  try,                        \* requests for the gift and for the text
  callback, review, copy,     \* the order's callback, mark_paid, the row of a password change
  now, started, failures,
  credits, vipUsed,           \* history: times the order was credited, days of VIP enjoyed
  lapsed,                     \* history: the gift's key expired or could not be taken
  crossed                     \* history: an unlocked read was stale when it was written back

row      == <<coins, diamonds, vipUntil>>
tables   == <<gifts, texts, adjusts, call, withdrawal>>
requests == <<try, callback, review, copy>>
rest     == <<now, failures, vipUsed>>
vars     == <<row, order, vipOrder, tables, giftKey, callbackKey, requests, rest,
              started, credits, lapsed, crossed>>

Users == {Payer, Peer}
Other(u) == IF u = Payer THEN Peer ELSE Payer

Idle == [pc |-> "new", affords |-> FALSE, income |-> 0]

\* The call_record as its settlement leaves it: who paid, who earned, and the fees of each.
Settlements == [caller : Users, payer : Users, earner : Users, total : {CallFee}, income : {CallIncome},
                payerFee : {0, CallServiceFee}, incomeFee : {0, CallServiceFee}]

ASSUME NoneIsNoSettlement == None \notin Settlements

Init ==
  /\ coins = [u \in Users |-> Start] /\ diamonds = [u \in Users |-> 0] /\ vipUntil = 0
  /\ order = "none" /\ vipOrder = [o \in VipOrders |-> "none"]
  /\ gifts = {} /\ texts = {} /\ adjusts = {} /\ call = None /\ withdrawal = "none"
  /\ giftKey = FALSE /\ callbackKey = FALSE
  /\ try = [t \in GiftTries \cup TextTries |-> Idle]
  /\ callback = "idle" /\ review = "idle" /\ copy = None
  /\ now = 0 /\ started = 0 /\ failures = 0
  /\ credits = 0 /\ vipUsed = 0 /\ lapsed = FALSE /\ crossed = FALSE

Starts == started < MaxStarted /\ started' = started + 1
Fails  == failures < MaxFailures /\ failures' = failures + 1

\* Every deduction is an update guarded by coins >= n, or checks under the row's lock.
Enough(u, n)       == coins[u] >= n

-----------------------------------------------------------------------------
\* gift_send, what it reads before its key: the target's certification, the sender's coins.
GiftRead(t) ==
  /\ try[t].pc = "new" /\ Starts
  /\ \E income \in {0, GiftIncome} :
       try' = [try EXCEPT ![t] = [pc |-> "key", affords |-> coins[Payer] >= GiftPrice, income |-> income]]
  /\ UNCHANGED <<row, order, vipOrder, tables, giftKey, callbackKey, callback, review, copy,
                 rest, credits, lapsed, crossed>>

\* SET NX: the first of two equal requests wins.
KeyFree == ~giftKey

\* The key is taken before the balance is looked at, and stays when the gift is refused.
GiftKey(t) ==
  /\ try[t].pc = "key"
  /\ \/ /\ KeyFree
        /\ giftKey' = TRUE
        /\ try' = [try EXCEPT ![t].pc = IF try[t].affords THEN "pay" ELSE "refused"]
        /\ UNCHANGED <<failures, lapsed>>
     \/ /\ ~KeyFree
        /\ try' = [try EXCEPT ![t].pc = "refused"]
        /\ UNCHANGED <<giftKey, failures, lapsed>>
     \/ /\ Fails /\ lapsed' = TRUE
        /\ try' = [try EXCEPT ![t].pc = IF try[t].affords THEN "pay" ELSE "refused"]
        /\ UNCHANGED giftKey
  /\ UNCHANGED <<row, order, vipOrder, tables, callbackKey, callback, review, copy,
                 now, vipUsed, started, credits, crossed>>

\* The service fee is taken when the coins that are left suffice, else skipped.
FeeTaken(left, due) == IF left >= due THEN due ELSE 0

\* gift_send, its transaction: price, income, service fee and record together.
GiftPay(t) ==
  /\ try[t].pc = "pay"
  /\ \/ /\ Enough(Payer, GiftPrice)
        /\ \E due \in {0, GiftFee} :
             LET fee == FeeTaken(coins[Payer] - GiftPrice, due)
             IN  /\ coins' = [coins EXCEPT ![Payer] = @ - GiftPrice - fee]
                 /\ gifts' = gifts \cup {[id |-> t, income |-> try[t].income, due |-> due, fee |-> fee]}
        /\ diamonds' = [diamonds EXCEPT ![Peer] = @ + try[t].income]
        /\ try' = [try EXCEPT ![t].pc = "sent"]
        /\ UNCHANGED failures
     \/ /\ ~Enough(Payer, GiftPrice)
        /\ try' = [try EXCEPT ![t].pc = "refused"]
        /\ UNCHANGED <<coins, diamonds, gifts, failures>>
     \/ /\ Fails
        /\ try' = [try EXCEPT ![t].pc = "refused"]
        /\ UNCHANGED <<coins, diamonds, gifts>>
  /\ UNCHANGED <<vipUntil, order, vipOrder, texts, adjusts, call, withdrawal, giftKey, callbackKey,
                 callback, review, copy, now, vipUsed, started, credits, lapsed, crossed>>

\* The key lives for two minutes, longer than any request.
GiftKeyExpires ==
  /\ giftKey /\ \A t \in GiftTries : try[t].pc # "pay"
  /\ giftKey' = FALSE /\ lapsed' = TRUE
  /\ UNCHANGED <<row, order, vipOrder, tables, callbackKey, requests, rest, started, credits, crossed>>

-----------------------------------------------------------------------------
IsVip == vipUntil > now

\* charge_im_text_message, what it reads: an earlier record of the request, the sender's VIP.
TextRead(t) ==
  /\ try[t].pc = "new" /\ Starts
  /\ IF texts # {} \/ IsVip
     THEN try' = [try EXCEPT ![t].pc = "sent"]
     ELSE \E income \in {0, TextIncome} :
            try' = [try EXCEPT ![t] = [pc |-> "pay", affords |-> FALSE, income |-> income]]
  /\ UNCHANGED <<row, order, vipOrder, tables, giftKey, callbackKey, callback, review, copy,
                 rest, credits, lapsed, crossed>>

InsertAlways == TRUE                                        \* mutant of InsertAccepted
\* The table is unique in sender and request_id: the second insert raises.
InsertAccepted == texts = {}

\* charge_im_text_message, its transaction; a refused insert undoes the deduction.
TextPay(t) ==
  /\ try[t].pc = "pay"
  /\ \/ /\ Enough(Payer, TextPrice) /\ InsertAccepted
        /\ coins' = [coins EXCEPT ![Payer] = @ - TextPrice]
        /\ diamonds' = [diamonds EXCEPT ![Peer] = @ + try[t].income]
        /\ texts' = texts \cup {[id |-> t, income |-> try[t].income]}
        /\ try' = [try EXCEPT ![t].pc = "sent"]
     \/ /\ ~Enough(Payer, TextPrice) \/ ~InsertAccepted
        /\ try' = [try EXCEPT ![t].pc = "refused"]
        /\ UNCHANGED <<coins, diamonds, texts>>
  /\ UNCHANGED <<vipUntil, order, vipOrder, gifts, adjusts, call, withdrawal, giftKey, callbackKey,
                 callback, review, copy, rest, started, credits, lapsed, crossed>>

-----------------------------------------------------------------------------
\* recharge_create
OrderCreate ==
  /\ order = "none" /\ Starts
  /\ order' = "pending"
  /\ UNCHANGED <<row, vipOrder, tables, giftKey, callbackKey, requests, rest, credits, lapsed, crossed>>

\* recharge_callback, its key.  A callback that finds the key taken is refused: no step.
CallbackKey ==
  /\ order # "none" /\ callback = "idle"
  /\ \/ ~callbackKey /\ callbackKey' = TRUE /\ UNCHANGED failures
     \/ Fails /\ UNCHANGED callbackKey
  /\ callback' = "pay"
  /\ UNCHANGED <<row, order, vipOrder, tables, giftKey, try, review, copy, now, vipUsed,
                 started, credits, lapsed, crossed>>

CreditableEver == TRUE                                      \* mutant of Creditable
\* The order is locked, and found only while it is pending.
Creditable     == order = "pending"

\* recharge_callback, its transaction.
CallbackPay ==
  /\ callback = "pay" /\ callback' = "idle"
  /\ \/ /\ Creditable
        /\ coins' = [coins EXCEPT ![Payer] = @ + OrderAmount]
        /\ order' = "paid" /\ credits' = credits + 1
        /\ UNCHANGED failures
     \/ ~Creditable /\ UNCHANGED <<coins, order, credits, failures>>
     \/ Fails /\ UNCHANGED <<coins, order, credits>>
  /\ UNCHANGED <<diamonds, vipUntil, vipOrder, tables, giftKey, callbackKey, try, review, copy,
                 now, vipUsed, started, lapsed, crossed>>

CallbackKeyStays == FALSE                                   \* mutant of CallbackKeyLapses
\* SET with EX 3600
CallbackKeyLapses == callbackKey

CallbackKeyExpires ==
  /\ CallbackKeyLapses /\ callback = "idle"
  /\ callbackKey' = FALSE
  /\ UNCHANGED <<row, order, vipOrder, tables, giftKey, requests, rest, started, credits, lapsed, crossed>>

\* recharge_review (mark_paid) reads the order without a lock ...
ReviewRead ==
  /\ review = "idle" /\ order = "pending" /\ Starts
  /\ review' = "write"
  /\ UNCHANGED <<row, order, vipOrder, tables, giftKey, callbackKey, try, callback, copy,
                 rest, credits, lapsed, crossed>>

\* ... and credits it whatever it has become.
ReviewWrite ==
  /\ review = "write" /\ review' = "idle"
  /\ coins' = [coins EXCEPT ![Payer] = @ + OrderAmount]
  /\ order' = "paid" /\ credits' = credits + 1
  /\ crossed' = (crossed \/ order = "paid")
  /\ UNCHANGED <<diamonds, vipUntil, vipOrder, tables, giftKey, callbackKey, try, callback, copy,
                 rest, started, lapsed>>

-----------------------------------------------------------------------------
\* create_vip_order
VipCreate(o) ==
  /\ vipOrder[o] = "none" /\ Starts
  /\ vipOrder' = [vipOrder EXCEPT ![o] = "pending"]
  /\ UNCHANGED <<row, order, tables, giftKey, callbackKey, requests, rest, credits, lapsed, crossed>>

\* resolve_next_vip_expires_at
NextVipUntil(until) == Max({until, now}) + VipDays

\* mark_vip_order_paid locks the order, then the user.
VipPay(o) ==
  /\ vipOrder[o] = "pending"
  /\ vipOrder' = [vipOrder EXCEPT ![o] = "paid"]
  /\ vipUntil' = NextVipUntil(vipUntil)
  /\ UNCHANGED <<coins, diamonds, order, tables, giftKey, callbackKey, requests, rest, started,
                 credits, lapsed, crossed>>

Tick ==
  /\ now < MaxDay
  /\ now' = now + 1
  /\ vipUsed' = vipUsed + (IF IsVip THEN 1 ELSE 0)
  /\ UNCHANGED <<row, order, vipOrder, tables, giftKey, callbackKey, requests, failures, started,
                 credits, lapsed, crossed>>

\* adjust_app_user_balance, under the user's row lock, with its record.
Adjust(u, asset, increase) ==
  /\ Starts
  /\ increase \/ (IF asset = "coins" THEN Enough(u, AdjustAmount) ELSE diamonds[u] >= AdjustAmount)
  /\ LET n == IF increase THEN AdjustAmount ELSE -AdjustAmount
     IN  IF asset = "coins" THEN coins' = [coins EXCEPT ![u] = @ + n] /\ UNCHANGED diamonds
                            ELSE diamonds' = [diamonds EXCEPT ![u] = @ + n] /\ UNCHANGED coins
  /\ adjusts' = adjusts \cup {[id |-> started, user |-> u, asset |-> asset, increase |-> increase]}
  /\ UNCHANGED <<vipUntil, order, vipOrder, gifts, texts, call, withdrawal, giftKey, callbackKey, requests,
                 rest, credits, lapsed, crossed>>

\* A call from its first charge to its settlement, as CallLifecycle leaves it.
SettleCall(caller, payer) ==
  /\ call = None /\ Starts
  /\ \E payerFee, incomeFee \in {0, CallServiceFee} :
       /\ Enough(payer, CallFee + payerFee)
       /\ coins' = [coins EXCEPT ![payer] = @ - CallFee - payerFee]
       /\ diamonds' = [diamonds EXCEPT ![Other(payer)] = @ + CallIncome - incomeFee]
       /\ call' = [caller |-> caller, payer |-> payer, earner |-> Other(payer), total |-> CallFee,
                   income |-> CallIncome, payerFee |-> payerFee, incomeFee |-> incomeFee]
  /\ UNCHANGED <<vipUntil, order, vipOrder, gifts, texts, adjusts, withdrawal, giftKey, callbackKey,
                 requests, rest, credits, lapsed, crossed>>

\* withdraw_apply and withdraw_review, as Withdraw has them one review at a time.
Withdrawal ==
  /\ \/ /\ withdrawal = "none" /\ diamonds[Peer] >= WithdrawAmount /\ Starts
        /\ diamonds' = [diamonds EXCEPT ![Peer] = @ - WithdrawAmount]
        /\ withdrawal' = "pending"
     \/ /\ withdrawal = "pending" /\ withdrawal' = "paid"
        /\ UNCHANGED <<diamonds, started>>
     \/ /\ withdrawal = "pending" /\ withdrawal' = "rejected"
        /\ diamonds' = [diamonds EXCEPT ![Peer] = @ + WithdrawAmount]
        /\ UNCHANGED started
  /\ UNCHANGED <<coins, vipUntil, order, vipOrder, gifts, texts, adjusts, call, giftKey, callbackKey,
                 requests, rest, credits, lapsed, crossed>>

\* change_password: the row was read when the request was authenticated ...
PasswordRead ==
  /\ copy = None /\ Starts
  /\ copy' = [coins |-> coins[Payer], diamonds |-> diamonds[Payer], vipUntil |-> vipUntil]
  /\ UNCHANGED <<row, order, vipOrder, tables, giftKey, callbackKey, try, callback, review,
                 rest, credits, lapsed, crossed>>

\* ... and save() writes every column of it back.
PasswordSave ==
  /\ copy # None /\ copy' = None
  /\ coins' = [coins EXCEPT ![Payer] = copy.coins]
  /\ diamonds' = [diamonds EXCEPT ![Payer] = copy.diamonds]
  /\ vipUntil' = copy.vipUntil
  /\ crossed' = (crossed \/ row' # row)
  /\ UNCHANGED <<order, vipOrder, tables, giftKey, callbackKey, try, callback, review,
                 rest, started, credits, lapsed>>

Next ==
  \/ \E t \in GiftTries : GiftRead(t) \/ GiftKey(t) \/ GiftPay(t)
  \/ \E t \in TextTries : TextRead(t) \/ TextPay(t)
  \/ GiftKeyExpires
  \/ OrderCreate \/ CallbackKey \/ CallbackPay \/ CallbackKeyExpires
  \/ ReviewRead \/ ReviewWrite
  \/ \E o \in VipOrders : VipCreate(o) \/ VipPay(o)
  \/ Tick
  \/ \E u \in Users, asset \in {"coins", "diamonds"}, increase \in BOOLEAN : Adjust(u, asset, increase)
  \/ \E caller, payer \in Users : SettleCall(caller, payer)
  \/ Withdrawal
  \/ PasswordRead \/ PasswordSave

\* The gateway repeats its callback until the order is credited; Redis expires keys.
Fairness ==
  WF_vars(CallbackKey) /\ WF_vars(CallbackPay) /\ WF_vars(CallbackKeyExpires)

Spec == Init /\ [][Next]_vars /\ Fairness

-----------------------------------------------------------------------------
(***************************************************************************)
(* The reports.  A row of the business ledger has the user it belongs to,  *)
(* the user it came from or went to, the asset, whether it is income, and  *)
(* an amount above zero.                                                   *)
(***************************************************************************)
LedgerRow(key, id, user, other, asset, income, amount) ==
  [key |-> key, id |-> id, user |-> user, other |-> other, asset |-> asset, income |-> income,
   amount |-> amount]

AnyOrderCounts == order # "none"                            \* mutant of OrderCounts
OrderCounts    == order = "paid"

RechargeRows ==
  IF OrderCounts THEN {LedgerRow("recharge", 1, Payer, None, "coins", TRUE, OrderAmount)} ELSE {}

Callee == Other(call.caller)

\* The two CASEs of the call's rows: whom the payer paid, and who paid the earner.
PaidTo    == IF call.payer = call.caller THEN Callee ELSE call.caller
EarnedOf  == IF call.payer = call.earner THEN IF call.caller = call.earner THEN Callee ELSE call.caller
             ELSE call.payer

CallRows ==
  IF call = None THEN {} ELSE
    {LedgerRow("call_expense", 1, call.payer, PaidTo, "coins", FALSE, call.total),
     LedgerRow("call_income", 1, call.earner, EarnedOf, "diamonds", TRUE, call.income),
     LedgerRow("call_fee_payer", 1, call.payer, PaidTo, "coins", FALSE, call.payerFee),
     LedgerRow("call_fee_income", 1, call.earner, EarnedOf, "diamonds", FALSE, call.incomeFee)}

GiftRows ==
  UNION {{LedgerRow("gift_expense", g.id, Payer, Peer, "coins", FALSE, GiftPrice),
          LedgerRow("gift_income", g.id, Peer, Payer, "diamonds", TRUE, g.income),
          LedgerRow("gift_fee", g.id, Payer, Peer, "coins", FALSE, g.fee)} : g \in gifts}

TextRows ==
  UNION {{LedgerRow("im_text_expense", t.id, Payer, Peer, "coins", FALSE, TextPrice),
          LedgerRow("im_text_income", t.id, Peer, Payer, "diamonds", TRUE, t.income)} : t \in texts}

\* A withdrawal is listed whatever became of it, a rejected one too.
WithdrawRows ==
  IF withdrawal = "none" THEN {}
  ELSE {LedgerRow("withdraw", 1, Peer, None, "diamonds", FALSE, WithdrawAmount)}

AdjustRows ==
  {LedgerRow("token_adjust", a.id, a.user, None, a.asset, a.increase, AdjustAmount) : a \in adjusts}

\* list_business_ledger with its filters for a user, an asset and a direction.
ListLedger(user, assets, directions) ==
  {r \in RechargeRows \cup CallRows \cup GiftRows \cup TextRows \cup WithdrawRows \cup AdjustRows :
     r.amount > 0 /\ r.user = user /\ r.asset \in assets /\ r.income \in directions}

\* list_app_user_bill builds the same rows of one user from a query per table, and
\* finds the other party in the rows it has read.
BillOfCalls(user) ==
  LET paid   == IF call.caller = user THEN Callee ELSE call.caller
      earned == IF call.payer # user THEN call.payer
                ELSE IF Callee # user THEN Callee ELSE call.caller
  IN  IF call = None THEN {} ELSE
        (IF call.payer = user
         THEN {LedgerRow("call_expense", 1, user, paid, "coins", FALSE, call.total),
               LedgerRow("call_fee_payer", 1, user, paid, "coins", FALSE, call.payerFee)} ELSE {})
        \cup (IF call.earner = user
              THEN {LedgerRow("call_income", 1, user, earned, "diamonds", TRUE, call.income),
                    LedgerRow("call_fee_income", 1, user, earned, "diamonds", FALSE, call.incomeFee)} ELSE {})

BillOfGifts(user) ==
  IF user = Payer
  THEN {LedgerRow("gift_expense", g.id, user, Peer, "coins", FALSE, GiftPrice) : g \in gifts}
       \cup {LedgerRow("gift_fee", g.id, user, Peer, "coins", FALSE, g.fee) : g \in gifts}
  ELSE {LedgerRow("gift_income", g.id, user, Payer, "diamonds", TRUE, g.income) : g \in gifts}

BillOfTexts(user) ==
  IF user = Payer
  THEN {LedgerRow("im_text_expense", t.id, user, Peer, "coins", FALSE, TextPrice) : t \in texts}
  ELSE {LedgerRow("im_text_income", t.id, user, Payer, "diamonds", TRUE, t.income) : t \in texts}

\* Recharges, withdrawals and adjustments have nobody on the other side.
BillOfOthers(user) ==
  (IF user = Payer /\ order = "paid"
   THEN {LedgerRow("recharge", 1, user, None, "coins", TRUE, OrderAmount)} ELSE {})
  \cup (IF user = Peer /\ withdrawal # "none"
        THEN {LedgerRow("withdraw", 1, user, None, "diamonds", FALSE, WithdrawAmount)} ELSE {})
  \cup {LedgerRow("token_adjust", a.id, user, None, a.asset, a.increase, AdjustAmount) :
          a \in {b \in adjusts : b.user = user}}

\* Every query asks for amounts above zero.
UserBill(user) ==
  {r \in BillOfCalls(user) \cup BillOfGifts(user) \cup BillOfTexts(user) \cup BillOfOthers(user) :
     r.amount > 0}

Sum(rows) == SumFunction([r \in rows |-> r.amount])

\* The totals under the bill, of one asset.
BillTotal(user, asset) ==
  LET of(income) == {r \in UserBill(user) : r.asset = asset /\ r.income = income}
  IN  Sum(of(TRUE)) - Sum(of(FALSE))

\* list_fee_bill: the fees of calls and gifts that have a fee status, skipped ones too.
FeeBill ==
  (IF call = None THEN {} ELSE
     {[biz |-> "call", id |-> 1, coins |-> call.payerFee, diamonds |-> call.incomeFee]})
  \cup {[biz |-> "gift", id |-> g.id, coins |-> g.fee, diamonds |-> 0] : g \in {h \in gifts : h.due > 0}}

\* wallet_transactions: the app's own list; the caller's calls as expenses, whoever paid,
\* and gifts received without income as rows of zero.
Transactions(user) ==
  (IF user = Payer /\ order = "paid"
   THEN {LedgerRow("recharge", 1, user, None, "coins", TRUE, OrderAmount)} ELSE {})
  \cup (IF call # None /\ call.caller = user
        THEN {LedgerRow("call_expense", 1, user, Callee, "coins", FALSE, call.total)} ELSE {})
  \cup (IF call # None /\ call.earner = user /\ call.income > 0
        THEN {LedgerRow("call_income", 1, user, IF call.caller = user THEN Callee ELSE call.caller,
                        "diamonds", TRUE, call.income)} ELSE {})
  \cup (IF user = Payer
        THEN {LedgerRow("gift_expense", g.id, user, Peer, "coins", FALSE, GiftPrice) : g \in gifts}
             \cup {LedgerRow("im_text_expense", t.id, user, Peer, "coins", FALSE, TextPrice) : t \in texts}
        ELSE {LedgerRow("gift_income", g.id, user, Payer, "diamonds", TRUE, g.income) : g \in gifts}
             \cup {LedgerRow("im_text_income", t.id, user, Payer, "diamonds", TRUE, t.income) :
                     t \in {x \in texts : x.income > 0}})
  \cup (IF user = Peer /\ withdrawal # "none"
        THEN {LedgerRow("withdraw", 1, user, None, "diamonds", FALSE, WithdrawAmount)} ELSE {})

\* aggregate_board_scores over a period that holds all records: what a user earned
\* (charm) or spent on others (wealth), summed from the three tables of records.
BoardScore(board, user) ==
  LET of(records, amount(_)) == MapThenSumSet(amount, records)
      calls == IF call = None THEN {} ELSE {call}
  IN  IF board = "charm"
      THEN of({c \in calls : c.earner = user}, LAMBDA c : c.income)
           + (IF user = Peer THEN of(gifts, LAMBDA g : g.income) + of(texts, LAMBDA t : t.income) ELSE 0)
      ELSE of({c \in calls : c.payer = user}, LAMBDA c : c.total)
           + (IF user = Payer THEN GiftPrice * Cardinality(gifts) + TextPrice * Cardinality(texts) ELSE 0)

-----------------------------------------------------------------------------
\* Types; a balance is never negative, whatever runs at the same time.
TypeOK ==
  /\ coins \in [Users -> Nat] /\ diamonds \in [Users -> Nat] /\ vipUntil \in Nat
  /\ order \in {"none", "pending", "paid"}
  /\ vipOrder \in [VipOrders -> {"none", "pending", "paid"}]
  /\ withdrawal \in {"none", "pending", "paid", "rejected"}
  /\ \A t \in DOMAIN try : try[t].pc \in {"new", "key", "pay", "sent", "refused"}
  /\ callback \in {"idle", "pay"} /\ review \in {"idle", "write"}
  /\ credits \in Nat /\ vipUsed \in 0..MaxDay

Refunded(u) == IF u = Peer /\ withdrawal = "rejected" THEN WithdrawAmount ELSE 0

\* The administration's ledger explains every balance: what it lists as income less
\* what it lists as expense is what the user has, but for the rejected withdrawals,
\* which it goes on listing.  Holds until a whole row or an order is written from a
\* stale read.
LedgerExplains ==
  crossed \/
  \A u \in Users :
    /\ coins[u] = Start + Sum(ListLedger(u, {"coins"}, {TRUE})) - Sum(ListLedger(u, {"coins"}, {FALSE}))
    /\ diamonds[u] = Refunded(u) + Sum(ListLedger(u, {"diamonds"}, {TRUE}))
                                 - Sum(ListLedger(u, {"diamonds"}, {FALSE}))

\* A text is charged once per request, a gift is sent once per request while its key
\* lives, and an order is credited once unless mark_paid acted on a stale read; the days
\* of VIP enjoyed and still to come are those of the paid orders, whenever they are paid.
CountedOnce ==
  /\ Cardinality(texts) <= 1
  /\ lapsed \/ Cardinality(gifts) <= 1
  /\ crossed \/ credits <= 1
  /\ crossed \/ vipUsed + Max({vipUntil - now, 0})
                  = VipDays * Cardinality({o \in VipOrders : vipOrder[o] = "paid"})

\* The reports tell the same story: a user's bill is the user's part of the ledger,
\* counterparts and totals included, the fee bill sums to the ledger's fees, the boards rank by what the
\* ledger lists as income of, and expense on, other users, and the app's own list, but for
\* rows of zero, is the ledger without fees and adjustments, if the caller paid the call.
ReportsAgree ==
  LET ledger(u)  == ListLedger(u, {"coins", "diamonds"}, BOOLEAN)
      ofKeys(keys) == {r \in ledger(Payer) \cup ledger(Peer) : r.key \in keys}
  IN  /\ \A u \in Users :
           /\ UserBill(u) = ledger(u)
           /\ crossed \/ coins[u] = Start + BillTotal(u, "coins")
           /\ call = None \/ call.caller = call.payer =>
                {r \in Transactions(u) : r.amount > 0} = {r \in ledger(u) :
                  r.key \notin {"gift_fee", "call_fee_payer", "call_fee_income", "token_adjust"}}
           /\ BoardScore("charm", u) =
                Sum({r \in ledger(u) : r.key \in {"call_income", "gift_income", "im_text_income"}})
           /\ BoardScore("wealth", u) =
                Sum({r \in ledger(u) : r.key \in {"call_expense", "gift_expense", "im_text_expense"}})
      /\ MapThenSumSet(LAMBDA f : f.coins, FeeBill) = Sum(ofKeys({"gift_fee", "call_fee_payer"}))
      /\ MapThenSumSet(LAMBDA f : f.diamonds, FeeBill) = Sum(ofKeys({"call_fee_income"}))

\* The key of a callback is taken before its transaction and kept when that fails, so
\* that the gateway is refused for an hour: an order it keeps reporting is still credited.
OrderIsCredited == order = "pending" ~> order = "paid"
=============================================================================
