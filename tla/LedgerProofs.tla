---------------------------- MODULE LedgerProofs -----------------------------
(***************************************************************************)
(* Proofs about TokenLedger: no balance is ever negative, what is sold or  *)
(* sent is counted once, the administration's ledger explains every        *)
(* balance, and the other reports agree with it.  The ledger is a query    *)
(* over six tables; the argument is that whatever moves coins or diamonds  *)
(* adds the rows that say so, and rows that the query did not have before. *)
(* The other reports sum or list records of the same tables, row by row.   *)
(***************************************************************************)
EXTENDS TokenLedger, SumProofs

-----------------------------------------------------------------------------
(***************************************************************************)
(* The rows, types and records.                                            *)
(***************************************************************************)
Tries   == GiftTries \cup TextTries
Try     == [pc : {"new", "key", "pay", "sent", "refused"}, affords : BOOLEAN, income : Nat]
Gift    == [id : GiftTries, income : Nat, due : Nat, fee : Nat]
Text    == [id : TextTries, income : Nat]
Adjusts == [id : Nat, user : Users, asset : {"coins", "diamonds"}, increase : BOOLEAN]
Copies  == [coins : Nat, diamonds : Nat, vipUntil : Nat]

(***************************************************************************)
(* Every variable has its type, each record belongs to a request that was  *)
(* granted, and an adjustment to an operation that has begun.              *)
(***************************************************************************)
FlagsOK == /\ lapsed \in BOOLEAN /\ crossed \in BOOLEAN
           /\ giftKey \in BOOLEAN /\ callbackKey \in BOOLEAN

CountersOK == /\ now \in Nat /\ vipUsed \in Nat /\ vipUsed <= now /\ now <= MaxDay
              /\ started \in Nat /\ failures \in Nat

RequestsOK == /\ try \in [Tries -> Try]
              /\ copy # None => copy \in Copies

TablesOK == /\ gifts \subseteq Gift /\ \A g \in gifts : try[g.id].pc = "sent"
            /\ texts \subseteq Text
            /\ adjusts \subseteq Adjusts /\ \A a \in adjusts : a.id < started
            /\ call = None \/ call \in Settlements

RecordsOK == TypeOK /\ FlagsOK /\ CountersOK /\ RequestsOK /\ TablesOK

(***************************************************************************)
(* While its key lives, one request for a gift at most is let through, and *)
(* it is the only one to have a record.                                    *)
(***************************************************************************)
Granted(t) == try[t].pc \in {"pay", "sent"}

OneGift ==
  /\ \A g, h \in gifts : g.id = h.id => g = h
  /\ ~lapsed => /\ \A t \in GiftTries : Granted(t) => giftKey
                /\ \A s, t \in GiftTries : Granted(s) /\ Granted(t) => s = t

OneText   == \A s, t \in texts : s = t
OneCredit == ~crossed => credits = IF order = "paid" THEN 1 ELSE 0

Paid      == {o \in VipOrders : vipOrder[o] = "paid"}
Left      == IF vipUntil > now THEN vipUntil - now ELSE 0
VipIsPaid == IsFiniteSet(Paid) /\ (~crossed => vipUsed + Left = VipDays * Cardinality(Paid))

CountInv == OneGift /\ OneText /\ OneCredit /\ VipIsPaid

-----------------------------------------------------------------------------
(***************************************************************************)
(* The rows of all tables, those that a query keeps, and what they come    *)
(* to.                                                                     *)
(***************************************************************************)
Rows == RechargeRows \cup CallRows \cup GiftRows \cup TextRows \cup WithdrawRows \cup AdjustRows

Of(r, u, a)     == r.amount > 0 /\ r.user = u /\ r.asset = a
Gain(r)         == r.income = TRUE
Loss(r)         == r.income = FALSE
In(rows, u, a)  == {r \in rows : Of(r, u, a) /\ Gain(r)}
Out(rows, u, a) == {r \in rows : Of(r, u, a) /\ Loss(r)}

Net(rows, u, a) == Sum(In(rows, u, a)) - Sum(Out(rows, u, a))

\* What one row adds to the balance of u in the asset a.
Signed(r, u, a) ==
  IF r.user = u /\ r.asset = a THEN IF r.income THEN r.amount ELSE -r.amount ELSE 0

IsRow(r)      == r.amount \in Nat /\ r.income \in BOOLEAN
Listing(rows) == IsFiniteSet(rows) /\ \A r \in rows : IsRow(r)

\* new is what old becomes when the row r is added.
Adds(old, r, new) ==
  /\ Listing(new)
  /\ \A u, a : Net(old, u, a) \in Int /\ Net(new, u, a) = Net(old, u, a) + Signed(r, u, a)

Books == \A u \in Users : /\ coins[u] = Start + Net(Rows, u, "coins")
                          /\ diamonds[u] = Refunded(u) + Net(Rows, u, "diamonds")

LedgerInv == ~crossed => Listing(Rows) /\ Books

-----------------------------------------------------------------------------
(* Types and records *)

\* The amounts and bounds are numbers.
LEMMA Amounts ==
  /\ Start \in Nat /\ GiftIncome \in Nat /\ GiftFee \in Nat /\ TextIncome \in Nat
  /\ CallIncome \in Nat /\ CallServiceFee \in Nat /\ CallServiceFee <= CallIncome
  /\ GiftPrice \in Nat /\ TextPrice \in Nat /\ OrderAmount \in Nat /\ CallFee \in Nat
  /\ WithdrawAmount \in Nat /\ AdjustAmount \in Nat /\ VipDays \in Nat
  /\ MaxStarted \in Nat /\ MaxFailures \in Nat /\ MaxDay \in Nat
  BY AmountsAreNat, BoundsAreNat

\* The greater of two numbers.
LEMMA MaxOfTwo == \A a, b \in Int : Max({a, b}) = IF a >= b THEN a ELSE b
<1> SUFFICES ASSUME NEW a \in Int, NEW b \in Int
             PROVE  Max({a, b}) = IF a >= b THEN a ELSE b
  OBVIOUS
<1>1. \E x \in {a, b} : \A y \in {a, b} : x >= y
  OBVIOUS
<1>2. Max({a, b}) \in {a, b} /\ \A y \in {a, b} : Max({a, b}) >= y
  BY <1>1 DEF Max
<1>3. QED
  BY <1>2

\* Records stay what they were while no request that was granted moves.
LEMMA TablesStay ==
  ASSUME TablesOK, RequestsOK, UNCHANGED <<gifts, texts, adjusts, call>>,
         started \in Nat, started' \in Nat, started' >= started,
         \A t \in Tries : try[t].pc = "sent" => try'[t].pc = "sent"
  PROVE  TablesOK'
  BY DEF TablesOK, Gift, Tries, Adjusts

\* The types stay those they were where only balances and requests move.
LEMMA TypesStay ==
  ASSUME TypeOK, RequestsOK', coins' \in [Users -> Nat], diamonds' \in [Users -> Nat],
         UNCHANGED <<vipUntil, order, vipOrder, withdrawal, callback, review, credits, vipUsed>>
  PROVE  TypeOK'
  BY DEF TypeOK, RequestsOK, Try

\* A request whose counter moves keeps what it has read.
LEMMA TryMoves ==
  ASSUME RecordsOK, NEW t \in Tries, NEW p \in {"key", "pay", "sent", "refused"},
         try' = [try EXCEPT ![t].pc = p]
  PROVE  /\ try' \in [Tries -> Try] /\ try'[t].pc = p
         /\ \A s \in Tries \ {t} : try'[s] = try[s]
<1>1. try[t] \in Try
  BY DEF RecordsOK, RequestsOK
<1>2. [try[t] EXCEPT !.pc = p] \in Try /\ [try[t] EXCEPT !.pc = p].pc = p
  BY <1>1 DEF Try
<1>3. try' = [try EXCEPT ![t] = [try[t] EXCEPT !.pc = p]]
  OBVIOUS
<1>4. QED
  BY <1>2, <1>3 DEF RecordsOK, RequestsOK

\* A request that has read its rows.
LEMMA TryReads ==
  ASSUME RecordsOK, NEW t \in Tries, NEW v \in Try, try' = [try EXCEPT ![t] = v]
  PROVE  /\ try' \in [Tries -> Try] /\ try'[t] = v
         /\ \A s \in Tries \ {t} : try'[s] = try[s]
  BY DEF RecordsOK, RequestsOK

(***************************************************************************)
(* Every step keeps the types; a balance is taken from only after a check  *)
(* in the same transaction, and a record goes with the request it is of.   *)
(***************************************************************************)
THEOREM LedgerTypes == Spec => []RecordsOK
<1> USE Amounts, TwoUsers
<1>1. Init => RecordsOK
  <2> SUFFICES ASSUME Init
               PROVE  RecordsOK
    OBVIOUS
  <2>1. Idle \in Try /\ Idle.pc = "new"
    BY DEF Idle, Try
  <2>2. try = [t \in Tries |-> Idle]
    BY DEF Init, Tries
  <2>3. RequestsOK /\ \A t \in DOMAIN try : try[t].pc = "new"
    BY <2>1, <2>2 DEF RequestsOK, Init
  <2>4. TypeOK
    BY <2>3 DEF Init, TypeOK
  <2>5. TablesOK
    BY DEF Init, TablesOK
  <2>6. FlagsOK
    BY Zenon DEF Init, FlagsOK
  <2>7. CountersOK
    BY DEF Init, CountersOK
  <2>8. QED
    BY <2>3, <2>4, <2>5, <2>6, <2>7 DEF RecordsOK
<1>2. RecordsOK /\ [Next]_vars => RecordsOK'
  <2> SUFFICES ASSUME RecordsOK, [Next]_vars
               PROVE  RecordsOK'
    OBVIOUS
  <2>1. ASSUME NEW t \in GiftTries, GiftRead(t)
       PROVE  RecordsOK'
    <3>1. FlagsOK' /\ CountersOK'
      BY <2>1 DEF GiftRead, row, tables, requests, rest, Starts, Fails, RecordsOK, FlagsOK, CountersOK
    <3>2. \E v \in Try : try' = [try EXCEPT ![t] = v]
      <4>1. PICK income \in {0, GiftIncome} :
                 try' = [try EXCEPT ![t] = [pc |-> "key", affords |-> coins[Payer] >= GiftPrice,
                                            income |-> income]]
        BY <2>1 DEF GiftRead
      <4>2. (coins[Payer] >= GiftPrice) \in BOOLEAN
        OBVIOUS
      <4>3. [pc |-> "key", affords |-> coins[Payer] >= GiftPrice, income |-> income] \in Try
        BY <4>2 DEF Try
      <4>4. QED
        BY <4>1, <4>3
    <3>3. RequestsOK'
      BY <3>2, TryReads, <2>1 DEF GiftRead, Tries, requests, RecordsOK, RequestsOK
    <3>4. \A s \in Tries : try[s].pc = "sent" => try'[s].pc = "sent"
      BY <3>2, TryReads, <2>1 DEF GiftRead, Tries
    <3>5. TypeOK'
      BY <3>3, TypesStay, <2>1 DEF GiftRead, row, tables, requests, rest, RecordsOK, TypeOK
    <3>6. TablesOK'
      BY <3>1, TablesStay, <3>4, <2>1 DEF GiftRead, row, tables, requests, rest, Starts, Fails, RecordsOK, CountersOK
    <3>7. QED
      BY <3>1, <3>3, <3>5, <3>6 DEF RecordsOK
  <2>2. ASSUME NEW t \in GiftTries, GiftKey(t)
       PROVE  RecordsOK'
    <3>1. FlagsOK' /\ CountersOK'
      <4>1. FlagsOK'
        BY <2>2, Zenon DEF GiftKey, RecordsOK, FlagsOK
      <4>2. CountersOK'
        BY <2>2 DEF GiftKey, rest, Fails, RecordsOK, CountersOK
      <4>3. QED
        BY <4>1, <4>2
    <3>2. \E p \in {"key", "pay", "sent", "refused"} : try' = [try EXCEPT ![t].pc = p]
      BY <2>2 DEF GiftKey, row, tables, requests, rest, Starts, Fails, RecordsOK
    <3>3. RequestsOK'
      BY <3>2, TryMoves, <2>2 DEF GiftKey, Tries, requests, RecordsOK, RequestsOK
    <3>4. \A s \in Tries : try[s].pc = "sent" => try'[s].pc = "sent"
      BY <3>2, TryMoves, <2>2 DEF GiftKey, Tries
    <3>5. TypeOK'
      BY <3>3, TypesStay, <2>2 DEF GiftKey, row, tables, requests, rest, RecordsOK, TypeOK
    <3>6. TablesOK'
      BY <3>1, TablesStay, <3>4, <2>2 DEF GiftKey, row, tables, requests, rest, Starts, Fails, RecordsOK, CountersOK
    <3>7. QED
      BY <3>1, <3>3, <3>5, <3>6 DEF RecordsOK
  <2>3. ASSUME NEW t \in GiftTries, GiftPay(t)
       PROVE  RecordsOK'
    <3>1. FlagsOK' /\ CountersOK'
      BY <2>3 DEF GiftPay, row, tables, requests, rest, Starts, Fails, RecordsOK, FlagsOK, CountersOK
    <3>2. \E p \in {"key", "pay", "sent", "refused"} : try' = [try EXCEPT ![t].pc = p]
      BY <2>3 DEF GiftPay, row, tables, requests, rest, Starts, Fails, RecordsOK
    <3>3. RequestsOK'
      BY <3>2, TryMoves, <2>3 DEF GiftPay, Tries, requests, RecordsOK, RequestsOK
    <3>4. \A s \in Tries : try[s].pc = "sent" => try'[s].pc = "sent"
      BY <3>2, TryMoves, <2>3 DEF GiftPay, Tries
    <3>5. TypeOK'
      <4>1. try[t] \in Try /\ try[t].income \in Nat
        BY DEF RecordsOK, RequestsOK, Tries, Try
      <4>2. coins' \in [Users -> Nat] /\ diamonds' \in [Users -> Nat]
        BY <4>1, <2>3 DEF GiftPay, Enough, FeeTaken, RecordsOK, TypeOK, Users
      <4>3. QED
        BY <3>3, <4>2, TypesStay, <2>3 DEF GiftPay, rest, RecordsOK
    <3>6. TablesOK'
      <4>1. CASE UNCHANGED gifts
        BY <4>1, <3>1, <3>4, TablesStay, <2>3 DEF GiftPay, rest, RecordsOK, CountersOK
      <4>2. ASSUME NEW due \in {0, GiftFee}, NEW fee, fee = FeeTaken(coins[Payer] - GiftPrice, due),
                   gifts' = gifts \cup {[id |-> t, income |-> try[t].income, due |-> due, fee |-> fee]},
                   try' = [try EXCEPT ![t].pc = "sent"]
            PROVE  TablesOK'
        <5> DEFINE g == [id |-> t, income |-> try[t].income, due |-> due, fee |-> fee]
        <5>1. try[t] \in Try /\ try[t].income \in Nat
          BY DEF RecordsOK, RequestsOK, Tries, Try
        <5>2. fee \in Nat
          BY <4>2 DEF FeeTaken
        <5>3. g \in Gift /\ g.id = t
          BY <5>1, <5>2 DEF Gift
        <5>4. try'[t].pc = "sent"
          BY <4>2, TryMoves DEF Tries
        <5>5. \A h \in gifts' : h \in Gift /\ try'[h.id].pc = "sent"
          BY <5>3, <5>4, <4>2, <3>4 DEF RecordsOK, TablesOK, Gift, Tries
        <5>6. QED
          BY <5>5, <2>3 DEF GiftPay, RecordsOK, TablesOK
      <4>3. QED
        BY <4>1, <4>2, <2>3 DEF GiftPay
    <3>7. QED
      BY <3>1, <3>3, <3>5, <3>6 DEF RecordsOK
  <2>4. ASSUME NEW t \in TextTries, TextRead(t)
       PROVE  RecordsOK'
    <3>1. FlagsOK' /\ CountersOK'
      BY <2>4 DEF TextRead, row, tables, requests, rest, Starts, Fails, RecordsOK, FlagsOK, CountersOK
    <3>2. \E v \in Try : try' = [try EXCEPT ![t] = v]
      <4>1. CASE texts # {} \/ IsVip
        <5>1. try' = [try EXCEPT ![t] = [try[t] EXCEPT !.pc = "sent"]]
          BY <2>4, <4>1 DEF TextRead
        <5>2. try[t] \in Try
          BY DEF RecordsOK, RequestsOK, Tries
        <5>3. [try[t] EXCEPT !.pc = "sent"] \in Try
          BY <5>2 DEF Try
        <5>4. QED
          BY <5>1, <5>3
      <4>2. CASE ~(texts # {} \/ IsVip)
        <5>1. PICK income \in {0, TextIncome} :
                   try' = [try EXCEPT ![t] = [pc |-> "pay", affords |-> FALSE, income |-> income]]
          BY <2>4, <4>2 DEF TextRead
        <5>2. [pc |-> "pay", affords |-> FALSE, income |-> income] \in Try
          BY DEF Try
        <5>3. QED
          BY <5>1, <5>2
      <4>3. QED
        BY <4>1, <4>2
    <3>3. RequestsOK'
      BY <3>2, TryReads, <2>4 DEF TextRead, Tries, requests, RecordsOK, RequestsOK
    <3>4. \A s \in Tries : try[s].pc = "sent" => try'[s].pc = "sent"
      BY <3>2, TryReads, <2>4 DEF TextRead, Tries
    <3>5. TypeOK'
      BY <3>3, TypesStay, <2>4 DEF TextRead, row, tables, requests, rest, RecordsOK, TypeOK
    <3>6. TablesOK'
      BY <3>1, TablesStay, <3>4, <2>4 DEF TextRead, row, tables, requests, rest, Starts, Fails, RecordsOK, CountersOK
    <3>7. QED
      BY <3>1, <3>3, <3>5, <3>6 DEF RecordsOK
  <2>5. ASSUME NEW t \in TextTries, TextPay(t)
       PROVE  RecordsOK'
    <3>1. FlagsOK' /\ CountersOK'
      BY <2>5 DEF TextPay, row, tables, requests, rest, Starts, Fails, RecordsOK, FlagsOK, CountersOK
    <3>2. \E p \in {"key", "pay", "sent", "refused"} : try' = [try EXCEPT ![t].pc = p]
      BY <2>5 DEF TextPay, row, tables, requests, rest, Starts, Fails, RecordsOK
    <3>3. RequestsOK'
      BY <3>2, TryMoves, <2>5 DEF TextPay, Tries, requests, RecordsOK, RequestsOK
    <3>4. \A s \in Tries : try[s].pc = "sent" => try'[s].pc = "sent"
      BY <3>2, TryMoves, <2>5 DEF TextPay, Tries
    <3>5. TypeOK'
      <4>1. try[t] \in Try /\ try[t].income \in Nat
        BY DEF RecordsOK, RequestsOK, Tries, Try
      <4>2. coins' \in [Users -> Nat] /\ diamonds' \in [Users -> Nat]
        BY <4>1, <2>5 DEF TextPay, Enough, RecordsOK, TypeOK, Users
      <4>3. QED
        BY <3>3, <4>2, TypesStay, <2>5 DEF TextPay, rest, RecordsOK
    <3>6. TablesOK'
      <4>1. CASE UNCHANGED texts
        BY <4>1, <3>1, <3>4, TablesStay, <2>5 DEF TextPay, rest, RecordsOK, CountersOK
      <4>2. CASE texts' = texts \cup {[id |-> t, income |-> try[t].income]}
        <5>1. try[t] \in Try /\ try[t].income \in Nat
          BY DEF RecordsOK, RequestsOK, Tries, Try
        <5>2. [id |-> t, income |-> try[t].income] \in Text
          BY <5>1 DEF Text
        <5>3. \A g \in gifts : try'[g.id].pc = "sent"
          BY <3>4 DEF RecordsOK, TablesOK, Gift, Tries
        <5>4. QED
          BY <5>2, <5>3, <4>2, <2>5 DEF TextPay, RecordsOK, TablesOK
      <4>3. QED
        BY <4>1, <4>2, <2>5 DEF TextPay
    <3>7. QED
      BY <3>1, <3>3, <3>5, <3>6 DEF RecordsOK
  <2>6. CASE GiftKeyExpires
    <3>1. FlagsOK' /\ CountersOK'
      BY <2>6 DEF GiftKeyExpires, row, tables, requests, rest, Starts, Fails, RecordsOK, FlagsOK, CountersOK
    <3>2. RequestsOK'
      BY <2>6 DEF GiftKeyExpires, row, tables, requests, rest, Starts, Fails, RecordsOK, RequestsOK
    <3>3. TypeOK'
      BY <2>6 DEF GiftKeyExpires, row, tables, requests, rest, Starts, Fails, RecordsOK, RequestsOK, TypeOK
    <3>4. TablesOK'
      BY <3>1, TablesStay, <2>6 DEF GiftKeyExpires, row, tables, requests, rest, Starts, Fails, RecordsOK, CountersOK
    <3>5. QED
      BY <3>1, <3>2, <3>3, <3>4 DEF RecordsOK
  <2>7. CASE OrderCreate
    <3>1. FlagsOK' /\ CountersOK'
      BY <2>7 DEF OrderCreate, row, tables, requests, rest, Starts, Fails, RecordsOK, FlagsOK, CountersOK
    <3>2. RequestsOK'
      BY <2>7 DEF OrderCreate, row, tables, requests, rest, Starts, Fails, RecordsOK, RequestsOK
    <3>3. TypeOK'
      BY <2>7 DEF OrderCreate, row, tables, requests, rest, Starts, Fails, RecordsOK, RequestsOK, TypeOK
    <3>4. TablesOK'
      BY <3>1, TablesStay, <2>7 DEF OrderCreate, row, tables, requests, rest, Starts, Fails, RecordsOK, CountersOK
    <3>5. QED
      BY <3>1, <3>2, <3>3, <3>4 DEF RecordsOK
  <2>8. CASE CallbackKey
    <3>1. FlagsOK' /\ CountersOK'
      <4>1. FlagsOK'
        BY <2>8, Zenon DEF CallbackKey, RecordsOK, FlagsOK
      <4>2. CountersOK'
        BY <2>8 DEF CallbackKey, rest, Fails, RecordsOK, CountersOK
      <4>3. QED
        BY <4>1, <4>2
    <3>2. RequestsOK'
      BY <2>8 DEF CallbackKey, row, tables, requests, rest, Starts, Fails, RecordsOK, RequestsOK
    <3>3. TypeOK'
      BY <2>8 DEF CallbackKey, row, tables, requests, rest, Starts, Fails, RecordsOK, RequestsOK, TypeOK
    <3>4. TablesOK'
      BY <3>1, TablesStay, <2>8 DEF CallbackKey, row, tables, requests, rest, Starts, Fails, RecordsOK, CountersOK
    <3>5. QED
      BY <3>1, <3>2, <3>3, <3>4 DEF RecordsOK
  <2>9. CASE CallbackPay
    <3>1. FlagsOK' /\ CountersOK'
      BY <2>9 DEF CallbackPay, row, tables, requests, rest, Starts, Fails, RecordsOK, FlagsOK, CountersOK
    <3>2. RequestsOK'
      BY <2>9 DEF CallbackPay, row, tables, requests, rest, Starts, Fails, RecordsOK, RequestsOK
    <3>3. TypeOK'
      BY <2>9 DEF CallbackPay, row, tables, requests, rest, Starts, Fails, RecordsOK, RequestsOK, TypeOK
    <3>4. TablesOK'
      BY <3>1, TablesStay, <2>9 DEF CallbackPay, row, tables, requests, rest, Starts, Fails, RecordsOK, CountersOK
    <3>5. QED
      BY <3>1, <3>2, <3>3, <3>4 DEF RecordsOK
  <2>10. CASE CallbackKeyExpires
    <3>1. FlagsOK' /\ CountersOK'
      BY <2>10 DEF CallbackKeyExpires, row, tables, requests, rest, Starts, Fails, RecordsOK, FlagsOK, CountersOK
    <3>2. RequestsOK'
      BY <2>10 DEF CallbackKeyExpires, row, tables, requests, rest, Starts, Fails, RecordsOK, RequestsOK
    <3>3. TypeOK'
      BY <2>10 DEF CallbackKeyExpires, row, tables, requests, rest, Starts, Fails, RecordsOK, RequestsOK, TypeOK
    <3>4. TablesOK'
      BY <3>1, TablesStay, <2>10 DEF CallbackKeyExpires, row, tables, requests, rest, Starts, Fails, RecordsOK, CountersOK
    <3>5. QED
      BY <3>1, <3>2, <3>3, <3>4 DEF RecordsOK
  <2>11. CASE ReviewRead
    <3>1. FlagsOK' /\ CountersOK'
      BY <2>11 DEF ReviewRead, row, tables, requests, rest, Starts, Fails, RecordsOK, FlagsOK, CountersOK
    <3>2. RequestsOK'
      BY <2>11 DEF ReviewRead, row, tables, requests, rest, Starts, Fails, RecordsOK, RequestsOK
    <3>3. TypeOK'
      BY <2>11 DEF ReviewRead, row, tables, requests, rest, Starts, Fails, RecordsOK, RequestsOK, TypeOK
    <3>4. TablesOK'
      BY <3>1, TablesStay, <2>11 DEF ReviewRead, row, tables, requests, rest, Starts, Fails, RecordsOK, CountersOK
    <3>5. QED
      BY <3>1, <3>2, <3>3, <3>4 DEF RecordsOK
  <2>12. CASE ReviewWrite
    <3>1. FlagsOK' /\ CountersOK'
      BY <2>12 DEF ReviewWrite, row, tables, requests, rest, Starts, Fails, RecordsOK, FlagsOK, CountersOK
    <3>2. RequestsOK'
      BY <2>12 DEF ReviewWrite, row, tables, requests, rest, Starts, Fails, RecordsOK, RequestsOK
    <3>3. TypeOK'
      <4>1. coins' \in [Users -> Nat]
        BY <2>12 DEF ReviewWrite, RecordsOK, TypeOK, Users
      <4>2. credits' \in Nat /\ order' = "paid" /\ review' = "idle"
        BY <2>12 DEF ReviewWrite, RecordsOK, TypeOK
      <4>3. QED
        BY <3>2, <4>1, <4>2, <2>12 DEF ReviewWrite, tables, rest, RecordsOK, TypeOK
    <3>4. TablesOK'
      BY <3>1, TablesStay, <2>12 DEF ReviewWrite, row, tables, requests, rest, Starts, Fails, RecordsOK, CountersOK
    <3>5. QED
      BY <3>1, <3>2, <3>3, <3>4 DEF RecordsOK
  <2>13. ASSUME NEW o \in VipOrders, VipCreate(o)
       PROVE  RecordsOK'
    <3>1. FlagsOK' /\ CountersOK'
      BY <2>13 DEF VipCreate, row, tables, requests, rest, Starts, Fails, RecordsOK, FlagsOK, CountersOK
    <3>2. RequestsOK'
      BY <2>13 DEF VipCreate, row, tables, requests, rest, Starts, Fails, RecordsOK, RequestsOK
    <3>3. TypeOK'
      BY <2>13 DEF VipCreate, row, tables, requests, rest, Starts, Fails, RecordsOK, RequestsOK, TypeOK
    <3>4. TablesOK'
      BY <3>1, TablesStay, <2>13 DEF VipCreate, row, tables, requests, rest, Starts, Fails, RecordsOK, CountersOK
    <3>5. QED
      BY <3>1, <3>2, <3>3, <3>4 DEF RecordsOK
  <2>14. ASSUME NEW o \in VipOrders, VipPay(o)
       PROVE  RecordsOK'
    <3>1. FlagsOK' /\ CountersOK'
      BY <2>14 DEF VipPay, row, tables, requests, rest, Starts, Fails, RecordsOK, FlagsOK, CountersOK
    <3>2. RequestsOK'
      BY <2>14 DEF VipPay, row, tables, requests, rest, Starts, Fails, RecordsOK, RequestsOK
    <3>3. TypeOK'
      <4>1. vipUntil' \in Nat
        BY <2>14, MaxOfTwo DEF VipPay, NextVipUntil, RecordsOK, TypeOK, CountersOK
      <4>2. vipOrder' \in [VipOrders -> {"none", "pending", "paid"}]
        BY <2>14 DEF VipPay, RecordsOK, TypeOK
      <4>3. QED
        BY <4>1, <4>2, <2>14 DEF VipPay, tables, requests, rest, RecordsOK, TypeOK
    <3>4. TablesOK'
      BY <3>1, TablesStay, <2>14 DEF VipPay, row, tables, requests, rest, Starts, Fails, RecordsOK, CountersOK
    <3>5. QED
      BY <3>1, <3>2, <3>3, <3>4 DEF RecordsOK
  <2>15. CASE Tick
    <3>1. FlagsOK' /\ CountersOK'
      BY <2>15 DEF Tick, row, tables, requests, rest, Starts, Fails, RecordsOK, FlagsOK, CountersOK
    <3>2. RequestsOK'
      BY <2>15 DEF Tick, row, tables, requests, rest, Starts, Fails, RecordsOK, RequestsOK
    <3>3. TypeOK'
      <4>1. vipUsed' \in 0 .. MaxDay
        BY <3>1 DEF CountersOK
      <4>2. QED
        BY <4>1, <2>15 DEF Tick, row, tables, requests, RecordsOK, TypeOK
    <3>4. TablesOK'
      BY <3>1, TablesStay, <2>15 DEF Tick, row, tables, requests, rest, Starts, Fails, RecordsOK, CountersOK
    <3>5. QED
      BY <3>1, <3>2, <3>3, <3>4 DEF RecordsOK
  <2>16. ASSUME NEW u \in Users, NEW asset \in {"coins", "diamonds"}, NEW increase \in BOOLEAN,
              Adjust(u, asset, increase)
       PROVE  RecordsOK'
    <3>1. FlagsOK' /\ CountersOK'
      BY <2>16 DEF Adjust, row, tables, requests, rest, Starts, Fails, RecordsOK, FlagsOK, CountersOK
    <3>2. RequestsOK'
      BY <2>16 DEF Adjust, row, tables, requests, rest, Starts, Fails, RecordsOK, RequestsOK
    <3>3. TypeOK'
      <4>1. coins' \in [Users -> Nat] /\ diamonds' \in [Users -> Nat]
        BY <2>16 DEF Adjust, Enough, RecordsOK, TypeOK
      <4>2. QED
        BY <3>2, <4>1, TypesStay, <2>16 DEF Adjust, requests, rest, RecordsOK
    <3>4. TablesOK'
      <4> DEFINE a == [id |-> started, user |-> u, asset |-> asset, increase |-> increase]
      <4>1. a \in Adjusts /\ a.id = started
        BY DEF Adjusts, RecordsOK, CountersOK
      <4>2. adjusts' = adjusts \cup {a} /\ started' = started + 1 /\ UNCHANGED <<gifts, texts, call, try>>
        BY <2>16 DEF Adjust, Starts, requests
      <4>3. \A b \in adjusts' : b \in Adjusts /\ b.id < started'
        BY <4>1, <4>2 DEF RecordsOK, TablesOK, CountersOK, Adjusts
      <4>4. QED
        BY <4>2, <4>3 DEF RecordsOK, TablesOK
    <3>5. QED
      BY <3>1, <3>2, <3>3, <3>4 DEF RecordsOK
  <2>17. ASSUME NEW caller \in Users, NEW payer \in Users, SettleCall(caller, payer)
       PROVE  RecordsOK'
    <3>1. FlagsOK' /\ CountersOK'
      BY <2>17 DEF SettleCall, row, tables, requests, rest, Starts, Fails, RecordsOK, FlagsOK, CountersOK
    <3>2. RequestsOK'
      BY <2>17 DEF SettleCall, row, tables, requests, rest, Starts, Fails, RecordsOK, RequestsOK
    <3>3. TypeOK'
      <4>1. PICK payerFee, incomeFee \in {0, CallServiceFee} :
                 /\ Enough(payer, CallFee + payerFee)
                 /\ coins' = [coins EXCEPT ![payer] = @ - CallFee - payerFee]
                 /\ diamonds' = [diamonds EXCEPT ![Other(payer)] = @ + CallIncome - incomeFee]
        BY <2>17 DEF SettleCall
      <4>2. coins' \in [Users -> Nat]
        BY <4>1 DEF Enough, RecordsOK, TypeOK
      <4>3. Other(payer) \in Users /\ CallIncome - incomeFee \in Nat
        BY DEF Other, Users
      <4>4. diamonds' \in [Users -> Nat]
        BY <4>1, <4>3 DEF RecordsOK, TypeOK
      <4>5. QED
        BY <3>2, <4>2, <4>4, TypesStay, <2>17 DEF SettleCall, requests, rest, RecordsOK
    <3>4. TablesOK'
      <4>1. call' \in Settlements
        BY <2>17 DEF SettleCall, Settlements, Other, Users
      <4>2. UNCHANGED <<gifts, texts, adjusts, try>> /\ started' = started + 1
        BY <2>17 DEF SettleCall, Starts, requests
      <4>3. QED
        BY <4>1, <4>2 DEF RecordsOK, TablesOK, CountersOK, Adjusts
    <3>5. QED
      BY <3>1, <3>2, <3>3, <3>4 DEF RecordsOK
  <2>18. CASE Withdrawal
    <3>1. FlagsOK' /\ CountersOK'
      BY <2>18 DEF Withdrawal, row, tables, requests, rest, Starts, Fails, RecordsOK, FlagsOK, CountersOK
    <3>2. RequestsOK'
      BY <2>18 DEF Withdrawal, row, tables, requests, rest, Starts, Fails, RecordsOK, RequestsOK
    <3>3. TypeOK'
      BY <2>18 DEF Withdrawal, row, tables, requests, rest, Starts, Fails, RecordsOK, RequestsOK, TypeOK
    <3>4. TablesOK'
      BY <3>1, TablesStay, <2>18 DEF Withdrawal, row, tables, requests, rest, Starts, Fails, RecordsOK, CountersOK
    <3>5. QED
      BY <3>1, <3>2, <3>3, <3>4 DEF RecordsOK
  <2>19. CASE PasswordRead
    <3>1. FlagsOK' /\ CountersOK'
      BY <2>19 DEF PasswordRead, row, tables, requests, rest, Starts, Fails, RecordsOK, FlagsOK, CountersOK
    <3>2. RequestsOK'
      <4>1. Payer \in Users
        BY DEF Users
      <4>2. copy' \in Copies
        BY <4>1, <2>19 DEF PasswordRead, Copies, RecordsOK, TypeOK
      <4>3. QED
        BY <4>2, <2>19 DEF PasswordRead, RecordsOK, RequestsOK
    <3>3. TypeOK'
      BY <2>19 DEF PasswordRead, row, tables, requests, rest, Starts, Fails, RecordsOK, RequestsOK, TypeOK
    <3>4. TablesOK'
      BY <3>1, TablesStay, <2>19 DEF PasswordRead, row, tables, requests, rest, Starts, Fails, RecordsOK, CountersOK
    <3>5. QED
      BY <3>1, <3>2, <3>3, <3>4 DEF RecordsOK
  <2>20. CASE PasswordSave
    <3>1. FlagsOK' /\ CountersOK'
      BY <2>20 DEF PasswordSave, row, tables, requests, rest, Starts, Fails, RecordsOK, FlagsOK, CountersOK
    <3>2. RequestsOK'
      BY <2>20 DEF PasswordSave, row, tables, requests, rest, Starts, Fails, RecordsOK, RequestsOK
    <3>3. TypeOK'
      <4>1. copy.coins \in Nat /\ copy.diamonds \in Nat /\ copy.vipUntil \in Nat
        BY <2>20 DEF PasswordSave, RecordsOK, RequestsOK, Copies
      <4>2. coins' \in [Users -> Nat] /\ diamonds' \in [Users -> Nat] /\ vipUntil' \in Nat
        BY <4>1, <2>20 DEF PasswordSave, RecordsOK, TypeOK
      <4>3. QED
        BY <4>2, <2>20 DEF PasswordSave, tables, rest, RecordsOK, TypeOK
    <3>4. TablesOK'
      BY <3>1, TablesStay, <2>20 DEF PasswordSave, row, tables, requests, rest, Starts, Fails, RecordsOK, CountersOK
    <3>5. QED
      BY <3>1, <3>2, <3>3, <3>4 DEF RecordsOK
  <2>21. CASE UNCHANGED vars
    BY <2>21 DEF RecordsOK, TypeOK, FlagsOK, CountersOK, RequestsOK, TablesOK, vars, row, tables, requests, rest
  <2>22. QED
    BY <2>1, <2>2, <2>3, <2>4, <2>5, <2>6, <2>7, <2>8, <2>9, <2>10, <2>11, <2>12, <2>13, <2>14, <2>15, <2>16, <2>17, <2>18, <2>19, <2>20, <2>21 DEF Next
<1>3. QED
  BY <1>1, <1>2, PTL DEF Spec

-----------------------------------------------------------------------------
(* What is counted once *)

\* The steps that move no coins and no diamonds, and no request for a gift or a text.
Aside ==
  \/ OrderCreate \/ CallbackKey \/ CallbackKeyExpires \/ ReviewRead
  \/ \E o \in VipOrders : VipCreate(o) \/ VipPay(o)
  \/ Tick \/ PasswordRead \/ UNCHANGED vars

\* The steps that move them outside gifts and texts.
Elsewhere ==
  \/ CallbackPay \/ ReviewWrite \/ Withdrawal \/ PasswordSave
  \/ \E u \in Users, asset \in {"coins", "diamonds"}, increase \in BOOLEAN : Adjust(u, asset, increase)
  \/ \E caller, payer \in Users : SettleCall(caller, payer)

\* Neither touches the requests, their records or the gift's key.
LEMMA RequestsAreLeft ==
  Aside \/ Elsewhere => UNCHANGED <<gifts, texts, try, giftKey, lapsed>>
<1>1. Aside => UNCHANGED <<gifts, texts, try, giftKey, lapsed>>
  BY DEF Aside, OrderCreate, CallbackKey, CallbackKeyExpires, ReviewRead, VipCreate, VipPay, Tick,
         PasswordRead, vars, tables, requests
<1>2. Elsewhere => UNCHANGED <<gifts, texts, try, giftKey, lapsed>>
  BY DEF Elsewhere, CallbackPay, ReviewWrite, Withdrawal, PasswordSave, Adjust, SettleCall, tables, requests
<1>3. QED
  BY <1>1, <1>2

\* Whatever a step is, it is one of these.
LEMMA StepsAreThese ==
  [Next]_vars => \/ \E t \in GiftTries : GiftRead(t) \/ GiftKey(t) \/ GiftPay(t)
                 \/ \E t \in TextTries : TextRead(t) \/ TextPay(t)
                 \/ GiftKeyExpires \/ Aside \/ Elsewhere
  BY DEF Next, Aside, Elsewhere

\* Only the request that has the key goes on to pay, and it has the one record.
LEMMA OneGiftStep ==
  ASSUME RecordsOK, OneGift, [Next]_vars
  PROVE  OneGift'
<1>1. ASSUME NEW t \in GiftTries, GiftRead(t)
      PROVE  OneGift'
  <2>1. UNCHANGED <<gifts, giftKey, lapsed>> /\ ~Granted(t)' /\ \A s \in GiftTries \ {t} : Granted(s)' = Granted(s)
    BY <1>1 DEF GiftRead, tables, Granted, RecordsOK, RequestsOK, Tries
  <2>2. QED
    BY <2>1 DEF OneGift
<1>2. ASSUME NEW t \in GiftTries, GiftKey(t)
      PROVE  OneGift'
  <2>1. UNCHANGED gifts /\ \A s \in GiftTries \ {t} : Granted(s)' = Granted(s)
    BY <1>2 DEF GiftKey, tables, Granted, RecordsOK, RequestsOK, Tries
  <2>2. CASE KeyFree /\ giftKey' = TRUE /\ UNCHANGED lapsed
    <3>1. lapsed \/ \A s \in GiftTries : ~Granted(s)
      BY <2>2 DEF OneGift, KeyFree
    <3>2. QED
      BY <2>1, <2>2, <3>1 DEF OneGift
  <2>3. CASE UNCHANGED <<giftKey, lapsed>> /\ try' = [try EXCEPT ![t].pc = "refused"]
    <3>1. ~Granted(t)'
      BY <2>3, TryMoves DEF Granted, Tries
    <3>2. QED
      BY <2>1, <2>3, <3>1 DEF OneGift
  <2>4. CASE lapsed' = TRUE
    BY <2>1, <2>4 DEF OneGift
  <2>5. QED
    BY <1>2, <2>2, <2>3, <2>4 DEF GiftKey
<1>3. ASSUME NEW t \in GiftTries, GiftPay(t)
      PROVE  OneGift'
  <2>1. UNCHANGED <<giftKey, lapsed>> /\ Granted(t) /\ \A s \in GiftTries : Granted(s)' => Granted(s)
    BY <1>3 DEF GiftPay, Granted, RecordsOK, RequestsOK, Tries
  <2>2. \A g \in gifts : g.id # t
    BY <1>3 DEF GiftPay, RecordsOK, TablesOK
  <2>3. \A g, h \in gifts' : g.id = h.id => g = h
    BY <1>3, <2>2 DEF GiftPay, OneGift
  <2>4. QED
    BY <2>1, <2>3 DEF OneGift
<1>4. ASSUME NEW t \in TextTries, TextRead(t) \/ TextPay(t)
      PROVE  OneGift'
  <2>1. UNCHANGED <<gifts, giftKey, lapsed>> /\ \A s \in GiftTries : Granted(s)' = Granted(s)
    BY <1>4, TriesAreApart DEF TextRead, TextPay, tables, Granted, RecordsOK, RequestsOK, Tries
  <2>2. QED
    BY <2>1 DEF OneGift
<1>5. CASE GiftKeyExpires
  BY <1>5 DEF GiftKeyExpires, tables, requests, OneGift
<1>6. CASE Aside \/ Elsewhere
  BY <1>6, RequestsAreLeft DEF OneGift, Granted
<1>7. QED
  BY <1>1, <1>2, <1>3, <1>4, <1>5, <1>6, StepsAreThese

\* The table takes one record of a request.
LEMMA OneTextStep ==
  ASSUME OneText, [Next]_vars
  PROVE  OneText'
<1>1. ASSUME NEW t \in TextTries, TextPay(t)
      PROVE  OneText'
  BY <1>1 DEF TextPay, InsertAccepted, OneText
<1>2. CASE UNCHANGED texts
  BY <1>2 DEF OneText
<1>3. ASSUME NEW t \in GiftTries, GiftRead(t) \/ GiftKey(t) \/ GiftPay(t)
      PROVE  UNCHANGED texts
  BY <1>3 DEF GiftRead, GiftKey, GiftPay, tables
<1>4. ASSUME NEW t \in TextTries, TextRead(t)
      PROVE  UNCHANGED texts
  BY <1>4 DEF TextRead, tables
<1>5. GiftKeyExpires => UNCHANGED texts
  BY DEF GiftKeyExpires, tables
<1>6. QED
  BY <1>1, <1>2, <1>3, <1>4, <1>5, RequestsAreLeft, StepsAreThese

\* A callback credits a pending order, a review that is not late as well.
LEMMA OneCreditStep ==
  ASSUME RecordsOK, OneCredit, [Next]_vars
  PROVE  OneCredit'
<1>1. CASE CallbackPay
  BY <1>1 DEF CallbackPay, Creditable, OneCredit, RecordsOK, TypeOK
<1>2. CASE ReviewWrite
  <2>1. ~crossed' => ~crossed /\ order # "paid"
    BY <1>2, Zenon DEF ReviewWrite
  <2>2. order' = "paid" /\ credits' = credits + 1
    BY <1>2 DEF ReviewWrite
  <2>3. QED
    BY <2>1, <2>2 DEF OneCredit
<1>3. CASE PasswordSave
  BY <1>3 DEF PasswordSave, OneCredit, RecordsOK, FlagsOK
<1>4. CASE OrderCreate
  BY <1>4 DEF OrderCreate, OneCredit
<1>5. CASE UNCHANGED <<order, credits, crossed>>
  BY <1>5 DEF OneCredit
<1>6. ASSUME NEW t \in GiftTries, GiftRead(t) \/ GiftKey(t) \/ GiftPay(t)
      PROVE  UNCHANGED <<order, credits, crossed>>
  BY <1>6 DEF GiftRead, GiftKey, GiftPay
<1>7. ASSUME NEW t \in TextTries, TextRead(t) \/ TextPay(t)
      PROVE  UNCHANGED <<order, credits, crossed>>
  BY <1>7 DEF TextRead, TextPay
<1>8. GiftKeyExpires \/ CallbackKey \/ CallbackKeyExpires \/ ReviewRead \/ Tick \/ PasswordRead \/ Withdrawal
        => UNCHANGED <<order, credits, crossed>>
  BY DEF GiftKeyExpires, CallbackKey, CallbackKeyExpires, ReviewRead, Tick, PasswordRead, Withdrawal
<1>9. ASSUME NEW o \in VipOrders, VipCreate(o) \/ VipPay(o)
      PROVE  UNCHANGED <<order, credits, crossed>>
  BY <1>9 DEF VipCreate, VipPay
<1>10. ASSUME NEW u \in Users, NEW asset \in {"coins", "diamonds"}, NEW increase \in BOOLEAN,
              Adjust(u, asset, increase)
       PROVE  UNCHANGED <<order, credits, crossed>>
  BY <1>10 DEF Adjust
<1>11. ASSUME NEW caller \in Users, NEW payer \in Users, SettleCall(caller, payer)
       PROVE  UNCHANGED <<order, credits, crossed>>
  BY <1>11 DEF SettleCall
<1>12. UNCHANGED vars => UNCHANGED <<order, credits, crossed>>
  BY DEF vars
<1>13. QED
  BY <1>1, <1>2, <1>3, <1>4, <1>5, <1>6, <1>7, <1>8, <1>9, <1>10, <1>11, <1>12 DEF Next

\* A month of VIP more is a multiple more.
LEMMA OneMore == \A n \in Nat : VipDays * (n + 1) = VipDays * n + VipDays
  BY Amounts

\* A paid order adds its days to those that are left, and each day enjoyed is one of them.
LEMMA VipStep ==
  ASSUME RecordsOK, VipIsPaid, [Next]_vars
  PROVE  VipIsPaid'
<1>1. ASSUME NEW o \in VipOrders, VipPay(o)
      PROVE  VipIsPaid'
  <2>1. o \notin Paid /\ Paid' = Paid \cup {o}
    BY <1>1 DEF VipPay, Paid, RecordsOK, TypeOK
  <2>2. IsFiniteSet(Paid') /\ Cardinality(Paid') = Cardinality(Paid) + 1 /\ Cardinality(Paid) \in Nat
    BY <2>1, FS_AddElement, FS_CardinalityType DEF VipIsPaid
  <2>3. vipUntil' = (IF vipUntil >= now THEN vipUntil ELSE now) + VipDays
    BY <1>1, MaxOfTwo DEF VipPay, NextVipUntil, RecordsOK, TypeOK, CountersOK
  <2>4. UNCHANGED <<now, vipUsed, crossed>>
    BY <1>1 DEF VipPay, rest
  <2>5. Left' = Left + VipDays
    BY <2>3, <2>4, Amounts DEF Left, RecordsOK, TypeOK, CountersOK
  <2>6. /\ Left \in Nat /\ vipUsed \in Nat /\ VipDays \in Nat
        /\ VipDays * Cardinality(Paid) \in Nat
        /\ VipDays * Cardinality(Paid)' = VipDays * Cardinality(Paid) + VipDays
    BY <2>2, OneMore, Amounts DEF Left, RecordsOK, TypeOK, CountersOK
  <2>7. QED
    BY <2>2, <2>4, <2>5, <2>6 DEF VipIsPaid
<1>2. ASSUME NEW o \in VipOrders, VipCreate(o)
      PROVE  VipIsPaid'
  <2>1. Paid' = Paid
    BY <1>2 DEF VipCreate, Paid, RecordsOK, TypeOK
  <2>2. QED
    BY <1>2, <2>1 DEF VipCreate, row, rest, VipIsPaid, Left
<1>3. CASE Tick
  <2>1. vipUsed' + Left' = vipUsed + Left
    BY <1>3 DEF Tick, row, IsVip, Left, RecordsOK, TypeOK, CountersOK
  <2>2. UNCHANGED <<vipOrder, crossed>>
    BY <1>3 DEF Tick
  <2>3. QED
    BY <2>1, <2>2 DEF VipIsPaid, Paid
<1>4. CASE UNCHANGED <<vipOrder, vipUntil, now, vipUsed>> /\ (crossed => crossed')
  BY <1>4 DEF VipIsPaid, Paid, Left
<1>5. CASE PasswordSave
  <2>1. ~crossed' => ~crossed /\ UNCHANGED vipUntil
    BY <1>5, Zenon DEF PasswordSave, row
  <2>2. UNCHANGED <<vipOrder, now, vipUsed>>
    BY <1>5 DEF PasswordSave, rest
  <2>3. QED
    BY <2>1, <2>2 DEF VipIsPaid, Paid, Left
<1>6. ASSUME NEW t \in GiftTries, GiftRead(t) \/ GiftKey(t) \/ GiftPay(t)
      PROVE  UNCHANGED <<vipOrder, vipUntil, now, vipUsed, crossed>>
  BY <1>6 DEF GiftRead, GiftKey, GiftPay, row, rest
<1>7. ASSUME NEW t \in TextTries, TextRead(t) \/ TextPay(t)
      PROVE  UNCHANGED <<vipOrder, vipUntil, now, vipUsed, crossed>>
  BY <1>7 DEF TextRead, TextPay, row, rest
<1>8. GiftKeyExpires \/ OrderCreate \/ CallbackKey \/ CallbackPay \/ CallbackKeyExpires \/ ReviewRead
        \/ PasswordRead \/ Withdrawal
        => UNCHANGED <<vipOrder, vipUntil, now, vipUsed, crossed>>
  BY DEF GiftKeyExpires, OrderCreate, CallbackKey, CallbackPay, CallbackKeyExpires, ReviewRead,
         PasswordRead, Withdrawal, row, rest
<1>9. ReviewWrite => UNCHANGED <<vipOrder, vipUntil, now, vipUsed>> /\ (crossed => crossed')
  BY Zenon DEF ReviewWrite, rest
<1>10. ASSUME NEW u \in Users, NEW asset \in {"coins", "diamonds"}, NEW increase \in BOOLEAN,
              Adjust(u, asset, increase)
       PROVE  UNCHANGED <<vipOrder, vipUntil, now, vipUsed, crossed>>
  BY <1>10 DEF Adjust, rest
<1>11. ASSUME NEW caller \in Users, NEW payer \in Users, SettleCall(caller, payer)
       PROVE  UNCHANGED <<vipOrder, vipUntil, now, vipUsed, crossed>>
  BY <1>11 DEF SettleCall, rest
<1>12. UNCHANGED vars => UNCHANGED <<vipOrder, vipUntil, now, vipUsed, crossed>>
  BY DEF vars, row, rest
<1>13. QED
  BY <1>1, <1>2, <1>3, <1>4, <1>5, <1>6, <1>7, <1>8, <1>9, <1>10, <1>11, <1>12 DEF Next

\* The invariant of what is counted, along every behaviour.
THEOREM CountInvariant == Spec => []CountInv
<1>1. Init => CountInv
  <2> SUFFICES ASSUME Init
               PROVE  CountInv
    OBVIOUS
  <2>1. OneGift /\ OneText
    BY DEF Init, OneGift, OneText, Granted, Idle
  <2>2. OneCredit
    BY DEF Init, OneCredit
  <2>3. Paid = {}
    BY DEF Init, Paid
  <2>4. IsFiniteSet(Paid) /\ Cardinality(Paid) = 0
    BY <2>3, FS_EmptySet
  <2>5. vipUsed + Left = VipDays * 0
    BY Amounts DEF Init, Left
  <2>6. QED
    BY <2>1, <2>2, <2>4, <2>5 DEF CountInv, VipIsPaid
<1>2. RecordsOK /\ CountInv /\ [Next]_vars => CountInv'
  BY OneGiftStep, OneTextStep, OneCreditStep, VipStep DEF CountInv
<1>3. QED
  BY <1>1, <1>2, LedgerTypes, PTL DEF Spec

\* A set without two elements has one at most.
LEMMA AtMostOne == \A S : (\A s, t \in S : s = t) => Cardinality(S) <= 1
<1> SUFFICES ASSUME NEW S, \A s, t \in S : s = t
             PROVE  Cardinality(S) <= 1
  OBVIOUS
<1>1. CASE S = {}
  BY <1>1, FS_EmptySet
<1>2. CASE S # {}
  <2>1. PICK s \in S : S = {s}
    BY <1>2
  <2>2. Cardinality({s}) = 1
    BY FS_Singleton
  <2>3. QED
    BY <2>1, <2>2
<1>3. QED
  BY <1>1, <1>2

(***************************************************************************)
(* A text is charged once, a gift is sent once while its key lives, an     *)
(* order is credited once, and the days of VIP enjoyed and to come are     *)
(* those of the orders paid, for any number of requests and orders.        *)
(***************************************************************************)
THEOREM PaidOnce == Spec => []CountedOnce
<1>1. RecordsOK /\ CountInv => CountedOnce
  <2> SUFFICES ASSUME RecordsOK, CountInv
               PROVE  CountedOnce
    OBVIOUS
  <2>1. Cardinality(texts) <= 1
    BY AtMostOne DEF CountInv, OneText
  <2>2. lapsed \/ Cardinality(gifts) <= 1
    <3>1. ~lapsed => \A g, h \in gifts : g = h
      BY DEF CountInv, OneGift, RecordsOK, TablesOK, Gift, Granted
    <3>2. QED
      BY <3>1, AtMostOne
  <2>3. crossed \/ credits <= 1
    BY DEF CountInv, OneCredit
  <2>4. Max({vipUntil - now, 0}) = Left
    BY MaxOfTwo DEF Left, RecordsOK, TypeOK, CountersOK
  <2>5. QED
    BY <2>1, <2>2, <2>3, <2>4 DEF CountedOnce, CountInv, VipIsPaid, Paid
<1>2. QED
  BY <1>1, LedgerTypes, CountInvariant, PTL

-----------------------------------------------------------------------------
(* What the ledger explains *)

\* One row more is its amount more.
LEMMA SumGrows ==
  ASSUME NEW S, IsFiniteSet(S), \A x \in S : x.amount \in Nat, NEW r, r \notin S, r.amount \in Nat
  PROVE  Sum(S) \in Int /\ Sum(S \cup {r}) = Sum(S) + r.amount
<1> DEFINE T == S \cup {r}
           f == [x \in S |-> x.amount]
           g == [x \in T |-> x.amount]
<1>1. IsFiniteSet(T) /\ r \in T /\ T \ {r} = S
  BY FS_AddElement
<1>2. Summable(f, S) /\ Summable(g, T) /\ \A x \in S : f[x] = g[x]
  BY <1>1 DEF Summable
<1>3. SumFunctionOnSet(f, S) \in Int
  BY <1>2, SumOfRest
<1>4. SumFunctionOnSet(g, T) = g[r] + SumFunctionOnSet(g, T \ {r})
  BY <1>1, <1>2, SumOfRest
<1>5. SumFunctionOnSet(g, S) = SumFunctionOnSet(f, S)
  BY <1>2, SumOfEquals
<1>6. Sum(S) = SumFunctionOnSet(f, S) /\ Sum(T) = SumFunctionOnSet(g, T)
  BY DEF Sum, SumFunction
<1>7. g[r] = r.amount
  OBVIOUS
<1> HIDE DEF f, g
<1>8. SumFunctionOnSet(g, T) = r.amount + SumFunctionOnSet(f, S)
  BY <1>1, <1>4, <1>5, <1>7
<1>9. QED
  BY <1>3, <1>6, <1>8

\* A sum of amounts is a number.
LEMMA SumIsNumber ==
  ASSUME NEW S, IsFiniteSet(S), \A x \in S : x.amount \in Nat
  PROVE  Sum(S) \in Int
<1> DEFINE f == [x \in S |-> x.amount]
<1>1. Summable(f, S)
  BY DEF Summable
<1>2. SumFunctionOnSet(f, S) \in Int
  BY <1>1, SumOfRest
<1>3. QED
  BY <1>2 DEF Sum, SumFunction

\* And so is what a query comes to.
LEMMA NetIsNumber ==
  ASSUME NEW rows, Listing(rows), NEW u, NEW a
  PROVE  Net(rows, u, a) \in Int
<1>1. ASSUME NEW S, S \subseteq rows
      PROVE  Sum(S) \in Int
  <2>1. IsFiniteSet(S) /\ \A x \in S : x.amount \in Nat
    BY <1>1, FS_Subset DEF Listing, IsRow
  <2>2. QED
    BY <2>1, SumIsNumber
<1>2. In(rows, u, a) \subseteq rows /\ Out(rows, u, a) \subseteq rows
  BY DEF In, Out
<1>3. QED
  BY <1>1, <1>2 DEF Net

\* No rows are nothing.
LEMMA SumOfNone == Sum({}) = 0
  BY SumOfNothing DEF Sum, SumFunction

\* What a query comes to is a number, and one row more changes it by what the row says.
LEMMA NetGrows ==
  ASSUME NEW rows, Listing(rows), NEW r, IsRow(r), r \notin rows, NEW new, new = rows \cup {r}
  PROVE  Adds(rows, r, new)
<1>1. Listing(new)
  BY FS_AddElement DEF Listing
<1>2. ASSUME NEW u, NEW a
      PROVE  Net(rows, u, a) \in Int /\ Net(new, u, a) = Net(rows, u, a) + Signed(r, u, a)
  <2> DEFINE in   == Sum(In(rows, u, a))
             out  == Sum(Out(rows, u, a))
             in2  == Sum(In(new, u, a))
             out2 == Sum(Out(new, u, a))
  <2>1. ASSUME NEW S, S \subseteq rows
        PROVE  Sum(S) \in Int /\ Sum(S \cup {r}) = Sum(S) + r.amount
    <3>1. IsFiniteSet(S) /\ r \notin S /\ \A x \in S : x.amount \in Nat
      BY <2>1, FS_Subset DEF Listing, IsRow
    <3>2. QED
      BY <3>1, SumGrows DEF IsRow
  <2>2. In(rows, u, a) \subseteq rows /\ Out(rows, u, a) \subseteq rows
    BY DEF In, Out
  <2>3. in \in Int /\ out \in Int
    BY <2>1, <2>2
  <2>4. in2 = IF Of(r, u, a) /\ Gain(r) THEN in + r.amount ELSE in
    <3>1. CASE Of(r, u, a) /\ Gain(r)
      <4>1. In(new, u, a) = In(rows, u, a) \cup {r}
        BY <3>1 DEF In
      <4>2. QED
        BY <3>1, <4>1, <2>1, <2>2
    <3>2. CASE ~(Of(r, u, a) /\ Gain(r))
      <4>1. In(new, u, a) = In(rows, u, a)
        BY <3>2 DEF In
      <4>2. QED
        BY <3>2, <4>1
    <3>3. QED
      BY <3>1, <3>2
  <2>5. out2 = IF Of(r, u, a) /\ Loss(r) THEN out + r.amount ELSE out
    <3>1. CASE Of(r, u, a) /\ Loss(r)
      <4>1. Out(new, u, a) = Out(rows, u, a) \cup {r}
        BY <3>1 DEF Out
      <4>2. QED
        BY <3>1, <4>1, <2>1, <2>2
    <3>2. CASE ~(Of(r, u, a) /\ Loss(r))
      <4>1. Out(new, u, a) = Out(rows, u, a)
        BY <3>2 DEF Out
      <4>2. QED
        BY <3>2, <4>1
    <3>3. QED
      BY <3>1, <3>2
  <2>6. Net(rows, u, a) = in - out /\ Net(new, u, a) = in2 - out2
    BY DEF Net
  <2>7. r.amount \in Nat /\ (Gain(r) <=> ~Loss(r))
    BY DEF IsRow, Gain, Loss
  <2>8. Signed(r, u, a) = IF Of(r, u, a) THEN IF Gain(r) THEN r.amount ELSE -r.amount ELSE 0
    BY <2>7 DEF Signed, Of, Gain
  <2> HIDE DEF in, out, in2, out2
  <2>9. QED
    BY <2>3, <2>4, <2>5, <2>6, <2>7, <2>8
<1>3. QED
  BY <1>1, <1>2 DEF Adds

(***************************************************************************)
(* A row tells by its key which table it is of, and by its id of what.     *)
(***************************************************************************)
LEMMA RowsTell ==
  \A r \in Rows :
    /\ r.key = "recharge" => order = "paid"
    /\ r.key \in {"call_expense", "call_income", "call_fee_payer", "call_fee_income"} => call # None
    /\ r.key \in {"gift_expense", "gift_income", "gift_fee"} => \E g \in gifts : g.id = r.id
    /\ r.key \in {"im_text_expense", "im_text_income"} => texts # {}
    /\ r.key = "withdraw" => withdrawal # "none"
    /\ r.key = "token_adjust" => \E a \in adjusts : a.id = r.id
<1>1. \A r \in RechargeRows : r.key = "recharge" /\ order = "paid"
  BY DEF RechargeRows, OrderCounts, LedgerRow
<1>2. \A r \in CallRows : /\ r.key \in {"call_expense", "call_income", "call_fee_payer", "call_fee_income"}
                          /\ call # None
  BY DEF CallRows, LedgerRow
<1>3. \A r \in GiftRows : /\ r.key \in {"gift_expense", "gift_income", "gift_fee"}
                          /\ \E g \in gifts : g.id = r.id
  BY DEF GiftRows, LedgerRow
<1>4. \A r \in TextRows : r.key \in {"im_text_expense", "im_text_income"} /\ texts # {}
  BY DEF TextRows, LedgerRow
<1>5. \A r \in WithdrawRows : r.key = "withdraw" /\ withdrawal # "none"
  BY DEF WithdrawRows, LedgerRow
<1>6. \A r \in AdjustRows : r.key = "token_adjust" /\ \E a \in adjusts : a.id = r.id
  BY DEF AdjustRows, LedgerRow
<1>7. QED
  BY <1>1, <1>2, <1>3, <1>4, <1>5, <1>6 DEF Rows

\* The query looks at nothing but these.
LEMMA RowsStay ==
  ASSUME UNCHANGED <<gifts, texts, adjusts, call>>,
         withdrawal = "none" <=> withdrawal' = "none", order = "paid" <=> order' = "paid"
  PROVE  Rows' = Rows
<1>1. RechargeRows' = RechargeRows
  BY DEF RechargeRows, OrderCounts
<1>2. CallRows' = CallRows
  BY DEF CallRows, PaidTo, EarnedOf, Callee
<1>3. GiftRows' = GiftRows /\ TextRows' = TextRows /\ AdjustRows' = AdjustRows
  BY DEF GiftRows, TextRows, AdjustRows
<1>4. WithdrawRows' = WithdrawRows
  BY DEF WithdrawRows
<1>5. QED
  BY <1>1, <1>2, <1>3, <1>4 DEF Rows

\* A step that moves nothing, or has taken back what was moved, leaves the books as they were.
LEMMA BooksStay ==
  ASSUME LedgerInv, crossed => crossed',
         UNCHANGED <<coins, diamonds, gifts, texts, adjusts, call>>,
         withdrawal' = withdrawal \/ (withdrawal # "rejected" /\ withdrawal # "none" /\ withdrawal' = "paid"),
         order = "paid" <=> order' = "paid"
  PROVE  LedgerInv'
<1>1. Rows' = Rows
  BY RowsStay
<1>2. \A u \in Users : Refunded(u)' = Refunded(u)
  BY DEF Refunded
<1>3. \A u \in Users, a \in {"coins", "diamonds"} : Net(Rows, u, a)' = Net(Rows, u, a)
  BY <1>1 DEF Net, In, Out, Of, Gain, Loss, Sum
<1>4. Listing(Rows)' <=> Listing(Rows)
  BY <1>1 DEF Listing, IsRow
<1>5. ~crossed' => ~crossed
  OBVIOUS
<1>6. Books' <=> Books
  BY <1>2, <1>3 DEF Books
<1>7. QED
  BY <1>4, <1>5, <1>6 DEF LedgerInv

\* What a step moved is explained when the rows have come to as much more.
LEMMA RowsExplain ==
  ASSUME RecordsOK, Listing(Rows), Books, NEW new, Listing(new), Rows' = new,
         \A u \in Users :
           /\ Refunded(u)' = Refunded(u)
           /\ coins'[u] = coins[u] + (Net(new, u, "coins") - Net(Rows, u, "coins"))
           /\ diamonds'[u] = diamonds[u] + (Net(new, u, "diamonds") - Net(Rows, u, "diamonds"))
  PROVE  Listing(Rows)' /\ Books'
<1>1. Listing(Rows)'
  BY DEF Listing, IsRow
<1>2. \A u, a : Net(Rows, u, a)' = Net(new, u, a)
  BY DEF Net, In, Out, Of, Gain, Loss, Sum
<1>3. ASSUME NEW u \in Users
      PROVE  /\ coins'[u] = Start + Net(Rows, u, "coins")'
             /\ diamonds'[u] = Refunded(u)' + Net(Rows, u, "diamonds")'
  <2>1. /\ coins[u] = Start + Net(Rows, u, "coins")
        /\ diamonds[u] = Refunded(u) + Net(Rows, u, "diamonds")
    BY DEF Books
  <2>2. /\ Net(Rows, u, "coins") \in Int /\ Net(Rows, u, "diamonds") \in Int
        /\ Net(new, u, "coins") \in Int /\ Net(new, u, "diamonds") \in Int
    BY NetIsNumber
  <2>3. Refunded(u) \in Nat /\ Start \in Nat
    BY Amounts DEF Refunded
  <2>4. QED
    BY <1>2, <2>1, <2>2, <2>3
<1>4. QED
  BY <1>1, <1>3 DEF Books

\* One row explains what a step moved.
LEMMA RowExplains ==
  ASSUME RecordsOK, Listing(Rows), Books, NEW r, IsRow(r), r \notin Rows, Rows' = Rows \cup {r},
         \A u \in Users : /\ Refunded(u)' = Refunded(u)
                          /\ coins'[u] = coins[u] + Signed(r, u, "coins")
                          /\ diamonds'[u] = diamonds[u] + Signed(r, u, "diamonds")
  PROVE  Listing(Rows)' /\ Books'
<1> DEFINE new == Rows \cup {r}
<1>1. Adds(Rows, r, new)
  BY NetGrows
<1> HIDE DEF new
<1>2. Rows' = new /\ Listing(new)
  BY <1>1 DEF new, Adds
<1>3. ASSUME NEW u, NEW a
      PROVE  Signed(r, u, a) = Net(new, u, a) - Net(Rows, u, a)
  <2>1. Net(Rows, u, a) \in Int /\ Net(new, u, a) = Net(Rows, u, a) + Signed(r, u, a)
    BY <1>1 DEF Adds
  <2>2. Signed(r, u, a) \in Int
    BY DEF Signed, IsRow
  <2>3. QED
    BY <2>1, <2>2
<1>4. QED
  BY <1>2, <1>3, RowsExplain

\* A gift: the price, the income and the fee, each with its row.
LEMMA GiftIsExplained ==
  ASSUME RecordsOK, LedgerInv, NEW t \in GiftTries, GiftPay(t)
  PROVE  LedgerInv'
<1>1. CASE UNCHANGED <<coins, diamonds, gifts>>
  <2>1. UNCHANGED <<texts, adjusts, call, withdrawal, order, crossed>>
    BY DEF GiftPay
  <2>2. QED
    BY <1>1, <2>1, BooksStay
<1>2. ASSUME NEW due \in {0, GiftFee}, NEW fee, fee = FeeTaken(coins[Payer] - GiftPrice, due),
             coins[Payer] >= GiftPrice,
             coins' = [coins EXCEPT ![Payer] = @ - GiftPrice - fee],
             diamonds' = [diamonds EXCEPT ![Peer] = @ + try[t].income],
             gifts' = gifts \cup {[id |-> t, income |-> try[t].income, due |-> due, fee |-> fee]},
             ~crossed'
      PROVE  Listing(Rows)' /\ Books'
  <2> DEFINE income == try[t].income
             g  == [id |-> t, income |-> income, due |-> due, fee |-> fee]
             r1 == LedgerRow("gift_expense", t, Payer, Peer, "coins", FALSE, GiftPrice)
             r2 == LedgerRow("gift_income", t, Peer, Payer, "diamonds", TRUE, income)
             r3 == LedgerRow("gift_fee", t, Payer, Peer, "coins", FALSE, fee)
             R1 == Rows \cup {r1}
             R2 == R1 \cup {r2}
             R3 == R2 \cup {r3}
  <2>1. income \in Nat /\ fee \in Nat /\ GiftPrice \in Nat
    <3>1. try[t] \in Try
      BY DEF RecordsOK, RequestsOK, Tries
    <3>2. QED
      BY <3>1, <1>2, Amounts DEF Try, FeeTaken
  <2>2. UNCHANGED <<texts, adjusts, call, withdrawal, order, crossed>>
    BY DEF GiftPay
  <2>3. Listing(Rows) /\ Books
    BY <1>2, <2>2 DEF LedgerInv
  <2>4. Rows' = R3
    <3>1. GiftRows' = GiftRows \cup {r1, r2, r3}
      <4> DEFINE rows(h) ==
                   {LedgerRow("gift_expense", h.id, Payer, Peer, "coins", FALSE, GiftPrice),
                    LedgerRow("gift_income", h.id, Peer, Payer, "diamonds", TRUE, h.income),
                    LedgerRow("gift_fee", h.id, Payer, Peer, "coins", FALSE, h.fee)}
      <4>1. GiftRows = UNION {rows(h) : h \in gifts} /\ GiftRows' = UNION {rows(h) : h \in gifts'}
        BY DEF GiftRows
      <4>2. g.id = t /\ g.income = income /\ g.fee = fee
        OBVIOUS
      <4>3. rows(g) = {r1, r2, r3}
        BY <4>2
      <4>4. gifts' = gifts \cup {g}
        BY <1>2
      <4> HIDE DEF rows, g, r1, r2, r3
      <4>5. \A r : /\ r \in GiftRows  <=> \E h \in gifts  : r \in rows(h)
                   /\ r \in GiftRows' <=> \E h \in gifts' : r \in rows(h)
        BY <4>1
      <4>6. \A r : (\E h \in gifts' : r \in rows(h)) <=> (\E h \in gifts : r \in rows(h)) \/ r \in rows(g)
        BY <4>4
      <4>7. \A r : r \in GiftRows' <=> r \in GiftRows \/ r \in rows(g)
        BY <4>5, <4>6, Zenon
      <4>8. GiftRows' = GiftRows \cup rows(g)
        BY <4>7
      <4>9. QED
        BY <4>3, <4>8
    <3>2. /\ UNCHANGED <<RechargeRows, CallRows, TextRows, WithdrawRows, AdjustRows>>
      BY <2>2 DEF RechargeRows, OrderCounts, CallRows, PaidTo, EarnedOf, Callee, TextRows, WithdrawRows, AdjustRows
    <3>3. QED
      BY <3>1, <3>2 DEF Rows
  <2>5. r1 \notin Rows /\ r2 \notin R1 /\ r3 \notin R2
    <3>1. \A h \in gifts : h.id # t
      BY DEF GiftPay, RecordsOK, TablesOK
    <3>2. /\ r1.key = "gift_expense" /\ r1.id = t
          /\ r2.key = "gift_income" /\ r2.id = t
          /\ r3.key = "gift_fee" /\ r3.id = t
      BY DEF LedgerRow
    <3> HIDE DEF r1, r2, r3
    <3>3. QED
      BY <3>1, <3>2, RowsTell
  <2>6. /\ IsRow(r1) /\ IsRow(r2) /\ IsRow(r3)
        /\ \A u, a : /\ Signed(r1, u, a) = IF Payer = u /\ "coins" = a THEN -GiftPrice ELSE 0
                     /\ Signed(r2, u, a) = IF Peer = u /\ "diamonds" = a THEN income ELSE 0
                     /\ Signed(r3, u, a) = IF Payer = u /\ "coins" = a THEN -fee ELSE 0
    BY <2>1 DEF LedgerRow, IsRow, Signed
  <2> HIDE DEF income, g, r1, r2, r3, R1, R2, R3
  <2>7. Adds(Rows, r1, R1)
    BY <2>3, <2>5, <2>6, NetGrows DEF R1
  <2>8. Adds(R1, r2, R2)
    BY <2>5, <2>6, <2>7, NetGrows DEF Adds, R2
  <2>9. Adds(R2, r3, R3)
    <3>1. Listing(R2)
      BY <2>8 DEF Adds
    <3>2. QED
      BY <3>1, <2>5, <2>6, NetGrows DEF R3
  <2>10. ASSUME NEW u \in Users
         PROVE  /\ Refunded(u)' = Refunded(u)
                /\ coins'[u] = coins[u] + (Net(R3, u, "coins") - Net(Rows, u, "coins"))
                /\ diamonds'[u] = diamonds[u] + (Net(R3, u, "diamonds") - Net(Rows, u, "diamonds"))
    <3>1. Refunded(u)' = Refunded(u)
      BY <2>2 DEF Refunded
    <3>2. /\ coins'[u] = coins[u] + IF u = Payer THEN -GiftPrice - fee ELSE 0
          /\ diamonds'[u] = diamonds[u] + IF u = Peer THEN income ELSE 0
      BY <1>2, <2>1 DEF income, RecordsOK, TypeOK, Users
    <3>3. /\ Signed(r1, u, "coins") = (IF u = Payer THEN -GiftPrice ELSE 0) /\ Signed(r1, u, "diamonds") = 0
          /\ Signed(r2, u, "coins") = 0 /\ Signed(r2, u, "diamonds") = (IF u = Peer THEN income ELSE 0)
          /\ Signed(r3, u, "coins") = (IF u = Payer THEN -fee ELSE 0) /\ Signed(r3, u, "diamonds") = 0
      BY <2>6
    <3>4. /\ Net(R3, u, "coins") = Net(Rows, u, "coins") + (IF u = Payer THEN -GiftPrice - fee ELSE 0)
          /\ Net(R3, u, "diamonds") = Net(Rows, u, "diamonds") + (IF u = Peer THEN income ELSE 0)
          /\ Net(Rows, u, "coins") \in Int /\ Net(Rows, u, "diamonds") \in Int
      BY <3>3, <2>1, <2>7, <2>8, <2>9 DEF Adds
    <3>5. QED
      BY <3>1, <3>2, <3>4, <2>1
  <2>11. QED
    BY <2>3, <2>4, <2>9, <2>10, RowsExplain DEF Adds
<1>3. CASE ~UNCHANGED <<coins, diamonds, gifts>>
  <2>1. PICK due \in {0, GiftFee} :
             LET fee == FeeTaken(coins[Payer] - GiftPrice, due)
             IN  /\ coins[Payer] >= GiftPrice
                 /\ coins' = [coins EXCEPT ![Payer] = @ - GiftPrice - fee]
                 /\ diamonds' = [diamonds EXCEPT ![Peer] = @ + try[t].income]
                 /\ gifts' = gifts \cup {[id |-> t, income |-> try[t].income, due |-> due, fee |-> fee]}
    BY <1>3 DEF GiftPay, Enough
  <2>2. QED
    BY <2>1, <1>2 DEF LedgerInv
<1>4. QED
  BY <1>1, <1>3

\* An order that is credited.
LEMMA OrderIsExplained ==
  ASSUME RecordsOK, LedgerInv, CallbackPay \/ ReviewWrite
  PROVE  LedgerInv'
<1>1. UNCHANGED <<diamonds, gifts, texts, adjusts, call, withdrawal>>
  BY DEF CallbackPay, ReviewWrite, tables
<1>2. crossed => crossed'
  BY Zenon DEF CallbackPay, ReviewWrite
<1>3. CASE UNCHANGED <<coins, order>>
  BY <1>1, <1>2, <1>3, BooksStay
<1>4. CASE order # "paid" /\ order' = "paid" /\ coins' = [coins EXCEPT ![Payer] = @ + OrderAmount] /\ ~crossed
  <2> DEFINE r == LedgerRow("recharge", 1, Payer, None, "coins", TRUE, OrderAmount)
  <2>1. r.key = "recharge" /\ IsRow(r)
    BY Amounts DEF LedgerRow, IsRow
  <2>2. \A u : /\ Signed(r, u, "coins") = (IF u = Payer THEN OrderAmount ELSE 0)
               /\ Signed(r, u, "diamonds") = 0
    BY DEF LedgerRow, Signed
  <2>3. r \notin Rows
    BY <2>1, <1>4, RowsTell
  <2>4. Rows' = Rows \cup {r}
    <3>1. RechargeRows = {} /\ RechargeRows' = {r}
      BY <1>4 DEF RechargeRows, OrderCounts
    <3>2. UNCHANGED <<GiftRows, CallRows, TextRows, WithdrawRows, AdjustRows>>
      BY <1>1 DEF GiftRows, CallRows, PaidTo, EarnedOf, Callee, TextRows, WithdrawRows, AdjustRows
    <3> HIDE DEF r
    <3>3. QED
      BY <3>1, <3>2 DEF Rows
  <2> HIDE DEF r
  <2>5. ASSUME NEW u \in Users
        PROVE  /\ Refunded(u)' = Refunded(u)
               /\ coins'[u] = coins[u] + Signed(r, u, "coins")
               /\ diamonds'[u] = diamonds[u] + Signed(r, u, "diamonds")
    <3>1. coins[u] \in Nat /\ diamonds[u] \in Nat
      BY DEF RecordsOK, TypeOK
    <3>2. coins'[u] = coins[u] + (IF u = Payer THEN OrderAmount ELSE 0)
      BY <1>4, <3>1 DEF RecordsOK, TypeOK
    <3>3. QED
      BY <1>1, <2>2, <3>1, <3>2 DEF Refunded
  <2>6. Listing(Rows) /\ Books
    BY <1>4 DEF LedgerInv
  <2>7. QED
    BY <2>1, <2>3, <2>4, <2>5, <2>6, RowExplains DEF LedgerInv
<1>5. crossed' => LedgerInv'
  BY DEF LedgerInv
<1>6. QED
  <2>1. CASE CallbackPay
    BY <2>1, <1>3, <1>4, <1>5, <1>2 DEF CallbackPay, Creditable
  <2>2. CASE ReviewWrite
    <3>1. CASE order = "paid" \/ crossed
      <4>1. crossed'
        BY <2>2, <3>1, Zenon DEF ReviewWrite
      <4>2. QED
        BY <4>1, <1>5
    <3>2. CASE order # "paid" /\ ~crossed
      BY <2>2, <3>2, <1>4 DEF ReviewWrite
    <3>3. QED
      BY <3>1, <3>2
  <2>3. QED
    BY <2>1, <2>2

\* An adjustment, in the asset and the direction it is made.
LEMMA AdjustIsExplained ==
  ASSUME RecordsOK, LedgerInv, NEW v \in Users, NEW asset \in {"coins", "diamonds"}, NEW increase \in BOOLEAN,
         Adjust(v, asset, increase)
  PROVE  LedgerInv'
<1>1. UNCHANGED <<gifts, texts, call, withdrawal, order, crossed>>
  BY DEF Adjust
<1> DEFINE r == LedgerRow("token_adjust", started, v, None, asset, increase, AdjustAmount)
           b == [id |-> started, user |-> v, asset |-> asset, increase |-> increase]
           n == IF increase THEN AdjustAmount ELSE -AdjustAmount
<1>2. r.key = "token_adjust" /\ r.id = started /\ IsRow(r)
  BY Amounts DEF LedgerRow, IsRow
<1>3. \A u, a : Signed(r, u, a) = IF u = v /\ a = asset THEN n ELSE 0
  BY DEF LedgerRow, Signed
<1>4. r \notin Rows
  <2>1. \A a \in adjusts : a.id # started
    BY DEF RecordsOK, TablesOK, CountersOK, Adjusts
  <2> HIDE DEF r
  <2>2. QED
    BY <1>2, <2>1, RowsTell
<1>5. Rows' = Rows \cup {r}
  <2>1. adjusts' = adjusts \cup {b}
    BY DEF Adjust
  <2>2. AdjustRows' = AdjustRows \cup {r}
    <3> DEFINE rowOf(a) == LedgerRow("token_adjust", a.id, a.user, None, a.asset, a.increase, AdjustAmount)
    <3>1. AdjustRows = {rowOf(a) : a \in adjusts} /\ AdjustRows' = {rowOf(a) : a \in adjusts'}
      BY DEF AdjustRows
    <3>2. b.id = started /\ b.user = v /\ b.asset = asset /\ b.increase = increase
      OBVIOUS
    <3>3. rowOf(b) = r
      BY <3>2, Zenon
    <3> HIDE DEF rowOf, b, r
    <3>4. QED
      BY <2>1, <3>1, <3>3
  <2>3. UNCHANGED <<GiftRows, CallRows, TextRows, WithdrawRows, RechargeRows>>
    BY <1>1 DEF GiftRows, CallRows, PaidTo, EarnedOf, Callee, TextRows, WithdrawRows, RechargeRows, OrderCounts
  <2> HIDE DEF r
  <2>4. QED
    BY <2>2, <2>3 DEF Rows
<1> HIDE DEF r, b
<1>6. ASSUME NEW u \in Users
      PROVE  /\ Refunded(u)' = Refunded(u)
             /\ coins'[u] = coins[u] + Signed(r, u, "coins")
             /\ diamonds'[u] = diamonds[u] + Signed(r, u, "diamonds")
  <2>1. coins[u] \in Nat /\ diamonds[u] \in Nat /\ n \in Int
    BY Amounts DEF RecordsOK, TypeOK
  <2>2. /\ asset = "coins" => coins' = [coins EXCEPT ![v] = @ + n] /\ UNCHANGED diamonds
        /\ asset # "coins" => diamonds' = [diamonds EXCEPT ![v] = @ + n] /\ UNCHANGED coins
    BY DEF Adjust
  <2> HIDE DEF n
  <2>3. /\ coins'[u] = coins[u] + (IF asset = "coins" /\ u = v THEN n ELSE 0)
        /\ diamonds'[u] = diamonds[u] + (IF asset # "coins" /\ u = v THEN n ELSE 0)
    BY <2>1, <2>2 DEF RecordsOK, TypeOK
  <2>4. /\ Signed(r, u, "coins") = (IF asset = "coins" /\ u = v THEN n ELSE 0)
        /\ Signed(r, u, "diamonds") = (IF asset # "coins" /\ u = v THEN n ELSE 0)
    BY <1>3
  <2>5. QED
    BY <1>1, <2>3, <2>4 DEF Refunded
<1>7. QED
  BY <1>1, <1>2, <1>4, <1>5, <1>6, RowExplains DEF LedgerInv

\* A text: the price and the income.
LEMMA TextIsExplained ==
  ASSUME RecordsOK, LedgerInv, NEW t \in TextTries, TextPay(t)
  PROVE  LedgerInv'
<1>1. UNCHANGED <<gifts, adjusts, call, withdrawal, order, crossed>>
  BY DEF TextPay
<1>2. CASE UNCHANGED <<coins, diamonds, texts>>
  BY <1>1, <1>2, BooksStay
<1>3. ASSUME texts = {}, coins[Payer] >= TextPrice,
             coins' = [coins EXCEPT ![Payer] = @ - TextPrice],
             diamonds' = [diamonds EXCEPT ![Peer] = @ + try[t].income],
             texts' = texts \cup {[id |-> t, income |-> try[t].income]},
             ~crossed
      PROVE  Listing(Rows)' /\ Books'
  <2> DEFINE income == try[t].income
             x  == [id |-> t, income |-> income]
             r1 == LedgerRow("im_text_expense", t, Payer, Peer, "coins", FALSE, TextPrice)
             r2 == LedgerRow("im_text_income", t, Peer, Payer, "diamonds", TRUE, income)
             R1 == Rows \cup {r1}
             R2 == R1 \cup {r2}
  <2>1. income \in Nat /\ TextPrice \in Nat
    <3>1. try[t] \in Try
      BY DEF RecordsOK, RequestsOK, Tries
    <3>2. QED
      BY <3>1, Amounts DEF Try
  <2>2. Listing(Rows) /\ Books
    BY <1>3 DEF LedgerInv
  <2>3. Rows' = R2
    <3>1. TextRows = {} /\ TextRows' = {r1, r2}
      <4> DEFINE rows(h) == {LedgerRow("im_text_expense", h.id, Payer, Peer, "coins", FALSE, TextPrice),
                             LedgerRow("im_text_income", h.id, Peer, Payer, "diamonds", TRUE, h.income)}
      <4>1. TextRows = UNION {rows(h) : h \in texts} /\ TextRows' = UNION {rows(h) : h \in texts'}
        BY DEF TextRows
      <4>2. x.id = t /\ x.income = income
        OBVIOUS
      <4>3. rows(x) = {r1, r2}
        BY <4>2
      <4>4. texts' = {x}
        BY <1>3
      <4> HIDE DEF rows, x, r1, r2
      <4>5. UNION {rows(h) : h \in texts} = {} /\ UNION {rows(h) : h \in texts'} = rows(x)
        BY <4>4, <1>3
      <4>6. QED
        BY <4>1, <4>3, <4>5
    <3>2. UNCHANGED <<RechargeRows, CallRows, GiftRows, WithdrawRows, AdjustRows>>
      BY <1>1 DEF RechargeRows, OrderCounts, CallRows, PaidTo, EarnedOf, Callee, GiftRows, WithdrawRows, AdjustRows
    <3> HIDE DEF r1, r2
    <3>3. QED
      BY <3>1, <3>2 DEF Rows
  <2>4. r1 \notin Rows /\ r2 \notin R1
    <3>1. r1.key = "im_text_expense" /\ r2.key = "im_text_income"
      BY DEF LedgerRow
    <3> HIDE DEF r1, r2
    <3>2. QED
      BY <1>3, <3>1, RowsTell
  <2>5. /\ IsRow(r1) /\ IsRow(r2)
        /\ \A u, a : /\ Signed(r1, u, a) = IF Payer = u /\ "coins" = a THEN -TextPrice ELSE 0
                     /\ Signed(r2, u, a) = IF Peer = u /\ "diamonds" = a THEN income ELSE 0
    BY <2>1 DEF LedgerRow, IsRow, Signed
  <2> HIDE DEF income, x, r1, r2, R1, R2
  <2>6. Adds(Rows, r1, R1)
    BY <2>2, <2>4, <2>5, NetGrows DEF R1
  <2>7. Adds(R1, r2, R2)
    <3>1. Listing(R1)
      BY <2>6 DEF Adds
    <3>2. QED
      BY <3>1, <2>4, <2>5, NetGrows DEF R2
  <2>8. ASSUME NEW u \in Users
        PROVE  /\ Refunded(u)' = Refunded(u)
               /\ coins'[u] = coins[u] + (Net(R2, u, "coins") - Net(Rows, u, "coins"))
               /\ diamonds'[u] = diamonds[u] + (Net(R2, u, "diamonds") - Net(Rows, u, "diamonds"))
    <3>1. Refunded(u)' = Refunded(u)
      BY <1>1 DEF Refunded
    <3>2. /\ coins'[u] = coins[u] + IF u = Payer THEN -TextPrice ELSE 0
          /\ diamonds'[u] = diamonds[u] + IF u = Peer THEN income ELSE 0
      BY <1>3, <2>1 DEF income, RecordsOK, TypeOK, Users
    <3>3. /\ Signed(r1, u, "coins") = (IF u = Payer THEN -TextPrice ELSE 0) /\ Signed(r1, u, "diamonds") = 0
          /\ Signed(r2, u, "coins") = 0 /\ Signed(r2, u, "diamonds") = (IF u = Peer THEN income ELSE 0)
      BY <2>5
    <3>4. /\ Net(R2, u, "coins") = Net(Rows, u, "coins") + (IF u = Payer THEN -TextPrice ELSE 0)
          /\ Net(R2, u, "diamonds") = Net(Rows, u, "diamonds") + (IF u = Peer THEN income ELSE 0)
          /\ Net(Rows, u, "coins") \in Int /\ Net(Rows, u, "diamonds") \in Int
      BY <3>3, <2>1, <2>6, <2>7 DEF Adds
    <3>5. QED
      BY <3>1, <3>2, <3>4, <2>1
  <2>9. QED
    BY <2>2, <2>3, <2>7, <2>8, RowsExplain DEF Adds
<1>4. CASE ~UNCHANGED <<coins, diamonds, texts>>
  BY <1>1, <1>3, <1>4 DEF TextPay, Enough, InsertAccepted, LedgerInv
<1>5. QED
  BY <1>2, <1>4

(***************************************************************************)
(* A withdrawal is listed when it is applied for; a rejected one goes on   *)
(* being listed, and what was given back is what Refunded says.            *)
(***************************************************************************)
LEMMA WithdrawalIsExplained ==
  ASSUME RecordsOK, LedgerInv, Withdrawal
  PROVE  LedgerInv'
<1>1. UNCHANGED <<coins, gifts, texts, adjusts, call, order, crossed>>
  BY DEF Withdrawal
<1>2. Peer \in Users /\ WithdrawAmount \in Nat
  BY Amounts DEF Users
<1>3. CASE withdrawal = "none" /\ withdrawal' = "pending"
           /\ diamonds' = [diamonds EXCEPT ![Peer] = @ - WithdrawAmount] /\ ~crossed
  <2> DEFINE r == LedgerRow("withdraw", 1, Peer, None, "diamonds", FALSE, WithdrawAmount)
  <2>1. r.key = "withdraw" /\ IsRow(r)
    BY <1>2 DEF LedgerRow, IsRow
  <2>2. \A u : /\ Signed(r, u, "coins") = 0
               /\ Signed(r, u, "diamonds") = IF u = Peer THEN -WithdrawAmount ELSE 0
    BY DEF LedgerRow, Signed
  <2>3. r \notin Rows
    BY <2>1, <1>3, RowsTell
  <2>4. Rows' = Rows \cup {r}
    <3>1. WithdrawRows = {} /\ WithdrawRows' = {r}
      BY <1>3 DEF WithdrawRows
    <3>2. UNCHANGED <<GiftRows, CallRows, TextRows, RechargeRows, AdjustRows>>
      BY <1>1 DEF GiftRows, CallRows, PaidTo, EarnedOf, Callee, TextRows, RechargeRows, OrderCounts, AdjustRows
    <3> HIDE DEF r
    <3>3. QED
      BY <3>1, <3>2 DEF Rows
  <2> HIDE DEF r
  <2>5. ASSUME NEW u \in Users
        PROVE  /\ Refunded(u)' = Refunded(u)
               /\ coins'[u] = coins[u] + Signed(r, u, "coins")
               /\ diamonds'[u] = diamonds[u] + Signed(r, u, "diamonds")
    <3>1. coins[u] \in Nat /\ diamonds[u] \in Nat
      BY DEF RecordsOK, TypeOK
    <3>2. diamonds'[u] = diamonds[u] + (IF u = Peer THEN -WithdrawAmount ELSE 0)
      BY <1>2, <1>3, <3>1 DEF RecordsOK, TypeOK
    <3>3. QED
      BY <1>1, <1>3, <2>2, <3>1, <3>2 DEF Refunded
  <2>6. QED
    BY <1>1, <1>3, <2>1, <2>3, <2>4, <2>5, RowExplains DEF LedgerInv
<1>4. CASE withdrawal = "pending" /\ withdrawal' = "paid" /\ UNCHANGED diamonds
  BY <1>1, <1>4, BooksStay
<1>5. CASE withdrawal = "pending" /\ withdrawal' = "rejected"
           /\ diamonds' = [diamonds EXCEPT ![Peer] = @ + WithdrawAmount] /\ ~crossed
  <2>1. Rows' = Rows
    BY <1>1, <1>5, RowsStay
  <2>2. Listing(Rows) /\ Books
    BY <1>5 DEF LedgerInv
  <2>3. Listing(Rows)'
    BY <2>1, <2>2 DEF Listing, IsRow
  <2>4. \A u, a : Net(Rows, u, a)' = Net(Rows, u, a)
    BY <2>1 DEF Net, In, Out, Of, Gain, Loss, Sum
  <2>5. ASSUME NEW u \in Users
        PROVE  diamonds'[u] = Refunded(u)' + Net(Rows, u, "diamonds")
    <3>1. diamonds[u] = Refunded(u) + Net(Rows, u, "diamonds") /\ Net(Rows, u, "diamonds") \in Int
      BY <2>2, NetIsNumber DEF Books
    <3>2. Refunded(u) = 0 /\ Refunded(u)' = IF u = Peer THEN WithdrawAmount ELSE 0
      BY <1>5 DEF Refunded
    <3>3. diamonds'[u] = diamonds[u] + IF u = Peer THEN WithdrawAmount ELSE 0
      BY <1>2, <1>5 DEF RecordsOK, TypeOK
    <3>4. QED
      BY <1>2, <3>1, <3>2, <3>3
  <2>6. QED
    BY <1>1, <2>2, <2>3, <2>4, <2>5 DEF LedgerInv, Books
<1>6. CASE crossed
  BY <1>1, <1>6 DEF LedgerInv
<1>7. QED
  BY <1>3, <1>4, <1>5, <1>6 DEF Withdrawal

\* A call: what was paid and earned, and the fee of each.
LEMMA CallIsExplained ==
  ASSUME RecordsOK, LedgerInv, NEW caller \in Users, NEW payer \in Users, SettleCall(caller, payer)
  PROVE  LedgerInv'
<1>1. UNCHANGED <<gifts, texts, adjusts, withdrawal, order, crossed>>
  BY DEF SettleCall
<1>2. PICK payerFee \in {0, CallServiceFee}, incomeFee \in {0, CallServiceFee} :
           /\ coins' = [coins EXCEPT ![payer] = @ - CallFee - payerFee]
           /\ diamonds' = [diamonds EXCEPT ![Other(payer)] = @ + CallIncome - incomeFee]
           /\ call' = [caller |-> caller, payer |-> payer, earner |-> Other(payer), total |-> CallFee,
                       income |-> CallIncome, payerFee |-> payerFee, incomeFee |-> incomeFee]
  BY DEF SettleCall
<1>3. call = None /\ call' # None
  <2>1. call' \in Settlements
    BY DEF SettleCall, Settlements, Other, Users
  <2>2. QED
    BY <2>1, NoneIsNoSettlement DEF SettleCall
<1>4. ASSUME ~crossed
      PROVE  Listing(Rows)' /\ Books'
  <2> DEFINE earner == Other(payer)
             r1 == LedgerRow("call_expense", 1, payer, PaidTo', "coins", FALSE, CallFee)
             r2 == LedgerRow("call_income", 1, earner, EarnedOf', "diamonds", TRUE, CallIncome)
             r3 == LedgerRow("call_fee_payer", 1, payer, PaidTo', "coins", FALSE, payerFee)
             r4 == LedgerRow("call_fee_income", 1, earner, EarnedOf', "diamonds", FALSE, incomeFee)
             R1 == Rows \cup {r1}
             R2 == R1 \cup {r2}
             R3 == R2 \cup {r3}
             R4 == R3 \cup {r4}
  <2>1. CallFee \in Nat /\ CallIncome \in Nat /\ payerFee \in Nat /\ incomeFee \in Nat /\ earner \in Users
    BY Amounts DEF Other, Users
  <2>2. Listing(Rows) /\ Books
    BY <1>4 DEF LedgerInv
  <2>3. Rows' = R4
    <3>1. CallRows = {} /\ CallRows' = {r1, r2, r3, r4}
      BY <1>2, <1>3 DEF CallRows
    <3>2. UNCHANGED <<RechargeRows, TextRows, GiftRows, WithdrawRows, AdjustRows>>
      BY <1>1 DEF RechargeRows, OrderCounts, TextRows, GiftRows, WithdrawRows, AdjustRows
    <3> HIDE DEF r1, r2, r3, r4
    <3>3. QED
      BY <3>1, <3>2 DEF Rows
  <2>4. r1 \notin Rows /\ r2 \notin R1 /\ r3 \notin R2 /\ r4 \notin R3
    <3>1. /\ r1.key = "call_expense" /\ r2.key = "call_income"
          /\ r3.key = "call_fee_payer" /\ r4.key = "call_fee_income"
      BY DEF LedgerRow
    <3> HIDE DEF r1, r2, r3, r4
    <3>2. QED
      BY <1>3, <3>1, RowsTell
  <2>5. /\ IsRow(r1) /\ IsRow(r2) /\ IsRow(r3) /\ IsRow(r4)
        /\ \A u, a : /\ Signed(r1, u, a) = IF payer = u /\ "coins" = a THEN -CallFee ELSE 0
                     /\ Signed(r2, u, a) = IF earner = u /\ "diamonds" = a THEN CallIncome ELSE 0
                     /\ Signed(r3, u, a) = IF payer = u /\ "coins" = a THEN -payerFee ELSE 0
                     /\ Signed(r4, u, a) = IF earner = u /\ "diamonds" = a THEN -incomeFee ELSE 0
    BY <2>1 DEF LedgerRow, IsRow, Signed
  <2> HIDE DEF earner, r1, r2, r3, r4, R1, R2, R3, R4
  <2>6. Adds(Rows, r1, R1)
    BY <2>2, <2>4, <2>5, NetGrows DEF R1
  <2>7. Adds(R1, r2, R2)
    <3>1. Listing(R1)
      BY <2>6 DEF Adds
    <3>2. QED
      BY <3>1, <2>4, <2>5, NetGrows DEF R2
  <2>8. Adds(R2, r3, R3)
    <3>1. Listing(R2)
      BY <2>7 DEF Adds
    <3>2. QED
      BY <3>1, <2>4, <2>5, NetGrows DEF R3
  <2>9. Adds(R3, r4, R4)
    <3>1. Listing(R3)
      BY <2>8 DEF Adds
    <3>2. QED
      BY <3>1, <2>4, <2>5, NetGrows DEF R4
  <2>10. ASSUME NEW u \in Users
         PROVE  /\ Refunded(u)' = Refunded(u)
                /\ coins'[u] = coins[u] + (Net(R4, u, "coins") - Net(Rows, u, "coins"))
                /\ diamonds'[u] = diamonds[u] + (Net(R4, u, "diamonds") - Net(Rows, u, "diamonds"))
    <3>1. Refunded(u)' = Refunded(u)
      BY <1>1 DEF Refunded
    <3>2. /\ coins'[u] = coins[u] + IF u = payer THEN -CallFee - payerFee ELSE 0
          /\ diamonds'[u] = diamonds[u] + IF u = earner THEN CallIncome - incomeFee ELSE 0
      BY <1>2, <2>1 DEF earner, RecordsOK, TypeOK
    <3>3. /\ Signed(r1, u, "coins") = (IF u = payer THEN -CallFee ELSE 0) /\ Signed(r1, u, "diamonds") = 0
          /\ Signed(r2, u, "coins") = 0 /\ Signed(r2, u, "diamonds") = (IF u = earner THEN CallIncome ELSE 0)
          /\ Signed(r3, u, "coins") = (IF u = payer THEN -payerFee ELSE 0) /\ Signed(r3, u, "diamonds") = 0
          /\ Signed(r4, u, "coins") = 0 /\ Signed(r4, u, "diamonds") = (IF u = earner THEN -incomeFee ELSE 0)
      BY <2>5
    <3>4. /\ Net(R4, u, "coins") = Net(Rows, u, "coins") + (IF u = payer THEN -CallFee - payerFee ELSE 0)
          /\ Net(R4, u, "diamonds") = Net(Rows, u, "diamonds") + (IF u = earner THEN CallIncome - incomeFee ELSE 0)
          /\ Net(Rows, u, "coins") \in Int /\ Net(Rows, u, "diamonds") \in Int
      BY <3>3, <2>1, <2>6, <2>7, <2>8, <2>9 DEF Adds
    <3>5. QED
      BY <3>1, <3>2, <3>4, <2>1
  <2>11. QED
    BY <2>2, <2>3, <2>9, <2>10, RowsExplain DEF Adds
<1>5. QED
  BY <1>1, <1>4 DEF LedgerInv

\* Whatever moves coins or diamonds adds the rows that say so.
LEMMA EveryStepIsExplained ==
  ASSUME RecordsOK, LedgerInv, [Next]_vars
  PROVE  LedgerInv'
<1>1. ASSUME NEW t \in GiftTries, GiftPay(t)
      PROVE  LedgerInv'
  BY <1>1, GiftIsExplained
<1>2. ASSUME NEW t \in TextTries, TextPay(t)
      PROVE  LedgerInv'
  BY <1>2, TextIsExplained
<1>3. CASE CallbackPay \/ ReviewWrite
  BY <1>3, OrderIsExplained
<1>4. ASSUME NEW u \in Users, NEW asset \in {"coins", "diamonds"}, NEW increase \in BOOLEAN,
             Adjust(u, asset, increase)
      PROVE  LedgerInv'
  BY <1>4, AdjustIsExplained
<1>5. ASSUME NEW caller \in Users, NEW payer \in Users, SettleCall(caller, payer)
      PROVE  LedgerInv'
  BY <1>5, CallIsExplained
<1>6. CASE Withdrawal
  BY <1>6, WithdrawalIsExplained
<1>7. CASE PasswordSave
  <2>1. ~crossed' => ~crossed /\ UNCHANGED <<coins, diamonds>>
    BY <1>7, Zenon DEF PasswordSave, row
  <2>2. UNCHANGED <<gifts, texts, adjusts, call, withdrawal, order>>
    BY <1>7 DEF PasswordSave, tables
  <2>3. CASE crossed'
    BY <2>3 DEF LedgerInv
  <2>4. CASE ~crossed'
    BY <2>1, <2>2, <2>4, BooksStay
  <2>5. QED
    BY <2>3, <2>4
<1>8. CASE UNCHANGED <<coins, diamonds, gifts, texts, adjusts, call, withdrawal, crossed>>
           /\ (order = "paid" <=> order' = "paid")
  BY <1>8, BooksStay
<1>9. ASSUME NEW t \in GiftTries, GiftRead(t) \/ GiftKey(t)
      PROVE  UNCHANGED <<coins, diamonds, gifts, texts, adjusts, call, withdrawal, crossed, order>>
  BY <1>9 DEF GiftRead, GiftKey, row, tables
<1>10. ASSUME NEW t \in TextTries, TextRead(t)
       PROVE  UNCHANGED <<coins, diamonds, gifts, texts, adjusts, call, withdrawal, crossed, order>>
  BY <1>10 DEF TextRead, row, tables
<1>11. GiftKeyExpires \/ CallbackKey \/ CallbackKeyExpires \/ ReviewRead \/ Tick \/ PasswordRead
         => UNCHANGED <<coins, diamonds, gifts, texts, adjusts, call, withdrawal, crossed, order>>
  BY DEF GiftKeyExpires, CallbackKey, CallbackKeyExpires, ReviewRead, Tick, PasswordRead, row, tables
<1>12. OrderCreate => /\ UNCHANGED <<coins, diamonds, gifts, texts, adjusts, call, withdrawal, crossed>>
                      /\ order # "paid" /\ order' # "paid"
  BY DEF OrderCreate, row, tables
<1>13. ASSUME NEW o \in VipOrders, VipCreate(o) \/ VipPay(o)
       PROVE  UNCHANGED <<coins, diamonds, gifts, texts, adjusts, call, withdrawal, crossed, order>>
  BY <1>13 DEF VipCreate, VipPay, row, tables
<1>14. UNCHANGED vars => UNCHANGED <<coins, diamonds, gifts, texts, adjusts, call, withdrawal, crossed, order>>
  BY DEF vars, row, tables
<1>15. QED
  BY <1>1, <1>2, <1>3, <1>4, <1>5, <1>6, <1>7, <1>8, <1>9, <1>10, <1>11, <1>12, <1>13, <1>14 DEF Next

\* The books are kept along every behaviour, from empty tables on.
THEOREM LedgerInvariant == Spec => []LedgerInv
<1>1. Init => LedgerInv
  <2> SUFFICES ASSUME Init
               PROVE  LedgerInv
    OBVIOUS
  <2>1. Rows = {}
    BY DEF Init, Rows, RechargeRows, OrderCounts, CallRows, GiftRows, TextRows, WithdrawRows, AdjustRows
  <2>2. Listing(Rows)
    BY <2>1, FS_EmptySet DEF Listing
  <2>3. ASSUME NEW u, NEW a
        PROVE  Net(Rows, u, a) = 0
    <3>1. In(Rows, u, a) = {} /\ Out(Rows, u, a) = {}
      BY <2>1 DEF In, Out
    <3>2. QED
      BY <3>1, SumOfNone DEF Net
  <2>4. \A u \in Users : coins[u] = Start /\ diamonds[u] = 0 /\ Refunded(u) = 0
    BY DEF Init, Refunded
  <2>5. QED
    BY <2>2, <2>3, <2>4, Amounts DEF LedgerInv, Books
<1>2. RecordsOK /\ LedgerInv /\ [Next]_vars => LedgerInv'
  BY EveryStepIsExplained
<1>3. QED
  BY <1>1, <1>2, LedgerTypes, PTL DEF Spec

(***************************************************************************)
(* The administration's ledger explains every balance, until a whole row   *)
(* or an order is written from a stale read: for any number of gifts,      *)
(* texts, adjustments, and any prices and fees.                            *)
(***************************************************************************)
THEOREM BalancesAreExplained == Spec => []LedgerExplains
<1>1. RecordsOK /\ LedgerInv => LedgerExplains
  <2> SUFFICES ASSUME RecordsOK, Listing(Rows), Books
               PROVE  LedgerExplains
    BY DEF LedgerInv, LedgerExplains
  <2>1. ASSUME NEW u, NEW a
        PROVE  /\ ListLedger(u, {a}, {TRUE}) = In(Rows, u, a)
               /\ ListLedger(u, {a}, {FALSE}) = Out(Rows, u, a)
    BY DEF ListLedger, Rows, In, Out, Of, Gain, Loss
  <2>2. ASSUME NEW u, NEW a
        PROVE  /\ Net(Rows, u, a) = Sum(ListLedger(u, {a}, {TRUE})) - Sum(ListLedger(u, {a}, {FALSE}))
               /\ Sum(ListLedger(u, {a}, {TRUE})) \in Int /\ Sum(ListLedger(u, {a}, {FALSE})) \in Int
    <3>1. In(Rows, u, a) \subseteq Rows /\ Out(Rows, u, a) \subseteq Rows
      BY DEF In, Out
    <3>2. ASSUME NEW S, S \subseteq Rows
          PROVE  Sum(S) \in Int
      <4>1. IsFiniteSet(S) /\ \A x \in S : x.amount \in Nat
        BY <3>2, FS_Subset DEF Listing, IsRow
      <4>2. QED
        BY <4>1, SumIsNumber
    <3>3. QED
      BY <2>1, <3>1, <3>2 DEF Net
  <2>3. ASSUME NEW u \in Users
        PROVE  /\ coins[u] = Start + Sum(ListLedger(u, {"coins"}, {TRUE})) - Sum(ListLedger(u, {"coins"}, {FALSE}))
               /\ diamonds[u] = Refunded(u) + Sum(ListLedger(u, {"diamonds"}, {TRUE}))
                                            - Sum(ListLedger(u, {"diamonds"}, {FALSE}))
    <3>1. /\ coins[u] = Start + Net(Rows, u, "coins")
          /\ diamonds[u] = Refunded(u) + Net(Rows, u, "diamonds")
      BY DEF Books
    <3>2. Refunded(u) \in Nat /\ Start \in Nat
      BY Amounts DEF Refunded
    <3>3. QED
      BY <3>1, <3>2, <2>2
  <2>4. QED
    BY <2>3 DEF LedgerExplains
<1>2. QED
  BY <1>1, LedgerTypes, LedgerInvariant, PTL

-----------------------------------------------------------------------------
(* What the reports have in common *)

(***************************************************************************)
(* The rows of the ledger by name.                                         *)
(***************************************************************************)
Recharged       == LedgerRow("recharge", 1, Payer, None, "coins", TRUE, OrderAmount)
CallSpent       == LedgerRow("call_expense", 1, call.payer, PaidTo, "coins", FALSE, call.total)
CallEarned      == LedgerRow("call_income", 1, call.earner, EarnedOf, "diamonds", TRUE, call.income)
CallPayerFee    == LedgerRow("call_fee_payer", 1, call.payer, PaidTo, "coins", FALSE, call.payerFee)
CallIncomeFee   == LedgerRow("call_fee_income", 1, call.earner, EarnedOf, "diamonds", FALSE, call.incomeFee)
GiftSpent(g)    == LedgerRow("gift_expense", g.id, Payer, Peer, "coins", FALSE, GiftPrice)
GiftEarned(g)   == LedgerRow("gift_income", g.id, Peer, Payer, "diamonds", TRUE, g.income)
GiftFeePaid(g)  == LedgerRow("gift_fee", g.id, Payer, Peer, "coins", FALSE, g.fee)
TextSpent(t)    == LedgerRow("im_text_expense", t.id, Payer, Peer, "coins", FALSE, TextPrice)
TextEarned(t)   == LedgerRow("im_text_income", t.id, Peer, Payer, "diamonds", TRUE, t.income)
Withdrawn       == LedgerRow("withdraw", 1, Peer, None, "diamonds", FALSE, WithdrawAmount)
Adjusted(a)     == LedgerRow("token_adjust", a.id, a.user, None, a.asset, a.increase, AdjustAmount)

OfCall(r)     == call # None /\ r \in {CallSpent, CallEarned, CallPayerFee, CallIncomeFee}
OfGift(r)     == \E g \in gifts : r \in {GiftSpent(g), GiftEarned(g), GiftFeePaid(g)}
OfText(r)     == \E t \in texts : r \in {TextSpent(t), TextEarned(t)}
OfOthers(r)   == \/ order = "paid" /\ r = Recharged
                 \/ withdrawal # "none" /\ r = Withdrawn
                 \/ \E a \in adjusts : r = Adjusted(a)

\* A row of the ledger is a call's, a gift's, a text's or one of the others.
LEMMA InRows == \A r : r \in Rows <=> OfCall(r) \/ OfGift(r) \/ OfText(r) \/ OfOthers(r)
<1> TAKE r
<1>1. r \in CallRows <=> OfCall(r)
  BY DEF CallRows, OfCall, CallSpent, CallEarned, CallPayerFee, CallIncomeFee
<1>2. r \in GiftRows <=> OfGift(r)
  BY DEF GiftRows, OfGift, GiftSpent, GiftEarned, GiftFeePaid
<1>3. r \in TextRows <=> OfText(r)
  BY DEF TextRows, OfText, TextSpent, TextEarned
<1>4. r \in RechargeRows \/ r \in WithdrawRows \/ r \in AdjustRows <=> OfOthers(r)
  BY DEF RechargeRows, OrderCounts, WithdrawRows, AdjustRows, OfOthers, Recharged, Withdrawn, Adjusted
<1>5. QED
  BY <1>1, <1>2, <1>3, <1>4 DEF Rows

Ledger(u) == ListLedger(u, {"coins", "diamonds"}, BOOLEAN)

\* Rows have one of the two assets, and a direction.
LEMMA LedgerIsRows ==
  ASSUME RecordsOK, NEW u
  PROVE  Ledger(u) = {r \in Rows : r.amount > 0 /\ r.user = u}
<1>1. ASSUME NEW r \in Rows
      PROVE  r.asset \in {"coins", "diamonds"} /\ r.income \in BOOLEAN
  <2> DEFINE Typed(x) == x.asset \in {"coins", "diamonds"} /\ x.income \in BOOLEAN
  <2>1. CASE OfCall(r)
    <3>1. Typed(CallSpent) /\ Typed(CallEarned) /\ Typed(CallPayerFee) /\ Typed(CallIncomeFee)
      BY DEF LedgerRow, CallSpent, CallEarned, CallPayerFee, CallIncomeFee
    <3> HIDE DEF Typed
    <3>2. Typed(r)
      BY <2>1, <3>1 DEF OfCall
    <3>3. QED
      BY <3>2 DEF Typed
  <2>2. CASE OfGift(r)
    <3>1. \A g : Typed(GiftSpent(g)) /\ Typed(GiftEarned(g)) /\ Typed(GiftFeePaid(g))
      BY DEF LedgerRow, GiftSpent, GiftEarned, GiftFeePaid
    <3> HIDE DEF Typed
    <3>2. Typed(r)
      BY <2>2, <3>1 DEF OfGift
    <3>3. QED
      BY <3>2 DEF Typed
  <2>3. CASE OfText(r)
    <3>1. \A t : Typed(TextSpent(t)) /\ Typed(TextEarned(t))
      BY DEF LedgerRow, TextSpent, TextEarned
    <3> HIDE DEF Typed
    <3>2. Typed(r)
      BY <2>3, <3>1 DEF OfText
    <3>3. QED
      BY <3>2 DEF Typed
  <2>4. CASE OfOthers(r)
    <3>1. \A a \in adjusts : a.asset \in {"coins", "diamonds"} /\ a.increase \in BOOLEAN
      BY DEF RecordsOK, TablesOK, Adjusts
    <3>2. Typed(Recharged) /\ Typed(Withdrawn) /\ \A a \in adjusts : Typed(Adjusted(a))
      BY <3>1 DEF LedgerRow, Recharged, Withdrawn, Adjusted
    <3> HIDE DEF Typed
    <3>3. Typed(r)
      BY <2>4, <3>2 DEF OfOthers
    <3>4. QED
      BY <3>3 DEF Typed
  <2>5. QED
    BY <2>1, <2>2, <2>3, <2>4, InRows
<1>2. QED
  BY <1>1 DEF Ledger, ListLedger, Rows

(***************************************************************************)
(* The bill of a user finds the other party of a call in the row it has    *)
(* read, the ledger in the query: it is the same one.                      *)
(***************************************************************************)
LEMMA BillIsLedger ==
  ASSUME RecordsOK, NEW u \in Users
  PROVE  UserBill(u) = Ledger(u)
<1>1. ASSUME NEW r
      PROVE  r \in BillOfCalls(u) <=> OfCall(r) /\ r.user = u
  <2>1. CASE call = None
    BY <2>1 DEF BillOfCalls, OfCall
  <2>2. CASE call # None
    <3>1. call.payer \in Users /\ call.earner \in Users /\ call.caller \in Users
      BY <2>2 DEF RecordsOK, TablesOK, Settlements
    <3>2. call.payer = u => PaidTo = IF call.caller = u THEN Callee ELSE call.caller
      BY DEF PaidTo
    <3>3. call.earner = u => EarnedOf = IF call.payer # u THEN call.payer
                                        ELSE IF Callee # u THEN Callee ELSE call.caller
      BY <3>1, TwoUsers DEF EarnedOf, Callee, Other, Users
    <3>4. /\ CallSpent.user = call.payer /\ CallPayerFee.user = call.payer
          /\ CallEarned.user = call.earner /\ CallIncomeFee.user = call.earner
      BY DEF LedgerRow, CallSpent, CallPayerFee, CallEarned, CallIncomeFee
    <3>5. r \in BillOfCalls(u) <=> \/ call.payer = u /\ r \in {CallSpent, CallPayerFee}
                                   \/ call.earner = u /\ r \in {CallEarned, CallIncomeFee}
      BY <2>2, <3>2, <3>3 DEF BillOfCalls, CallSpent, CallPayerFee, CallEarned, CallIncomeFee
    <3>6. QED
      BY <2>2, <3>4, <3>5 DEF OfCall
  <2>3. QED
    BY <2>1, <2>2
<1>2. ASSUME NEW r
      PROVE  r \in BillOfGifts(u) <=> OfGift(r) /\ r.user = u
  <2>1. \A g : GiftSpent(g).user = Payer /\ GiftFeePaid(g).user = Payer /\ GiftEarned(g).user = Peer
    BY DEF LedgerRow, GiftSpent, GiftEarned, GiftFeePaid
  <2>2. r \in BillOfGifts(u) <=>
          \E g \in gifts : r \in IF u = Payer THEN {GiftSpent(g), GiftFeePaid(g)} ELSE {GiftEarned(g)}
    BY TwoUsers DEF BillOfGifts, GiftSpent, GiftEarned, GiftFeePaid, Users
  <2>3. QED
    BY <2>1, <2>2, TwoUsers DEF OfGift, Users
<1>3. ASSUME NEW r
      PROVE  r \in BillOfTexts(u) <=> OfText(r) /\ r.user = u
  <2>1. \A t : TextSpent(t).user = Payer /\ TextEarned(t).user = Peer
    BY DEF LedgerRow, TextSpent, TextEarned
  <2>2. r \in BillOfTexts(u) <=>
          \E t \in texts : r = IF u = Payer THEN TextSpent(t) ELSE TextEarned(t)
    BY TwoUsers DEF BillOfTexts, TextSpent, TextEarned, Users
  <2>3. QED
    BY <2>1, <2>2, TwoUsers DEF OfText, Users
<1>4. ASSUME NEW r
      PROVE  r \in BillOfOthers(u) <=> OfOthers(r) /\ r.user = u
  <2>1. Recharged.user = Payer /\ Withdrawn.user = Peer /\ \A a : Adjusted(a).user = a.user
    BY DEF LedgerRow, Recharged, Withdrawn, Adjusted
  <2>2. r \in BillOfOthers(u) <=> \/ u = Payer /\ order = "paid" /\ r = Recharged
                                  \/ u = Peer /\ withdrawal # "none" /\ r = Withdrawn
                                  \/ \E a \in adjusts : a.user = u /\ r = Adjusted(a)
    BY DEF BillOfOthers, Recharged, Withdrawn, Adjusted
  <2>3. QED
    BY <2>1, <2>2 DEF OfOthers
<1>5. \A r : r \in UserBill(u) <=> r \in Rows /\ r.amount > 0 /\ r.user = u
  BY <1>1, <1>2, <1>3, <1>4, InRows DEF UserBill
<1>6. QED
  BY <1>5, LedgerIsRows

(***************************************************************************)
(* The app's own list leaves out fees and adjustments, and knows a call by *)
(* its caller.                                                             *)
(***************************************************************************)
LEMMA TransactionsAreLedger ==
  ASSUME RecordsOK, NEW u \in Users, call = None \/ call.caller = call.payer
  PROVE  {r \in Transactions(u) : r.amount > 0} =
           {r \in Ledger(u) : r.key \notin {"gift_fee", "call_fee_payer", "call_fee_income", "token_adjust"}}
<1> DEFINE Extra == {"gift_fee", "call_fee_payer", "call_fee_income", "token_adjust"}
<1>1. ASSUME NEW r
      PROVE  r \in Transactions(u) <=>
               \/ u = Payer /\ order = "paid" /\ r = Recharged
               \/ call # None /\ call.payer = u /\ r = CallSpent
               \/ call # None /\ call.earner = u /\ call.income > 0 /\ r = CallEarned
               \/ \E g \in gifts : (u = Payer /\ r = GiftSpent(g)) \/ (u # Payer /\ r = GiftEarned(g))
               \/ \E t \in texts : \/ u = Payer /\ r = TextSpent(t)
                                   \/ u # Payer /\ t.income > 0 /\ r = TextEarned(t)
               \/ u = Peer /\ withdrawal # "none" /\ r = Withdrawn
  <2>1. call # None => call.payer \in Users /\ call.earner \in Users /\ call.caller \in Users
    BY DEF RecordsOK, TablesOK, Settlements
  <2>2. call # None /\ call.payer = u => CallSpent = LedgerRow("call_expense", 1, u, Callee, "coins", FALSE, call.total)
    BY DEF CallSpent, PaidTo
  <2>3. call # None /\ call.earner = u =>
          CallEarned = LedgerRow("call_income", 1, u, IF call.caller = u THEN Callee ELSE call.caller,
                                 "diamonds", TRUE, call.income)
    BY DEF CallEarned, EarnedOf
  <2>4. u = Payer <=> u # Peer
    BY TwoUsers DEF Users
  <2>5. CASE u = Payer
    <3>1. r \in Transactions(u) <=>
            \/ order = "paid" /\ r = Recharged
            \/ call # None /\ call.caller = u /\ r = CallSpent
            \/ call # None /\ call.earner = u /\ call.income > 0 /\ r = CallEarned
            \/ \E g \in gifts : r = GiftSpent(g)
            \/ \E t \in texts : r = TextSpent(t)
      BY <2>2, <2>3, <2>4, <2>5 DEF Transactions, Recharged, GiftSpent, TextSpent
    <3>2. call # None /\ call.caller = u <=> call # None /\ call.payer = u
      OBVIOUS
    <3>3. u = Payer /\ u # Peer
      BY <2>4, <2>5
    <3>4. QED
      BY <3>1, <3>2, <3>3, Zenon
  <2>6. CASE u # Payer
    <3>1. r \in Transactions(u) <=>
            \/ call # None /\ call.caller = u /\ r = CallSpent
            \/ call # None /\ call.earner = u /\ call.income > 0 /\ r = CallEarned
            \/ \E g \in gifts : r = GiftEarned(g)
            \/ \E t \in texts : t.income > 0 /\ r = TextEarned(t)
            \/ withdrawal # "none" /\ r = Withdrawn
      BY <2>2, <2>3, <2>4, <2>6 DEF Transactions, GiftEarned, TextEarned, Withdrawn
    <3>2. QED
      BY <2>4, <2>6, <3>1
  <2>7. QED
    BY <2>5, <2>6
<1>2. /\ CallEarned.amount = call.income /\ \A t : TextEarned(t).amount = t.income
      /\ Recharged.user = Payer /\ CallSpent.user = call.payer /\ CallEarned.user = call.earner
      /\ \A g : GiftSpent(g).user = Payer /\ GiftEarned(g).user = Peer
      /\ \A t : TextSpent(t).user = Payer /\ TextEarned(t).user = Peer
      /\ Withdrawn.user = Peer
  BY DEF LedgerRow, CallEarned, TextEarned, Recharged, CallSpent, GiftSpent, GiftEarned, TextSpent, Withdrawn
<1>3. ASSUME NEW r
      PROVE  r \in Rows /\ r.key \notin Extra <=>
               \/ order = "paid" /\ r = Recharged
               \/ call # None /\ r \in {CallSpent, CallEarned}
               \/ \E g \in gifts : r \in {GiftSpent(g), GiftEarned(g)}
               \/ \E t \in texts : r \in {TextSpent(t), TextEarned(t)}
               \/ withdrawal # "none" /\ r = Withdrawn
  <2>1. CallSpent.key \notin Extra /\ CallEarned.key \notin Extra
    BY DEF LedgerRow, CallSpent, CallEarned
  <2>2. CallPayerFee.key \in Extra /\ CallIncomeFee.key \in Extra
    BY DEF LedgerRow, CallPayerFee, CallIncomeFee
  <2>3. \A g : GiftSpent(g).key \notin Extra /\ GiftEarned(g).key \notin Extra /\ GiftFeePaid(g).key \in Extra
    BY DEF LedgerRow, GiftSpent, GiftEarned, GiftFeePaid
  <2>4. \A t : TextSpent(t).key \notin Extra /\ TextEarned(t).key \notin Extra
    BY DEF LedgerRow, TextSpent, TextEarned
  <2>5. Recharged.key \notin Extra /\ Withdrawn.key \notin Extra /\ \A a : Adjusted(a).key \in Extra
    BY DEF LedgerRow, Recharged, Withdrawn, Adjusted
  <2> HIDE DEF Extra
  <2>6. QED
    BY <2>1, <2>2, <2>3, <2>4, <2>5, InRows DEF OfCall, OfGift, OfText, OfOthers
<1>4. u = Payer <=> u # Peer
  BY TwoUsers DEF Users
<1> HIDE DEF Extra
<1>5. ASSUME NEW r
      PROVE  r \in Transactions(u) /\ r.amount > 0 <=> r \in Rows /\ r.key \notin Extra /\ r.amount > 0 /\ r.user = u
  <2>1. CASE u = Payer
    <3>1. r \in Transactions(u) => r \in Rows /\ r.key \notin Extra /\ r.user = u
      BY <1>1, <1>2, <1>3, <2>1
    <3>2. r \in Rows /\ r.key \notin Extra /\ r.user = u /\ r.amount > 0 => r \in Transactions(u)
      BY <1>1, <1>2, <1>3, <1>4, <2>1
    <3>3. QED
      BY <3>1, <3>2
  <2>2. CASE u # Payer
    BY <1>1, <1>2, <1>3, <1>4, <2>2
  <2>3. QED
    BY <2>1, <2>2
<1>6. QED
  BY <1>5, LedgerIsRows DEF Extra

-----------------------------------------------------------------------------
(* Sums over records are sums over their rows *)

\* The sums of the boards and of the fee bill.
IncomeSum(S)  == MapThenSumSet(LAMBDA x : x.income, S)
TotalSum(S)   == MapThenSumSet(LAMBDA x : x.total, S)
CoinSum(S)    == MapThenSumSet(LAMBDA x : x.coins, S)
DiamondSum(S) == MapThenSumSet(LAMBDA x : x.diamonds, S)

\* Whatever iterates through a finite set comes to the sum.
LEMMA IterationEnds ==
  ASSUME NEW f, NEW S, IsFiniteSet(S), NEW h, Iterates(f, S, h)
  PROVE  h[S] = SumFunctionOnSet(f, S)
<1>1. Iterates(f, S, Iteration(f, S))
  BY DEF Iteration
<1>2. QED
  BY <1>1, IterationIsUnique, SumIsIteration

\* The library folds an operator; the sum that is reasoned about has a function.
LEMMA IncomeSumIs ==
  ASSUME NEW S, IsFiniteSet(S)
  PROVE  IncomeSum(S) = SumFunctionOnSet([x \in S |-> x.income], S)
<1> DEFINE f == [x \in S |-> x.income]
           Goes(h) == h = [s \in SUBSET S |-> IF s = {} THEN 0 ELSE Pick(s).income + h[s \ {Pick(s)}]]
           k == CHOOSE h : Goes(h)
<1>1. IncomeSum(S) = k[S]
  BY DEF IncomeSum, MapThenSumSet, MapThenFoldSet, Pick
<1>2. ASSUME NEW h
      PROVE  Goes(h) <=> Iterates(f, S, h)
  <2>1. [s \in SUBSET S |-> IF s = {} THEN 0 ELSE Pick(s).income + h[s \ {Pick(s)}]]
          = [s \in SUBSET S |-> IF s = {} THEN 0 ELSE f[Pick(s)] + h[s \ {Pick(s)}]]
    BY PickIsIn
  <2>2. QED
    BY <2>1 DEF Iterates
<1>3. Iterates(f, S, k)
  <2>1. \E h : Goes(h)
    BY <1>2, IterationExists
  <2> HIDE DEF Goes
  <2>2. QED
    BY <1>2, <2>1
<1> HIDE DEF k, f
<1>4. QED
  BY <1>1, <1>3, IterationEnds DEF f

\* The same of the totals of calls,
LEMMA TotalSumIs ==
  ASSUME NEW S, IsFiniteSet(S)
  PROVE  TotalSum(S) = SumFunctionOnSet([x \in S |-> x.total], S)
<1> DEFINE f == [x \in S |-> x.total]
           Goes(h) == h = [s \in SUBSET S |-> IF s = {} THEN 0 ELSE Pick(s).total + h[s \ {Pick(s)}]]
           k == CHOOSE h : Goes(h)
<1>1. TotalSum(S) = k[S]
  BY DEF TotalSum, MapThenSumSet, MapThenFoldSet, Pick
<1>2. ASSUME NEW h
      PROVE  Goes(h) <=> Iterates(f, S, h)
  <2>1. [s \in SUBSET S |-> IF s = {} THEN 0 ELSE Pick(s).total + h[s \ {Pick(s)}]]
          = [s \in SUBSET S |-> IF s = {} THEN 0 ELSE f[Pick(s)] + h[s \ {Pick(s)}]]
    BY PickIsIn
  <2>2. QED
    BY <2>1 DEF Iterates
<1>3. Iterates(f, S, k)
  <2>1. \E h : Goes(h)
    BY <1>2, IterationExists
  <2> HIDE DEF Goes
  <2>2. QED
    BY <1>2, <2>1
<1> HIDE DEF k, f
<1>4. QED
  BY <1>1, <1>3, IterationEnds DEF f

\* of the coins of a fee bill,
LEMMA CoinSumIs ==
  ASSUME NEW S, IsFiniteSet(S)
  PROVE  CoinSum(S) = SumFunctionOnSet([x \in S |-> x.coins], S)
<1> DEFINE f == [x \in S |-> x.coins]
           Goes(h) == h = [s \in SUBSET S |-> IF s = {} THEN 0 ELSE Pick(s).coins + h[s \ {Pick(s)}]]
           k == CHOOSE h : Goes(h)
<1>1. CoinSum(S) = k[S]
  BY DEF CoinSum, MapThenSumSet, MapThenFoldSet, Pick
<1>2. ASSUME NEW h
      PROVE  Goes(h) <=> Iterates(f, S, h)
  <2>1. [s \in SUBSET S |-> IF s = {} THEN 0 ELSE Pick(s).coins + h[s \ {Pick(s)}]]
          = [s \in SUBSET S |-> IF s = {} THEN 0 ELSE f[Pick(s)] + h[s \ {Pick(s)}]]
    BY PickIsIn
  <2>2. QED
    BY <2>1 DEF Iterates
<1>3. Iterates(f, S, k)
  <2>1. \E h : Goes(h)
    BY <1>2, IterationExists
  <2> HIDE DEF Goes
  <2>2. QED
    BY <1>2, <2>1
<1> HIDE DEF k, f
<1>4. QED
  BY <1>1, <1>3, IterationEnds DEF f

\* and of its diamonds.
LEMMA DiamondSumIs ==
  ASSUME NEW S, IsFiniteSet(S)
  PROVE  DiamondSum(S) = SumFunctionOnSet([x \in S |-> x.diamonds], S)
<1> DEFINE f == [x \in S |-> x.diamonds]
           Goes(h) == h = [s \in SUBSET S |-> IF s = {} THEN 0 ELSE Pick(s).diamonds + h[s \ {Pick(s)}]]
           k == CHOOSE h : Goes(h)
<1>1. DiamondSum(S) = k[S]
  BY DEF DiamondSum, MapThenSumSet, MapThenFoldSet, Pick
<1>2. ASSUME NEW h
      PROVE  Goes(h) <=> Iterates(f, S, h)
  <2>1. [s \in SUBSET S |-> IF s = {} THEN 0 ELSE Pick(s).diamonds + h[s \ {Pick(s)}]]
          = [s \in SUBSET S |-> IF s = {} THEN 0 ELSE f[Pick(s)] + h[s \ {Pick(s)}]]
    BY PickIsIn
  <2>2. QED
    BY <2>1 DEF Iterates
<1>3. Iterates(f, S, k)
  <2>1. \E h : Goes(h)
    BY <1>2, IterationExists
  <2> HIDE DEF Goes
  <2>2. QED
    BY <1>2, <2>1
<1> HIDE DEF k, f
<1>4. QED
  BY <1>1, <1>3, IterationEnds DEF f

\* The scores of a board are sums over calls, gifts and texts.
LEMMA BoardSums ==
  ASSUME NEW u
  PROVE  LET calls == IF call = None THEN {} ELSE {call}
         IN  /\ BoardScore("charm", u) =
                  IncomeSum({c \in calls : c.earner = u})
                  + (IF u = Peer THEN IncomeSum(gifts) + IncomeSum(texts) ELSE 0)
             /\ BoardScore("wealth", u) =
                  TotalSum({c \in calls : c.payer = u})
                  + (IF u = Payer THEN GiftPrice * Cardinality(gifts) + TextPrice * Cardinality(texts) ELSE 0)
  BY DEF BoardScore, IncomeSum, TotalSum

\* The totals of the fee bill are sums over its rows.
LEMMA FeeSums ==
  /\ MapThenSumSet(LAMBDA f : f.coins, FeeBill) = CoinSum(FeeBill)
  /\ MapThenSumSet(LAMBDA f : f.diamonds, FeeBill) = DiamondSum(FeeBill)
  BY DEF CoinSum, DiamondSum

\* Rows that can be summed.
Priced(rows) == IsFiniteSet(rows) /\ \A r \in rows : r.amount \in Nat

\* The rows made of a table's records add up to what the records do.
LEMMA SumOfRecords ==
  ASSUME NEW S, IsFiniteSet(S), NEW a, NEW e,
         \A x \in S : a[x] \in Nat /\ e[x].amount = a[x],
         \A x, y \in S : e[x].id = e[y].id => x = y
  PROVE  Priced({e[x] : x \in S}) /\ Sum({e[x] : x \in S}) = SumFunctionOnSet(a, S)
<1> DEFINE R == {e[x] : x \in S}
           f == [r \in R |-> r.amount]
<1>1. Summable(a, S) /\ \A x \in S : f[e[x]] = a[x]
  BY DEF Summable
<1>2. \A x, y \in S : e[x] = e[y] => x = y
  OBVIOUS
<1>3. \A r \in R : r.amount \in Nat
  OBVIOUS
<1>4. Sum(R) = SumFunctionOnSet(f, R)
  BY DEF Sum, SumFunction
<1> HIDE DEF f
<1>5. Summable(f, R) /\ SumFunctionOnSet(f, R) = SumFunctionOnSet(a, S)
  BY <1>1, <1>2, SumOfImage
<1>6. QED
  BY <1>3, <1>4, <1>5 DEF Priced, Summable

\* Rows of different tables.
LEMMA SumOfApart ==
  ASSUME NEW A, NEW B, Priced(A), Priced(B), A \cap B = {}
  PROVE  Priced(A \cup B) /\ Sum(A \cup B) = Sum(A) + Sum(B)
<1> DEFINE f == [r \in A \cup B |-> r.amount]
           fA == [r \in A |-> r.amount]
           fB == [r \in B |-> r.amount]
<1>1. /\ Sum(A \cup B) = SumFunctionOnSet(f, A \cup B)
      /\ Sum(A) = SumFunctionOnSet(fA, A) /\ Sum(B) = SumFunctionOnSet(fB, B)
  BY DEF Sum, SumFunction
<1>2. Priced(A \cup B)
  BY FS_Union DEF Priced
<1>3. /\ Summable(f, A) /\ Summable(f, B) /\ Summable(fA, A) /\ Summable(fB, B)
      /\ \A x \in A : fA[x] = f[x]
      /\ \A x \in B : fB[x] = f[x]
  BY DEF Priced, Summable
<1> HIDE DEF f, fA, fB
<1>4. SumFunctionOnSet(f, A) = SumFunctionOnSet(fA, A) /\ SumFunctionOnSet(f, B) = SumFunctionOnSet(fB, B)
  BY <1>3, SumOfEquals
<1>5. SumFunctionOnSet(f, A \cup B) = SumFunctionOnSet(f, A) + SumFunctionOnSet(f, B)
  BY <1>3, SumOfUnion
<1>6. QED
  BY <1>1, <1>2, <1>4, <1>5

\* A query that asks for amounts above zero loses nothing.
LEMMA SumOfPositive ==
  ASSUME NEW A, Priced(A)
  PROVE  Sum({r \in A : r.amount > 0}) = Sum(A)
<1> DEFINE P == {r \in A : r.amount > 0}
           f == [r \in A |-> r.amount]
           g == [r \in P |-> r.amount]
<1>1. Sum(A) = SumFunctionOnSet(f, A) /\ Sum(P) = SumFunctionOnSet(g, P)
  BY DEF Sum, SumFunction
<1>2. Summable(f, A) /\ P \subseteq A /\ \A x \in A \ P : f[x] = 0
  BY DEF Priced, Summable
<1>3. \A x \in P : f[x] = g[x]
  OBVIOUS
<1> HIDE DEF f, g, P
<1>4. Summable(f, P) /\ SumFunctionOnSet(f, P) = SumFunctionOnSet(f, A)
  BY <1>2, SumOfSome
<1>5. SumFunctionOnSet(g, P) = SumFunctionOnSet(f, P)
  BY <1>3, <1>4, SumOfEquals
<1>6. QED
  BY <1>1, <1>4, <1>5 DEF P

\* A single row, and none.
LEMMA SumOfFew ==
  /\ Priced({}) /\ Sum({}) = 0
  /\ \A r : r.amount \in Nat => Priced({r}) /\ Sum({r}) = r.amount
<1>1. Priced({}) /\ Sum({}) = 0
  BY FS_EmptySet, SumOfNone DEF Priced
<1>2. ASSUME NEW r, r.amount \in Nat
      PROVE  Priced({r}) /\ Sum({r}) = r.amount
  <2>1. {} \cup {r} = {r} /\ r \notin {}
    OBVIOUS
  <2>2. Sum({} \cup {r}) = Sum({}) + r.amount
    BY <1>1, <1>2, <2>1, SumGrows DEF Priced
  <2>3. Priced({r})
    BY <1>2, FS_Singleton DEF Priced
  <2>4. QED
    BY <1>1, <1>2, <2>1, <2>2, <2>3
<1>3. QED
  BY <1>1, <1>2

\* The sum over one record.
LEMMA SumOfSingle ==
  ASSUME NEW f, NEW x, f[x] \in Int
  PROVE  SumFunctionOnSet(f, {x}) = f[x]
<1>1. Summable(f, {x}) /\ {x} \ {x} = {}
  BY FS_Singleton DEF Summable
<1>2. SumFunctionOnSet(f, {x}) = f[x] + SumFunctionOnSet(f, {x} \ {x})
  BY <1>1, SumOfRest
<1>3. QED
  BY <1>1, <1>2, SumOfNothing

-----------------------------------------------------------------------------
(* Boards *)

(***************************************************************************)
(* The gifts that were sent are finitely many, and no fee was taken that   *)
(* was not due.                                                            *)
(***************************************************************************)
GiftsInv == IsFiniteSet(gifts) /\ \A g \in gifts : g.due = 0 => g.fee = 0

\* Gifts are only added, each with the fee of its income if that is due (gift_send).
THEOREM GiftsInvariant == Spec => []GiftsInv
<1>1. Init => GiftsInv
  BY FS_EmptySet DEF Init, GiftsInv
<1>2. GiftsInv /\ [Next]_vars => GiftsInv'
  <2> SUFFICES ASSUME GiftsInv, [Next]_vars
               PROVE  GiftsInv'
    OBVIOUS
  <2>1. ASSUME NEW t \in GiftTries, GiftPay(t)
        PROVE  GiftsInv'
    <3>1. CASE UNCHANGED gifts
      BY <3>1 DEF GiftsInv
    <3>2. ASSUME NEW due \in {0, GiftFee}, NEW left,
                 gifts' = gifts \cup {[id |-> t, income |-> try[t].income, due |-> due, fee |-> FeeTaken(left, due)]}
          PROVE  GiftsInv'
      <4>1. due = 0 => FeeTaken(left, due) = 0
        BY DEF FeeTaken
      <4>2. IsFiniteSet(gifts')
        BY <3>2, FS_AddElement DEF GiftsInv
      <4>3. QED
        BY <3>2, <4>1, <4>2 DEF GiftsInv
    <3>3. QED
      BY <2>1, <3>1, <3>2 DEF GiftPay
  <2>2. ASSUME NEW t \in GiftTries, GiftRead(t) \/ GiftKey(t)
        PROVE  GiftsInv'
    BY <2>2 DEF GiftRead, GiftKey, tables, GiftsInv
  <2>3. ASSUME NEW t \in TextTries, TextRead(t) \/ TextPay(t)
        PROVE  GiftsInv'
    BY <2>3 DEF TextRead, TextPay, tables, GiftsInv
  <2>4. CASE GiftKeyExpires
    BY <2>4 DEF GiftKeyExpires, tables, GiftsInv
  <2>5. CASE Aside \/ Elsewhere
    BY <2>5, RequestsAreLeft DEF GiftsInv
  <2>6. QED
    BY <2>1, <2>2, <2>3, <2>4, <2>5, StepsAreThese
<1>3. QED
  BY <1>1, <1>2, PTL DEF Spec

\* What records of gifts and of texts add up to, as rows.
LEMMA RecordsAsRows ==
  ASSUME RecordsOK, GiftsInv, OneGift, OneText
  PROVE  /\ Priced({GiftEarned(g) : g \in gifts}) /\ Sum({GiftEarned(g) : g \in gifts}) = IncomeSum(gifts)
         /\ Priced({TextEarned(t) : t \in texts}) /\ Sum({TextEarned(t) : t \in texts}) = IncomeSum(texts)
         /\ Priced({GiftSpent(g) : g \in gifts}) /\ Sum({GiftSpent(g) : g \in gifts}) = GiftPrice * Cardinality(gifts)
         /\ Priced({TextSpent(t) : t \in texts}) /\ Sum({TextSpent(t) : t \in texts}) = TextPrice * Cardinality(texts)
<1>1. IsFiniteSet(gifts) /\ IsFiniteSet(texts)
  <2>1. ASSUME NEW t \in texts
        PROVE  texts = {t}
    BY DEF OneText
  <2>2. QED
    BY <2>1, FS_EmptySet, FS_Singleton DEF GiftsInv
<1>2. /\ \A g \in gifts : g.income \in Nat
      /\ \A t \in texts : t.income \in Nat
      /\ GiftPrice \in Nat /\ TextPrice \in Nat
  BY Amounts DEF RecordsOK, TablesOK, Gift, Text
<1>3. /\ \A g, h \in gifts : g.id = h.id => g = h
      /\ \A s, t \in texts : s.id = t.id => s = t
  BY DEF OneGift, OneText
<1>4. Priced({GiftEarned(g) : g \in gifts}) /\ Sum({GiftEarned(g) : g \in gifts}) = IncomeSum(gifts)
  <2> DEFINE e == [g \in gifts |-> GiftEarned(g)]
             a == [g \in gifts |-> g.income]
  <2>1. \A g \in gifts : a[g] \in Nat /\ e[g].amount = a[g] /\ e[g].id = g.id
    BY <1>2 DEF LedgerRow, GiftEarned
  <2>2. {e[g] : g \in gifts} = {GiftEarned(g) : g \in gifts}
    OBVIOUS
  <2> HIDE DEF e
  <2>3. Priced({e[g] : g \in gifts}) /\ Sum({e[g] : g \in gifts}) = SumFunctionOnSet(a, gifts)
    <3> HIDE DEF a
    <3>1. QED
      BY <1>1, <1>3, <2>1, SumOfRecords
  <2>4. QED
    BY <1>1, <2>2, <2>3, IncomeSumIs
<1>5. Priced({TextEarned(t) : t \in texts}) /\ Sum({TextEarned(t) : t \in texts}) = IncomeSum(texts)
  <2> DEFINE e == [t \in texts |-> TextEarned(t)]
             a == [t \in texts |-> t.income]
  <2>1. \A t \in texts : a[t] \in Nat /\ e[t].amount = a[t] /\ e[t].id = t.id
    BY <1>2 DEF LedgerRow, TextEarned
  <2>2. {e[t] : t \in texts} = {TextEarned(t) : t \in texts}
    OBVIOUS
  <2> HIDE DEF e
  <2>3. Priced({e[t] : t \in texts}) /\ Sum({e[t] : t \in texts}) = SumFunctionOnSet(a, texts)
    <3> HIDE DEF a
    <3>1. QED
      BY <1>1, <1>3, <2>1, SumOfRecords
  <2>4. QED
    BY <1>1, <2>2, <2>3, IncomeSumIs
<1>6. Priced({GiftSpent(g) : g \in gifts}) /\ Sum({GiftSpent(g) : g \in gifts}) = GiftPrice * Cardinality(gifts)
  <2> DEFINE e == [g \in gifts |-> GiftSpent(g)]
             a == [g \in gifts |-> GiftPrice]
  <2>1. \A g \in gifts : a[g] \in Nat /\ e[g].amount = a[g] /\ e[g].id = g.id
    BY <1>2 DEF LedgerRow, GiftSpent
  <2>2. {e[g] : g \in gifts} = {GiftSpent(g) : g \in gifts} /\ \A g \in gifts : a[g] = GiftPrice
    OBVIOUS
  <2> HIDE DEF e, a
  <2>3. Priced({e[g] : g \in gifts}) /\ Sum({e[g] : g \in gifts}) = SumFunctionOnSet(a, gifts)
    BY <1>1, <1>3, <2>1, SumOfRecords
  <2>4. SumFunctionOnSet(a, gifts) = GiftPrice * Cardinality(gifts)
    BY <1>1, <1>2, <2>2, SumOfConstants
  <2>5. QED
    BY <2>2, <2>3, <2>4
<1>7. Priced({TextSpent(t) : t \in texts}) /\ Sum({TextSpent(t) : t \in texts}) = TextPrice * Cardinality(texts)
  <2> DEFINE e == [t \in texts |-> TextSpent(t)]
             a == [t \in texts |-> TextPrice]
  <2>1. \A t \in texts : a[t] \in Nat /\ e[t].amount = a[t] /\ e[t].id = t.id
    BY <1>2 DEF LedgerRow, TextSpent
  <2>2. {e[t] : t \in texts} = {TextSpent(t) : t \in texts} /\ \A t \in texts : a[t] = TextPrice
    OBVIOUS
  <2> HIDE DEF e, a
  <2>3. Priced({e[t] : t \in texts}) /\ Sum({e[t] : t \in texts}) = SumFunctionOnSet(a, texts)
    BY <1>1, <1>3, <2>1, SumOfRecords
  <2>4. SumFunctionOnSet(a, texts) = TextPrice * Cardinality(texts)
    BY <1>1, <1>2, <2>2, SumOfConstants
  <2>5. QED
    BY <2>2, <2>3, <2>4
<1>8. QED
  BY <1>4, <1>5, <1>6, <1>7

\* Rows of three tables, without those of zero.
LEMMA SumOfThree ==
  ASSUME NEW A, NEW B, NEW C, Priced(A), Priced(B), Priced(C),
         A \cap B = {}, A \cap C = {}, B \cap C = {}
  PROVE  Sum({r \in A \cup B \cup C : r.amount > 0}) = Sum(A) + Sum(B) + Sum(C)
<1>1. Priced(A \cup B) /\ Sum(A \cup B) = Sum(A) + Sum(B) /\ (A \cup B) \cap C = {}
  BY SumOfApart
<1>2. Priced((A \cup B) \cup C) /\ Sum((A \cup B) \cup C) = Sum(A \cup B) + Sum(C)
  BY <1>1, SumOfApart
<1>3. QED
  BY <1>1, <1>2, SumOfPositive

\* What a user earned from others: a board sums the three tables, the ledger lists their rows.
LEMMA CharmIsListed ==
  ASSUME RecordsOK, GiftsInv, OneGift, OneText, NEW u \in Users
  PROVE  BoardScore("charm", u) =
           Sum({r \in Ledger(u) : r.key \in {"call_income", "gift_income", "im_text_income"}})
<1> DEFINE Keys == {"call_income", "gift_income", "im_text_income"}
           C == IF call # None /\ call.earner = u THEN {CallEarned} ELSE {}
           G == IF u = Peer THEN {GiftEarned(g) : g \in gifts} ELSE {}
           T == IF u = Peer THEN {TextEarned(t) : t \in texts} ELSE {}
           earned == {c \in (IF call = None THEN {} ELSE {call}) : c.earner = u}
<1>1. /\ CallEarned.key = "call_income" /\ CallEarned.user = call.earner /\ CallEarned.amount = call.income
      /\ \A g : GiftEarned(g).key = "gift_income" /\ GiftEarned(g).user = Peer
      /\ \A t : TextEarned(t).key = "im_text_income" /\ TextEarned(t).user = Peer
  BY DEF LedgerRow, CallEarned, GiftEarned, TextEarned
<1>2. /\ CallSpent.key \notin Keys /\ CallPayerFee.key \notin Keys /\ CallIncomeFee.key \notin Keys
      /\ Recharged.key \notin Keys /\ Withdrawn.key \notin Keys
      /\ \A x : /\ GiftSpent(x).key \notin Keys /\ GiftFeePaid(x).key \notin Keys
                /\ TextSpent(x).key \notin Keys /\ Adjusted(x).key \notin Keys
  BY DEF LedgerRow, CallSpent, CallPayerFee, CallIncomeFee, Recharged, Withdrawn, GiftSpent, GiftFeePaid,
         TextSpent, Adjusted
<1>3. ASSUME NEW r
      PROVE  r \in Rows /\ r.key \in Keys /\ r.user = u <=> r \in C \cup G \cup T
  <2>1. r \in Rows /\ r.key \in Keys <=> \/ call # None /\ r = CallEarned
                                         \/ \E g \in gifts : r = GiftEarned(g)
                                         \/ \E t \in texts : r = TextEarned(t)
    <3>1. /\ CallEarned.key \in Keys
          /\ \A x : GiftEarned(x).key \in Keys /\ TextEarned(x).key \in Keys
      BY <1>1
    <3> HIDE DEF Keys
    <3>2. QED
      BY <1>2, <3>1, InRows DEF OfCall, OfGift, OfText, OfOthers
  <2>2. QED
    BY <1>1, <2>1
<1>4. {r \in Ledger(u) : r.key \in Keys} = {r \in C \cup G \cup T : r.amount > 0}
  <2> HIDE DEF Keys, C, G, T
  <2>1. QED
    BY <1>3, LedgerIsRows
<1>5. Priced(C) /\ Sum(C) = IncomeSum(earned)
  <2>1. CASE call # None /\ call.earner = u
    <3>1. call.income \in Nat
      BY <2>1, Amounts DEF RecordsOK, TablesOK, Settlements
    <3>2. C = {CallEarned} /\ earned = {call}
      BY <2>1
    <3>3. Priced({CallEarned}) /\ Sum({CallEarned}) = call.income
      BY <1>1, <3>1, SumOfFew
    <3>4. IncomeSum({call}) = call.income
      <4> DEFINE f == [x \in {call} |-> x.income]
      <4>1. IncomeSum({call}) = SumFunctionOnSet(f, {call})
        BY IncomeSumIs, FS_Singleton
      <4>2. f[call] = call.income
        OBVIOUS
      <4> HIDE DEF f
      <4>3. QED
        BY <3>1, <4>1, <4>2, SumOfSingle
    <3>5. QED
      BY <3>2, <3>3, <3>4
  <2>2. CASE ~(call # None /\ call.earner = u)
    <3>1. C = {} /\ earned = {}
      BY <2>2
    <3>2. IncomeSum({}) = 0
      BY IncomeSumIs, FS_EmptySet, SumOfNothing
    <3>3. QED
      BY <3>1, <3>2, SumOfFew
  <2>3. QED
    BY <2>1, <2>2
<1>6. /\ Priced(G) /\ Sum(G) = IF u = Peer THEN IncomeSum(gifts) ELSE 0
      /\ Priced(T) /\ Sum(T) = IF u = Peer THEN IncomeSum(texts) ELSE 0
  BY RecordsAsRows, SumOfFew
<1>7. C \cap G = {} /\ C \cap T = {} /\ G \cap T = {}
  BY <1>1
<1>8. BoardScore("charm", u) = IncomeSum(earned) + (IF u = Peer THEN IncomeSum(gifts) + IncomeSum(texts) ELSE 0)
  BY BoardSums
<1>9. Sum(C) \in Int /\ Sum(G) \in Int /\ Sum(T) \in Int
  BY <1>5, <1>6, SumIsNumber DEF Priced
<1> HIDE DEF C, G, T, earned, Keys
<1>10. Sum({r \in C \cup G \cup T : r.amount > 0}) = Sum(C) + Sum(G) + Sum(T)
  BY <1>5, <1>6, <1>7, SumOfThree
<1>11. BoardScore("charm", u) = Sum(C) + Sum(G) + Sum(T)
  BY <1>5, <1>6, <1>8, <1>9
<1>12. QED
  BY <1>4, <1>10, <1>11 DEF Keys
\* What a user spent on others.
LEMMA WealthIsListed ==
  ASSUME RecordsOK, GiftsInv, OneGift, OneText, NEW u \in Users
  PROVE  BoardScore("wealth", u) =
           Sum({r \in Ledger(u) : r.key \in {"call_expense", "gift_expense", "im_text_expense"}})
<1> DEFINE Keys == {"call_expense", "gift_expense", "im_text_expense"}
           C == IF call # None /\ call.payer = u THEN {CallSpent} ELSE {}
           G == IF u = Payer THEN {GiftSpent(g) : g \in gifts} ELSE {}
           T == IF u = Payer THEN {TextSpent(t) : t \in texts} ELSE {}
           spent == {c \in (IF call = None THEN {} ELSE {call}) : c.payer = u}
<1>1. /\ CallSpent.key = "call_expense" /\ CallSpent.user = call.payer /\ CallSpent.amount = call.total
      /\ \A g : GiftSpent(g).key = "gift_expense" /\ GiftSpent(g).user = Payer
      /\ \A t : TextSpent(t).key = "im_text_expense" /\ TextSpent(t).user = Payer
  BY DEF LedgerRow, CallSpent, GiftSpent, TextSpent
<1>2. /\ CallEarned.key \notin Keys /\ CallPayerFee.key \notin Keys /\ CallIncomeFee.key \notin Keys
      /\ Recharged.key \notin Keys /\ Withdrawn.key \notin Keys
      /\ \A x : /\ GiftEarned(x).key \notin Keys /\ GiftFeePaid(x).key \notin Keys
                /\ TextEarned(x).key \notin Keys /\ Adjusted(x).key \notin Keys
  BY DEF LedgerRow, CallEarned, CallPayerFee, CallIncomeFee, Recharged, Withdrawn, GiftEarned, GiftFeePaid,
         TextEarned, Adjusted
<1>3. ASSUME NEW r
      PROVE  r \in Rows /\ r.key \in Keys /\ r.user = u <=> r \in C \cup G \cup T
  <2>1. r \in Rows /\ r.key \in Keys <=> \/ call # None /\ r = CallSpent
                                         \/ \E g \in gifts : r = GiftSpent(g)
                                         \/ \E t \in texts : r = TextSpent(t)
    <3>1. /\ CallSpent.key \in Keys
          /\ \A x : GiftSpent(x).key \in Keys /\ TextSpent(x).key \in Keys
      BY <1>1
    <3> HIDE DEF Keys
    <3>2. QED
      BY <1>2, <3>1, InRows DEF OfCall, OfGift, OfText, OfOthers
  <2>2. QED
    BY <1>1, <2>1
<1>4. {r \in Ledger(u) : r.key \in Keys} = {r \in C \cup G \cup T : r.amount > 0}
  <2> HIDE DEF Keys, C, G, T
  <2>1. QED
    BY <1>3, LedgerIsRows
<1>5. Priced(C) /\ Sum(C) = TotalSum(spent)
  <2>1. CASE call # None /\ call.payer = u
    <3>1. call.total \in Nat
      BY <2>1, Amounts DEF RecordsOK, TablesOK, Settlements
    <3>2. C = {CallSpent} /\ spent = {call}
      BY <2>1
    <3>3. Priced({CallSpent}) /\ Sum({CallSpent}) = call.total
      BY <1>1, <3>1, SumOfFew
    <3>4. TotalSum({call}) = call.total
      <4> DEFINE f == [x \in {call} |-> x.total]
      <4>1. TotalSum({call}) = SumFunctionOnSet(f, {call})
        BY TotalSumIs, FS_Singleton
      <4>2. f[call] = call.total
        OBVIOUS
      <4> HIDE DEF f
      <4>3. QED
        BY <3>1, <4>1, <4>2, SumOfSingle
    <3>5. QED
      BY <3>2, <3>3, <3>4
  <2>2. CASE ~(call # None /\ call.payer = u)
    <3>1. C = {} /\ spent = {}
      BY <2>2
    <3>2. TotalSum({}) = 0
      BY TotalSumIs, FS_EmptySet, SumOfNothing
    <3>3. QED
      BY <3>1, <3>2, SumOfFew
  <2>3. QED
    BY <2>1, <2>2
<1>6. /\ Priced(G) /\ Sum(G) = IF u = Payer THEN GiftPrice * Cardinality(gifts) ELSE 0
      /\ Priced(T) /\ Sum(T) = IF u = Payer THEN TextPrice * Cardinality(texts) ELSE 0
  BY RecordsAsRows, SumOfFew
<1>7. C \cap G = {} /\ C \cap T = {} /\ G \cap T = {}
  BY <1>1
<1>8. BoardScore("wealth", u) = TotalSum(spent) + (IF u = Payer THEN GiftPrice * Cardinality(gifts) + TextPrice * Cardinality(texts) ELSE 0)
  BY BoardSums
<1>9. Sum(C) \in Int /\ Sum(G) \in Int /\ Sum(T) \in Int
  BY <1>5, <1>6, SumIsNumber DEF Priced
<1> HIDE DEF C, G, T, spent, Keys
<1>10. Sum({r \in C \cup G \cup T : r.amount > 0}) = Sum(C) + Sum(G) + Sum(T)
  BY <1>5, <1>6, <1>7, SumOfThree
<1>11. BoardScore("wealth", u) = Sum(C) + Sum(G) + Sum(T)
  BY <1>5, <1>6, <1>8, <1>9
<1>12. QED
  BY <1>4, <1>10, <1>11 DEF Keys

-----------------------------------------------------------------------------
(* The fee bill *)

\* The fees of gifts are those of the gifts that a fee was due of.
LEMMA FeesOfGifts ==
  ASSUME RecordsOK, GiftsInv, OneGift
  PROVE  LET due == {g \in gifts : g.due > 0}
         IN  /\ Summable([g \in due |-> g.fee], due)
             /\ Priced({GiftFeePaid(g) : g \in gifts})
             /\ Sum({GiftFeePaid(g) : g \in gifts}) = SumFunctionOnSet([g \in due |-> g.fee], due)
<1> DEFINE due == {g \in gifts : g.due > 0}
           a == [g \in gifts |-> g.fee]
           b == [g \in due |-> g.fee]
           e == [g \in gifts |-> GiftFeePaid(g)]
<1>1. \A g \in gifts : g.fee \in Nat /\ (g.due > 0 \/ g.fee = 0)
  BY DEF RecordsOK, TablesOK, Gift, GiftsInv
<1>2. \A g \in gifts : a[g] \in Nat /\ e[g].amount = a[g] /\ e[g].id = g.id
  BY <1>1 DEF LedgerRow, GiftFeePaid
<1>3. {e[g] : g \in gifts} = {GiftFeePaid(g) : g \in gifts}
  OBVIOUS
<1>4. due \subseteq gifts /\ (\A g \in gifts \ due : a[g] = 0) /\ \A g \in due : a[g] = b[g]
  BY <1>1
<1>5. Summable(a, gifts) /\ IsFiniteSet(gifts)
  BY <1>2 DEF GiftsInv, Summable
<1> HIDE DEF due, a, b, e
<1>6. Priced({e[g] : g \in gifts}) /\ Sum({e[g] : g \in gifts}) = SumFunctionOnSet(a, gifts)
  <2>1. \A x, y \in gifts : e[x].id = e[y].id => x = y
    BY <1>2 DEF OneGift
  <2>2. QED
    BY <1>2, <1>5, <2>1, SumOfRecords
<1>7. Summable(a, due) /\ SumFunctionOnSet(a, due) = SumFunctionOnSet(a, gifts)
  BY <1>4, <1>5, SumOfSome
<1>8. SumFunctionOnSet(b, due) = SumFunctionOnSet(a, due) /\ Summable(b, due)
  BY <1>4, <1>7, SumOfEquals DEF Summable
<1>9. QED
  BY <1>3, <1>6, <1>7, <1>8 DEF due, b

(***************************************************************************)
(* The fee bill of all users has a row per call and per gift that a fee    *)
(* was due of, the ledger one per fee.                                     *)
(***************************************************************************)
LEMMA FeesAreListed ==
  ASSUME RecordsOK, GiftsInv, OneGift
  PROVE  LET ofKeys(keys) == {r \in Ledger(Payer) \cup Ledger(Peer) : r.key \in keys}
         IN  /\ CoinSum(FeeBill) = Sum(ofKeys({"gift_fee", "call_fee_payer"}))
             /\ DiamondSum(FeeBill) = Sum(ofKeys({"call_fee_income"}))
<1> DEFINE ofKeys(keys) == {r \in Ledger(Payer) \cup Ledger(Peer) : r.key \in keys}
           CoinKeys    == {"gift_fee", "call_fee_payer"}
           DiamondKeys == {"call_fee_income"}
           P == IF call # None THEN {CallPayerFee} ELSE {}
           D == IF call # None THEN {CallIncomeFee} ELSE {}
           G == {GiftFeePaid(g) : g \in gifts}
           due  == {g \in gifts : g.due > 0}
           e    == [g \in due |-> [biz |-> "gift", id |-> g.id, coins |-> g.fee, diamonds |-> 0]]
           fee  == [g \in due |-> g.fee]
           zero == [g \in due |-> 0]
           c    == [biz |-> "call", id |-> 1, coins |-> call.payerFee, diamonds |-> call.incomeFee]
           FC   == IF call = None THEN {} ELSE {c}
           FG   == {e[g] : g \in due}
           coin    == [x \in FC \cup FG |-> x.coins]
           diamond == [x \in FC \cup FG |-> x.diamonds]
<1>1. /\ CallPayerFee.key = "call_fee_payer" /\ CallPayerFee.user = call.payer /\ CallPayerFee.amount = call.payerFee
      /\ CallIncomeFee.key = "call_fee_income" /\ CallIncomeFee.user = call.earner
      /\ CallIncomeFee.amount = call.incomeFee
      /\ \A g : GiftFeePaid(g).key = "gift_fee" /\ GiftFeePaid(g).user = Payer
  BY DEF LedgerRow, CallPayerFee, CallIncomeFee, GiftFeePaid
<1>2. LET Keys == CoinKeys \cup DiamondKeys
      IN  /\ CallSpent.key \notin Keys /\ CallEarned.key \notin Keys
          /\ Recharged.key \notin Keys /\ Withdrawn.key \notin Keys
          /\ \A x : /\ GiftSpent(x).key \notin Keys /\ GiftEarned(x).key \notin Keys
                    /\ TextSpent(x).key \notin Keys /\ TextEarned(x).key \notin Keys
                    /\ Adjusted(x).key \notin Keys
  BY DEF LedgerRow, CallSpent, CallEarned, Recharged, Withdrawn, GiftSpent, GiftEarned, TextSpent, TextEarned, Adjusted
<1>3. call # None => /\ call.payer \in Users /\ call.earner \in Users
                     /\ call.payerFee \in Nat /\ call.incomeFee \in Nat
  BY Amounts DEF RecordsOK, TablesOK, Settlements
<1>4. ASSUME NEW r
      PROVE  /\ r \in Rows /\ r.key \in CoinKeys /\ r.user \in Users <=> r \in P \cup G
             /\ r \in Rows /\ r.key \in DiamondKeys /\ r.user \in Users <=> r \in D
  <2>1. /\ CallPayerFee.key \in CoinKeys /\ CallPayerFee.key \notin DiamondKeys
        /\ CallIncomeFee.key \in DiamondKeys /\ CallIncomeFee.key \notin CoinKeys
        /\ \A x : GiftFeePaid(x).key \in CoinKeys /\ GiftFeePaid(x).key \notin DiamondKeys
    BY <1>1
  <2> HIDE DEF CoinKeys, DiamondKeys
  <2>2. /\ r \in Rows /\ r.key \in CoinKeys <=> \/ call # None /\ r = CallPayerFee
                                                \/ \E g \in gifts : r = GiftFeePaid(g)
        /\ r \in Rows /\ r.key \in DiamondKeys <=> call # None /\ r = CallIncomeFee
    BY <1>2, <2>1, InRows DEF OfCall, OfGift, OfText, OfOthers
  <2>3. QED
    BY <1>1, <1>3, <2>2 DEF Users
<1>5. /\ ofKeys(CoinKeys) = {r \in P \cup G : r.amount > 0}
      /\ ofKeys(DiamondKeys) = {r \in D : r.amount > 0}
  <2>1. \A keys : ofKeys(keys) = {r \in Rows : r.key \in keys /\ r.user \in Users /\ r.amount > 0}
    BY LedgerIsRows DEF Users
  <2> HIDE DEF CoinKeys, DiamondKeys, P, D, G, ofKeys
  <2>2. QED
    BY <1>4, <2>1
<1>6. /\ Priced(P) /\ Sum(P) = IF call # None THEN call.payerFee ELSE 0
      /\ Priced(D) /\ Sum(D) = IF call # None THEN call.incomeFee ELSE 0
      /\ Priced(G) /\ Sum(G) = SumFunctionOnSet(fee, due) /\ Summable(fee, due)
  BY <1>1, <1>3, SumOfFew, FeesOfGifts
<1>7. P \cap G = {}
  BY <1>1
<1>8. FeeBill = FC \cup FG
  BY DEF FeeBill
<1>9. /\ \A g \in due : e[g].coins = g.fee /\ e[g].diamonds = 0 /\ e[g].id = g.id /\ e[g].biz = "gift"
      /\ c.biz = "call" /\ c.coins = call.payerFee /\ c.diamonds = call.incomeFee
  OBVIOUS
<1>10. \A x, y \in due : e[x] = e[y] => x = y
  <2>1. \A x, y \in due : x.id = y.id => x = y
    BY DEF OneGift
  <2> HIDE DEF e, due
  <2>2. QED
    BY <1>9, <2>1
<1>11. FC \cap FG = {}
  <2> HIDE DEF e, c
  <2>1. QED
    BY <1>9
<1>12. /\ Summable(zero, due) /\ SumFunctionOnSet(zero, due) = 0
  <2>1. Summable(zero, due) /\ \A x \in due : zero[x] = 0
    BY <1>6 DEF Summable
  <2>2. QED
    BY <2>1, SumOfZeros DEF Summable
<1>13. /\ Summable(coin, FG) /\ SumFunctionOnSet(coin, FG) = SumFunctionOnSet(fee, due)
       /\ Summable(diamond, FG) /\ SumFunctionOnSet(diamond, FG) = 0
  <2>1. \A g \in due : coin[e[g]] = fee[g] /\ diamond[e[g]] = zero[g]
    <3>1. \A g \in due : e[g] \in FG /\ coin[e[g]] = e[g].coins /\ diamond[e[g]] = e[g].diamonds
      OBVIOUS
    <3> HIDE DEF e, due, coin, diamond
    <3>2. QED
      BY <1>9, <3>1
  <2> HIDE DEF e, due, coin, diamond, fee, zero
  <2>2. Summable(coin, FG) /\ SumFunctionOnSet(coin, FG) = SumFunctionOnSet(fee, due)
    BY <1>6, <1>10, <2>1, SumOfImage
  <2>3. Summable(diamond, FG) /\ SumFunctionOnSet(diamond, FG) = SumFunctionOnSet(zero, due)
    BY <1>10, <1>12, <2>1, SumOfImage
  <2>4. QED
    BY <1>12, <2>2, <2>3
<1>14. /\ Summable(coin, FC) /\ SumFunctionOnSet(coin, FC) = Sum(P)
       /\ Summable(diamond, FC) /\ SumFunctionOnSet(diamond, FC) = Sum(D)
  <2>1. CASE call = None
    <3>1. FC = {}
      BY <2>1
    <3>2. QED
      BY <1>6, <2>1, <3>1, SumOfNothing, FS_EmptySet DEF Summable
  <2>2. CASE call # None
    <3>1. FC = {c} /\ coin[c] = call.payerFee /\ diamond[c] = call.incomeFee
      BY <2>2
    <3>2. call.payerFee \in Int /\ call.incomeFee \in Int
      BY <1>3, <2>2
    <3> HIDE DEF coin, diamond, c, FC, P, D
    <3>3. coin[c] \in Int /\ diamond[c] \in Int
      BY <3>1, <3>2, Zenon
    <3>4. Summable(coin, {c}) /\ Summable(diamond, {c})
      BY <3>3, FS_Singleton DEF Summable
    <3>5. SumFunctionOnSet(coin, {c}) = coin[c] /\ SumFunctionOnSet(diamond, {c}) = diamond[c]
      BY <3>3, SumOfSingle
    <3>6. QED
      BY <1>6, <2>2, <3>1, <3>4, <3>5, Zenon
  <2>3. QED
    BY <2>1, <2>2
<1>15. CoinSum(FeeBill) = SumFunctionOnSet(coin, FC \cup FG) /\ DiamondSum(FeeBill) = SumFunctionOnSet(diamond, FC \cup FG)
  <2>1. IsFiniteSet(FC \cup FG)
    BY <1>13, <1>14, FS_Union DEF Summable
  <2> HIDE DEF FC, FG
  <2>2. QED
    BY <1>8, <2>1, CoinSumIs, DiamondSumIs
<1> HIDE DEF ofKeys, CoinKeys, DiamondKeys, P, D, G, FC, FG, coin, diamond, due, fee
<1>16. /\ SumFunctionOnSet(coin, FC \cup FG) = SumFunctionOnSet(coin, FC) + SumFunctionOnSet(coin, FG)
       /\ SumFunctionOnSet(diamond, FC \cup FG) = SumFunctionOnSet(diamond, FC) + SumFunctionOnSet(diamond, FG)
  BY <1>11, <1>13, <1>14, SumOfUnion
<1>17. Sum(ofKeys(CoinKeys)) = Sum(P) + Sum(G)
  <2>1. Priced(P \cup G) /\ Sum(P \cup G) = Sum(P) + Sum(G)
    BY <1>6, <1>7, SumOfApart
  <2>2. QED
    BY <1>5, <2>1, SumOfPositive
<1>18. Sum(ofKeys(DiamondKeys)) = Sum(D)
  BY <1>5, <1>6, SumOfPositive
<1>19. Sum(D) \in Int
  BY <1>3, <1>6
<1>20. /\ CoinSum(FeeBill) = Sum(ofKeys(CoinKeys))
       /\ DiamondSum(FeeBill) = Sum(ofKeys(DiamondKeys))
  BY <1>6, <1>13, <1>14, <1>15, <1>16, <1>17, <1>18, <1>19
<1>21. QED
  BY <1>20 DEF ofKeys, CoinKeys, DiamondKeys

(***************************************************************************)
(* The reports tell the same story: for any number of gifts, texts and     *)
(* adjustments, and any prices and fees.                                   *)
(***************************************************************************)
THEOREM ReportsTellTheSame == Spec => []ReportsAgree
<1>1. RecordsOK /\ GiftsInv /\ CountInv /\ LedgerExplains => ReportsAgree
  <2> SUFFICES ASSUME RecordsOK, GiftsInv, CountInv, LedgerExplains
               PROVE  ReportsAgree
    OBVIOUS
  <2>1. OneGift /\ OneText
    BY DEF CountInv
  <2>2. \A u \in Users : UserBill(u) = Ledger(u)
    BY BillIsLedger
  <2>3. ASSUME NEW u \in Users
        PROVE  crossed \/ coins[u] = Start + BillTotal(u, "coins")
    <3>1. /\ {r \in UserBill(u) : r.asset = "coins" /\ r.income = TRUE} = ListLedger(u, {"coins"}, {TRUE})
          /\ {r \in UserBill(u) : r.asset = "coins" /\ r.income = FALSE} = ListLedger(u, {"coins"}, {FALSE})
      BY <2>2 DEF Ledger, ListLedger
    <3>2. BillTotal(u, "coins") = Sum(ListLedger(u, {"coins"}, {TRUE})) - Sum(ListLedger(u, {"coins"}, {FALSE}))
      BY <3>1 DEF BillTotal
    <3>3. QED
      BY <3>2 DEF LedgerExplains
  <2>4. ASSUME NEW u \in Users, call = None \/ call.caller = call.payer
        PROVE  {r \in Transactions(u) : r.amount > 0} = {r \in Ledger(u) :
                  r.key \notin {"gift_fee", "call_fee_payer", "call_fee_income", "token_adjust"}}
    BY <2>4, TransactionsAreLedger
  <2>5. \A u \in Users :
          /\ BoardScore("charm", u) =
               Sum({r \in Ledger(u) : r.key \in {"call_income", "gift_income", "im_text_income"}})
          /\ BoardScore("wealth", u) =
               Sum({r \in Ledger(u) : r.key \in {"call_expense", "gift_expense", "im_text_expense"}})
    BY <2>1, CharmIsListed, WealthIsListed
  <2>6. LET ofKeys(keys) == {r \in Ledger(Payer) \cup Ledger(Peer) : r.key \in keys}
        IN  /\ MapThenSumSet(LAMBDA f : f.coins, FeeBill) = Sum(ofKeys({"gift_fee", "call_fee_payer"}))
            /\ MapThenSumSet(LAMBDA f : f.diamonds, FeeBill) = Sum(ofKeys({"call_fee_income"}))
    BY <2>1, FeeSums, FeesAreListed
  <2>7. QED
    BY <2>2, <2>3, <2>4, <2>5, <2>6 DEF ReportsAgree, Ledger
<1>2. QED
  BY <1>1, LedgerTypes, GiftsInvariant, CountInvariant, BalancesAreExplained, PTL
=============================================================================
