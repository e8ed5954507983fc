--------------------------- MODULE ServicesProofs ---------------------------
(***************************************************************************)
(* Proofs about the services of an account: Withdraw, WithdrawAccount,     *)
(* Broadcasts, CallTrace, WsPresence and Ranking.                          *)
(*                                                                         *)
(*   Withdraw: its types, that the books balance up to what second         *)
(*   decisions of an application made, however reviews overlap, and that   *)
(*   an application no review holds stays as it was decided.               *)
(*   WithdrawAccount: what is paid to was seen by the administrator who    *)
(*   approved it, but where the page was outdated.                         *)
(*   Broadcasts: an app shows what a user is, or is going to be told.      *)
(*   CallTrace: one end of a call is told, to one side, however often it   *)
(*   is sent.                                                              *)
(*   WsPresence: the newest connection keeps its user online.              *)
(*   Ranking: a board is only replaced by a later one.                     *)
(***************************************************************************)
EXTENDS Withdraw, WithdrawAccount, CallTrace, Broadcasts, WsPresence, Ranking, SumProofs, SequenceTheorems

\* A review past its check works on an application that exists, and whose row it may lock.
ReviewInv ==
  /\ TypeOK
  /\ \A r \in Reviewers : review[r].pc # "idle" =>
       /\ review[r].on \in Applies
       /\ apply[review[r].on].status # "absent"
  /\ \A w \in Applies : apply[w].status # "absent" => apply[w].user \in Users /\ apply[w].amount \in Packages

\* The amounts on offer are natural numbers.
LEMMA PackagesAreNat == \A a \in Packages \cup {0} : a \in Nat
  BY PackagesArePositive

\* No release takes a frozen balance below zero.
LEMMA UnfreezeIsNat == \A held, amount \in Nat : Unfreeze(held, amount) \in Nat
  BY DEF Unfreeze

\* So are what a decision confirms as paid, and what it decides again.
LEMMA DecisionsAreNat ==
  ASSUME NEW entry \in ApplyRow, NEW decision
  PROVE  Paid(decision, entry) \in Nat /\ Again(entry) \in Nat
  BY PackagesAreNat DEF Paid, Again, ApplyRow

\* Every handler keeps the rows, the locks and the reviews well formed.
THEOREM ReviewInvariant == Spec => []ReviewInv
<1> USE PackagesAreNat DEF ReviewInv, TypeOK, ApplyRow, Review, Decisions
<1>1. Init => ReviewInv
  BY InitDiamondsIsNat DEF Init, NoApply, Idle
<1>2. ReviewInv /\ [Next]_vars => ReviewInv'
  <2> SUFFICES ASSUME ReviewInv, [Next]_vars
               PROVE  ReviewInv'
    OBVIOUS
  <2>1. ASSUME NEW u \in Users, NEW w \in Applies, NEW amount \in Packages, NEW redisUp \in BOOLEAN,
               ApplyAccepted(u, w, amount, redisUp)
        PROVE  ReviewInv'
    BY <2>1 DEF ApplyAccepted, TakeKey, Affords, tally
  <2>2. ASSUME NEW u \in Users, NEW amount \in Packages, ApplyRefused(u, amount)
        PROVE  ReviewInv'
    BY <2>2 DEF ApplyRefused, TakeKey, tally
  <2>3. ASSUME NEW u \in Users, KeyExpires(u)
        PROVE  ReviewInv'
    BY <2>3 DEF KeyExpires, tally
  <2>4. ASSUME NEW r \in Reviewers, NEW w \in Applies, NEW decision \in Decisions,
               ReviewCheck(r, w, decision)
        PROVE  ReviewInv'
    BY <2>4 DEF ReviewCheck, Reviewable, Idle, tally
  <2>5. ASSUME NEW r \in Reviewers, ReviewMove(r)
        PROVE  ReviewInv'
    <3> DEFINE entry == apply[review[r].on]
               u   == entry.user
    <3>1. review[r].pc = "checked" /\ review[r].on \in Applies /\ entry.status # "absent"
      BY <2>5 DEF ReviewMove
    <3>2. u \in Users /\ entry.amount \in Nat
      BY <3>1
    <3>3. /\ Refund(review[r].decision, entry.amount) \in Nat
          /\ Unfreeze(frozen[u], entry.amount) \in Nat
      BY <3>2, UnfreezeIsNat DEF Refund
    <3>4. /\ diamonds' = [diamonds EXCEPT ![u] = @ + Refund(review[r].decision, entry.amount)]
          /\ frozen' = [frozen EXCEPT ![u] = Unfreeze(@, entry.amount)]
          /\ rowLock' = [rowLock EXCEPT ![u] = r]
          /\ review' = [review EXCEPT ![r].pc = "moved", ![r].oldDiamonds = diamonds[u], ![r].oldFrozen = frozen[u]]
          /\ apply' = apply /\ cooling' = cooling /\ paidOut' = paidOut /\ repeated' = repeated
      BY <2>5 DEF ReviewMove, tally
    <3> HIDE DEF entry, u
    <3>5. diamonds' \in [Users -> Nat] /\ frozen' \in [Users -> Nat] /\ rowLock' \in [Users -> Reviewers \cup {NoOne}]
      BY <3>2, <3>3, <3>4
    <3>6. review' \in [Reviewers -> Review]
      <4>1. diamonds[u] \in Nat /\ frozen[u] \in Nat
        BY <3>2
      <4>2. [review[r] EXCEPT !.pc = "moved", !.oldDiamonds = diamonds[u], !.oldFrozen = frozen[u]] \in Review
        BY <4>1
      <4>3. review' = [review EXCEPT ![r] =
                 [review[r] EXCEPT !.pc = "moved", !.oldDiamonds = diamonds[u], !.oldFrozen = frozen[u]]]
        BY <3>4
      <4>4. QED
        BY <4>2, <4>3
    <3>7. \A s \in Reviewers : review'[s].on = review[s].on /\ (review'[s].pc # "idle" => review[s].pc # "idle")
      BY <3>1, <3>4
    <3>8. QED
      BY <3>4, <3>5, <3>6, <3>7
  <2>6. ASSUME NEW r \in Reviewers, ReviewCommit(r)
        PROVE  ReviewInv'
    <3> DEFINE w == review[r].on
               u == apply[w].user
               status == IF review[r].decision = "reject" THEN "rejected" ELSE "paid"
    <3>1. w \in Applies /\ u \in Users /\ apply[w] \in ApplyRow /\ apply[w].status # "absent"
      BY <2>6 DEF ReviewCommit
    <3>2. Paid(review[r].decision, apply[w]) \in Nat /\ Again(apply[w]) \in Nat
      BY <3>1, DecisionsAreNat
    <3>3. /\ apply' = [apply EXCEPT ![w].status = status]
          /\ rowLock' = [rowLock EXCEPT ![u] = NoOne] /\ review' = [review EXCEPT ![r] = Idle]
          /\ paidOut' = [paidOut EXCEPT ![u] = @ + Paid(review[r].decision, apply[w])]
          /\ repeated' = [repeated EXCEPT ![u] = @ + Again(apply[w])]
          /\ diamonds' = diamonds /\ frozen' = frozen /\ cooling' = cooling
      BY <2>6 DEF ReviewCommit, ReleaseRow
    <3>4. status \in {"paid", "rejected"}
      OBVIOUS
    <3> HIDE DEF status, u, w
    <3>5. paidOut' \in [Users -> Nat] /\ repeated' \in [Users -> Nat] /\ rowLock' \in [Users -> Reviewers \cup {NoOne}]
      BY <3>1, <3>2, <3>3
    <3>6. /\ apply' \in [Applies -> ApplyRow]
          /\ \A v \in Applies : apply'[v].user = apply[v].user /\ apply'[v].amount = apply[v].amount
          /\ \A v \in Applies : apply'[v].status # "absent" <=> apply[v].status # "absent"
      BY <3>1, <3>3, <3>4
    <3>7. review' \in [Reviewers -> Review] /\ \A q \in Reviewers : review'[q].pc # "idle" => review'[q] = review[q]
      BY <3>3 DEF Idle
    <3>8. QED
      BY <3>3, <3>5, <3>6, <3>7
  <2>7. ASSUME NEW r \in Reviewers, ReviewLost(r)
        PROVE  ReviewInv'
    <3> DEFINE u == apply[review[r].on].user
    <3>1. /\ review' = [review EXCEPT ![r] = Idle]
          /\ UNCHANGED <<apply, cooling, paidOut, repeated>>
          /\ \/ UNCHANGED <<diamonds, frozen, rowLock>>
             \/ /\ diamonds' = [diamonds EXCEPT ![u] = review[r].oldDiamonds]
                /\ frozen' = [frozen EXCEPT ![u] = review[r].oldFrozen]
                /\ rowLock' = [rowLock EXCEPT ![u] = NoOne]
      BY <2>7 DEF ReviewLost, ReleaseRow, tally
    <3> HIDE DEF u
    <3>2. diamonds' \in [Users -> Nat] /\ frozen' \in [Users -> Nat] /\ rowLock' \in [Users -> Reviewers \cup {NoOne}]
      BY <3>1
    <3>3. review' \in [Reviewers -> Review] /\ \A q \in Reviewers : review'[q].pc # "idle" => review'[q] = review[q]
      BY <3>1 DEF Idle
    <3>4. QED
      BY <3>1, <3>2, <3>3
  <2>8. CASE UNCHANGED vars
    BY <2>8 DEF vars, tally
  <2>9. QED
    BY <2>1, <2>2, <2>3, <2>4, <2>5, <2>6, <2>7, <2>8 DEF Next
<1>3. QED
  BY <1>1, <1>2, PTL DEF Spec

(***************************************************************************)
(* The review that holds a user's row is the one that has moved the user's *)
(* diamonds.  Two reviews of one application that overlap both see it      *)
(* pending, since withdraw_review takes no lock on it, but they move one   *)
(* after the other, since both need the row of its user.                   *)
(***************************************************************************)
Open(r)        == review[r].pc # "idle"
Moving(r)      == review[r].pc = "moved"
Application(r) == apply[review[r].on]

LockedByMover ==
  \A u \in Users, r \in Reviewers : rowLock[u] = r <=> Moving(r) /\ Application(r).user = u

\* A review that is not open is of no application.
IdleIsOfNone == \A r \in Reviewers : ~Open(r) => review[r].on = NoOne

ReviewsInTurn == ReviewInv /\ LockedByMover /\ IdleIsOfNone

\* Reviews of a user's applications take the user's row in turn, and a settled application stays as it is.
LEMMA ReviewsTakeTurns ==
  ASSUME ReviewsInTurn, [Next]_vars, ReviewInv'
  PROVE  /\ ReviewsInTurn'
         /\ \A w \in Applies : Settled(w) => apply'[w] = apply[w] /\ Settled(w)'
<1> DEFINE Goal == /\ LockedByMover' /\ IdleIsOfNone'
                   /\ \A w \in Applies : Settled(w) => apply'[w] = apply[w] /\ Settled(w)'
<1> USE NoOneIsNew DEF ReviewsInTurn, LockedByMover, IdleIsOfNone, Settled, ReviewInv, TypeOK, ApplyRow,
                      Review, Decisions, Open, Moving, Application
<1>1. ASSUME NEW u \in Users, NEW v \in Applies, NEW amount \in Packages, NEW redisUp \in BOOLEAN,
             ApplyAccepted(u, v, amount, redisUp)
      PROVE  Goal
  BY <1>1 DEF ApplyAccepted
<1>2. ASSUME NEW r \in Reviewers, NEW v \in Applies, NEW decision \in Decisions, ReviewCheck(r, v, decision)
      PROVE  Goal
  BY <1>2 DEF ReviewCheck, Reviewable, Idle
<1>3. ASSUME NEW r \in Reviewers, ReviewMove(r)
      PROVE  Goal
  <2> DEFINE u == Application(r).user
  <2>1. Open(r) /\ u \in Users /\ rowLock[u] = NoOne
    BY <1>3 DEF ReviewMove
  <2>2. /\ apply' = apply /\ rowLock' = [rowLock EXCEPT ![u] = r]
        /\ \A s \in Reviewers : review'[s].on = review[s].on /\ (s # r => review'[s] = review[s])
        /\ review'[r].pc = "moved"
    <3>1. /\ apply' = apply /\ rowLock' = [rowLock EXCEPT ![u] = r]
          /\ review' = [review EXCEPT ![r].pc = "moved", ![r].oldDiamonds = diamonds[u], ![r].oldFrozen = frozen[u]]
      BY <1>3 DEF ReviewMove
    <3> HIDE DEF u
    <3>2. QED
      BY <3>1
  <2>3. ~Moving(r)
    BY <1>3 DEF ReviewMove
  <2>4. \A s \in Reviewers : Application(s)' = Application(s) /\ (Moving(s)' <=> Moving(s) \/ s = r) /\ (Open(s)' <=> Open(s))
    BY <2>1, <2>2
  <2>5. LockedByMover' /\ IdleIsOfNone'
    BY <2>1, <2>2, <2>3, <2>4
  <2>6. QED
    BY <2>2, <2>4, <2>5
<1>4. ASSUME NEW r \in Reviewers, ReviewCommit(r)
      PROVE  Goal
  BY <1>4 DEF ReviewCommit, ReleaseRow, Idle
<1>5. ASSUME NEW r \in Reviewers, ReviewLost(r)
      PROVE  Goal
  BY <1>5 DEF ReviewLost, ReleaseRow, Idle
<1>6. ASSUME NEW u \in Users, KeyExpires(u) \/ (\E amount \in Packages : ApplyRefused(u, amount))
      PROVE  Goal
  <2>1. UNCHANGED <<apply, rowLock, review>>
    BY <1>6 DEF KeyExpires, ApplyRefused
  <2>2. QED
    BY <2>1
<1>7. CASE UNCHANGED vars
  BY <1>7 DEF vars
<1>8. QED
  BY <1>1, <1>2, <1>3, <1>4, <1>5, <1>6, <1>7 DEF Next

(***************************************************************************)
(* The books of one user, holding d diamonds and f frozen ones: what the   *)
(* user holds, has pending and was paid is what there was at the start and *)
(* what second decisions made; and no more is frozen than is pending, and  *)
(* no less if there was no second decision.                                *)
(***************************************************************************)
Balanced(u, d, f) ==
  /\ d + AmountIn("pending", u) + paidOut[u] = InitDiamonds + repeated[u]
  /\ f <= AmountIn("pending", u)
  /\ repeated[u] = 0 => f = AmountIn("pending", u)

UnlockedIsBalanced == \A u \in Users : rowLock[u] = NoOne => Balanced(u, diamonds[u], frozen[u])

\* A review that holds u's row found balanced books, and moved the application's amount out of them.
MovedFromBalance(r, u) ==
  /\ Balanced(u, review[r].oldDiamonds, review[r].oldFrozen)
  /\ diamonds[u] = review[r].oldDiamonds + Refund(review[r].decision, Application(r).amount)
  /\ frozen[u] = Unfreeze(review[r].oldFrozen, Application(r).amount)

LockedIsMoved == \A u \in Users, r \in Reviewers : rowLock[u] = r => MovedFromBalance(r, u)

BooksInv ==
  /\ ReviewsInTurn
  /\ UnlockedIsBalanced
  /\ LockedIsMoved

\* What a user's applications of some status amount to is a sum of natural numbers, one of them each row's.
LEMMA AmountsAreNat ==
  ASSUME apply \in [Applies -> ApplyRow], NEW status, NEW u
  PROVE  /\ AmountIn(status, u) \in Nat
         /\ \A w \in Applies : Amount(apply[w], status, u) \in Nat /\ Amount(apply[w], status, u) <= AmountIn(status, u)
<1> DEFINE f == [w \in Applies |-> Amount(apply[w], status, u)]
<1>1. \A w \in Applies : Amount(apply[w], status, u) \in Nat
  BY PackagesAreNat DEF Amount, ApplyRow
<1>2. f \in [Applies -> Nat]
  BY <1>1
<1>3. /\ SumFunction(f) \in Nat
      /\ \A w \in Applies : f[w] <= SumFunction(f)
  <2> HIDE DEF f
  <2>1. QED
    BY <1>2, AppliesAreFinite, TotalOfNats
<1>4. QED
  BY <1>1, <1>3 DEF AmountIn

\* The step gives application v a new entry and leaves the others alone.
Rewrites(v, entry) == apply' = [apply EXCEPT ![v] = entry]

\* Rewriting one application changes what a user's applications amount to by the change of its amount.
LEMMA AmountsMove ==
  ASSUME apply \in [Applies -> ApplyRow], NEW v \in Applies, NEW entry \in ApplyRow,
         Rewrites(v, entry), NEW status, NEW u
  PROVE  AmountIn(status, u)' = AmountIn(status, u) + (Amount(entry, status, u) - Amount(apply[v], status, u))
<1> DEFINE f == [w \in Applies |-> Amount(apply[w], status, u)]
           g == [w \in Applies |-> Amount(apply'[w], status, u)]
<1>1. \A x \in ApplyRow : Amount(x, status, u) \in Int
  BY PackagesAreNat DEF Amount, ApplyRow
<1>2. apply' = [apply EXCEPT ![v] = entry] /\ apply' \in [Applies -> ApplyRow]
  BY DEF Rewrites
<1>3. f \in [Applies -> Int] /\ g \in [Applies -> Int]
  BY <1>1, <1>2
<1>4. \A w \in Applies : w # v => g[w] = f[w]
  BY <1>2
<1>5. SumFunction(g) = SumFunction(f) + (g[v] - f[v])
  <2> HIDE DEF f, g
  <2>1. QED
    BY <1>3, <1>4, AppliesAreFinite, TotalChanges
<1>6. g[v] = Amount(entry, status, u)
  BY <1>2
<1>7. QED
  BY <1>5, <1>6 DEF AmountIn

\* Every handler keeps the books of the users whose rows it leaves unlocked, and can be rolled back.
LEMMA BooksStayBalanced ==
  ASSUME BooksInv, [Next]_vars, ReviewsInTurn'
  PROVE  UnlockedIsBalanced' /\ LockedIsMoved'
<1> DEFINE Goal == UnlockedIsBalanced' /\ LockedIsMoved'
<1> USE NoOneIsNew DEF BooksInv, UnlockedIsBalanced, LockedIsMoved, ReviewsInTurn
<1>1. /\ apply \in [Applies -> ApplyRow]
      /\ \A w \in Applies : apply[w].amount \in Nat
      /\ diamonds \in [Users -> Nat] /\ frozen \in [Users -> Nat]
      /\ paidOut \in [Users -> Nat] /\ repeated \in [Users -> Nat]
      /\ rowLock \in [Users -> Reviewers \cup {NoOne}] /\ review \in [Reviewers -> Review]
  BY PackagesAreNat DEF ReviewInv, TypeOK, ApplyRow
<1>2. ASSUME NEW r \in Reviewers, Open(r)
      PROVE  /\ review[r].on \in Applies /\ Application(r).status # "absent" /\ Application(r).user \in Users
             /\ Application(r).amount \in Nat \ {0}
  BY <1>1, <1>2, PackagesArePositive DEF ReviewInv, Open, Application
<1>3. \A r \in Reviewers, u \in Users : rowLock[u] = r <=> Moving(r) /\ Application(r).user = u
  BY DEF LockedByMover
\* The books of a user whom a step touches in no way.
<1>4. ASSUME NEW u \in Users, diamonds'[u] = diamonds[u], frozen'[u] = frozen[u], rowLock'[u] = rowLock[u],
             AmountIn("pending", u)' = AmountIn("pending", u), paidOut'[u] = paidOut[u], repeated'[u] = repeated[u],
             \A r \in Reviewers : rowLock[u] = r =>
               review'[r] = review[r] /\ Application(r)'.amount = Application(r).amount
      PROVE  /\ rowLock'[u] = NoOne => Balanced(u, diamonds[u], frozen[u])'
             /\ \A r \in Reviewers : rowLock'[u] = r => MovedFromBalance(r, u)'
  BY <1>4 DEF Balanced, MovedFromBalance
\* A step that leaves the applications alone.
<1>5. ASSUME apply' = apply
      PROVE  \A u \in Users : AmountIn("pending", u)' = AmountIn("pending", u)
  BY <1>5 DEF AmountIn
<1>6. ASSUME NEW u \in Users, NEW v \in Applies, NEW amount \in Packages, NEW redisUp \in BOOLEAN,
             ApplyAccepted(u, v, amount, redisUp)
      PROVE  Goal
  <2> DEFINE entry == [status |-> "pending", user |-> u, amount |-> amount]
  <2>1. /\ apply[v].status = "absent" /\ rowLock[u] = NoOne /\ apply' = [apply EXCEPT ![v] = entry]
        /\ diamonds' = [diamonds EXCEPT ![u] = @ - amount] /\ frozen' = [frozen EXCEPT ![u] = @ + amount]
        /\ rowLock' = rowLock /\ review' = review /\ paidOut' = paidOut /\ repeated' = repeated
    BY <1>6 DEF ApplyAccepted, tally
  <2>2. entry \in ApplyRow /\ amount \in Nat
    BY PackagesArePositive DEF ApplyRow
  <2>3. ASSUME NEW x \in Users
        PROVE  /\ AmountIn("pending", x) \in Nat
               /\ AmountIn("pending", x)' = AmountIn("pending", x) + (IF x = u THEN amount ELSE 0)
    <3>1. AmountIn("pending", x)' =
            AmountIn("pending", x) + (Amount(entry, "pending", x) - Amount(apply[v], "pending", x))
      <4>1. Rewrites(v, entry)
        BY <2>1 DEF Rewrites
      <4> HIDE DEF entry
      <4>2. QED
        BY <1>1, <2>2, <4>1, AmountsMove
    <3>2. AmountIn("pending", x) \in Nat
      BY <1>1, AmountsAreNat
    <3>3. Amount(entry, "pending", x) = (IF x = u THEN amount ELSE 0) /\ Amount(apply[v], "pending", x) = 0
      BY <2>1 DEF Amount
    <3>4. QED
      BY <2>2, <3>1, <3>2, <3>3
  <2>4. \A r \in Reviewers, x \in Users : rowLock[x] = r => Application(r)' = Application(r)
    BY <1>2, <1>3, <2>1 DEF Application, Open, Moving
  <2>5. ASSUME NEW x \in Users, x # u
        PROVE  /\ rowLock'[x] = NoOne => Balanced(x, diamonds[x], frozen[x])'
               /\ \A r \in Reviewers : rowLock'[x] = r => MovedFromBalance(r, x)'
    <3>1. AmountIn("pending", x)' = AmountIn("pending", x)
      BY <2>3, <2>5
    <3>2. diamonds'[x] = diamonds[x] /\ frozen'[x] = frozen[x] /\ rowLock'[x] = rowLock[x] /\ review' = review
          /\ paidOut'[x] = paidOut[x] /\ repeated'[x] = repeated[x]
      BY <1>1, <2>1, <2>5
    <3>3. QED
      BY <1>4, <2>4, <3>1, <3>2
  <2>6. Balanced(u, diamonds[u], frozen[u])'
    <3>1. Balanced(u, diamonds[u], frozen[u])
      BY <2>1
    <3>2. diamonds'[u] = diamonds[u] - amount /\ frozen'[u] = frozen[u] + amount
          /\ paidOut'[u] = paidOut[u] /\ repeated'[u] = repeated[u]
      BY <1>1, <2>1
    <3>3. diamonds[u] \in Nat /\ frozen[u] \in Nat /\ paidOut[u] \in Nat /\ repeated[u] \in Nat
      BY <1>1
    <3>4. AmountIn("pending", u) \in Nat /\ AmountIn("pending", u)' = AmountIn("pending", u) + amount
      BY <2>3
    <3>5. QED
      BY <2>2, <3>1, <3>2, <3>3, <3>4, InitDiamondsIsNat DEF Balanced
  <2>7. QED
    BY <2>1, <2>5, <2>6
<1>7. ASSUME NEW r \in Reviewers, NEW v \in Applies, NEW decision \in Decisions, ReviewCheck(r, v, decision)
      PROVE  Goal
  <2>1. UNCHANGED <<apply, diamonds, frozen, rowLock, paidOut, repeated>> /\ ~Moving(r)
        /\ \A s \in Reviewers : s # r => review'[s] = review[s]
    BY <1>1, <1>7 DEF ReviewCheck, Moving, tally
  <2>2. QED
    BY <1>3, <1>4, <1>5, <2>1 DEF Application
<1>8. ASSUME NEW r \in Reviewers, ReviewMove(r)
      PROVE  Goal
  <2>0. Open(r) /\ ~Moving(r) /\ rowLock[Application(r).user] = NoOne
    BY <1>8 DEF ReviewMove, Open, Moving, Application
  <2>1. PICK u \in Users : u = Application(r).user
    BY <1>2, <2>0
  <2>2. /\ apply' = apply /\ rowLock' = [rowLock EXCEPT ![u] = r]
        /\ review' = [review EXCEPT ![r].pc = "moved", ![r].oldDiamonds = diamonds[u], ![r].oldFrozen = frozen[u]]
        /\ diamonds' = [diamonds EXCEPT ![u] = @ + Refund(review[r].decision, Application(r).amount)]
        /\ frozen' = [frozen EXCEPT ![u] = Unfreeze(@, Application(r).amount)]
        /\ paidOut' = paidOut /\ repeated' = repeated
    BY <1>8, <2>1 DEF ReviewMove, Application, tally
  <2>3. rowLock[u] = NoOne
    BY <2>0, <2>1
  <2>4. /\ \A s \in Reviewers : s # r => review'[s] = review[s]
        /\ \A s \in Reviewers : Application(s)' = Application(s)
        /\ review'[r].oldDiamonds = diamonds[u] /\ review'[r].oldFrozen = frozen[u]
        /\ review'[r].decision = review[r].decision
    BY <1>1, <2>2 DEF Application, Review
  <2>5. ASSUME NEW x \in Users, x # u
        PROVE  /\ rowLock'[x] = NoOne => Balanced(x, diamonds[x], frozen[x])'
               /\ \A s \in Reviewers : rowLock'[x] = s => MovedFromBalance(s, x)'
    <3>1. \A s \in Reviewers : rowLock[x] = s => review'[s] = review[s] /\ Application(s)' = Application(s)
      BY <1>3, <2>0, <2>4
    <3>2. diamonds'[x] = diamonds[x] /\ frozen'[x] = frozen[x] /\ rowLock'[x] = rowLock[x]
          /\ paidOut'[x] = paidOut[x] /\ repeated'[x] = repeated[x]
      BY <1>1, <2>2, <2>5
    <3>3. QED
      BY <1>4, <1>5, <2>2, <3>1, <3>2
  <2>6. MovedFromBalance(r, u)'
    BY <1>1, <1>5, <2>2, <2>3, <2>4 DEF MovedFromBalance, Balanced
  <2>7. QED
    BY <1>1, <2>2, <2>3, <2>5, <2>6
<1>9. ASSUME NEW r \in Reviewers, ReviewCommit(r)
      PROVE  Goal
  <2>0. Open(r) /\ Moving(r)
    BY <1>9 DEF ReviewCommit, Open, Moving
  <2> PICK u \in Users : u = Application(r).user
    BY <1>2, <2>0
  <2> DEFINE w == review[r].on
             amount == Application(r).amount
             decision == review[r].decision
             status == IF decision = "reject" THEN "rejected" ELSE "paid"
             entry == [apply[w] EXCEPT !.status = status]
             undecided == IF Application(r).status = "pending" THEN amount ELSE 0
  <2>1. /\ apply' = [apply EXCEPT ![w] = entry] /\ rowLock' = [rowLock EXCEPT ![u] = NoOne]
        /\ review' = [review EXCEPT ![r] = Idle] /\ diamonds' = diamonds /\ frozen' = frozen
        /\ paidOut' = [paidOut EXCEPT ![u] = @ + Paid(decision, Application(r))]
        /\ repeated' = [repeated EXCEPT ![u] = @ + Again(Application(r))]
    BY <1>9 DEF ReviewCommit, ReleaseRow, Application
  <2>2. w \in Applies /\ u \in Users /\ rowLock[u] = r /\ Application(r) = apply[w] /\ amount \in Nat \ {0}
        /\ MovedFromBalance(r, u)
    BY <1>2, <1>3, <2>0 DEF Application
  <2>3. entry \in ApplyRow
    BY <1>1, <2>2 DEF ApplyRow
  <2>4. ASSUME NEW x \in Users
        PROVE  /\ AmountIn("pending", x) \in Nat
               /\ x = u => undecided <= AmountIn("pending", x)
               /\ AmountIn("pending", x)' = AmountIn("pending", x) - (IF x = u THEN undecided ELSE 0)
    <3>1. AmountIn("pending", x)' =
            AmountIn("pending", x) + (Amount(entry, "pending", x) - Amount(apply[w], "pending", x))
      <4>1. Rewrites(w, entry)
        BY <2>1 DEF Rewrites
      <4> HIDE DEF entry, w
      <4>2. QED
        BY <1>1, <2>2, <2>3, <4>1, AmountsMove
    <3>2. AmountIn("pending", x) \in Nat /\ Amount(apply[w], "pending", x) <= AmountIn("pending", x)
      BY <1>1, <2>2, AmountsAreNat
    <3>3. /\ Amount(apply[w], "pending", x) = IF x = u THEN undecided ELSE 0
          /\ Amount(entry, "pending", x) = 0
      BY <1>1, <2>2 DEF Amount, ApplyRow
    <3>4. QED
      BY <2>2, <3>1, <3>2, <3>3
  <2>5. /\ \A s \in Reviewers : s # r => review'[s] = review[s]
        /\ \A v \in Applies : apply'[v].amount = apply[v].amount
    BY <1>1, <2>1, <2>2 DEF ApplyRow
  <2>6. ASSUME NEW x \in Users, x # u
        PROVE  /\ rowLock'[x] = NoOne => Balanced(x, diamonds[x], frozen[x])'
               /\ \A s \in Reviewers : rowLock'[x] = s => MovedFromBalance(s, x)'
    <3>1. \A s \in Reviewers : rowLock[x] = s =>
            review'[s] = review[s] /\ Application(s)'.amount = Application(s).amount
      BY <1>2, <1>3, <2>5, <2>6 DEF Open, Moving, Application
    <3>2. AmountIn("pending", x)' = AmountIn("pending", x)
      BY <2>4, <2>6
    <3>3. diamonds'[x] = diamonds[x] /\ frozen'[x] = frozen[x] /\ rowLock'[x] = rowLock[x]
          /\ paidOut'[x] = paidOut[x] /\ repeated'[x] = repeated[x]
      BY <1>1, <2>1, <2>6
    <3>4. QED
      BY <1>4, <3>1, <3>2, <3>3
  <2>7. Balanced(u, diamonds[u], frozen[u])'
    <3> DEFINE oldD == review[r].oldDiamonds
               oldF == review[r].oldFrozen
    <3>1. /\ oldD + AmountIn("pending", u) + paidOut[u] = InitDiamonds + repeated[u]
          /\ oldF <= AmountIn("pending", u)
          /\ repeated[u] = 0 => oldF = AmountIn("pending", u)
          /\ diamonds[u] = oldD + Refund(decision, amount)
          /\ frozen[u] = Unfreeze(oldF, amount)
      BY <2>2 DEF MovedFromBalance, Balanced
    <3>2. oldD \in Nat /\ oldF \in Nat /\ paidOut[u] \in Nat /\ repeated[u] \in Nat /\ decision \in Decisions
      BY <1>1 DEF Review
    <3>3. /\ paidOut'[u] = paidOut[u] + Paid(decision, Application(r))
          /\ repeated'[u] = repeated[u] + Again(Application(r))
          /\ diamonds'[u] = diamonds[u] /\ frozen'[u] = frozen[u]
      BY <1>1, <2>1
    <3>4. /\ Refund(decision, amount) + Paid(decision, Application(r)) = amount
          /\ Refund(decision, amount) \in Nat /\ Paid(decision, Application(r)) \in Nat
          /\ Again(Application(r)) = amount - undecided /\ (undecided = 0 \/ undecided = amount)
      BY <2>2, <3>2 DEF Refund, Paid, Again, Decisions
    <3>5. /\ AmountIn("pending", u) \in Nat /\ undecided <= AmountIn("pending", u)
          /\ AmountIn("pending", u)' = AmountIn("pending", u) - undecided
      BY <2>4
    <3>6. amount \in Nat \ {0}
      BY <2>2
    <3> HIDE DEF oldD, oldF, amount, decision, undecided
    <3>7. undecided \in Nat
      BY <3>4, <3>6
    <3>8. diamonds'[u] + AmountIn("pending", u)' + paidOut'[u] = InitDiamonds + repeated'[u]
      BY <3>1, <3>2, <3>3, <3>4, <3>5, <3>6, <3>7, InitDiamondsIsNat
    <3>9. frozen'[u] <= AmountIn("pending", u)'
      BY <3>1, <3>2, <3>3, <3>4, <3>5, <3>6, <3>7 DEF Unfreeze
    <3>10. ASSUME repeated'[u] = 0
           PROVE  frozen'[u] = AmountIn("pending", u)'
      <4>1. repeated[u] = 0 /\ undecided = amount
        BY <3>2, <3>3, <3>4, <3>6, <3>7, <3>10
      <4>2. QED
        BY <3>1, <3>2, <3>3, <3>5, <3>6, <4>1 DEF Unfreeze
    <3>11. QED
      BY <3>8, <3>9, <3>10 DEF Balanced
  <2>8. rowLock'[u] = NoOne
    BY <1>1, <2>1, <2>2
  <2>9. QED
    BY <2>6, <2>7, <2>8
<1>10. ASSUME NEW r \in Reviewers, ReviewLost(r)
       PROVE  Goal
  <2>1. CASE review[r].pc # "moved"
    <3>1. UNCHANGED <<apply, diamonds, frozen, rowLock, paidOut, repeated>> /\ ~Moving(r)
          /\ \A s \in Reviewers : s # r => review'[s] = review[s]
      BY <1>1, <1>10, <2>1 DEF ReviewLost, Moving, tally
    <3>2. QED
      BY <1>3, <1>4, <1>5, <3>1 DEF Application
  <2>2. CASE review[r].pc = "moved"
    <3> PICK u \in Users : u = Application(r).user
      BY <1>2, <2>2 DEF Open
    <3>1. /\ Open(r) /\ Moving(r) /\ apply' = apply
          /\ rowLock' = [rowLock EXCEPT ![u] = NoOne] /\ review' = [review EXCEPT ![r] = Idle]
          /\ diamonds' = [diamonds EXCEPT ![u] = review[r].oldDiamonds]
          /\ frozen' = [frozen EXCEPT ![u] = review[r].oldFrozen]
          /\ paidOut' = paidOut /\ repeated' = repeated
      BY <1>10, <2>2 DEF ReviewLost, ReleaseRow, Open, Moving, Application, tally
    <3>2. rowLock[u] = r /\ MovedFromBalance(r, u)
      BY <1>3, <3>1
    <3>3. ASSUME NEW x \in Users, x # u
          PROVE  /\ rowLock'[x] = NoOne => Balanced(x, diamonds[x], frozen[x])'
                 /\ \A s \in Reviewers : rowLock'[x] = s => MovedFromBalance(s, x)'
      <4>1. \A s \in Reviewers : rowLock[x] = s => review'[s] = review[s] /\ Application(s)' = Application(s)
        BY <1>1, <1>3, <3>1, <3>2, <3>3 DEF Application
      <4>2. QED
        BY <1>1, <1>4, <1>5, <3>1, <3>3, <4>1
    <3>4. rowLock'[u] = NoOne /\ Balanced(u, diamonds[u], frozen[u])'
      BY <1>1, <1>5, <3>1, <3>2 DEF MovedFromBalance, Balanced
    <3>5. QED
      BY <3>3, <3>4
  <2>3. QED
    BY <2>1, <2>2
<1>11. CASE UNCHANGED <<apply, diamonds, frozen, rowLock, review, paidOut, repeated>>
  BY <1>4, <1>5, <1>11 DEF Application
<1>12. QED
  BY <1>6, <1>7, <1>8, <1>9, <1>10, <1>11 DEF Next, vars, tally, KeyExpires, ApplyRefused

\* The books balance all along, whatever reviews overlap.
THEOREM BooksInvariant == Spec => []BooksInv
<1>1. Init => BooksInv
  <2> SUFFICES ASSUME Init
               PROVE  BooksInv
    OBVIOUS
  <2>1. ReviewInv
    BY PackagesAreNat, InitDiamondsIsNat
       DEF Init, NoApply, Idle, ReviewInv, TypeOK, ApplyRow, Review, Decisions
  <2>2. LockedByMover /\ IdleIsOfNone /\ LockedIsMoved
    BY NoOneIsNew DEF Init, Idle, LockedByMover, IdleIsOfNone, LockedIsMoved, Open, Moving
  <2>3. ASSUME NEW status, NEW u
        PROVE  AmountIn(status, u) = 0
    <3> DEFINE f == [w \in Applies |-> Amount(apply[w], status, u)]
    <3>1. f \in [Applies -> {0}]
      BY DEF Init, NoApply, Amount
    <3>2. SumFunction(f) = 0
      <4> HIDE DEF f
      <4>1. QED
        BY <3>1, AppliesAreFinite, TotalOfZeros
    <3>3. QED
      BY <3>2 DEF AmountIn
  <2>4. UnlockedIsBalanced
    BY <2>3, InitDiamondsIsNat DEF Init, UnlockedIsBalanced, Balanced
  <2>5. QED
    BY <2>1, <2>2, <2>4 DEF BooksInv, ReviewsInTurn
<1>2. ReviewInv' /\ BooksInv /\ [Next]_vars => BooksInv'
  BY ReviewsTakeTurns, BooksStayBalanced DEF BooksInv
<1>3. QED
  BY <1>1, <1>2, ReviewInvariant, PTL DEF Spec

(***************************************************************************)
(* What a user has frozen is what the user's pending applications ask for, *)
(* and less only after two reviews decided one application.                *)
(***************************************************************************)
THEOREM FrozenIsPending == Spec => []FrozenBacksPending
<1>1. BooksInv => FrozenBacksPending
  BY DEF BooksInv, UnlockedIsBalanced, Balanced, FrozenBacksPending
<1>2. QED
  BY <1>1, BooksInvariant, PTL

(***************************************************************************)
(* No withdrawal, decision, rollback or retry makes or loses a diamond,    *)
(* but the second decision of an application, which makes its amount.      *)
(***************************************************************************)
THEOREM NoDiamondIsLost == Spec => []DiamondsConserved
<1>1. BooksInv => DiamondsConserved
  BY DEF BooksInv, UnlockedIsBalanced, Balanced, DiamondsConserved
<1>2. QED
  BY <1>1, BooksInvariant, PTL

(***************************************************************************)
(* A decided application that no review holds is never decided again.      *)
(***************************************************************************)
THEOREM SettledStays == Spec => SettledIsFinal
<1>1. BooksInv /\ ReviewInv' /\ [Next]_vars
        => \A w \in Applies : Settled(w) => apply'[w] = apply[w] /\ Settled(w)'
  BY ReviewsTakeTurns DEF BooksInv
<1>2. QED
  BY <1>1, ReviewInvariant, BooksInvariant, PTL DEF Spec, SettledIsFinal

(***************************************************************************)
(* No withdrawal, review, rollback or retry takes diamonds or frozen       *)
(* diamonds below zero.                                                    *)
(***************************************************************************)
THEOREM WithdrawTypes == Spec => []TypeOK
  BY ReviewInvariant, PTL DEF ReviewInv

-----------------------------------------------------------------------------
(***************************************************************************)
(* The payout account.  Neither withdraw_account_save nor its review locks *)
(* the row it reads, so a page may come to show what the row no longer     *)
(* holds.  Of a page that is not outdated that is not so: the row is still *)
(* pending as the page shows it, and the saves that may still be written   *)
(* are those that were under way when it was loaded.                       *)
(***************************************************************************)
Saving(s)  == saver[s].pc # "idle"
Looking(r) == reviewer[r].pc # "idle"
Trusts(r)  == Looking(r) /\ r \notin outdated

SeenAsIs == \A r \in Admins : Trusts(r) => row.status = "pending" /\ row.details = reviewer[r].shown

SavesAreEarlier == \A r \in Admins, s \in Savers : Trusts(r) /\ Saving(s) => s \in before[r]

AccountInv ==
  /\ AccountTypeOK
  /\ SeenAsIs
  /\ SavesAreEarlier
  /\ \A s \in Savers : Saving(s) => saver[s].details \in Details
  /\ \A r \in Admins : Looking(r) => row.status # "absent"
  /\ row.status = "approved" => row.details \in vouched
  /\ paying # NoDetails => paying \in vouched
  /\ payouts \subseteq vouched

\* Every handler keeps the pages and the account so, and takes only approved details along.
THEOREM AccountInvariant == AccountSpec => []AccountInv
<1> USE NoDetailsIsNew
    DEF AccountInv, AccountTypeOK, SeenAsIs, SavesAreEarlier, Saving, Looking, Trusts, Row, Statuses
<1>1. AccountInit => AccountInv
  BY DEF AccountInit, NoRow, NotSaving, NotLooking
<1>2. AccountInv /\ [AccountNext]_accountVars => AccountInv'
  <2> SUFFICES ASSUME AccountInv, [AccountNext]_accountVars
               PROVE  AccountInv'
    OBVIOUS
  <2>1. ASSUME NEW s \in Savers, NEW details \in Details, SaveRead(s, details)
        PROVE  AccountInv'
    BY <2>1 DEF SaveRead, Savable, AlreadyApproved, accountHistory
  <2>2. ASSUME NEW s \in Savers, SaveWrite(s)
        PROVE  AccountInv'
    <3>1. /\ Saving(s) /\ saver[s].details \in Details
          /\ UNCHANGED <<reviewer, paying, vouched, payouts>> /\ saver' = [saver EXCEPT ![s] = NotSaving]
          /\ before' = [r \in Admins |-> before[r] \ {s}]
          /\ \/ row' = row /\ outdated' = outdated
             \/ /\ row' = [status |-> "pending", details |-> saver[s].details]
                /\ outdated' = outdated \cup {r \in Admins : s \in before[r]}
      BY <2>2 DEF SaveWrite, AfterSave
    <3>2. \A t \in Savers : Saving(t)' => Saving(t) /\ t # s /\ saver'[t] = saver[t]
      BY <3>1 DEF NotSaving
    <3>3. AccountTypeOK'
      BY <3>1 DEF NotSaving, NoRow
    <3>4. \A r \in Admins : Trusts(r)' => Trusts(r) /\ row' = row
      BY <3>1
    <3>5. SeenAsIs' /\ SavesAreEarlier'
      BY <3>1, <3>2, <3>4
    <3>6. QED
      BY <3>1, <3>2, <3>3, <3>5
  <2>3. ASSUME NEW r \in Admins, ListAccounts(r)
        PROVE  AccountInv'
    BY <2>3 DEF ListAccounts, NotLooking
  <2>4. ASSUME NEW r \in Admins, NEW decision \in {"approved", "rejected"}, ReviewRead(r, decision)
        PROVE  AccountInv'
    <3>1. Looking(r) /\ UNCHANGED <<row, saver, paying, payouts, vouched, before, outdated>>
      BY <2>4 DEF ReviewRead, accountHistory
    <3> DEFINE checked == [reviewer[r] EXCEPT !.pc = "checked", !.decision = decision]
    <3>2. reviewer' = [reviewer EXCEPT ![r] = checked]
      BY <2>4 DEF ReviewRead
    <3>3. /\ checked \in [pc : {"idle", "shown", "checked"}, shown : Details \cup {NoDetails},
                         decision : {"approved", "rejected"}]
          /\ checked.pc = "checked" /\ checked.shown = reviewer[r].shown
      OBVIOUS
    <3> HIDE DEF checked
    <3>4. \A q \in Admins : Looking(q)' <=> Looking(q)
      BY <3>1, <3>2, <3>3
    <3>5. \A q \in Admins : reviewer'[q].shown = reviewer[q].shown
      BY <3>2, <3>3
    <3>6. AccountTypeOK'
      BY <3>1, <3>2, <3>3
    <3>7. SeenAsIs' /\ SavesAreEarlier'
      BY <3>1, <3>4, <3>5
    <3>8. QED
      BY <3>1, <3>4, <3>6, <3>7
  <2>5. ASSUME NEW r \in Admins, ReviewRefused(r)
        PROVE  AccountInv'
    BY <2>5 DEF ReviewRefused, NotLooking, Forget
  <2>6. ASSUME NEW r \in Admins, ReviewWrite(r)
        PROVE  AccountInv'
    <3> DEFINE details == IF r \in outdated THEN row.details ELSE reviewer[r].shown
    <3>1. /\ Looking(r) /\ reviewer[r].decision \in {"approved", "rejected"}
          /\ UNCHANGED <<saver, paying, payouts>>
          /\ row' = [row EXCEPT !.status = reviewer[r].decision]
          /\ reviewer' = [reviewer EXCEPT ![r] = NotLooking]
          /\ vouched' = IF reviewer[r].decision = "approved" THEN vouched \cup {details} ELSE vouched
          /\ outdated' = (outdated \cup {q \in Admins : Looking(q)}) \ {r}
          /\ before' = [before EXCEPT ![r] = {}]
      BY <2>6 DEF ReviewWrite, Forget
    <3>2. details = row.details /\ details \in Details
      BY <3>1
    <3>3. \A q \in Admins : ~Trusts(q)'
      BY <3>1 DEF NotLooking
    <3>4. AccountTypeOK'
      BY <3>1, <3>2 DEF NotLooking
    <3>5. QED
      BY <3>1, <3>2, <3>3, <3>4 DEF NotLooking
  <2>7. ASSUME ApplyRead \/ ApplyCreate
        PROVE  AccountInv'
    BY <2>7 DEF ApplyRead, Payable, ApplyCreate, accountHistory
  <2>8. CASE UNCHANGED accountVars
    BY <2>8 DEF accountVars, accountHistory
  <2>9. QED
    BY <2>1, <2>2, <2>3, <2>4, <2>5, <2>6, <2>7, <2>8 DEF AccountNext
<1>3. QED
  BY <1>1, <1>2, PTL DEF AccountSpec

(***************************************************************************)
(* An application pays to details an administrator approved: those the     *)
(* page showed, or, if the page was outdated, those the row held.          *)
(***************************************************************************)
THEOREM PaidWasSeen == AccountSpec => []PayoutWasSeen
<1>1. AccountInv => PayoutWasSeen
  BY DEF AccountInv, PayoutWasSeen
<1>2. QED
  BY <1>1, AccountInvariant, PTL

-----------------------------------------------------------------------------
(* Announcements *)

\* Whoever is announced: the users, and the two of the call.
Announceable == People \cup Concerned

Words == {"offline", "dnd", "busy", "online", Missed}

Readings == [left : SUBSET Announceable, user : Announceable, said : Words, passed : BOOLEAN]

\* A task is going to read of the user.
Unread(u) == (\E left \in due : u \in left) \/ (\E k \in DOMAIN midway : u \in midway[k].left)

\* The readings of the user that no later one has overtaken.
Valid(u) == {k \in DOMAIN midway : midway[k].user = u /\ ~midway[k].passed}

\* The latest reading of the user is what the user is, and without one the apps show that.
Announced(u) ==
  /\ \A k \in Valid(u) : (\A j \in Valid(u) : j <= k) => midway[k].said = Availability(u)
  /\ Valid(u) = {} => \A v \in People : shown[v][u] \in {Missed, Availability(u)}

(***************************************************************************)
(* The inductive invariant: whoever nobody is going to read is announced,  *)
(* and the two of a call that ends before its commit are still to be read. *)
(***************************************************************************)
CastInv ==
  /\ due \subseteq SUBSET Announceable /\ midway \in Seq(Readings)
  /\ shown \in [People -> [People -> Words]]
  /\ ending => \A u \in Concerned \ crossed : Unread(u)
  /\ \A u \in People \ crossed : Unread(u) \/ Announced(u)

\* What is said of a user is a word.
LEMMA AvailabilityIsWord == \A u : Availability(u) \in Words
<1> SUFFICES ASSUME NEW u
             PROVE  Availability(u) \in Words
  OBVIOUS
<1>1. CASE ~IsOnline(u)
  BY <1>1 DEF Availability, Words
<1>2. CASE IsOnline(u) /\ u \in dnd
  BY <1>2 DEF Availability, Words
<1>3. CASE IsOnline(u) /\ u \notin dnd
  BY <1>3 DEF Availability, Words
<1>4. QED
  BY <1>1, <1>2, <1>3

\* A change that is announced to be read: nobody else's availability changes, and apps only forget.
LEMMA ChangeIsAnnounced ==
  ASSUME CastInv, NEW a, a \subseteq Announceable, Changes(a), crossed' = crossed,
         shown' \in [People -> [People -> Words]],
         \A v, u \in People : shown'[v][u] \in {shown[v][u], Missed},
         ending' => ending \/ a = Concerned,
         \A u \in People \ a : Availability(u)' = Availability(u)
  PROVE  CastInv'
<1>1. due' = due \cup {a} /\ midway' = midway
  BY DEF Changes
<1>2. \A u : Unread(u)' <=> Unread(u) \/ u \in a
  BY <1>1 DEF Unread
<1>3. \A u : Valid(u)' = Valid(u)
  BY <1>1 DEF Valid
<1>4. \A u \in People \ a : Announced(u) => Announced(u)'
  BY <1>1, <1>3 DEF Announced
<1>5. due' \subseteq SUBSET Announceable /\ midway' \in Seq(Readings)
  BY <1>1 DEF CastInv
<1>6. QED
  BY <1>2, <1>4, <1>5 DEF CastInv

\* A user of whom nothing changed stays announced.
LEMMA StaysAnnounced ==
  ASSUME NEW u, Announced(u), midway' = midway, shown' = shown, Availability(u)' = Availability(u)
  PROVE  Announced(u)'
  BY DEF Announced, Valid

\* A task reads one of its users.
LEMMA ReadingKeeps ==
  ASSUME CastInv, NEW left \in due, NEW u \in left, Read(left, u)
  PROVE  CastInv'
<1> DEFINE new == [left |-> left \ {u}, user |-> u, said |-> Availability(u), passed |-> FALSE]
           n   == Len(midway)
<1>1. /\ due' = due \ {left} /\ midway' = Append(midway, new) /\ UNCHANGED <<shown, ending>>
      /\ crossed' = IF ending /\ u \in Concerned THEN crossed \cup {u} ELSE crossed
  BY DEF Read
<1>2. \A w : Availability(w)' = Availability(w)
  BY DEF Read, Availability, IsOnline, IsBusy
<1>3. new \in Readings
  BY AvailabilityIsWord DEF CastInv, Readings
<1> HIDE DEF new
<1>4. /\ midway' \in Seq(Readings) /\ n \in Nat /\ DOMAIN midway = 1..n /\ DOMAIN midway' = 1..(n + 1)
      /\ midway'[n + 1] = new /\ \A k \in 1..n : midway'[k] = midway[k]
  <2>1. midway \in Seq(Readings)
    BY DEF CastInv
  <2>2. QED
    BY <1>1, <1>3, <2>1, AppendProperties, LenProperties
<1>5. new.left = left \ {u} /\ new.user = u /\ new.said = Availability(u) /\ ~new.passed
  BY DEF new
<1> HIDE DEF n
<1>6. \A w : w # u /\ Unread(w) => Unread(w)'
  BY <1>1, <1>4, <1>5 DEF Unread
<1>7. \A w : Valid(w)' = IF w = u THEN Valid(u) \cup {n + 1} ELSE Valid(w)
  BY <1>4, <1>5 DEF Valid
<1>8. \A w : w # u /\ Announced(w) => Announced(w)'
  <2> SUFFICES ASSUME NEW w, w # u, Announced(w)
               PROVE  Announced(w)'
    OBVIOUS
  <2>1. Valid(w)' = Valid(w) /\ \A k \in Valid(w) : midway'[k] = midway[k]
    BY <1>4, <1>7 DEF Valid
  <2>2. QED
    BY <1>1, <1>2, <2>1 DEF Announced
<1>9. Announced(u)'
  <2>1. Valid(u)' = Valid(u) \cup {n + 1} /\ Valid(u) \subseteq 1..n
    BY <1>4, <1>7 DEF Valid
  <2>2. \A k \in Valid(u)' : (\A j \in Valid(u)' : j <= k) => k = n + 1
    BY <1>4, <2>1
  <2>3. midway'[n + 1].said = Availability(u)'
    BY <1>2, <1>4, <1>5
  <2>4. QED
    BY <2>1, <2>2, <2>3 DEF Announced
<1>10. ending' => \A w \in Concerned \ crossed' : Unread(w)'
  BY <1>1, <1>6 DEF CastInv
<1>11. \A w \in People \ crossed' : Unread(w)' \/ Announced(w)'
  BY <1>1, <1>6, <1>8, <1>9 DEF CastInv
<1>12. QED
  BY <1>1, <1>4, <1>10, <1>11 DEF CastInv

\* A task pushes what it has read.
LEMMA PushingKeeps ==
  ASSUME CastInv, NEW k \in DOMAIN midway, Push(k)
  PROVE  CastInv'
<1> DEFINE task   == midway[k]
           n      == Len(midway)
           old(j) == IF j < k THEN j ELSE j + 1
           Told(v) == IF IsOnline(v) THEN task.said ELSE Missed
           Rest(j) == IF j < k /\ midway[j].user = task.user THEN [midway[j] EXCEPT !.passed = TRUE]
                      ELSE midway[j]
<1>1. /\ midway \in Seq(Readings) /\ n \in Nat /\ DOMAIN midway = 1..n /\ k \in 1..n /\ task \in Readings
      /\ \A j \in 1..n : midway[j] \in Readings
  <2>1. midway \in Seq(Readings)
    BY DEF CastInv
  <2>2. QED
    BY <2>1, LenProperties, ElementOfSeq
<1>2. /\ shown' = [v \in People |-> [shown[v] EXCEPT ![task.user] = Told(v)]]
      /\ midway' = [j \in 1..n - 1 |-> IF j < k THEN Rest(j) ELSE midway[j + 1]]
      /\ due' = IF task.left = {} THEN due ELSE due \cup {task.left}
      /\ crossed' = IF task.passed THEN crossed \cup {task.user} ELSE crossed
      /\ ending' = ending
  BY DEF Push
<1>3. \A w : Availability(w)' = Availability(w)
  BY DEF Push, Availability, IsOnline, IsBusy
<1>4. \A j \in 1..(n - 1) :
        /\ old(j) \in 1..n /\ old(j) # k /\ midway'[j] \in Readings
        /\ midway'[j].user = midway[old(j)].user /\ midway'[j].said = midway[old(j)].said
        /\ midway'[j].left = midway[old(j)].left
        /\ midway'[j].passed <=> midway[old(j)].passed \/ (j < k /\ midway[j].user = task.user)
  <2> SUFFICES ASSUME NEW j \in 1..(n - 1)
               PROVE  /\ old(j) \in 1..n /\ old(j) # k /\ midway'[j] \in Readings
                      /\ midway'[j].user = midway[old(j)].user /\ midway'[j].said = midway[old(j)].said
                      /\ midway'[j].left = midway[old(j)].left
                      /\ midway'[j].passed <=> midway[old(j)].passed \/ (j < k /\ midway[j].user = task.user)
    OBVIOUS
  <2>1. old(j) \in 1..n /\ old(j) # k
    BY <1>1
  <2>2. CASE j < k /\ midway[j].user = task.user
    <3>1. PICK r \in Readings : r = midway[j]
      BY <1>1
    <3>2. midway'[j] = [r EXCEPT !.passed = TRUE] /\ old(j) = j
      BY <1>2, <2>2, <3>1
    <3> HIDE DEF task, old
    <3>3. QED
      BY <2>1, <2>2, <3>1, <3>2 DEF Readings
  <2>3. CASE ~(j < k /\ midway[j].user = task.user)
    <3>1. midway'[j] = midway[old(j)]
      BY <1>2, <2>3
    <3> HIDE DEF task, old
    <3>2. QED
      BY <1>1, <2>1, <2>3, <3>1
  <2>4. QED
    BY <2>2, <2>3
<1>5. midway' \in Seq(Readings) /\ DOMAIN midway' = 1..(n - 1)
  <2>1. n - 1 \in Nat /\ midway' \in [1..(n - 1) -> Readings]
    BY <1>1, <1>2, <1>4
  <2>2. QED
    BY <2>1, SeqDef
<1>6. shown' \in [People -> [People -> Words]]
  <2>1. task.said \in Words /\ Missed \in Words
    BY <1>1 DEF Readings, Words
  <2>2. \A v \in People : shown[v] \in [People -> Words] /\ Told(v) \in Words
    BY <2>1 DEF CastInv
  <2> HIDE DEF Told, task
  <2>3. QED
    BY <1>2, <2>2
<1>7. due' \subseteq SUBSET Announceable
  BY <1>1, <1>2 DEF CastInv, Readings
<1>8. \A j \in 1..n : j # k => \E i \in 1..(n - 1) : old(i) = j
  <2> SUFFICES ASSUME NEW j \in 1..n, j # k
               PROVE  \E i \in 1..(n - 1) : old(i) = j
    OBVIOUS
  <2>1. CASE j < k
    BY <1>1, <2>1
  <2>2. CASE j > k
    <3>1. j - 1 \in 1..(n - 1) /\ old(j - 1) = j
      BY <1>1, <2>2
    <3>2. QED
      BY <3>1
  <2>3. QED
    BY <1>1, <2>1, <2>2
<1>9. \A w : Unread(w) => Unread(w)'
  <2> SUFFICES ASSUME NEW w, Unread(w)
               PROVE  Unread(w)'
    OBVIOUS
  <2>1. CASE \E left \in due : w \in left
    BY <1>2, <2>1 DEF Unread
  <2>2. CASE \E j \in 1..n : w \in midway[j].left
    <3>1. PICK j \in 1..n : w \in midway[j].left
      BY <2>2
    <3>2. CASE j = k
      BY <1>2, <3>1, <3>2 DEF Unread
    <3>3. CASE j # k
      <4>1. PICK i \in 1..(n - 1) : old(i) = j
        BY <1>8, <3>3
      <4>2. w \in midway'[i].left
        BY <1>4, <3>1, <4>1
      <4>3. QED
        BY <1>5, <4>2 DEF Unread
    <3>4. QED
      BY <3>2, <3>3
  <2>3. QED
    BY <1>1, <2>1, <2>2 DEF Unread
<1>10. ASSUME NEW w, w # task.user, w \in People, Announced(w)
       PROVE  Announced(w)'
  <2>1. \A i \in 1..(n - 1) : i \in Valid(w)' <=> old(i) \in Valid(w)
    <3> SUFFICES ASSUME NEW i \in 1..(n - 1)
                 PROVE  i \in Valid(w)' <=> old(i) \in Valid(w)
      OBVIOUS
    <3>1. /\ old(i) \in 1..n /\ midway'[i].user = midway[old(i)].user
          /\ midway'[i].passed <=> midway[old(i)].passed \/ (i < k /\ midway[i].user = task.user)
      BY <1>4
    <3>2. i < k => old(i) = i
      OBVIOUS
    <3> HIDE DEF old, task
    <3>3. QED
      BY <1>1, <1>5, <1>10, <3>1, <3>2 DEF Valid
  <2>2. Valid(w)' \subseteq 1..(n - 1) /\ Valid(w) \subseteq 1..n /\ k \notin Valid(w)
    BY <1>1, <1>5, <1>10 DEF Valid
  <2>3. \A j \in Valid(w) : \E i \in Valid(w)' : old(i) = j
    BY <1>8, <2>1, <2>2
  <2>4. \A v \in People : shown'[v][w] = shown[v][w]
    BY <1>2, <1>10 DEF CastInv
  <2>5. \A i, j \in 1..(n - 1) : old(i) <= old(j) <=> i <= j
    BY <1>1
  <2>6. Valid(w)' = {} => Valid(w) = {}
    BY <2>3
  <2>7. ASSUME NEW i \in Valid(w)', \A j \in Valid(w)' : j <= i
        PROVE  midway'[i].said = Availability(w)'
    <3>1. old(i) \in Valid(w) /\ \A j \in Valid(w) : j <= old(i)
      BY <2>1, <2>2, <2>3, <2>5, <2>7
    <3>2. midway'[i].said = midway[old(i)].said
      BY <1>4, <2>2
    <3>3. QED
      BY <1>3, <1>10, <3>1, <3>2 DEF Announced
  <2>8. QED
    BY <1>3, <1>10, <2>4, <2>6, <2>7 DEF Announced
<1>11. ASSUME NEW w, w = task.user, w \in People, Announced(w), ~task.passed
       PROVE  Announced(w)'
  <2>1. k \in Valid(w) /\ Valid(w) \subseteq 1..n
    BY <1>1, <1>11 DEF Valid
  <2>2. \A i \in 1..(n - 1) : i \in Valid(w)' <=> i >= k /\ i + 1 \in Valid(w)
    <3> SUFFICES ASSUME NEW i \in 1..(n - 1)
                 PROVE  i \in Valid(w)' <=> i >= k /\ i + 1 \in Valid(w)
      OBVIOUS
    <3>1. /\ old(i) \in 1..n /\ midway'[i].user = midway[old(i)].user
          /\ midway'[i].passed <=> midway[old(i)].passed \/ (i < k /\ midway[i].user = task.user)
      BY <1>4
    <3>2. old(i) = IF i < k THEN i ELSE i + 1
      OBVIOUS
    <3> HIDE DEF old, task
    <3>3. QED
      BY <1>1, <1>5, <1>11, <3>1, <3>2 DEF Valid
  <2>3. Valid(w)' \subseteq 1..(n - 1)
    BY <1>5 DEF Valid
  <2>4. \A j \in Valid(w) : j > k => j - 1 \in Valid(w)'
    <3> SUFFICES ASSUME NEW j \in Valid(w), j > k
                 PROVE  j - 1 \in Valid(w)'
      OBVIOUS
    <3>1. j - 1 \in 1..(n - 1) /\ j - 1 >= k /\ (j - 1) + 1 = j
      BY <1>1, <2>1
    <3>2. QED
      BY <2>2, <3>1
  <2>5. ASSUME NEW i \in Valid(w)', \A j \in Valid(w)' : j <= i
        PROVE  midway'[i].said = Availability(w)'
    <3>1. i \in 1..(n - 1) /\ i >= k /\ i + 1 \in Valid(w)
      BY <2>2, <2>3
    <3>2. \A j \in Valid(w) : j <= i + 1
      <4> SUFFICES ASSUME NEW j \in Valid(w), j > i + 1
                   PROVE  FALSE
        BY <1>1, <2>1, <3>1
      <4>1. j - 1 \in Valid(w)'
        BY <1>1, <2>1, <2>4, <3>1
      <4>2. QED
        BY <1>1, <2>1, <2>5, <3>1, <4>1
    <3>3. midway[i + 1].said = Availability(w)
      BY <1>11, <3>1, <3>2 DEF Announced
    <3>4. old(i) = i + 1
      BY <1>1, <3>1
    <3>5. midway'[i].said = midway[old(i)].said
      BY <1>4, <3>1
    <3>6. QED
      BY <1>3, <3>3, <3>4, <3>5
  <2>6. ASSUME Valid(w)' = {}, NEW v \in People
        PROVE  shown'[v][w] \in {Missed, Availability(w)'}
    <3>1. \A j \in Valid(w) : j <= k
      BY <1>1, <2>1, <2>4, <2>6
    <3>2. task.said = Availability(w)
      BY <1>11, <2>1, <3>1 DEF Announced
    <3>3. shown'[v][w] = Told(v)
      BY <1>2, <1>11 DEF CastInv
    <3>4. QED
      BY <1>3, <3>2, <3>3
  <2>7. QED
    BY <2>5, <2>6 DEF Announced
<1>12. \A w \in People \ crossed' : Unread(w)' \/ Announced(w)'
  <2> SUFFICES ASSUME NEW w \in People \ crossed'
               PROVE  Unread(w)' \/ Announced(w)'
    OBVIOUS
  <2>1. w \notin crossed /\ (w = task.user => ~task.passed)
    BY <1>2
  <2>2. QED
    BY <1>9, <1>10, <1>11, <2>1 DEF CastInv
<1>13. ending' => \A w \in Concerned \ crossed' : Unread(w)'
  BY <1>2, <1>9 DEF CastInv
<1>14. QED
  BY <1>5, <1>6, <1>7, <1>12, <1>13 DEF CastInv
\* Every step keeps who is announced, or leaves it to be read.
THEOREM CastKept == CastInit /\ [][CastNext]_castVars => []CastInv
<1>1. CastInit => CastInv
  <2> SUFFICES ASSUME CastInit
               PROVE  CastInv
    OBVIOUS
  <2>1. \A u \in People : Availability(u) = "online"
    BY DEF CastInit, Availability, IsOnline, IsBusy
  <2>2. shown = [v \in People |-> [u \in People |-> "online"]] /\ midway = <<>> /\ due = {} /\ ~ending
    BY DEF CastInit
  <2>3. \A u \in People : Announced(u)
    BY <2>1, <2>2 DEF Announced, Valid
  <2>4. shown \in [People -> [People -> Words]]
    BY <2>2 DEF Words
  <2>5. QED
    BY <2>2, <2>3, <2>4 DEF CastInv
<1>2. CastInv /\ [CastNext]_castVars => CastInv'
  <2> SUFFICES ASSUME CastInv, [CastNext]_castVars
               PROVE  CastInv'
    OBVIOUS
  <2>1. shown \in [People -> [People -> Words]]
    BY DEF CastInv
  <2>2. ASSUME NEW u \in People, Forgets(u)
        PROVE  /\ shown' \in [People -> [People -> Words]]
               /\ \A v, w \in People : shown'[v][w] \in {shown[v][w], Missed}
    BY <2>1, <2>2 DEF Forgets, Words
  <2>3. ASSUME NEW u \in People, Connect(u) \/ Disconnect(u)
        PROVE  CastInv'
    <3>1. Changes({u}) /\ Forgets(u) /\ UNCHANGED <<crossed, ending>> /\ {u} \subseteq Announceable
      BY <2>3 DEF Connect, Disconnect, Announceable
    <3>2. \A w \in People \ {u} : Availability(w)' = Availability(w)
      BY <2>3 DEF Connect, Disconnect, Availability, IsOnline, IsBusy
    <3>3. QED
      BY <2>2, <3>1, <3>2, ChangeIsAnnounced
  <2>4. ASSUME NEW u \in People, SetOnlineStatus(u) \/ UpdateDnd(u)
        PROVE  CastInv'
    <3>1. Changes({u}) /\ UNCHANGED <<shown, crossed, ending>> /\ {u} \subseteq Announceable
      BY <2>4 DEF SetOnlineStatus, UpdateDnd, Announceable
    <3>2. \A w \in People \ {u} : Availability(w)' = Availability(w)
      <4>1. CASE SetOnlineStatus(u)
        BY <4>1 DEF SetOnlineStatus, Availability, IsOnline, IsBusy
      <4>2. CASE UpdateDnd(u)
        BY <4>2 DEF UpdateDnd, Availability, IsOnline, IsBusy
      <4>3. QED
        BY <2>4, <4>1, <4>2
    <3>3. QED
      BY <2>1, <3>1, <3>2, ChangeIsAnnounced
  <2>5. CASE Dial \/ CallEnds \/ AcceptGivesUp
    <3>1. /\ Changes(Concerned) /\ UNCHANGED <<shown, crossed>> /\ Concerned \subseteq Announceable
          /\ ending' => ending \/ Concerned = Concerned
      BY <2>5 DEF Dial, CallEnds, AcceptGivesUp, Announceable
    <3>2. \A w \in People \ Concerned : Availability(w)' = Availability(w)
      BY <2>5 DEF Dial, CallEnds, AcceptGivesUp, Availability, IsOnline, IsBusy, Concerned
    <3>3. QED
      BY <2>1, <3>1, <3>2, ChangeIsAnnounced
  <2>6. CASE AcceptIsOver
    <3>1. UNCHANGED <<due, midway, shown, crossed>> /\ ~ending' /\ ending
      BY <2>6 DEF AcceptIsOver
    <3>2. \A w \in People \ Concerned : Availability(w)' = Availability(w)
      BY <2>6 DEF AcceptIsOver, Availability, IsOnline, IsBusy, Concerned
    <3>3. \A w : Unread(w)' <=> Unread(w)
      BY <3>1 DEF Unread
    <3>4. \A w \in People \ Concerned : Announced(w) => Announced(w)'
      BY <3>1, <3>2, StaysAnnounced
    <3>5. QED
      BY <3>1, <3>3, <3>4 DEF CastInv
  <2>7. ASSUME NEW u \in People, Lapses(u)
        PROVE  CastInv'
    <3>1. UNCHANGED <<due, midway, shown, ending>> /\ crossed' = crossed \cup {u}
      BY <2>7 DEF Lapses
    <3>2. \A w \in People \ {u} : Availability(w)' = Availability(w)
      BY <2>7 DEF Lapses, Availability, IsOnline, IsBusy
    <3>3. \A w : Unread(w)' <=> Unread(w)
      BY <3>1 DEF Unread
    <3>4. \A w \in People \ {u} : Announced(w) => Announced(w)'
      BY <3>1, <3>2, StaysAnnounced
    <3>5. QED
      BY <3>1, <3>3, <3>4 DEF CastInv
  <2>8. CASE UNCHANGED castVars
    <3>1. UNCHANGED <<due, midway, shown, ending, crossed>> /\ \A w : Availability(w)' = Availability(w)
      BY <2>8 DEF castVars, Availability, IsOnline, IsBusy
    <3>2. \A w : Unread(w)' <=> Unread(w)
      BY <3>1 DEF Unread
    <3>3. \A w \in People : Announced(w) => Announced(w)'
      BY <3>1, StaysAnnounced
    <3>4. QED
      BY <3>1, <3>2, <3>3 DEF CastInv
  <2>9. QED
    BY <2>3, <2>4, <2>5, <2>6, <2>7, <2>8, ReadingKeeps, PushingKeeps DEF CastNext
<1>3. QED
  BY <1>1, <1>2, PTL

(***************************************************************************)
(* Once every announcement is out, an app shows each user as that user is, *)
(* for any number of users, changes and tasks midway, but users who were   *)
(* announced out of order, too early or not at all.                        *)
(***************************************************************************)
THEOREM AppsShowUsers == CastInit /\ [][CastNext]_castVars => []ShownIsActual
<1>1. CastInv => ShownIsActual
  <2> SUFFICES ASSUME CastInv, Quiet, NEW v \in People, NEW u \in People \ crossed
               PROVE  shown[v][u] \in {Missed, Availability(u)}
    BY DEF ShownIsActual
  <2>1. ~Unread(u) /\ Valid(u) = {}
    BY DEF Quiet, Unread, Valid
  <2>2. QED
    BY <2>1 DEF CastInv, Announced
<1>2. QED
  BY <1>1, CastKept, PTL

-----------------------------------------------------------------------------
(* Traces of calls *)

Phases == {"timeout", "balance_empty", "rejected", "cancelled", "ended", "force_exit"}
Sides  == {"caller", "callee"}
Traces == [call : Calls, phase : Phases, actor : Sides, claimed : BOOLEAN, tries : 0..(MaxTries - 1)]
Events == [phase : Phases, to : Sides]
Ended  == {"timeout", "balance_empty", "rejected", "cancelled", "normal", "force_exit"}

TraceTypes ==
  /\ record \in [Calls -> Unended \cup Ended] /\ closing \in [Calls -> {"no", "timeout", "balance_empty"}]
  /\ traces \subseteq Traces /\ told \in [Calls -> Seq(Events)]

\* How often the chat service has accepted a phase of a call.
Heard(c, phase) == {j \in DOMAIN told[c] : told[c][j].phase = phase}

\* A phase is sent by the one trace that claimed it, and not before.
SentByOne ==
  /\ \A t \in traces : t.claimed => /\ <<t.call, t.phase>> \in claims
                                    /\ Cardinality(Heard(t.call, t.phase)) <= t.tries
  /\ \A t, u \in traces : t.claimed /\ u.claimed /\ t.call = u.call /\ t.phase = u.phase => t = u
  /\ \A c \in Calls, phase \in Phases : /\ <<c, phase>> \notin claims => Heard(c, phase) = {}
                                        /\ Cardinality(Heard(c, phase)) <= MaxTries

\* All that is told, or going to be, of a call is one event.
Tells(c, e) ==
  /\ \A t \in traces : t.call = c => Event(t) = e
  /\ \A j \in DOMAIN told[c] : told[c][j] = e

Fits(c, e) == IF record[c] \in Unended THEN closing[c] = e.phase ELSE e.phase \in Truth(record[c])

\* Nothing is told of a call that nobody has ended; of others it is how they end.
TellsTruth(c) ==
  IF record[c] \in Unended /\ ~Locked(c)
  THEN told[c] = <<>> /\ \A t \in traces : t.call # c
  ELSE \E e \in Events : Tells(c, e) /\ Fits(c, e)

(***************************************************************************)
(* The inductive invariant.                                                *)
(***************************************************************************)
TraceInv ==
  /\ TraceTypes /\ SentByOne
  /\ \A c \in Calls : Locked(c) => record[c] = Pending
  /\ \A c \in Calls \ undone : TellsTruth(c)

\* What was heard of a call is finite.
LEMMA HeardIsFinite ==
  ASSUME TraceTypes, NEW c \in Calls, NEW phase
  PROVE  IsFiniteSet(Heard(c, phase)) /\ Cardinality(Heard(c, phase)) \in Nat
<1>1. told[c] \in Seq(Events)
  BY DEF TraceTypes
<1>2. Len(told[c]) \in Nat /\ DOMAIN told[c] = 1..Len(told[c])
  BY <1>1, LenProperties
<1>3. IsFiniteSet(DOMAIN told[c])
  <2>1. PICK n \in Nat : n = Len(told[c])
    BY <1>2
  <2>2. IsFiniteSet(1..n)
    BY FS_Interval
  <2>3. QED
    BY <1>2, <2>1, <2>2
<1>4. Heard(c, phase) \in SUBSET DOMAIN told[c]
  BY DEF Heard
<1>5. QED
  BY <1>3, <1>4, FS_Subset, FS_CardinalityType

\* A trace that is new has claimed nothing and was not sent.
LEMMA TraceIsNew ==
  ASSUME NEW c \in Calls, NEW phase \in Phases, NEW actor \in Sides
  PROVE  /\ Trace(c, phase, actor) \in Traces /\ ~Trace(c, phase, actor).claimed
         /\ Trace(c, phase, actor).call = c
         /\ Event(Trace(c, phase, actor)) = [phase |-> phase, to |-> PeerOf(actor)]
  BY TriesArePositive DEF Trace, Traces, Event

\* What a trace tells is an event.
LEMMA EventsAreEvents == \A t \in Traces : Event(t) \in Events
  BY DEF Traces, Event, Events, PeerOf, Sides

\* New traces change nothing of what was claimed and sent.
LEMMA SentStays ==
  ASSUME SentByOne, told' = told, claims' = claims, \A t \in traces' : t \in traces \/ ~t.claimed
  PROVE  SentByOne'
  BY DEF SentByOne, Heard

\* What is told of a call goes on to be the same event.
LEMMA TruthStays ==
  ASSUME NEW c, TellsTruth(c), record'[c] = record[c], closing'[c] = closing[c],
         \A t \in traces' : t.call = c => \E u \in traces : u.call = c /\ Event(u) = Event(t),
         told'[c] = told[c]
  PROVE  TellsTruth(c)'
<1>1. CASE record[c] \in Unended /\ ~Locked(c)
  BY <1>1 DEF TellsTruth, Locked
<1>2. CASE ~(record[c] \in Unended /\ ~Locked(c))
  <2>1. PICK e \in Events : Tells(c, e) /\ Fits(c, e)
    BY <1>2 DEF TellsTruth
  <2>2. Tells(c, e)' /\ Fits(c, e)'
    BY <2>1 DEF Tells, Fits
  <2>3. QED
    BY <1>2, <2>2 DEF TellsTruth, Locked
<1>3. QED
  BY <1>1, <1>2

\* A call that was going on and ends is told of with its one trace.
LEMMA TruthBegins ==
  ASSUME NEW c \in Calls, TellsTruth(c), record[c] \in Unended, ~Locked(c), told' = told,
         NEW t \in Traces, t.call = c, \A u \in traces' : u.call = c => u = t, Fits(c, Event(t))',
         ~(record[c] \in Unended /\ ~Locked(c))'
  PROVE  TellsTruth(c)'
<1>1. told[c] = <<>>
  BY DEF TellsTruth
<1>2. Tells(c, Event(t))'
  BY <1>1 DEF Tells
<1>3. QED
  BY <1>2, EventsAreEvents DEF TellsTruth

\* The ends that are committed first and told afterwards.
LEMMA EndsKeep ==
  ASSUME TraceInv, NEW c \in Calls, record[c] \in Unended, NEW reason \in Ended, NEW phase \in Phases,
         NEW actor \in Sides, phase \in Truth(reason), Ends(c, reason, phase, actor)
  PROVE  TraceInv'
<1> DEFINE t == Trace(c, phase, actor)
<1>1. t \in Traces /\ ~t.claimed /\ t.call = c /\ Event(t).phase = phase
  BY TraceIsNew
<1> HIDE DEF t
<1>2. /\ ~Locked(c) /\ record' = [record EXCEPT ![c] = reason] /\ traces' = traces \cup {t}
      /\ UNCHANGED <<closing, late, claims, told, undone>>
  BY DEF Ends, t
<1>3. TraceTypes'
  BY <1>1, <1>2 DEF TraceInv, TraceTypes
<1>4. SentByOne'
  BY <1>1, <1>2, SentStays DEF TraceInv
<1>5. record'[c] = reason /\ reason \notin Unended /\ \A d \in Calls \ {c} : record'[d] = record[d]
  BY <1>2 DEF TraceInv, TraceTypes, Ended, Unended, Pending, Ongoing
<1>6. \A d \in Calls : Locked(d)' => record'[d] = Pending
  BY <1>2, <1>5 DEF TraceInv, Locked
<1>7. ASSUME NEW d \in Calls \ undone'
      PROVE  TellsTruth(d)'
  <2>1. TellsTruth(d)
    BY <1>2 DEF TraceInv
  <2>2. CASE d = c
    <3>1. \A u \in traces' : u.call = c => u = t
      BY <1>2, <2>1, <2>2 DEF TellsTruth
    <3>2. Fits(c, Event(t))'
      BY <1>1, <1>5 DEF Fits
    <3>3. QED
      BY <1>1, <1>2, <1>5, <2>1, <2>2, <3>1, <3>2, TruthBegins
  <2>3. CASE d # c
    <3>1. \A u \in traces' : u.call = d => u \in traces
      BY <1>1, <1>2, <2>3
    <3>2. QED
      BY <1>2, <1>5, <2>1, <2>3, <3>1, TruthStays
  <2>4. QED
    BY <2>2, <2>3
<1>8. QED
  BY <1>3, <1>4, <1>6, <1>7 DEF TraceInv

\* The accept handler that ends the call tells of it before its commit.
LEMMA AcceptEndsKeep ==
  ASSUME TraceInv, NEW c \in Calls, AcceptEnds(c)
  PROVE  TraceInv'
<1>1. PICK reason \in {"timeout", "balance_empty"} : reason = IF c \in late THEN "timeout" ELSE "balance_empty"
  OBVIOUS
<1>2. PICK t \in Traces : /\ ~t.claimed /\ t.call = c /\ Event(t).phase = reason
                          /\ t = IF c \in late THEN Trace(c, "timeout", "caller")
                                 ELSE Trace(c, "balance_empty", "callee")
  BY <1>1, TraceIsNew DEF Phases, Sides
<1>3. /\ record[c] = Pending /\ ~Locked(c) /\ closing' = [closing EXCEPT ![c] = reason]
      /\ traces' = traces \cup {t} /\ UNCHANGED <<record, late, claims, told, undone>>
  BY <1>1, <1>2 DEF AcceptEnds
<1>4. TraceTypes'
  BY <1>3 DEF TraceInv, TraceTypes
<1>5. SentByOne'
  BY <1>2, <1>3, SentStays DEF TraceInv
<1>6. closing'[c] = reason /\ \A d \in Calls \ {c} : closing'[d] = closing[d]
  BY <1>3 DEF TraceInv, TraceTypes
<1>7. \A d \in Calls : Locked(d)' => record'[d] = Pending
  BY <1>3, <1>6 DEF TraceInv, Locked
<1>8. ASSUME NEW d \in Calls \ undone'
      PROVE  TellsTruth(d)'
  <2>1. TellsTruth(d)
    BY <1>3 DEF TraceInv
  <2>2. CASE d = c
    <3>1. \A u \in traces' : u.call = c => u = t
      BY <1>3, <2>1, <2>2 DEF TellsTruth, Unended
    <3>2. Fits(c, Event(t))' /\ record[c] \in Unended /\ ~(~Locked(c))'
      BY <1>2, <1>3, <1>6 DEF Fits, Locked, Unended
    <3>3. QED
      BY <1>2, <1>3, <2>1, <2>2, <3>1, <3>2, TruthBegins
  <2>3. CASE d # c
    <3>1. \A u \in traces' : u.call = d => u \in traces
      BY <1>2, <1>3, <2>3
    <3>2. QED
      BY <1>3, <1>6, <2>1, <2>3, <3>1, TruthStays
  <2>4. QED
    BY <2>2, <2>3
<1>9. QED
  BY <1>4, <1>5, <1>7, <1>8 DEF TraceInv

\* The watchdog ends those of the calls it found that are still ringing.
LEMMA WatchdogKeeps ==
  ASSUME TraceInv, NEW found \in SUBSET Calls, WatchdogTimesOut(found)
  PROVE  TraceInv'
<1> DEFINE ended == {c \in found : Timeable(c)}
           T(c)  == Trace(c, "timeout", "caller")
<1>1. \A c \in Calls : T(c) \in Traces /\ ~T(c).claimed /\ T(c).call = c /\ Event(T(c)).phase = "timeout"
  BY TraceIsNew DEF Phases, Sides
<1>2. /\ \A c \in found : ~Locked(c)
      /\ record' = [c \in Calls |-> IF c \in ended THEN "timeout" ELSE record[c]]
      /\ traces' = traces \cup {T(c) : c \in ended} /\ UNCHANGED <<closing, late, claims, told, undone>>
  BY DEF WatchdogTimesOut
<1>3. ended \subseteq Calls /\ \A c \in ended : record[c] = Pending /\ ~Locked(c)
  BY <1>2 DEF Timeable
<1> HIDE DEF T, ended
<1>4. TraceTypes'
  BY <1>1, <1>2, <1>3 DEF TraceInv, TraceTypes, Ended
<1>5. SentByOne'
  BY <1>1, <1>2, <1>3, SentStays DEF TraceInv
<1>6. \A d \in Calls : Locked(d)' => record'[d] = Pending
  BY <1>2, <1>3 DEF TraceInv, Locked
<1>7. ASSUME NEW d \in Calls \ undone'
      PROVE  TellsTruth(d)'
  <2>1. TellsTruth(d)
    BY <1>2 DEF TraceInv
  <2>2. CASE d \in ended
    <3>1. \A u \in traces' : u.call = d => u = T(d)
      BY <1>1, <1>2, <1>3, <2>1, <2>2 DEF TellsTruth, Unended
    <3>2. record'[d] = "timeout" /\ "timeout" \notin Unended
      BY <1>2, <2>2 DEF Unended, Pending, Ongoing
    <3>3. Truth("timeout") = {"timeout"}
      BY DEF Truth
    <3>4. Fits(d, Event(T(d)))' /\ record[d] \in Unended
      BY <1>1, <1>3, <2>2, <3>2, <3>3 DEF Fits, Unended
    <3>5. QED
      BY <1>1, <1>2, <1>3, <2>1, <2>2, <3>1, <3>2, <3>4, TruthBegins
  <2>3. CASE d \notin ended
    <3>1. \A u \in traces' : u.call = d => u \in traces
      BY <1>1, <1>2, <1>3, <2>3
    <3>2. QED
      BY <1>2, <2>1, <2>3, <3>1, TruthStays
  <2>4. QED
    BY <2>2, <2>3
<1>8. QED
  BY <1>4, <1>5, <1>6, <1>7 DEF TraceInv
\* The accept handler ends its call, or takes back that it did.
LEMMA AcceptFinishes ==
  ASSUME TraceInv, NEW c \in Calls, Commit(c) \/ Rollback(c)
  PROVE  TraceInv'
<1>1. Locked(c) /\ record[c] = Pending /\ closing[c] \in {"timeout", "balance_empty"}
  BY DEF TraceInv, TraceTypes, Commit, Rollback, Locked
<1>2. closing' = [closing EXCEPT ![c] = "no"] /\ traces' \subseteq traces /\ UNCHANGED <<told, claims>>
  BY DEF Commit, Rollback
<1>3. \/ record' = [record EXCEPT ![c] = closing[c]] /\ undone' = undone
      \/ record' = record /\ undone' = undone \cup {c}
  BY DEF Commit, Rollback
<1>4. TraceTypes'
  BY <1>1, <1>2, <1>3 DEF TraceInv, TraceTypes, Ended
<1>5. SentByOne'
  BY <1>2, SentStays DEF TraceInv
<1>6. closing'[c] = "no" /\ \A d \in Calls \ {c} : closing'[d] = closing[d] /\ record'[d] = record[d]
  BY <1>2, <1>3 DEF TraceInv, TraceTypes
<1>7. \A d \in Calls : Locked(d)' => record'[d] = Pending
  BY <1>6 DEF TraceInv, Locked
<1>8. ASSUME NEW d \in Calls \ undone'
      PROVE  TellsTruth(d)'
  <2>1. TellsTruth(d)
    BY <1>3 DEF TraceInv
  <2>2. CASE d = c
    <3>1. record'[c] = closing[c]
      BY <1>3, <2>2 DEF TraceInv, TraceTypes
    <3>2. PICK e \in Events : Tells(c, e) /\ closing[c] = e.phase
      BY <1>1, <2>1, <2>2 DEF TellsTruth, Fits, Unended
    <3>3. Tells(c, e)'
      BY <1>2, <3>2 DEF Tells
    <3>4. closing[c] \in Truth(closing[c]) /\ closing[c] \notin Unended
      <4>1. CASE closing[c] = "timeout"
        BY <4>1 DEF Truth, Unended, Pending, Ongoing
      <4>2. CASE closing[c] = "balance_empty"
        BY <4>2 DEF Truth, Unended, Pending, Ongoing
      <4>3. QED
        BY <1>1, <4>1, <4>2
    <3>5. record'[c] \notin Unended /\ e.phase \in Truth(record'[c])
      BY <3>1, <3>2, <3>4
    <3>6. Fits(c, e)'
      BY <3>5 DEF Fits
    <3>7. QED
      BY <2>2, <3>3, <3>5, <3>6 DEF TellsTruth
  <2>3. CASE d # c
    BY <1>2, <1>6, <2>1, <2>3, TruthStays
  <2>4. QED
    BY <2>2, <2>3
<1>9. QED
  BY <1>4, <1>5, <1>7, <1>8 DEF TraceInv

\* The callee accepts a call of which nothing is told.
LEMMA AcceptKeeps ==
  ASSUME TraceInv, NEW c \in Calls, Accept(c)
  PROVE  TraceInv'
<1>1. /\ record[c] = Pending /\ ~Locked(c) /\ record' = [record EXCEPT ![c] = Ongoing]
      /\ UNCHANGED <<closing, traces, claims, told, undone>>
  BY DEF Accept
<1>2. record'[c] = Ongoing /\ \A d \in Calls \ {c} : record'[d] = record[d]
  BY <1>1 DEF TraceInv, TraceTypes
<1>3. TraceTypes' /\ SentByOne'
  BY <1>1, SentStays DEF TraceInv, TraceTypes, Unended
<1>4. \A d \in Calls : Locked(d)' => record'[d] = Pending
  BY <1>1, <1>2 DEF TraceInv, Locked
<1>5. ASSUME NEW d \in Calls \ undone'
      PROVE  TellsTruth(d)'
  <2>1. TellsTruth(d)
    BY <1>1 DEF TraceInv
  <2>2. CASE d = c
    BY <1>1, <1>2, <2>1, <2>2 DEF TellsTruth, Locked, Unended
  <2>3. CASE d # c
    BY <1>1, <1>2, <2>1, <2>3, TruthStays
  <2>4. QED
    BY <2>2, <2>3
<1>6. QED
  BY <1>3, <1>4, <1>5 DEF TraceInv

\* A trace that claims its phase, or goes on to its next attempt, is still that trace.
LEMMA TraceClaims ==
  ASSUME NEW t \in Traces, NEW q, q = [t EXCEPT !.claimed = TRUE]
  PROVE  /\ q \in Traces /\ q.call = t.call /\ q.phase = t.phase /\ Event(q) = Event(t)
         /\ q.claimed = TRUE /\ q.tries = t.tries
<1>1. /\ q.call = t.call /\ q.phase = t.phase /\ q.actor = t.actor /\ q.claimed = TRUE /\ q.tries = t.tries
      /\ q = [call |-> q.call, phase |-> q.phase, actor |-> q.actor, claimed |-> q.claimed, tries |-> q.tries]
  BY DEF Traces
<1>2. t.call \in Calls /\ t.phase \in Phases /\ t.actor \in Sides /\ t.tries \in 0..(MaxTries - 1)
  BY DEF Traces
<1>3. QED
  BY <1>1, <1>2 DEF Traces, Event

\* An attempt that failed leaves the trace as it was, but for its count.
LEMMA TraceGoesOn ==
  ASSUME NEW t \in Traces, t.tries + 1 # MaxTries, NEW q, q = [t EXCEPT !.tries = @ + 1]
  PROVE  /\ q \in Traces /\ q.call = t.call /\ q.phase = t.phase /\ Event(q) = Event(t)
         /\ q.claimed = t.claimed /\ q.tries = t.tries + 1
<1>1. /\ q.call = t.call /\ q.phase = t.phase /\ q.actor = t.actor /\ q.claimed = t.claimed
      /\ q.tries = t.tries + 1
      /\ q = [call |-> q.call, phase |-> q.phase, actor |-> q.actor, claimed |-> q.claimed, tries |-> q.tries]
  BY DEF Traces
<1>2. /\ t.call \in Calls /\ t.phase \in Phases /\ t.actor \in Sides /\ t.claimed \in BOOLEAN
      /\ t.tries \in 0..(MaxTries - 1)
  BY DEF Traces
<1>3. q.tries \in 0..(MaxTries - 1)
  BY <1>1, <1>2, TriesArePositive
<1>4. QED
  BY <1>1, <1>2, <1>3 DEF Traces, Event

\* A trace that claims its phase is the only one that does.
LEMMA ClaimKeeps ==
  ASSUME TraceInv, NEW t \in traces, Claims(t)
  PROVE  TraceInv'
<1> DEFINE claim == <<t.call, t.phase>>
<1>1. /\ ~t.claimed /\ claims' = claims \cup {claim}
      /\ traces' = (traces \ {t}) \cup (IF claim \in claims THEN {} ELSE {[t EXCEPT !.claimed = TRUE]})
      /\ UNCHANGED <<record, closing, told, undone>>
  BY DEF Claims
<1>2. t \in Traces
  BY DEF TraceInv, TraceTypes
<1>3. PICK q \in Traces : /\ q = [t EXCEPT !.claimed = TRUE] /\ q.call = t.call /\ q.phase = t.phase
                          /\ Event(q) = Event(t) /\ q.claimed /\ q.tries = t.tries
  BY <1>2, TraceClaims
<1>4. \A u \in traces' : u \in traces \/ (u = q /\ claim \notin claims)
  BY <1>1, <1>3
<1>5. t.call \in Calls /\ t.phase \in Phases /\ q.tries \in Nat
  BY <1>2, <1>3, TriesArePositive DEF Traces
<1>6. TraceTypes'
  BY <1>1, <1>4 DEF TraceInv, TraceTypes
<1>7. \A c, phase : Heard(c, phase)' = Heard(c, phase)
  BY <1>1 DEF Heard
<1>8. claim \notin claims => Cardinality(Heard(t.call, t.phase)) = 0
  <2>1. claim \notin claims => Heard(t.call, t.phase) = {}
    BY <1>5 DEF TraceInv, SentByOne
  <2>2. QED
    BY <2>1, FS_EmptySet
<1>9. SentByOne'
  <2>1. \A u \in traces' : u.claimed => /\ <<u.call, u.phase>> \in claims'
                                        /\ Cardinality(Heard(u.call, u.phase)') <= u.tries
    <3> SUFFICES ASSUME NEW u \in traces', u.claimed
                 PROVE  <<u.call, u.phase>> \in claims' /\ Cardinality(Heard(u.call, u.phase)') <= u.tries
      OBVIOUS
    <3>1. CASE u \in traces
      <4>1. <<u.call, u.phase>> \in claims /\ Cardinality(Heard(u.call, u.phase)) <= u.tries
        BY <3>1 DEF TraceInv, SentByOne
      <4>2. QED
        BY <1>1, <1>7, <4>1
    <3>2. CASE u = q /\ claim \notin claims
      <4>1. u.call = t.call /\ u.phase = t.phase /\ u.tries \in Nat
        BY <1>3, <1>5, <3>2
      <4>2. Heard(u.call, u.phase)' = Heard(t.call, t.phase) /\ claim \in claims'
        BY <1>1, <1>7, <4>1
      <4>3. QED
        BY <1>8, <3>2, <4>1, <4>2
    <3>3. QED
      BY <1>4, <3>1, <3>2
  <2>2. ASSUME NEW u \in traces', NEW v \in traces', u.claimed, v.claimed, u.call = v.call, u.phase = v.phase
        PROVE  u = v
    <3>1. \A w \in traces : w.claimed => <<w.call, w.phase>> \in claims
      BY DEF TraceInv, SentByOne
    <3>2. q.call = t.call /\ q.phase = t.phase
      BY <1>3
    <3>3. CASE u \in traces /\ v \in traces
      BY <2>2, <3>3 DEF TraceInv, SentByOne
    <3>4. CASE u = q /\ claim \notin claims
      BY <1>4, <2>2, <3>1, <3>2, <3>4
    <3>5. CASE v = q /\ claim \notin claims
      BY <1>4, <2>2, <3>1, <3>2, <3>5
    <3>6. QED
      BY <1>4, <3>3, <3>4, <3>5
  <2>3. \A c \in Calls, phase \in Phases : /\ <<c, phase>> \notin claims' => Heard(c, phase)' = {}
                                           /\ Cardinality(Heard(c, phase)') <= MaxTries
    BY <1>1, <1>7 DEF TraceInv, SentByOne
  <2>4. QED
    BY <2>1, <2>2, <2>3 DEF SentByOne
<1>10. \A d \in Calls : Locked(d)' => record'[d] = Pending
  BY <1>1 DEF TraceInv, Locked
<1>11. ASSUME NEW d \in Calls \ undone'
       PROVE  TellsTruth(d)'
  <2>1. TellsTruth(d)
    BY <1>1 DEF TraceInv
  <2>2. \A u \in traces' : u.call = d => \E v \in traces : v.call = d /\ Event(v) = Event(u)
    BY <1>3, <1>4
  <2>3. QED
    BY <1>1, <2>1, <2>2, TruthStays
<1>12. QED
  BY <1>6, <1>9, <1>10, <1>11 DEF TraceInv

\* A trace that is dropped tells nothing, nor does a call that begins to ring for too long.
LEMMA FewerTraces ==
  ASSUME TraceInv, traces' \subseteq traces, UNCHANGED <<record, closing, claims, told, undone>>
  PROVE  TraceInv'
<1>1. TraceTypes' /\ SentByOne'
  BY SentStays DEF TraceInv, TraceTypes
<1>2. \A d \in Calls : Locked(d)' => record'[d] = Pending
  BY DEF TraceInv, Locked
<1>3. \A d \in Calls \ undone' : TellsTruth(d)'
  BY TruthStays DEF TraceInv
<1>4. QED
  BY <1>1, <1>2, <1>3 DEF TraceInv
\* What is heard when an attempt arrives: the event of its trace once more.
LEMMA OneMoreIsHeard ==
  ASSUME TraceTypes, NEW t \in Traces, told' = [told EXCEPT ![t.call] = Append(@, Event(t))]
  PROVE  /\ told' \in [Calls -> Seq(Events)]
         /\ \A c \in Calls : \A phase : ~(c = t.call /\ phase = t.phase) => Heard(c, phase)' = Heard(c, phase)
         /\ Cardinality(Heard(t.call, t.phase)') \in Nat
         /\ Cardinality(Heard(t.call, t.phase)') <= Cardinality(Heard(t.call, t.phase)) + 1
         /\ \A c \in Calls : \A j \in DOMAIN told'[c] :
              (j \in DOMAIN told[c] /\ told'[c][j] = told[c][j]) \/ (c = t.call /\ told'[c][j] = Event(t))
<1> DEFINE e == Event(t)
           n == Len(told[t.call])
<1>1. told \in [Calls -> Seq(Events)] /\ t.call \in Calls /\ e \in Events /\ e.phase = t.phase
  BY EventsAreEvents DEF TraceTypes, Traces, Event
<1>2. /\ told'[t.call] = Append(told[t.call], e) /\ told[t.call] \in Seq(Events)
      /\ \A c \in Calls \ {t.call} : told'[c] = told[c]
  BY <1>1
<1> HIDE DEF e
<1>3. /\ told'[t.call] \in Seq(Events) /\ n \in Nat /\ DOMAIN told[t.call] = 1..n
      /\ DOMAIN told'[t.call] = 1..(n + 1) /\ told'[t.call][n + 1] = e
      /\ \A j \in 1..n : told'[t.call][j] = told[t.call][j]
  BY <1>1, <1>2, AppendProperties, LenProperties
<1> HIDE DEF n
<1>4. told' \in [Calls -> Seq(Events)]
  BY <1>1, <1>2, <1>3 DEF e
<1>5. ASSUME NEW c \in Calls, NEW phase, ~(c = t.call /\ phase = t.phase)
      PROVE  Heard(c, phase)' = Heard(c, phase)
  <2>1. CASE c = t.call
    BY <1>1, <1>3, <1>5, <2>1 DEF Heard
  <2>2. CASE c # t.call
    BY <1>2, <2>2 DEF Heard
  <2>3. QED
    BY <2>1, <2>2
<1>6. Heard(t.call, t.phase)' = Heard(t.call, t.phase) \cup {n + 1} /\ n + 1 \notin Heard(t.call, t.phase)
  BY <1>1, <1>3 DEF Heard
<1>7. IsFiniteSet(Heard(t.call, t.phase)) /\ Cardinality(Heard(t.call, t.phase)) \in Nat
  BY <1>1, HeardIsFinite
<1>8. Cardinality(Heard(t.call, t.phase)') = Cardinality(Heard(t.call, t.phase)) + 1
  BY <1>6, <1>7, FS_AddElement
<1>9. ASSUME NEW c \in Calls, NEW j \in DOMAIN told'[c]
      PROVE  (j \in DOMAIN told[c] /\ told'[c][j] = told[c][j]) \/ (c = t.call /\ told'[c][j] = Event(t))
  <2>1. CASE c = t.call
    BY <1>3, <1>9, <2>1 DEF e
  <2>2. CASE c # t.call
    BY <1>2, <1>9, <2>2
  <2>3. QED
    BY <2>1, <2>2
<1>10. QED
  BY <1>4, <1>5, <1>7, <1>8, <1>9

\* The one trace that claimed a phase sends it, at most as often as it may try.
LEMMA SendKeeps ==
  ASSUME TraceInv, NEW t \in traces, Sends(t)
  PROVE  TraceInv'
<1>1. PICK arrives \in BOOLEAN, answered \in BOOLEAN :
        /\ told'   = IF arrives THEN [told EXCEPT ![t.call] = Append(@, Event(t))] ELSE told
        /\ traces' = (traces \ {t}) \cup
                       IF answered \/ t.tries + 1 = MaxTries THEN {} ELSE {[t EXCEPT !.tries = @ + 1]}
  BY DEF Sends
<1>2. t.claimed /\ UNCHANGED <<record, closing, claims, undone>>
  BY DEF Sends
<1>3. t \in Traces
  BY DEF TraceInv, TraceTypes
<1>4. t.call \in Calls /\ t.phase \in Phases /\ t.tries \in 0..(MaxTries - 1)
  BY <1>3 DEF Traces
<1>5. told' = told \/ told' = [told EXCEPT ![t.call] = Append(@, Event(t))]
  BY <1>1
<1>6. \A u \in traces' : \/ u \in traces \ {t}
                         \/ /\ u \in Traces /\ u.call = t.call /\ u.phase = t.phase /\ Event(u) = Event(t)
                            /\ u.tries = t.tries + 1 /\ traces' \subseteq (traces \ {t}) \cup {u}
  <2>1. CASE answered \/ t.tries + 1 = MaxTries
    BY <1>1, <2>1
  <2>2. CASE ~answered /\ t.tries + 1 # MaxTries
    <3>1. PICK q : q = [t EXCEPT !.tries = @ + 1]
      OBVIOUS
    <3>2. q \in Traces /\ q.call = t.call /\ q.phase = t.phase /\ Event(q) = Event(t) /\ q.tries = t.tries + 1
      BY <1>3, <2>2, <3>1, TraceGoesOn
    <3>3. traces' = (traces \ {t}) \cup {q}
      BY <1>1, <2>2, <3>1
    <3>4. QED
      BY <3>2, <3>3
  <2>3. QED
    BY <2>1, <2>2
<1>7. /\ told' \in [Calls -> Seq(Events)]
      /\ \A c \in Calls : \A phase : ~(c = t.call /\ phase = t.phase) => Heard(c, phase)' = Heard(c, phase)
      /\ Cardinality(Heard(t.call, t.phase)') \in Nat
      /\ Cardinality(Heard(t.call, t.phase)') <= Cardinality(Heard(t.call, t.phase)) + 1
      /\ \A c \in Calls : \A j \in DOMAIN told'[c] :
           (j \in DOMAIN told[c] /\ told'[c][j] = told[c][j]) \/ (c = t.call /\ told'[c][j] = Event(t))
  <2>1. CASE told' = told
    <3>1. \A c, phase : Heard(c, phase)' = Heard(c, phase)
      BY <2>1 DEF Heard
    <3>2. Cardinality(Heard(t.call, t.phase)) \in Nat
      BY <1>4, HeardIsFinite DEF TraceInv
    <3>3. QED
      BY <2>1, <3>1, <3>2 DEF TraceInv, TraceTypes
  <2>2. CASE told' = [told EXCEPT ![t.call] = Append(@, Event(t))]
    BY <1>3, <2>2, OneMoreIsHeard DEF TraceInv
  <2>3. QED
    BY <1>5, <2>1, <2>2
<1>8. TraceTypes'
  BY <1>2, <1>6, <1>7 DEF TraceInv, TraceTypes
<1>9. /\ Cardinality(Heard(t.call, t.phase)) \in Nat /\ Cardinality(Heard(t.call, t.phase)) <= t.tries
      /\ <<t.call, t.phase>> \in claims
  BY <1>2, <1>4, HeardIsFinite DEF TraceInv, SentByOne
<1>10. Cardinality(Heard(t.call, t.phase)') <= t.tries + 1 /\ Cardinality(Heard(t.call, t.phase)') <= MaxTries
  BY <1>4, <1>7, <1>9, TriesArePositive
<1>11. \A u \in traces \ {t} : u.claimed => ~(u.call = t.call /\ u.phase = t.phase)
  BY <1>2 DEF TraceInv, SentByOne
<1>12. SentByOne'
  <2>1. ASSUME NEW u \in traces', u.claimed
        PROVE  <<u.call, u.phase>> \in claims' /\ Cardinality(Heard(u.call, u.phase)') <= u.tries
    <3>1. CASE u \in traces \ {t}
      <4>1. <<u.call, u.phase>> \in claims /\ Cardinality(Heard(u.call, u.phase)) <= u.tries /\ u.call \in Calls
        BY <2>1, <3>1 DEF TraceInv, SentByOne, TraceTypes, Traces
      <4>2. Heard(u.call, u.phase)' = Heard(u.call, u.phase)
        BY <1>7, <1>11, <2>1, <3>1, <4>1
      <4>3. QED
        BY <1>2, <4>1, <4>2
    <3>2. CASE u.call = t.call /\ u.phase = t.phase /\ u.tries = t.tries + 1
      BY <1>2, <1>9, <1>10, <3>2
    <3>3. QED
      BY <1>6, <3>1, <3>2
  <2>2. ASSUME NEW u \in traces', NEW v \in traces', u.claimed, v.claimed, u.call = v.call, u.phase = v.phase
        PROVE  u = v
    <3>1. CASE u \in traces \ {t} /\ v \in traces \ {t}
      BY <2>2, <3>1 DEF TraceInv, SentByOne
    <3>2. CASE u.call = t.call /\ u.phase = t.phase /\ traces' \subseteq (traces \ {t}) \cup {u}
      BY <1>11, <2>2, <3>2
    <3>3. CASE v.call = t.call /\ v.phase = t.phase /\ traces' \subseteq (traces \ {t}) \cup {v}
      BY <1>11, <2>2, <3>3
    <3>4. QED
      BY <1>6, <3>1, <3>2, <3>3
  <2>3. ASSUME NEW c \in Calls, NEW phase \in Phases
        PROVE  /\ <<c, phase>> \notin claims' => Heard(c, phase)' = {}
               /\ Cardinality(Heard(c, phase)') <= MaxTries
    <3>1. CASE c = t.call /\ phase = t.phase
      BY <1>2, <1>9, <1>10, <3>1
    <3>2. CASE ~(c = t.call /\ phase = t.phase)
      <4>1. Heard(c, phase)' = Heard(c, phase)
        BY <1>7, <3>2
      <4>2. QED
        BY <1>2, <4>1 DEF TraceInv, SentByOne
    <3>3. QED
      BY <3>1, <3>2
  <2>4. QED
    BY <2>1, <2>2, <2>3 DEF SentByOne
<1>13. \A d \in Calls : Locked(d)' => record'[d] = Pending
  BY <1>2 DEF TraceInv, Locked
<1>14. ASSUME NEW d \in Calls \ undone'
       PROVE  TellsTruth(d)'
  <2>1. TellsTruth(d)
    BY <1>2 DEF TraceInv
  <2>2. \A u \in traces' : u.call = d => \E v \in traces : v.call = d /\ Event(v) = Event(u)
    BY <1>6
  <2>3. CASE d = t.call
    <3>1. PICK e \in Events : Tells(d, e) /\ Fits(d, e)
      BY <2>1, <2>3 DEF TellsTruth
    <3>2. Event(t) = e
      BY <2>3, <3>1 DEF Tells
    <3>3. \A u \in traces' : u.call = d => Event(u) = e
      BY <2>2, <3>1 DEF Tells
    <3>4. \A j \in DOMAIN told'[d] : told'[d][j] = e
      BY <1>7, <3>1, <3>2 DEF Tells
    <3>5. Tells(d, e)' /\ Fits(d, e)'
      BY <1>2, <3>1, <3>3, <3>4 DEF Tells, Fits
    <3>6. ~(record[d] \in Unended /\ ~Locked(d))
      BY <2>1, <2>3 DEF TellsTruth
    <3>7. QED
      BY <1>2, <3>5, <3>6 DEF TellsTruth, Locked
  <2>4. CASE d # t.call
    <3>1. told'[d] = told[d]
      BY <1>5, <2>4 DEF TraceInv, TraceTypes
    <3>2. QED
      BY <1>2, <2>1, <2>2, <3>1, TruthStays
  <2>5. QED
    BY <2>3, <2>4
<1>15. QED
  BY <1>8, <1>12, <1>13, <1>14 DEF TraceInv

\* Every step of the handlers, the watchdog and the traces keeps the invariant.
THEOREM TracesKept == TraceInit /\ [][TraceNext]_traceVars => []TraceInv
<1>1. TraceInit => TraceInv
  <2> SUFFICES ASSUME TraceInit
               PROVE  TraceInv
    OBVIOUS
  <2>1. TraceTypes
    BY DEF TraceInit, TraceTypes, Unended
  <2>2. \A c \in Calls : \A phase : Heard(c, phase) = {} /\ Cardinality(Heard(c, phase)) = 0
    BY FS_EmptySet DEF TraceInit, Heard
  <2>3. SentByOne
    BY <2>2, TriesArePositive DEF TraceInit, SentByOne
  <2>4. \A c \in Calls : ~Locked(c) /\ TellsTruth(c)
    BY DEF TraceInit, Locked, TellsTruth, Unended
  <2>5. QED
    BY <2>1, <2>3, <2>4 DEF TraceInv
<1>2. TraceInv /\ [TraceNext]_traceVars => TraceInv'
  <2> SUFFICES ASSUME TraceInv, [TraceNext]_traceVars
               PROVE  TraceInv'
    OBVIOUS
  <2>1. ASSUME NEW c \in Calls, RingsOut(c)
        PROVE  TraceInv'
    BY <2>1, FewerTraces DEF RingsOut
  <2>2. ASSUME NEW c \in Calls, Reject(c) \/ Cancel(c)
        PROVE  TraceInv'
    <3>1. record[c] \in Unended
      BY <2>2 DEF Reject, Cancel, Unended
    <3>2. Truth("rejected") = {"rejected"} /\ Truth("cancelled") = {"cancelled"}
      BY DEF Truth
    <3>3. CASE Ends(c, "rejected", "rejected", "callee")
      BY <3>1, <3>2, <3>3, EndsKeep DEF Ended, Phases, Sides
    <3>4. CASE Ends(c, "cancelled", "cancelled", "caller")
      BY <3>1, <3>2, <3>4, EndsKeep DEF Ended, Phases, Sides
    <3>5. QED
      BY <2>2, <3>3, <3>4 DEF Reject, Cancel
  <2>3. ASSUME NEW c \in Calls, NEW actor \in {"caller", "callee"}, HangUp(c, actor)
        PROVE  TraceInv'
    <3>1. record[c] \in Unended
      BY <2>3 DEF HangUp, Unended
    <3>2. "ended" \in Truth("normal") /\ "ended" \in Truth("balance_empty")
      BY DEF Truth
    <3>3. CASE Ends(c, "normal", "ended", actor)
      BY <3>1, <3>2, <3>3, EndsKeep DEF Ended, Phases, Sides
    <3>4. CASE Ends(c, "balance_empty", "ended", actor)
      BY <3>1, <3>2, <3>4, EndsKeep DEF Ended, Phases, Sides
    <3>5. QED
      BY <2>3, <3>3, <3>4 DEF HangUp
  <2>4. ASSUME NEW c \in Calls, NEW actor \in {"caller", "callee"},
               NEW reason \in {"balance_empty", "force_exit"}, BillingEnds(c, reason, actor)
        PROVE  TraceInv'
    <3>1. record[c] \in Unended /\ TraceOfEnd(reason) = reason
      BY <2>4 DEF BillingEnds, Unended, TraceOfEnd
    <3>2. "balance_empty" \in Truth("balance_empty") /\ "force_exit" \in Truth("force_exit")
      BY DEF Truth
    <3>3. reason \in Truth(reason) /\ reason \in Ended /\ reason \in Phases /\ actor \in Sides
      BY <3>2 DEF Ended, Phases, Sides
    <3>4. Ends(c, reason, reason, actor)
      BY <2>4, <3>1 DEF BillingEnds
    <3>5. QED
      BY <3>1, <3>3, <3>4, EndsKeep
  <2>5. ASSUME NEW t \in traces, Drops(t)
        PROVE  TraceInv'
    BY <2>5, FewerTraces DEF Drops
  <2>6. CASE UNCHANGED traceVars
    BY <2>6, FewerTraces DEF traceVars
  <2>7. QED
    BY <2>1, <2>2, <2>3, <2>4, <2>5, <2>6, AcceptKeeps, AcceptEndsKeep, AcceptFinishes, WatchdogKeeps,
       ClaimKeeps, SendKeeps DEF TraceNext
<1>3. QED
  BY <1>1, <1>2, PTL

(***************************************************************************)
(* However many handlers end a call, and however often its traces are      *)
(* sent, lost or repeated, its users read of one end, the one on record,   *)
(* at most as often as a trace may be tried, but where an end that was     *)
(* told was undone.                                                        *)
(***************************************************************************)
THEOREM OneEndIsRead == TraceInit /\ [][TraceNext]_traceVars => []OneEndIsTold
<1>1. TraceInv => OneEndIsTold
  <2> SUFFICES ASSUME TraceInv, NEW c \in Calls, NEW k \in DOMAIN told[c]
               PROVE  LET event == told[c][k]
                      IN  /\ Cardinality({j \in DOMAIN told[c] : told[c][j].phase = event.phase}) <= MaxTries
                          /\ c \in undone \/ /\ \A j \in DOMAIN told[c] : told[c][j] = event
                                             /\ IF record[c] \in Unended THEN closing[c] = event.phase
                                                ELSE event.phase \in Truth(record[c])
    BY DEF OneEndIsTold
  <2>1. told[c] \in Seq(Events)
    BY DEF TraceInv, TraceTypes
  <2>2. told[c][k] \in Events
    BY <2>1, ElementOfSeq, LenProperties
  <2>3. Cardinality(Heard(c, told[c][k].phase)) <= MaxTries
    BY <2>2 DEF TraceInv, SentByOne, Events
  <2>4. ASSUME c \notin undone
        PROVE  /\ \A j \in DOMAIN told[c] : told[c][j] = told[c][k]
               /\ Fits(c, told[c][k])
    <3>1. TellsTruth(c) /\ told[c] # <<>>
      BY <2>4 DEF TraceInv
    <3>2. PICK e \in Events : Tells(c, e) /\ Fits(c, e)
      BY <3>1 DEF TellsTruth
    <3>3. QED
      BY <3>2 DEF Tells
  <2>5. QED
    BY <2>3, <2>4 DEF Heard, Fits
<1>2. QED
  BY <1>1, TracesKept, PTL

-----------------------------------------------------------------------------
(* Connections *)

\* What the newest connection needs, seen from an open connection c.
Kept(c) ==
  /\ online /\ lease # None /\ lease <= silent[c] /\ owner = at[c]
  /\ reader # "drop"
  /\ \A b \in Conns : pc[b] \notin Leaving \ {"owner"}

\* A connection that is on its way in finds nobody about to undo what it has written.
Entering(c) ==
  /\ reader \notin {"lease", "drop"}
  /\ \A b \in Conns : pc[b] \notin Leaving
  /\ pc[c] \in {"lease", "own"} => online
  /\ pc[c] = "own" => lease = 0

EnteringOK == \A c \in Conns : pc[c] \in Joining => Entering(c)
LeavingOK  == \A c \in Conns : pc[c] \in Leaving => current[at[c]] = None
OpenOK     == \A c \in OpenOnes : current[at[c]] = c /\ lastOwner = at[c] => Kept(c)
SilenceOK  == \A c \in Conns : pc[c] # "open" => silent[c] = 0

Calm == ~raced /\ failures = 0

ConnParts == EnteringOK /\ LeavingOK /\ OpenOK /\ SilenceOK

ConnInv == Calm => ConnParts

WsInv == WsTypes /\ ConnInv

\* An app that is silent for as long as the router waits still has its lease.
LeaseOutlives == Timeout < LeaseTTL

-----------------------------------------------------------------------------
\* The types in two parts: connections, and the rest.
HandlersOK ==
  /\ pc \in [Conns -> {"new", "open", "closed"} \cup Joining \cup Leaving]
  /\ at \in [Conns -> Workers \cup {None}] /\ silent \in [Conns -> 0 .. Timeout]
  /\ current \in [Workers -> Conns \cup {None}]
  /\ \A c \in Conns : pc[c] = "new" <=> at[c] = None
  /\ \A w \in Workers : current[w] # None => at[current[w]] = w /\ pc[current[w]] \in Joining \cup {"open"}

KeysOK ==
  /\ online \in BOOLEAN
  /\ lease \in 0 .. LeaseTTL - 1 \cup {None}
  /\ owner \in Workers \cup {None} /\ lastOwner \in Workers \cup {None}
  /\ reader \in {"idle", "lease", "drop"}

EventsOK ==
  /\ heard \in BOOLEAN /\ raced \in BOOLEAN
  /\ inbox \subseteq subscribed /\ subscribed \subseteq Workers \ down
  /\ call \in {"ongoing", "ended"} /\ push \in {"none", "check", "publish", "done"}
  /\ failures \in 0 .. MaxFailures

\* The types are those of the two parts and of the events.
LEMMA TypesInParts == WsTypes <=> HandlersOK /\ KeysOK /\ EventsOK
  BY DEF WsTypes, HandlersOK, KeysOK, EventsOK

\* The types hold before anybody connects.
LEMMA WsTypesInit == WsInit => WsTypes
<1> SUFFICES ASSUME WsInit PROVE WsTypes
  OBVIOUS
<1>1. HandlersOK
  BY NoneIsNothing, TimesAreSeconds DEF WsInit, HandlersOK, Joining, Leaving
<1>2. KeysOK
  BY DEF WsInit, KeysOK
<1>3. EventsOK
  <2>1. inbox = {} /\ subscribed = Workers /\ down = {} /\ failures = 0
    BY DEF WsInit
  <2>2. failures \in 0 .. MaxFailures
    BY <2>1, BoundsAreNat
  <2>3. heard \in BOOLEAN /\ raced \in BOOLEAN /\ call = "ongoing" /\ push = "none"
    BY DEF WsInit
  <2>4. QED
    BY <2>1, <2>2, <2>3 DEF EventsOK
<1>4. QED
  BY <1>1, <1>2, <1>3, TypesInParts

\* Connecting keeps the types, whether or not a call of Redis fails.
LEMMA JoiningKeepsTypes ==
  ASSUME WsTypes, raced' \in BOOLEAN, NEW c \in Conns,
         \/ \E w \in Workers : Register(c, w)
         \/ Join(c) \/ JoinFails(c)
  PROVE  WsTypes'
<1> USE DEF WsTypes, Joining, Leaving, Goto, handlers, keys, events, Fails
<1>1. ASSUME NEW w \in Workers, Register(c, w)
      PROVE  WsTypes'
  BY <1>1, NoneIsNothing, TimesAreSeconds DEF Register
<1>2. CASE Join(c)
  <2>1. \E place \in {"lease", "own", "open"} :
          /\ pc[c] \in Joining /\ pc' = [pc EXCEPT ![c] = place]
          /\ online' \in BOOLEAN /\ lease' \in {lease, 0}
          /\ owner' \in {owner, at[c]} /\ lastOwner' \in {lastOwner, at[c]}
          /\ UNCHANGED <<at, silent, current, reader, events, down, failures>>
    BY <1>2 DEF Join
  <2>2. at[c] \in Workers
    BY <2>1, NoneIsNothing
  <2> HIDE DEF WsTypes
  <2>3. HandlersOK'
    BY <2>1 DEF HandlersOK, WsTypes
  <2>4. KeysOK'
    BY <2>1, <2>2, TimesAreSeconds DEF KeysOK, WsTypes
  <2>5. EventsOK'
    BY <2>1 DEF EventsOK, WsTypes
  <2>6. QED
    BY <2>3, <2>4, <2>5 DEF WsTypes, HandlersOK, KeysOK, EventsOK
<1>3. CASE JoinFails(c)
  BY <1>3, NoneIsNothing, BoundsAreNat DEF JoinFails
<1>4. QED
  BY <1>1, <1>2, <1>3

\* So do messages and leaving.
LEMMA LeavingKeepsTypes ==
  ASSUME WsTypes, raced' \in BOOLEAN, NEW c \in Conns, Message(c) \/ Leave(c) \/ Depart(c) \/ DepartFails(c)
  PROVE  WsTypes'
<1> USE DEF WsTypes, Joining, Leaving, Goto, handlers, keys, events, Fails
<1>1. CASE Message(c)
  BY <1>1, NoneIsNothing, BoundsAreNat, TimesAreSeconds DEF Message, AnswersEnd, Refreshes
<1>2. CASE Leave(c)
  BY <1>2, NoneIsNothing, TimesAreSeconds DEF Leave, RemovesCurrent
<1>3. CASE Depart(c)
  <2>1. \E place \in Leaving \cup {"closed"} :
          /\ pc[c] \in Leaving /\ pc' = [pc EXCEPT ![c] = place]
          /\ online' \in BOOLEAN /\ lease' \in {lease, None} /\ owner' \in {owner, None}
          /\ UNCHANGED <<at, silent, current, reader, events, down, failures, lastOwner>>
    BY <1>3 DEF Depart, Owns
  <2> HIDE DEF WsTypes
  <2>2. HandlersOK'
    BY <2>1 DEF HandlersOK, WsTypes
  <2>3. KeysOK'
    BY <2>1 DEF KeysOK, WsTypes
  <2>4. EventsOK'
    BY <2>1 DEF EventsOK, WsTypes
  <2>5. QED
    BY <2>2, <2>3, <2>4 DEF WsTypes, HandlersOK, KeysOK, EventsOK
<1>4. CASE DepartFails(c)
  BY <1>4, NoneIsNothing, BoundsAreNat DEF DepartFails
<1>5. QED
  BY <1>1, <1>2, <1>3, <1>4

\* So do the listeners of the workers, and the death of a worker.
LEMMA ListeningKeepsTypes ==
  ASSUME WsTypes, raced' \in BOOLEAN, NEW w \in Workers, Listen(w) \/ ListenerBreaks(w) \/ Crash(w)
  PROVE  WsTypes'
<1> USE DEF WsTypes, Joining, Leaving, Goto, handlers, keys, events, Fails
<1>1. CASE Deliver(w)
  <2>1. /\ inbox' = inbox \ {w} /\ heard' \in {heard, TRUE}
        /\ UNCHANGED <<at, keys, reader, call, push, subscribed, down, failures, lastOwner>>
    BY <1>1 DEF Deliver
  <2>2. \/ UNCHANGED <<pc, silent, current>>
        \/ \E c \in Conns : /\ pc[c] = "open" /\ c = current[w] /\ current' = [current EXCEPT ![w] = None]
                            /\ silent' = [silent EXCEPT ![c] = 0] /\ pc' = [pc EXCEPT ![c] = "owner"]
    BY <1>1 DEF Deliver
  <2> HIDE DEF WsTypes
  <2>3. HandlersOK'
    BY <2>1, <2>2, TimesAreSeconds, NoneIsNothing DEF HandlersOK, WsTypes
  <2>4. KeysOK'
    BY <2>1 DEF KeysOK, WsTypes
  <2>5. EventsOK'
    BY <2>1 DEF EventsOK, WsTypes
  <2>6. QED
    BY <2>3, <2>4, <2>5 DEF WsTypes, HandlersOK, KeysOK, EventsOK
<1>2. CASE Resubscribe(w) \/ ListenerBreaks(w)
  BY <1>2, BoundsAreNat DEF Resubscribe, ListenerBreaks
<1>3. CASE Crash(w)
  BY <1>3, NoneIsNothing, TimesAreSeconds DEF Crash
<1>4. QED
  BY <1>1, <1>2, <1>3 DEF Listen

\* So do the readers of the online list, the end of the call, its push, and time.
LEMMA RestKeepsTypes ==
  ASSUME WsTypes, raced' \in BOOLEAN, ReadOnline \/ ReadFails \/ EndHappens \/ PushToUser \/ PushFails \/ Second
  PROVE  WsTypes'
<1> USE DEF WsTypes, Joining, Leaving, handlers, keys, events, Fails
<1>1. CASE ReadOnline \/ ReadFails
  <2>1. /\ reader' \in {"idle", "lease", "drop"} /\ online' \in {online, FALSE}
        /\ failures' \in {failures, failures + 1} /\ (failures' # failures => failures < MaxFailures)
        /\ UNCHANGED <<handlers, lease, owner, events, down, lastOwner>>
    BY <1>1 DEF ReadOnline, ReadFails
  <2> HIDE DEF WsTypes
  <2>2. HandlersOK'
    BY <2>1 DEF HandlersOK, WsTypes
  <2>3. KeysOK'
    BY <2>1 DEF KeysOK, WsTypes
  <2>4. EventsOK'
    BY <2>1, BoundsAreNat DEF EventsOK, WsTypes
  <2>5. QED
    BY <2>2, <2>3, <2>4 DEF WsTypes, HandlersOK, KeysOK, EventsOK
<1>2. CASE EndHappens \/ PushToUser \/ PushFails
  BY <1>2, BoundsAreNat DEF EndHappens, PushToUser, PushFails
<1>3. CASE Second
  BY <1>3, NoneIsNothing, TimesAreSeconds DEF Second, Expiring, OpenOnes
<1>4. QED
  BY <1>1, <1>2, <1>3

-----------------------------------------------------------------------------
\* Whoever is on the way in after a step without an overlap is alone.
LEMMA AloneInside ==
  ASSUME ~Overlap', NEW c \in Conns, pc'[c] \in Joining
  PROVE  reader' \notin {"lease", "drop"} /\ \A b \in Conns : pc'[b] \notin Leaving
  BY DEF Overlap

\* A new connection enters while nobody leaves and nobody is about to drop the user.
LEMMA RegisterKeeps ==
  ASSUME WsInv, Calm, ~Overlap', NEW c \in Conns, NEW w \in Workers, Register(c, w)
  PROVE  ConnParts'
<1>1. /\ pc' = [pc EXCEPT ![c] = "add"] /\ at' = [at EXCEPT ![c] = w] /\ silent' = [silent EXCEPT ![c] = 0]
      /\ current' = [current EXCEPT ![w] = c] /\ pc[c] = "new"
      /\ UNCHANGED <<online, lease, owner, reader, lastOwner>>
  BY DEF Register, Goto, keys
<1>2. HandlersOK /\ ConnParts
  BY DEF WsInv, WsTypes, ConnInv, HandlersOK
<1>3. pc'[c] \in Joining /\ \A b \in Conns : pc'[b] \notin Leaving
  BY <1>1, <1>2, AloneInside DEF HandlersOK, Joining
<1>4. EnteringOK'
  BY <1>1, <1>2, AloneInside DEF ConnParts, EnteringOK, Entering, HandlersOK
<1>5. LeavingOK'
  BY <1>3 DEF LeavingOK
<1>6. OpenOK'
  BY <1>1, <1>2 DEF ConnParts, OpenOK, OpenOnes, Kept, HandlersOK, Leaving
<1>7. SilenceOK'
  BY <1>1, <1>2 DEF ConnParts, SilenceOK, HandlersOK
<1>8. QED
  BY <1>4, <1>5, <1>6, <1>7 DEF ConnParts

\* What a connection writes on its way in is what it owes to the keys so far.
LEMMA JoinKeeps ==
  ASSUME WsInv, Calm, ~Overlap', NEW c \in Conns, Join(c)
  PROVE  ConnParts'
<1>1. HandlersOK /\ ConnParts /\ Entering(c) /\ pc[c] \in Joining
  BY DEF WsInv, WsTypes, ConnInv, ConnParts, EnteringOK, HandlersOK, Join, Joining
<1>2. /\ UNCHANGED <<at, silent, current, reader>>
      /\ \/ /\ pc[c] = "add" /\ online' = TRUE /\ pc' = [pc EXCEPT ![c] = "lease"]
            /\ UNCHANGED <<lease, owner, lastOwner>>
         \/ /\ pc[c] = "lease" /\ lease' = 0 /\ pc' = [pc EXCEPT ![c] = "own"]
            /\ UNCHANGED <<online, owner, lastOwner>>
         \/ /\ pc[c] = "own" /\ owner' = at[c] /\ lastOwner' = at[c] /\ pc' = [pc EXCEPT ![c] = "open"]
            /\ UNCHANGED <<online, lease>>
  BY DEF Join, Goto
<1>3. \A b \in Conns : pc'[b] \notin Leaving
  BY <1>1, <1>2 DEF Entering, HandlersOK, Leaving
<1>4. EnteringOK'
  BY <1>1, <1>2, AloneInside DEF ConnParts, EnteringOK, Entering, HandlersOK
<1>5. LeavingOK'
  BY <1>3 DEF LeavingOK
<1>6. OpenOK'
  <2>1. CASE pc[c] = "own"
    BY <1>1, <1>2, <1>3, <2>1, NoneIsNothing DEF Entering, OpenOK, OpenOnes, Kept, HandlersOK
  <2>2. CASE pc[c] # "own"
    BY <1>1, <1>2, <1>3, <2>2, NoneIsNothing DEF ConnParts, OpenOK, OpenOnes, Kept, HandlersOK
  <2>3. QED
    BY <2>1, <2>2
<1>7. SilenceOK'
  BY <1>1, <1>2 DEF ConnParts, SilenceOK, HandlersOK, Joining
<1>8. QED
  BY <1>4, <1>5, <1>6, <1>7 DEF ConnParts

\* A message refreshes the keys only for the current connection of its worker.
LEMMA MessageKeeps ==
  ASSUME WsInv, Calm, Calm', ~Overlap', NEW c \in Conns, Message(c)
  PROVE  ConnParts'
<1>1. HandlersOK /\ ConnParts /\ failures = 0 /\ failures' = 0
  BY DEF WsInv, WsTypes, ConnInv, HandlersOK, Calm
<1>2. /\ pc[c] = "open" /\ silent' = [silent EXCEPT ![c] = 0]
      /\ lease' = IF current[at[c]] = c THEN 0 ELSE lease
      /\ UNCHANGED <<pc, at, current, online, owner, reader, lastOwner>>
  BY <1>1 DEF Message, Refreshes, Fails
<1>3. EnteringOK'
  BY <1>1, <1>2 DEF ConnParts, EnteringOK, Entering, HandlersOK
<1>4. LeavingOK' /\ SilenceOK'
  BY <1>1, <1>2 DEF ConnParts, LeavingOK, SilenceOK, HandlersOK
<1>5. OpenOK'
  BY <1>1, <1>2, NoneIsNothing DEF ConnParts, OpenOK, OpenOnes, Kept, HandlersOK
<1>6. QED
  BY <1>3, <1>4, <1>5 DEF ConnParts

\* A connection leaves, as the worker's current one or not.
LEMMA LeaveKeeps ==
  ASSUME WsInv, Calm, ~Overlap', NEW c \in Conns, pc[c] = "open",
         silent' = [silent EXCEPT ![c] = 0], UNCHANGED <<at, keys, reader, lastOwner>>,
         \/ /\ current[at[c]] = c /\ current' = [current EXCEPT ![at[c]] = None] /\ pc' = [pc EXCEPT ![c] = "owner"]
         \/ /\ UNCHANGED current /\ pc' = [pc EXCEPT ![c] = "closed"]
  PROVE  ConnParts'
<1>1. HandlersOK /\ ConnParts /\ at[c] \in Workers /\ UNCHANGED <<online, lease, owner>>
  BY NoneIsNothing DEF WsInv, WsTypes, ConnInv, HandlersOK, keys
<1>2. EnteringOK'
  BY <1>1, AloneInside DEF ConnParts, EnteringOK, Entering, HandlersOK, Joining
<1>3. LeavingOK' /\ SilenceOK'
  BY <1>1 DEF ConnParts, LeavingOK, SilenceOK, HandlersOK, Leaving
<1>4. OpenOK'
  BY <1>1, NoneIsNothing DEF ConnParts, OpenOK, OpenOnes, Kept, HandlersOK, Leaving
<1>5. QED
  BY <1>2, <1>3, <1>4 DEF ConnParts

\* A connection that leaves removes the keys only if none took its place as owner.
LEMMA DepartKeeps ==
  ASSUME WsInv, Calm, ~Overlap', NEW c \in Conns, Depart(c)
  PROVE  ConnParts'
<1>1. HandlersOK /\ ConnParts /\ pc[c] \in Leaving
  BY DEF WsInv, WsTypes, ConnInv, HandlersOK, Depart, Leaving
<1>2. /\ UNCHANGED <<at, silent, current, reader, lastOwner>>
      /\ \/ /\ pc[c] = "owner" /\ UNCHANGED <<online, lease, owner>>
            /\ pc' = [pc EXCEPT ![c] = IF owner = at[c] THEN "remove" ELSE "closed"]
         \/ /\ pc[c] \in Leaving \ {"owner"}
            /\ \E place \in {"disown", "release", "closed"} : pc' = [pc EXCEPT ![c] = place]
  BY DEF Depart, Goto, Owns, keys, Leaving
<1>3. /\ \A b \in Conns : pc[b] \notin Joining /\ pc'[b] \notin Joining
      /\ \A b \in Conns : pc'[b] \in Leaving => pc[b] \in Leaving
      /\ \A b \in Conns : pc'[b] = "open" <=> pc[b] = "open"
      /\ \A b \in Conns : b # c => pc'[b] = pc[b]
  BY <1>1, <1>2 DEF ConnParts, EnteringOK, Entering, HandlersOK, Joining, Leaving
<1>4. EnteringOK' /\ LeavingOK' /\ SilenceOK'
  BY <1>1, <1>2, <1>3 DEF ConnParts, EnteringOK, LeavingOK, SilenceOK
<1>5. ASSUME NEW o \in OpenOnes, current[at[o]] = o, lastOwner = at[o]
      PROVE  pc[c] = "owner" /\ owner # at[c] /\ Kept(o)
  <2>1. Kept(o) /\ pc[c] = "owner" /\ o \in Conns
    BY <1>1, <1>5 DEF ConnParts, OpenOK, OpenOnes, Kept
  <2>2. current[at[c]] = None
    BY <1>1 DEF ConnParts, LeavingOK
  <2>3. QED
    BY <1>5, <2>1, <2>2, NoneIsNothing DEF Kept
<1>6. OpenOK'
  BY <1>1, <1>2, <1>3, <1>5 DEF OpenOK, OpenOnes, Kept, HandlersOK, Leaving
<1>7. QED
  BY <1>4, <1>6 DEF ConnParts

\* A dead worker takes its connections along; what they wrote stays.
LEMMA CrashKeeps ==
  ASSUME WsInv, Calm, ~Overlap', NEW w \in Workers, Crash(w)
  PROVE  ConnParts'
<1>1. HandlersOK /\ ConnParts
  BY DEF WsInv, WsTypes, ConnInv, HandlersOK
<1>2. /\ pc' = [c \in Conns |-> IF at[c] = w THEN "closed" ELSE pc[c]]
      /\ silent' = [c \in Conns |-> IF at[c] = w THEN 0 ELSE silent[c]]
      /\ current' = [current EXCEPT ![w] = None]
      /\ UNCHANGED <<at, online, lease, owner, reader, lastOwner>>
  BY DEF Crash, keys
<1>3. EnteringOK'
  BY <1>1, <1>2 DEF ConnParts, EnteringOK, Entering, HandlersOK, Joining, Leaving
<1>4. LeavingOK' /\ SilenceOK'
  BY <1>1, <1>2 DEF ConnParts, LeavingOK, SilenceOK, HandlersOK, Leaving
<1>5. OpenOK'
  BY <1>1, <1>2, NoneIsNothing DEF ConnParts, OpenOK, OpenOnes, Kept, HandlersOK, Leaving
<1>6. QED
  BY <1>3, <1>4, <1>5 DEF ConnParts

\* A reader drops nobody who has a lease.
LEMMA ReadKeeps ==
  ASSUME WsInv, Calm, ~Overlap', ReadOnline
  PROVE  ConnParts'
<1>1. HandlersOK /\ ConnParts /\ UNCHANGED <<pc, at, silent, current, lease, owner, lastOwner>>
  BY DEF WsInv, WsTypes, ConnInv, HandlersOK, ReadOnline, handlers
<1>2. \/ reader = "idle" /\ reader' = "lease" /\ UNCHANGED online
      \/ reader = "lease" /\ reader' = (IF lease = None THEN "drop" ELSE "idle") /\ UNCHANGED online
      \/ reader = "drop" /\ reader' = "idle"
  BY DEF ReadOnline
<1>3. EnteringOK'
  BY <1>1, <1>2, AloneInside DEF ConnParts, EnteringOK, Entering
<1>4. LeavingOK' /\ SilenceOK'
  BY <1>1 DEF ConnParts, LeavingOK, SilenceOK
<1>5. OpenOK'
  BY <1>1, <1>2 DEF ConnParts, OpenOK, OpenOnes, Kept
<1>6. QED
  BY <1>3, <1>4, <1>5 DEF ConnParts

\* A connection that is open has been heard of more recently than its lease lasts.
LEMMA SecondKeeps ==
  ASSUME LeaseOutlives, WsInv, Calm, ~Overlap', Second
  PROVE  ConnParts'
<1>1. HandlersOK /\ ConnParts /\ lease \in 0 .. LeaseTTL - 1 \cup {None}
  BY DEF WsInv, WsTypes, ConnInv, HandlersOK
<1>2. /\ \A c \in Conns : pc[c] \in {"new", "open", "closed"}
      /\ \A c \in OpenOnes : silent[c] < Timeout
      /\ silent' = [c \in Conns |-> IF pc[c] = "open" THEN silent[c] + 1 ELSE 0]
      /\ UNCHANGED <<pc, at, current, online, owner, reader, lastOwner>>
  BY DEF Second
<1>3. lease # None /\ lease + 1 < LeaseTTL => lease' = lease + 1
  BY <1>1, TimesAreSeconds DEF Second, Expiring
<1>4. EnteringOK' /\ LeavingOK' /\ SilenceOK'
  BY <1>1, <1>2 DEF EnteringOK, LeavingOK, SilenceOK, Joining, Leaving
<1>5. OpenOK'
  <2>1. ASSUME NEW c \in OpenOnes, current[at[c]] = c, lastOwner = at[c]
        PROVE  Kept(c)'
    <3>1. Kept(c) /\ c \in Conns /\ pc[c] = "open" /\ silent[c] \in Nat /\ silent[c] < Timeout
      BY <1>1, <1>2, <2>1, TimesAreSeconds DEF ConnParts, OpenOK, OpenOnes, HandlersOK
    <3>2. lease \in Nat /\ lease + 1 < LeaseTTL
      BY <1>1, <3>1, TimesAreSeconds DEF Kept, LeaseOutlives
    <3>3. lease' = lease + 1 /\ silent'[c] = silent[c] + 1
      BY <1>2, <1>3, <3>1, <3>2 DEF Kept
    <3>4. lease' # None
      BY <3>2, <3>3, NoneIsNothing
    <3>5. QED
      BY <1>2, <3>1, <3>2, <3>3, <3>4 DEF Kept
  <2>2. QED
    BY <1>2, <2>1 DEF OpenOK, OpenOnes
<1>6. QED
  BY <1>4, <1>5 DEF ConnParts

\* Steps of the call and its push leave connections alone.
LEMMA OthersKeep ==
  ASSUME WsInv, Calm, UNCHANGED <<pc, silent, current, at, keys, reader, lastOwner>>
  PROVE  ConnParts'
  BY DEF keys, WsInv, ConnInv, ConnParts, EnteringOK, Entering, LeavingOK, OpenOK, OpenOnes, Kept, SilenceOK

\* Every step keeps the types, and what holds of the connections while it is calm.
LEMMA WsKeeps ==
  ASSUME LeaseOutlives, WsInv, [WsNext]_wsVars
  PROVE  WsInv'
<1>1. CASE UNCHANGED wsVars
  BY <1>1 DEF wsVars, state, handlers, keys, events, WsInv, WsTypes, ConnInv, ConnParts, Calm,
              EnteringOK, Entering, LeavingOK, OpenOK, OpenOnes, Kept, SilenceOK
<1>2. CASE WsNext
  <2>1. raced' \in BOOLEAN /\ WsTypes
    BY <1>2 DEF WsNext, WsInv
  <2>2. WsTypes'
    BY <1>2, <2>1, JoiningKeepsTypes, LeavingKeepsTypes, ListeningKeepsTypes, RestKeepsTypes DEF WsNext, Step
  <2>3. ASSUME Calm'
        PROVE  ConnParts'
    <3>1. /\ ~raced /\ ~Overlap' /\ failures \in Nat
          /\ \/ UNCHANGED failures
             \/ failures' = failures + 1
      <4>1. ~raced /\ ~Overlap'
        BY <1>2, <2>3 DEF WsNext, Calm
      <4>2. failures \in Nat
        BY <2>1, BoundsAreNat DEF WsTypes
      <4>3. UNCHANGED failures \/ failures' = failures + 1
        BY <1>2 DEF WsNext, Step, Listen, Register, Join, JoinFails, Depart, DepartFails, Message, Leave, Fails,
                    Deliver, Resubscribe, ListenerBreaks, Crash, ReadOnline, ReadFails, EndHappens, PushToUser,
                    PushFails, Second
      <4>4. QED
        BY <4>1, <4>2, <4>3
    <3>2. Calm /\ failures' = failures
      BY <2>3, <3>1 DEF Calm
    <3>3. ~Fails
      BY <3>1, <3>2 DEF Fails
    <3>4. ASSUME NEW c \in Conns,
                 (\E w \in Workers : Register(c, w)) \/ Step(c) \/ Message(c) \/ Leave(c)
          PROVE  ConnParts'
      <4>1. CASE Leave(c)
        BY <3>1, <3>2, <4>1, LeaveKeeps DEF Leave, RemovesCurrent, Goto
      <4>2. QED
        BY <2>3, <3>1, <3>2, <3>4, <4>1, RegisterKeeps, JoinKeeps, DepartKeeps, MessageKeeps DEF Step
    <3>5. ASSUME NEW w \in Workers, Listen(w) \/ Crash(w)
          PROVE  ConnParts'
      <4>1. CASE Crash(w)
        BY <3>1, <3>2, <4>1, CrashKeeps
      <4>2. CASE Listen(w)
        <5>1. UNCHANGED <<at, keys, reader, lastOwner>>
          BY <4>2 DEF Listen, Deliver, Resubscribe, handlers
        <5>2. CASE UNCHANGED <<pc, silent, current>>
          BY <3>2, <5>1, <5>2, OthersKeep
        <5>3. ASSUME NEW c, c = current[w], c # None, pc[c] = "open",
                     current' = [current EXCEPT ![w] = None], silent' = [silent EXCEPT ![c] = 0],
                     pc' = [pc EXCEPT ![c] = "owner"]
              PROVE  ConnParts'
          <6>1. c \in Conns /\ at[c] = w
            BY <2>1, <5>3 DEF WsTypes
          <6>2. QED
            BY <3>1, <3>2, <5>1, <5>3, <6>1, LeaveKeeps
        <5>4. QED
          BY <4>2, <5>2, <5>3 DEF Listen, Deliver, Resubscribe, Goto, handlers
      <4>3. QED
        BY <3>5, <4>1, <4>2
    <3>6. CASE EndHappens \/ PushToUser
      BY <3>2, <3>6, OthersKeep DEF EndHappens, PushToUser, handlers
    <3>7. QED
      BY <1>2, <3>1, <3>2, <3>3, <3>4, <3>5, <3>6, ReadKeeps, SecondKeeps
         DEF WsNext, JoinFails, DepartFails, ListenerBreaks, ReadFails, PushFails
  <2>4. QED
    BY <2>2, <2>3 DEF WsInv, ConnInv
<1>3. QED
  BY <1>1, <1>2

\* The keys, connections and workers keep their types (ConnectionManager).
THEOREM WsTypesKept == WsSpec => []WsTypes
<1>1. WsTypes /\ [WsNext]_wsVars => WsTypes'
  <2> SUFFICES ASSUME WsTypes, [WsNext]_wsVars
               PROVE  WsTypes'
    OBVIOUS
  <2>1. CASE UNCHANGED wsVars
    BY <2>1 DEF wsVars, state, handlers, keys, events, WsTypes
  <2>2. CASE WsNext
    <3>1. raced' \in BOOLEAN
      BY <2>2 DEF WsNext
    <3>2. QED
      BY <2>2, <3>1, JoiningKeepsTypes, LeavingKeepsTypes, ListeningKeepsTypes, RestKeepsTypes DEF WsNext, Step
  <2>3. QED
    BY <2>1, <2>2
<1>2. QED
  BY <1>1, WsTypesInit, PTL DEF WsSpec

(***************************************************************************)
(* The user whose newest connection is open stays online, whatever older   *)
(* connections, readers of the online state and workers that die do, for   *)
(* any number of connections and workers, as long as an open connection is *)
(* heard of more often than its lease lasts.                               *)
(***************************************************************************)
THEOREM NewestStaysOnline == LeaseOutlives => (WsSpec => []NewestKeepsOnline)
<1> SUFFICES ASSUME LeaseOutlives PROVE WsSpec => []NewestKeepsOnline
  OBVIOUS
<1>1. WsInit => WsInv
  BY WsTypesInit DEF WsInit, WsInv, ConnInv, ConnParts, EnteringOK, LeavingOK, OpenOK, OpenOnes, SilenceOK,
                     Joining, Leaving
<1>2. WsInv /\ [WsNext]_wsVars => WsInv'
  BY WsKeeps
<1>3. WsInv => NewestKeepsOnline
  BY DEF WsInv, ConnInv, ConnParts, Calm, OpenOK, Kept, NewestKeepsOnline
<1>4. QED
  BY <1>1, <1>2, <1>3, PTL DEF WsSpec

-----------------------------------------------------------------------------
(* Boards *)

Entry == [user : Earners, score : Nat]

\* Nothing a list of rows says is more than what was earned.
Covered(rows, earned) ==
  \A k \in DOMAIN rows : rows[k].score > 0 /\ rows[k].score <= earned[rows[k].user]

\* A list has every user who earned something, with all of it.
Covers(rows, earned) ==
  \A u \in Earners : earned[u] > 0 => \E k \in DOMAIN rows : rows[k].user = u /\ rows[k].score >= earned[u]

\* The places of the users who scored are counted, each has a place of its own, so that
\* every place is someone's.
LEMMA RankedIsAll ==
  ASSUME NEW earned \in [Earners -> Nat]
  PROVE  /\ Ranked(earned) \in Seq(Entry)
         /\ Covered(Ranked(earned), earned) /\ Covers(Ranked(earned), earned)
<1> DEFINE scorers == {u \in Earners : earned[u] > 0}
           above(u) == {v \in scorers : ~Above(earned, u, v)}
           n       == Cardinality(scorers)
           rank    == [u \in scorers |-> Cardinality(above(u))]
           nth(k)  == CHOOSE u \in scorers : Cardinality(above(u)) = k
           t       == [k \in 1..n |-> [user |-> nth(k), score |-> earned[nth(k)]]]
<1>1. /\ IsFiniteSet(scorers) /\ n \in Nat /\ scorers \subseteq Nat
      /\ \A u : IsFiniteSet(above(u)) /\ Cardinality(above(u)) \in Nat /\ Cardinality(above(u)) <= n
  <2>1. IsFiniteSet(scorers) /\ scorers \subseteq Nat
    <3>1. scorers \in SUBSET Earners
      OBVIOUS
    <3>2. QED
      BY <3>1, EarnersAreIds, FS_Subset
  <2>2. \A u : above(u) \in SUBSET scorers
    OBVIOUS
  <2>3. QED
    BY <2>1, <2>2, FS_Subset, FS_CardinalityType
<1>2. \A u \in scorers : u \in above(u) /\ Cardinality(above(u)) \in 1..n
  <2>1. \A u \in scorers : u \in above(u)
    BY <1>1 DEF Above
  <2> HIDE DEF above, scorers
  <2>2. QED
    BY <1>1, <2>1, FS_EmptySet
<1>3. ASSUME NEW u \in scorers, NEW v \in scorers, Cardinality(above(u)) = Cardinality(above(v))
      PROVE  u = v
  <2>1. ASSUME NEW a \in scorers, NEW b \in scorers, Above(earned, a, b)
        PROVE  Cardinality(above(a)) # Cardinality(above(b))
    <3>1. above(a) \in SUBSET above(b) /\ b \in above(b) /\ b \notin above(a)
      BY <1>1, <2>1 DEF Above
    <3>2. IsFiniteSet(above(b))
      BY <1>1
    <3> HIDE DEF above
    <3>3. QED
      BY <3>1, <3>2, FS_Subset
  <2>2. Above(earned, u, v) \/ Above(earned, v, u) \/ u = v
    BY <1>1 DEF Above
  <2> HIDE DEF above, scorers
  <2>3. QED
    BY <1>3, <2>1, <2>2
<1>4. rank \in Injection(scorers, 1..n)
  <2> HIDE DEF above, scorers, n
  <2>1. rank \in [scorers -> 1..n]
    BY <1>2
  <2>2. \A u, v \in scorers : rank[u] = rank[v] => u = v
    BY <1>3
  <2> HIDE DEF rank
  <2>3. QED
    BY <2>1, <2>2 DEF Injection, IsInjective
<1>5. rank \in Surjection(scorers, 1..n)
  <2>1. IsFiniteSet(1..n) /\ Cardinality(1..n) = n
    BY <1>1, FS_Interval
  <2> HIDE DEF rank, scorers
  <2>2. QED
    BY <1>4, <2>1, FS_Injection DEF n
<1>6. \A k \in 1..n : nth(k) \in scorers /\ Cardinality(above(nth(k))) = k
  <2>1. \A k \in 1..n : \E u \in scorers : rank[u] = k
    <3> HIDE DEF rank, scorers, n
    <3>1. QED
      BY <1>5 DEF Surjection
  <2> HIDE DEF above, scorers, n
  <2>2. QED
    BY <2>1
<1>7. Ranked(earned) = t
  BY DEF Ranked
<1>8. \A k \in 1..n : nth(k) \in Earners /\ earned[nth(k)] \in Nat /\ earned[nth(k)] > 0
  BY <1>6
<1> HIDE DEF nth
<1>9. t \in [1..n -> Entry] /\ DOMAIN t = 1..n /\ Covered(t, earned)
  <2> HIDE DEF n
  <2>1. QED
    BY <1>8 DEF Entry, Covered
<1>10. Covers(t, earned)
  <2>1. ASSUME NEW u \in scorers
        PROVE  \E k \in DOMAIN t : t[k].user = u /\ t[k].score >= earned[u]
    <3>1. PICK k \in 1..n : k = Cardinality(above(u))
      BY <1>2
    <3>2. nth(k) = u
      <4>1. nth(k) \in scorers /\ Cardinality(above(nth(k))) = Cardinality(above(u))
        BY <1>6, <3>1
      <4> HIDE DEF above, scorers
      <4>2. QED
        BY <1>3, <4>1
    <3>3. k \in DOMAIN t /\ t[k] = [user |-> u, score |-> earned[u]] /\ earned[u] \in Nat
      BY <3>1, <3>2
    <3> HIDE DEF t, n, scorers
    <3>4. QED
      BY <3>3
  <2>2. QED
    BY <2>1 DEF Covers
<1>11. t \in Seq(Entry)
  <2> HIDE DEF t, n
  <2>1. QED
    BY <1>1, <1>9, SeqDef
<1>12. QED
  BY <1>7, <1>9, <1>10, <1>11

-----------------------------------------------------------------------------
\* A multiple of a number is a whole number of times it.
LEMMA MultipleIsWhole ==
  ASSUME NEW n \in Nat \ {0}, NEW k \in Nat
  PROVE  (n * k) % n = 0
<1>1. PICK m \in Nat : m = n * k
  OBVIOUS
<1>2. m % n \in 0..(n - 1) /\ m = n * (m \div n) + (m % n) /\ m \div n \in Int
  OBVIOUS
<1>3. m % n = n * (k - (m \div n))
  BY <1>1, <1>2
<1>4. /\ k - (m \div n) <= 0 => n * (k - (m \div n)) <= 0
      /\ k - (m \div n) >= 1 => n * (k - (m \div n)) >= n
  BY <1>2
<1>5. QED
  BY <1>1, <1>2, <1>3, <1>4

\* Every moment is in a period, and so is the start of time.
LEMMA PeriodStartsAreStarts == \A t \in 0..Horizon : PeriodStart(t) \in Starts /\ 0 \in Starts
<1> SUFFICES ASSUME NEW t \in 0..Horizon
             PROVE  PeriodStart(t) \in Starts /\ 0 \in Starts
  OBVIOUS
<1> DEFINE n == PeriodLength
<1>1. n \in Nat \ {0} /\ t \in Nat /\ t <= Horizon /\ Horizon \in Nat
  BY TimesAreNat
<1> HIDE DEF n
<1>2. t % n \in 0..(n - 1) /\ t = n * (t \div n) + (t % n) /\ t \div n \in Nat
  BY <1>1
<1>3. t - (t % n) = n * (t \div n) /\ n * (t \div n) \in Nat
  BY <1>1, <1>2
<1>4. (n * (t \div n)) % n = 0
  BY <1>1, <1>2, MultipleIsWhole
<1>5. (t - (t % n)) % n = 0 /\ t - (t % n) \in 0..Horizon /\ 0 \in 0..Horizon
  BY <1>1, <1>2, <1>3, <1>4
<1>6. 0 % n = 0
  BY <1>1
<1>7. QED
  BY <1>5, <1>6 DEF PeriodStart, Starts, n

Asked == [pc : {"idle", "locking", "deciding", "computed"}, period : Starts, force : BOOLEAN,
          locked : BOOLEAN, redis : BOOLEAN, at : Int, rows : Seq(Entry)]

RankTypes ==
  /\ now \in 0..Horizon
  /\ scores \in [Starts -> [Earners -> Nat]]
  /\ board \in [Starts -> [at : Int, rows : Seq(Entry)]]
  /\ lock = [p \in Starts |-> lock[p]]
  /\ request \in [Requests -> Asked]

\* A snapshot without rows is none, and no snapshot says more than what was earned.
BoardOK(p) ==
  /\ board[p].at <= now
  /\ board[p].rows = <<>> => board[p].at = -1
  /\ Covered(board[p].rows, scores[p])

\* Who has computed a board holds the lock, and knows more than the board there is.
HoldsTheLock(r) == request[r].locked /\ lock[request[r].period].by = r

KnowsMore(r) ==
  LET p == request[r].period
  IN  /\ request[r].at <= now /\ Covered(request[r].rows, scores[p])
      /\ Overtakes([at |-> request[r].at, rows |-> request[r].rows], board[p])

RankInv ==
  /\ RankTypes
  /\ ~loose => /\ \A p \in Starts : BoardOK(p)
               /\ \A r \in Requests : request[r].pc = "computed" => HoldsTheLock(r) /\ KnowsMore(r)

-----------------------------------------------------------------------------
\* What is in a list of rows is a row.
LEMMA RowsAreRows ==
  ASSUME NEW rows \in Seq(Entry), NEW k \in DOMAIN rows
  PROVE  rows[k] \in Entry /\ rows[k].user \in Earners /\ rows[k].score \in Nat
<1>1. rows[k] \in Entry
  BY ElementOfSeq, LenProperties
<1>2. QED
  BY <1>1 DEF Entry

\* A board is as late as itself, and misses nobody it has.
LEMMA OvertakesItself ==
  ASSUME NEW b \in [at : Int, rows : Seq(Entry)]
  PROVE  Overtakes(b, b)
<1>1. b.at \in Int /\ b.rows \in Seq(Entry)
  OBVIOUS
<1>2. ASSUME NEW k \in DOMAIN b.rows
      PROVE  b.rows[k].score \in Nat
  BY <1>1, RowsAreRows
<1>3. QED
  BY <1>1, <1>2 DEF Overtakes

\* What was computed from all that was earned knows more than the board there is.
LEMMA ComputedKnowsMore ==
  ASSUME RankTypes, NEW p \in Starts, BoardOK(p)
  PROVE  /\ Ranked(scores[p]) \in Seq(Entry)
         /\ Covered(Ranked(scores[p]), scores[p])
         /\ Overtakes([at |-> now, rows |-> Ranked(scores[p])], board[p])
<1>1. /\ scores[p] \in [Earners -> Nat] /\ now \in Int
      /\ board[p].at \in Int /\ board[p].at <= now
      /\ board[p].rows \in Seq(Entry) /\ Covered(board[p].rows, scores[p])
  BY DEF RankTypes, BoardOK
<1> DEFINE rows == Ranked(scores[p])
           old  == board[p].rows
<1>2. rows \in Seq(Entry) /\ Covered(rows, scores[p]) /\ Covers(rows, scores[p])
  BY <1>1, RankedIsAll
<1> HIDE DEF rows
<1>3. ASSUME NEW k \in DOMAIN old
      PROVE  \E j \in DOMAIN rows : rows[j].user = old[k].user /\ rows[j].score >= old[k].score
  <2> DEFINE u == old[k].user
  <2>1. u \in Earners /\ old[k].score \in Nat /\ old[k].score > 0 /\ old[k].score <= scores[p][u]
    BY <1>1, RowsAreRows DEF Covered
  <2> HIDE DEF old
  <2>2. PICK j \in DOMAIN rows : rows[j].user = u /\ rows[j].score >= scores[p][u]
    <3>1. scores[p][u] \in Nat /\ scores[p][u] > 0
      BY <1>1, <2>1
    <3> HIDE DEF u
    <3>2. QED
      BY <1>2, <2>1, <3>1 DEF Covers
  <2>3. rows[j].score \in Nat /\ scores[p][u] \in Nat
    BY <1>1, <1>2, <2>1, RowsAreRows
  <2>4. QED
    BY <2>1, <2>2, <2>3
<1>4. QED
  BY <1>1, <1>2, <1>3 DEF Overtakes, rows

\* A request takes a step, or none does, and the boards stay.
LEMMA RequestMoves ==
  ASSUME RankTypes, NEW r \in Requests, NEW q \in Asked, request' = [request EXCEPT ![r] = q]
  PROVE  /\ request' \in [Requests -> Asked] /\ request'[r] = q
         /\ \A s \in Requests \ {r} : request'[s] = request[s]
  BY DEF RankTypes

\* A request that has not begun is one.
LEMMA IdleIsAsked == Unasked \in Asked /\ Unasked.pc = "idle"
<1>1. 0 \in Starts /\ <<>> \in Seq(Entry)
  BY EmptySeq, PeriodStartsAreStarts, TimesAreNat
<1>2. QED
  BY <1>1 DEF Unasked, Asked

\* The invariant holds of boards that nobody has computed.
LEMMA RankInitOK == RankInit => RankInv
<1> SUFFICES ASSUME RankInit PROVE RankInv
  OBVIOUS
<1>1. NoBoard \in [at : Int, rows : Seq(Entry)] /\ DOMAIN NoBoard.rows = {} /\ NoBoard.at = -1
  BY EmptySeq DEF NoBoard
<1>2. Unasked \in Asked /\ Unasked.pc = "idle"
  BY IdleIsAsked
<1>3. RankTypes
  BY <1>1, <1>2, TimesAreNat DEF RankInit, RankTypes
<1>4. \A p \in Starts : BoardOK(p)
  BY <1>1 DEF RankInit, BoardOK, Covered
<1>5. \A r \in Requests : request[r].pc = "idle"
  BY <1>2 DEF RankInit
<1>6. QED
  BY <1>3, <1>4, <1>5 DEF RankInv

\* Whoever does not compute changes no board, and takes no lock that is held.
LEMMA OnlyAsks ==
  ASSUME RankInv, NEW r \in Requests, NEW q \in Asked, q.pc # "computed",
         request' = [request EXCEPT ![r] = q], UNCHANGED <<now, scores, board>>,
         lock' = [p \in Starts |-> lock'[p]], loose => loose',
         \A p \in Starts : lock'[p] = lock[p] \/ lock[p].by = "none"
  PROVE  RankInv'
<1>1. /\ request' \in [Requests -> Asked] /\ request'[r] = q
      /\ \A s \in Requests \ {r} : request'[s] = request[s]
  BY RequestMoves DEF RankInv
<1>2. RankTypes'
  BY <1>1 DEF RankInv, RankTypes
<1>3. ~loose' => \A p \in Starts : BoardOK(p)'
  BY DEF RankInv, BoardOK
<1>4. ASSUME ~loose', NEW s \in Requests, request'[s].pc = "computed"
      PROVE  HoldsTheLock(s)' /\ KnowsMore(s)'
  <2>1. s # r /\ request'[s] = request[s] /\ request[s].period \in Starts
    BY <1>1, <1>4 DEF RankInv, RankTypes, Asked
  <2>2. HoldsTheLock(s) /\ KnowsMore(s)
    BY <1>4, <2>1 DEF RankInv
  <2>3. HoldsTheLock(s)'
    BY <2>1, <2>2, NoneIsNoRequest DEF HoldsTheLock
  <2>4. KnowsMore(s)'
    BY <2>1, <2>2 DEF KnowsMore
  <2>5. QED
    BY <2>3, <2>4
<1>5. QED
  BY <1>2, <1>3, <1>4 DEF RankInv

\* Asking, taking the lock and answering with an old board change no board.
LEMMA LookingKeeps ==
  ASSUME RankInv, NEW r \in Requests,
         \/ \E force \in BOOLEAN : Ask(r, force)
         \/ TakeLock(r) \/ LockFails(r) \/ AnswerOld(r) \/ Abandon(r)
  PROVE  RankInv'
<1>1. /\ request[r] \in Asked /\ now \in 0..Horizon /\ Unasked \in Asked /\ Unasked.pc = "idle"
      /\ DOMAIN request = Requests /\ lock = [p \in Starts |-> lock[p]]
  BY IdleIsAsked DEF RankInv, RankTypes
<1>2. CASE \E force \in BOOLEAN : Ask(r, force)
  <2>1. PICK force \in BOOLEAN : Ask(r, force)
    BY <1>2
  <2>2. PICK q : q = [Unasked EXCEPT !.pc = "locking", !.period = PeriodStart(now), !.force = force]
    OBVIOUS
  <2>3. q \in Asked /\ q.pc = "locking"
    BY <1>1, <2>2, EmptySeq, PeriodStartsAreStarts DEF Asked, Unasked
  <2>4. request' = [request EXCEPT ![r] = q]
    BY <2>1, <2>2 DEF Ask
  <2>5. UNCHANGED <<now, scores, board, lock, loose>>
    BY <2>1 DEF Ask
  <2>6. QED
    BY <1>1, <2>3, <2>4, <2>5, OnlyAsks
<1>3. CASE TakeLock(r) \/ LockFails(r)
  <2>1. PICK locked \in BOOLEAN, redis \in BOOLEAN :
          request' = [request EXCEPT ![r].pc = "deciding", ![r].locked = locked, ![r].redis = redis]
    BY <1>3 DEF TakeLock, LockFails, LockIsFree
  <2>2. PICK q : q = [request[r] EXCEPT !.pc = "deciding", !.locked = locked, !.redis = redis]
    OBVIOUS
  <2>3. q \in Asked /\ q.pc = "deciding"
    BY <1>1, <2>2 DEF Asked
  <2>4. request' = [request EXCEPT ![r] = q]
    BY <1>1, <2>1, <2>2
  <2>5. /\ UNCHANGED <<now, scores, board>> /\ (loose => loose')
        /\ lock' = [p \in Starts |-> lock'[p]]
        /\ \A p \in Starts : lock'[p] = lock[p] \/ lock[p].by = "none"
    <3>1. CASE TakeLock(r)
      <4>1. lock' = lock \/ /\ lock[request[r].period].by = "none"
                            /\ \E x : lock' = [lock EXCEPT ![request[r].period] = x]
        <5>1. PICK l : l = [by |-> r, until |-> now + LockLife]
          OBVIOUS
        <5>2. lock' = IF lock[request[r].period] = NoLock THEN [lock EXCEPT ![request[r].period] = l] ELSE lock
          BY <3>1, <5>1 DEF TakeLock, LockIsFree
        <5>3. NoLock.by = "none"
          BY DEF NoLock
        <5>4. CASE lock[request[r].period] = NoLock
          <6>1. lock[request[r].period].by = "none"
            BY <5>3, <5>4
          <6>2. lock' = [lock EXCEPT ![request[r].period] = l]
            BY <5>2, <5>4
          <6>3. QED
            BY <6>1, <6>2, Zenon
        <5>5. CASE lock[request[r].period] # NoLock
          <6>1. lock' = lock
            BY <5>2, <5>5
          <6>2. QED
            BY <6>1
        <5>6. QED
          BY <5>4, <5>5
      <4>2. UNCHANGED <<now, scores, board, loose>>
        BY <3>1 DEF TakeLock
      <4>3. QED
        BY <1>1, <4>1, <4>2
    <3>2. CASE LockFails(r)
      BY <1>1, <3>2 DEF LockFails
    <3>3. QED
      BY <1>3, <3>1, <3>2
  <2>6. QED
    BY <2>3, <2>4, <2>5, OnlyAsks
<1>4. CASE AnswerOld(r) \/ Abandon(r)
  BY <1>1, <1>4, OnlyAsks DEF AnswerOld, Abandon
<1>5. QED
  BY <1>2, <1>3, <1>4

\* Who earns only adds to scores, so the boards of before stay behind.
LEMMA EarnKeeps ==
  ASSUME RankInv, NEW u \in Earners, Earn(u)
  PROVE  RankInv'
<1>1. /\ scores' \in [Starts -> [Earners -> Nat]]
      /\ \A p \in Starts, v \in Earners : scores'[p][v] >= scores[p][v]
      /\ UNCHANGED <<now, board, lock, request, loose>>
  <2>1. PICK p \in Starts : p = PeriodStart(now)
    BY PeriodStartsAreStarts DEF RankInv, RankTypes
  <2>2. scores' = [scores EXCEPT ![p][u] = @ + 1] /\ UNCHANGED <<now, board, lock, request, loose>>
    BY <2>1 DEF Earn
  <2>3. scores \in [Starts -> [Earners -> Nat]]
    BY DEF RankInv, RankTypes
  <2>4. QED
    BY <2>2, <2>3
<1>2. ASSUME NEW p \in Starts, NEW rows \in Seq(Entry), Covered(rows, scores[p])
      PROVE  Covered(rows, scores[p])'
  <2>1. ASSUME NEW k \in DOMAIN rows
        PROVE  rows[k].score > 0 /\ rows[k].score <= scores'[p][rows[k].user]
    <3>1. rows[k].user \in Earners /\ rows[k].score \in Nat
      BY RowsAreRows
    <3>2. /\ scores[p][rows[k].user] \in Nat /\ scores'[p][rows[k].user] \in Nat
          /\ scores'[p][rows[k].user] >= scores[p][rows[k].user]
      BY <1>1, <3>1 DEF RankInv, RankTypes
    <3>3. QED
      BY <1>2, <3>1, <3>2 DEF Covered
  <2>2. QED
    BY <2>1 DEF Covered
<1>3. ~loose => \A p \in Starts : BoardOK(p)'
  <2>1. ASSUME NEW p \in Starts, ~loose
        PROVE  BoardOK(p)'
    <3>1. board[p].rows \in Seq(Entry) /\ BoardOK(p)
      BY <2>1 DEF RankInv, RankTypes
    <3>2. Covered(board[p].rows, scores'[p])
      BY <1>2, <3>1 DEF BoardOK
    <3>3. QED
      BY <1>1, <3>1, <3>2 DEF BoardOK
  <2>2. QED
    BY <2>1
<1>4. ASSUME ~loose, NEW s \in Requests, request[s].pc = "computed"
      PROVE  HoldsTheLock(s)' /\ KnowsMore(s)'
  <2>1. /\ HoldsTheLock(s) /\ KnowsMore(s)
        /\ request[s].rows \in Seq(Entry) /\ request[s].period \in Starts
    BY <1>4 DEF RankInv, RankTypes, Asked
  <2>2. Covered(request[s].rows, scores'[request[s].period])
    BY <1>2, <2>1 DEF KnowsMore
  <2>3. KnowsMore(s)'
    BY <1>1, <2>1, <2>2 DEF KnowsMore
  <2>4. QED
    BY <1>1, <2>1, <2>3 DEF HoldsTheLock
<1>5. QED
  BY <1>1, <1>3, <1>4 DEF RankInv, RankTypes

\* A lock that expires under a refresh makes it loose.
LEMMA RankTickKeeps ==
  ASSUME RankInv, Tick
  PROVE  RankInv'
<1>1. /\ now' = now + 1 /\ now \in Int /\ now' \in 0..Horizon /\ UNCHANGED <<scores, board, request>>
      /\ lock' = [p \in Starts |-> IF lock[p].until <= now + 1 THEN NoLock ELSE lock[p]]
  BY TimesAreNat DEF Tick, RankInv, RankTypes
<1>2. RankTypes'
  BY <1>1 DEF RankInv, RankTypes
<1>3. ~loose' => ~loose
  BY DEF Tick
<1>4. ASSUME ~loose', NEW p \in Starts
      PROVE  BoardOK(p)'
  <2>1. BoardOK(p) /\ board[p].at \in Int
    BY <1>3, <1>4 DEF RankInv, RankTypes
  <2>2. QED
    BY <1>1, <2>1 DEF BoardOK
<1>5. ASSUME ~loose', NEW s \in Requests, request'[s].pc = "computed"
      PROVE  HoldsTheLock(s)' /\ KnowsMore(s)'
  <2>1. HoldsTheLock(s) /\ KnowsMore(s) /\ request[s].at \in Int /\ request[s].period \in Starts
    BY <1>1, <1>3, <1>5 DEF RankInv, RankTypes, Asked
  <2>2. ~(lock[request[s].period].until <= now + 1)
    BY <1>1, <1>5, <2>1 DEF Tick, HoldsTheLock
  <2>3. HoldsTheLock(s)'
    BY <1>1, <2>1, <2>2 DEF HoldsTheLock
  <2>4. KnowsMore(s)'
    BY <1>1, <2>1 DEF KnowsMore
  <2>5. QED
    BY <2>3, <2>4
<1>6. QED
  BY <1>2, <1>3, <1>4, <1>5 DEF RankInv

\* Who computes with the lock knows more than the board of its period.
LEMMA ComputeKeeps ==
  ASSUME RankInv, NEW r \in Requests, Compute(r)
  PROVE  RankInv'
<1> DEFINE p == request[r].period
<1>1. /\ request[r] \in Asked /\ now \in Int /\ DOMAIN request = Requests
      /\ UNCHANGED <<now, scores, board, lock>>
  BY DEF RankInv, RankTypes, Compute
<1>2. PICK q : q = [request[r] EXCEPT !.pc = "computed", !.force = FALSE, !.at = now, !.rows = Ranked(scores[p])]
  OBVIOUS
<1>3. request' = [request EXCEPT ![r] = q]
  BY <1>1, <1>2 DEF Compute
<1>4. p \in Starts /\ scores[p] \in [Earners -> Nat]
  BY <1>1 DEF RankInv, RankTypes, Asked
<1> HIDE DEF p
<1>5. Ranked(scores[p]) \in Seq(Entry)
  BY <1>4, RankedIsAll
<1>6. /\ q \in Asked /\ q.pc = "computed" /\ q.locked = request[r].locked /\ q.period = p
      /\ q.at = now /\ q.rows = Ranked(scores[p])
  BY <1>1, <1>2, <1>5 DEF Asked, p
<1>7. /\ request' \in [Requests -> Asked] /\ request'[r] = q
      /\ \A s \in Requests \ {r} : request'[s] = request[s]
  BY <1>3, <1>6, RequestMoves DEF RankInv
<1>8. RankTypes'
  BY <1>1, <1>7 DEF RankInv, RankTypes
<1>9. CASE loose'
  BY <1>8, <1>9 DEF RankInv
<1>10. CASE ~loose'
  <2>1. ~loose /\ request[r].locked /\ lock[p].by = r
    BY <1>10 DEF Compute, p
  <2>2. \A x \in Starts : BoardOK(x)
    BY <2>1 DEF RankInv
  <2>3. /\ Covered(Ranked(scores[p]), scores[p])
        /\ Overtakes([at |-> now, rows |-> Ranked(scores[p])], board[p])
    BY <1>4, <2>2, ComputedKnowsMore DEF RankInv
  <2>4. HoldsTheLock(r)' /\ KnowsMore(r)'
    <3>1. HoldsTheLock(r)'
      BY <1>1, <1>6, <1>7, <2>1 DEF HoldsTheLock
    <3>2. KnowsMore(r)'
      BY <1>1, <1>6, <1>7, <2>3 DEF KnowsMore
    <3>3. QED
      BY <3>1, <3>2
  <2>5. ASSUME NEW s \in Requests \ {r}, request'[s].pc = "computed"
        PROVE  HoldsTheLock(s)' /\ KnowsMore(s)'
    <3>1. HoldsTheLock(s) /\ KnowsMore(s) /\ request'[s] = request[s]
      BY <1>7, <2>1, <2>5 DEF RankInv
    <3>2. QED
      BY <1>1, <3>1 DEF HoldsTheLock, KnowsMore
  <2>6. \A x \in Starts : BoardOK(x)'
    BY <1>1, <2>2 DEF BoardOK
  <2>7. QED
    BY <1>8, <2>4, <2>5, <2>6 DEF RankInv
<1>11. QED
  BY <1>9, <1>10

\* What a request replaces the board with, and what that does.
LEMMA ReplaceAdvances ==
  ASSUME RankInv, ~loose, NEW r \in Requests, Replace(r)
  PROVE  BoardsAdvance
<1> DEFINE p == request[r].period
           q == request[r]
<1>1. /\ q \in Asked /\ p \in Starts /\ q.pc = "computed" /\ KnowsMore(r) /\ BoardOK(p)
      /\ board[p] \in [at : Int, rows : Seq(Entry)]
  BY DEF RankInv, RankTypes, Replace, Asked
<1>2. \A x \in Starts \ {p} : board'[x] = board[x] /\ board[x] \in [at : Int, rows : Seq(Entry)]
  BY DEF RankInv, RankTypes, Replace
<1>3. Overtakes(board'[p], board[p])
  <2>1. CASE q.rows # <<>>
    <3>1. board'[p] = [at |-> q.at, rows |-> q.rows]
      BY <1>1, <2>1 DEF Replace, RankInv, RankTypes
    <3>2. QED
      BY <1>1, <3>1 DEF KnowsMore
  <2>2. CASE q.rows = <<>>
    <3>1. board'[p] = NoBoard
      BY <1>1, <2>2 DEF Replace, RankInv, RankTypes
    <3>2. DOMAIN q.rows = {}
      BY <2>2
    <3>3. DOMAIN board[p].rows = {}
      BY <1>1, <3>2 DEF KnowsMore, Overtakes
    <3>4. board[p].rows \in Seq(Entry)
      BY <1>1
    <3>5. board[p].rows = <<>>
      <4>1. Len(board[p].rows) \in Nat /\ DOMAIN board[p].rows = 1..Len(board[p].rows)
        BY <3>4, LenProperties
      <4>2. Len(board[p].rows) = 0
        <5>1. PICK n \in Nat : n = Len(board[p].rows)
          BY <4>1
        <5>2. n > 0 => 1 \in 1..n
          OBVIOUS
        <5>3. QED
          BY <3>3, <4>1, <5>1, <5>2
      <4>3. QED
        BY <3>4, <4>2, EmptySeq
    <3>6. QED
      BY <1>1, <3>1, <3>3, <3>5 DEF BoardOK, Overtakes, NoBoard
  <2>3. QED
    BY <2>1, <2>2
<1>4. QED
  BY <1>2, <1>3, OvertakesItself DEF BoardsAdvance

\* The one with the lock replaces a board by what it computed, and knows more than the board has.
LEMMA ReplaceKeeps ==
  ASSUME RankInv, NEW r \in Requests, Replace(r)
  PROVE  RankInv'
<1> DEFINE p == request[r].period
           q == request[r]
<1>1. /\ q \in Asked /\ p \in Starts /\ q.pc = "computed" /\ now \in 0..Horizon
      /\ UNCHANGED <<now, scores, loose>>
      /\ \A x \in Starts : board[x] \in [at : Int, rows : Seq(Entry)]
  BY DEF RankInv, RankTypes, Replace, Asked
<1>2. /\ request' \in [Requests -> Asked] /\ request'[r] = Unasked
      /\ \A s \in Requests \ {r} : request'[s] = request[s]
  BY IdleIsAsked, RequestMoves DEF RankInv, Replace
<1>3. /\ lock' = [x \in Starts |-> lock'[x]]
      /\ \A x \in Starts \ {p} : lock'[x] = lock[x]
  <2>1. lock' = lock \/ lock' = [lock EXCEPT ![p] = NoLock]
    BY DEF Replace
  <2>2. lock = [x \in Starts |-> lock[x]]
    BY DEF RankInv, RankTypes
  <2>3. QED
    BY <2>1, <2>2
<1>4. PICK b : b = (IF q.rows = <<>> THEN NoBoard ELSE [at |-> q.at, rows |-> q.rows])
  OBVIOUS
<1>5. b \in [at : Int, rows : Seq(Entry)] /\ (b.rows = <<>> => b.at = -1)
  BY <1>1, <1>4, EmptySeq DEF NoBoard, Asked
<1>6. /\ board' \in [Starts -> [at : Int, rows : Seq(Entry)]] /\ board'[p] = b
      /\ \A x \in Starts \ {p} : board'[x] = board[x]
  <2>1. board' = [board EXCEPT ![p] = b]
    BY <1>4 DEF Replace
  <2>2. QED
    BY <1>1, <1>5, <2>1 DEF RankInv, RankTypes
<1>7. RankTypes'
  BY <1>1, <1>2, <1>3, <1>6 DEF RankInv, RankTypes
<1>8. CASE loose
  BY <1>1, <1>7, <1>8 DEF RankInv
<1>9. CASE ~loose
  <2>1. HoldsTheLock(r) /\ KnowsMore(r) /\ \A x \in Starts : BoardOK(x)
    BY <1>1, <1>9 DEF RankInv
  <2>2. b.at <= now /\ Covered(b.rows, scores[p])
    BY <1>1, <1>4, <2>1 DEF KnowsMore, Covered, NoBoard
  <2>3. \A x \in Starts : BoardOK(x)'
    BY <1>1, <1>5, <1>6, <2>1, <2>2 DEF BoardOK
  <2>4. ASSUME NEW s \in Requests, request'[s].pc = "computed"
        PROVE  HoldsTheLock(s)' /\ KnowsMore(s)'
    <3>1. s # r /\ request'[s] = request[s]
      BY <1>2, <2>4, IdleIsAsked
    <3>2. HoldsTheLock(s) /\ KnowsMore(s) /\ request[s].period \in Starts
      BY <1>9, <2>4, <3>1 DEF RankInv, RankTypes, Asked
    <3>3. request[s].period # p
      BY <2>1, <3>1, <3>2 DEF HoldsTheLock
    <3>4. HoldsTheLock(s)'
      BY <1>3, <3>1, <3>2, <3>3 DEF HoldsTheLock
    <3>5. KnowsMore(s)'
      BY <1>1, <1>6, <3>1, <3>2, <3>3 DEF KnowsMore
    <3>6. QED
      BY <3>4, <3>5
  <2>5. QED
    BY <1>7, <2>3, <2>4 DEF RankInv
<1>10. QED
  BY <1>8, <1>9

\* Every request keeps the invariant of boards, locks and what was computed.
THEOREM RankKept == RankInit /\ [][RankNext]_rankVars => []RankInv
<1>1. RankInv /\ [RankNext]_rankVars => RankInv'
  <2> SUFFICES ASSUME RankInv, [RankNext]_rankVars
               PROVE  RankInv'
    OBVIOUS
  <2>1. CASE Tick
    BY <2>1, RankTickKeeps
  <2>2. ASSUME NEW u \in Earners, Earn(u)
        PROVE  RankInv'
    BY <2>2, EarnKeeps
  <2>3. ASSUME NEW r \in Requests,
               \/ \E force \in BOOLEAN : Ask(r, force)
               \/ TakeLock(r) \/ LockFails(r) \/ AnswerOld(r)
               \/ Compute(r) \/ Replace(r) \/ Abandon(r)
        PROVE  RankInv'
    BY <2>3, LookingKeeps, ComputeKeeps, ReplaceKeeps
  <2>4. CASE UNCHANGED rankVars
    BY <2>4 DEF rankVars, RankInv, RankTypes, BoardOK, HoldsTheLock, KnowsMore
  <2>5. QED
    BY <2>1, <2>2, <2>3, <2>4 DEF RankNext
<1>2. QED
  BY <1>1, RankInitOK, PTL

(***************************************************************************)
(* A board is only replaced by one that is later and misses nobody and     *)
(* nothing of it, for any number of requests, users and periods, as long   *)
(* as no refresh went on without the lock or outlived it.                  *)
(***************************************************************************)
THEOREM BoardsGoForward == RankInit /\ [][RankNext]_rankVars => BoardAdvances
<1>1. RankInv /\ [RankNext]_rankVars => [loose \/ BoardsAdvance]_rankVars
  <2> SUFFICES ASSUME RankInv, [RankNext]_rankVars, ~loose
               PROVE  BoardsAdvance \/ UNCHANGED rankVars
    OBVIOUS
  <2>1. \A p \in Starts : board[p] \in [at : Int, rows : Seq(Entry)]
    BY DEF RankInv, RankTypes
  <2>2. CASE UNCHANGED board
    BY <2>1, <2>2, OvertakesItself DEF BoardsAdvance
  <2>3. ASSUME NEW r \in Requests, Replace(r)
        PROVE  BoardsAdvance
    BY <2>3, ReplaceAdvances
  <2>4. QED
    BY <2>2, <2>3 DEF RankNext, rankVars, Tick, Earn, Ask, TakeLock, LockFails, AnswerOld, Compute, Abandon
<1>2. QED
  BY <1>1, RankKept, PTL DEF BoardAdvances

=============================================================================
