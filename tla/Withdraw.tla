------------------------------ MODULE Withdraw ------------------------------
(***************************************************************************)
(* Diamond withdrawal: a user freezes diamonds with withdraw_apply, an     *)
(* administrator pays or rejects the application with withdraw_review.     *)
(*                                                                         *)
(* withdraw_apply holds the user's row from its balance check to its       *)
(* commit, so it is one step.  withdraw_review reads the application       *)
(* WITHOUT a row lock, then updates the user's row (and so locks it until  *)
(* the commit), then saves the application and commits: three steps, each  *)
(* of which other transactions may interleave with.  A review may also be  *)
(* lost before its commit, and the database then restores the row.         *)
(***************************************************************************)
EXTENDS Integers, FiniteSets, Functions

CONSTANTS
  Users,          \* application users
  Applies,        \* identifiers of withdraw_apply rows
  Reviewers,      \* concurrent review requests of administrators
  Packages,       \* the configured withdrawal amounts
  InitDiamonds,   \* each user's diamonds at the start
  NoOne           \* no user, no application, no lock holder

ASSUME AppliesAreFinite == IsFiniteSet(Applies)
ASSUME PackagesArePositive == Packages \subseteq Nat \ {0}
ASSUME InitDiamondsIsNat == InitDiamonds \in Nat
ASSUME NoOneIsNew == NoOne \notin Users \cup Applies \cup Reviewers

VARIABLES
  diamonds,       \* app_user.diamonds
  frozen,         \* app_user.frozen_diamonds
  apply,          \* the withdraw_apply rows
  cooling,        \* users whose idempotency key is in Redis
  rowLock,        \* which review holds a user's row lock
  review,         \* where each review request stands
  paidOut,        \* history: what administrators confirmed to have paid to each user
  repeated        \* history: amounts of decisions of what was already decided

tally == <<paidOut, repeated>>
vars  == <<diamonds, frozen, apply, cooling, rowLock, review, tally>>

Decisions == {"approve", "reject"}

NoApply == [status |-> "absent", user |-> NoOne, amount |-> 0]
Idle    == [pc |-> "idle", on |-> NoOne, decision |-> "reject", oldDiamonds |-> 0, oldFrozen |-> 0]

ApplyRow == [status : {"absent", "pending", "paid", "rejected"},
             user   : Users \cup {NoOne},
             amount : Packages \cup {0}]

Review == [pc          : {"idle", "checked", "moved"},
           on          : Applies \cup {NoOne},
           decision    : Decisions,
           oldDiamonds : Nat,
           oldFrozen   : Nat]

TypeOK ==
  /\ diamonds \in [Users -> Nat]
  /\ frozen   \in [Users -> Nat]
  /\ apply    \in [Applies -> ApplyRow]
  /\ cooling  \subseteq Users
  /\ rowLock  \in [Users -> Reviewers \cup {NoOne}]
  /\ review   \in [Reviewers -> Review]
  /\ paidOut  \in [Users -> Nat]
  /\ repeated \in [Users -> Nat]

Init ==
  /\ diamonds = [u \in Users |-> InitDiamonds]
  /\ frozen   = [u \in Users |-> 0]
  /\ apply    = [w \in Applies |-> NoApply]
  /\ cooling  = {}
  /\ rowLock  = [u \in Users |-> NoOne]
  /\ review   = [r \in Reviewers |-> Idle]
  /\ paidOut  = [u \in Users |-> 0]
  /\ repeated = [u \in Users |-> 0]

-----------------------------------------------------------------------------
(***************************************************************************)
(* withdraw_apply.  SET NX on the idempotency key; when Redis fails the    *)
(* request is let through without it (redisUp = FALSE).  An insufficient   *)
(* balance fails after the key was taken, and the key stays.               *)
(***************************************************************************)

Affords(u, amount) == diamonds[u] >= amount

TakeKey(u, redisUp) ==
  /\ redisUp => u \notin cooling
  /\ cooling' = IF redisUp THEN cooling \cup {u} ELSE cooling

ApplyAccepted(u, w, amount, redisUp) ==
  /\ apply[w].status = "absent"
  /\ rowLock[u] = NoOne
  /\ TakeKey(u, redisUp)
  /\ Affords(u, amount)
  /\ diamonds' = [diamonds EXCEPT ![u] = @ - amount]
  /\ frozen'   = [frozen EXCEPT ![u] = @ + amount]
  /\ apply'    = [apply EXCEPT ![w] = [status |-> "pending", user |-> u, amount |-> amount]]
  /\ UNCHANGED <<rowLock, review, tally>>

ApplyRefused(u, amount) ==
  /\ rowLock[u] = NoOne
  /\ TakeKey(u, TRUE)
  /\ ~Affords(u, amount)
  /\ UNCHANGED <<diamonds, frozen, apply, rowLock, review, tally>>

\* The key expires 60 seconds after it was set.
KeyExpires(u) ==
  /\ u \in cooling
  /\ cooling' = cooling \ {u}
  /\ UNCHANGED <<diamonds, frozen, apply, rowLock, review, tally>>

-----------------------------------------------------------------------------
\* Mutants of the definitions that follow them.
ReviewableAgain(w)           == apply[w].status # "absent"
RefundAlways(decision, amount) == amount
UnfreezeNothing(held, amount)  == held

Reviewable(w) == apply[w].status = "pending"

\* What the review returns to the user's available diamonds.
Refund(decision, amount) == IF decision = "reject" THEN amount ELSE 0

\* What UPDATE ... frozen - amount, followed by the repair of a negative result to 0, leaves.
Unfreeze(held, amount) == IF held - amount < 0 THEN 0 ELSE held - amount

\* The end of a transaction gives the user's row back.
ReleaseRow(u) == [rowLock EXCEPT ![u] = NoOne]

(***************************************************************************)
(* withdraw_review: the plain read of the application and the check that   *)
(* it is pending.                                                          *)
(***************************************************************************)
ReviewCheck(r, w, decision) ==
  /\ review[r].pc = "idle"
  /\ Reviewable(w)
  /\ review' = [review EXCEPT ![r] = [Idle EXCEPT !.pc = "checked", !.on = w, !.decision = decision]]
  /\ UNCHANGED <<diamonds, frozen, apply, cooling, rowLock, tally>>

(***************************************************************************)
(* The UPDATE of the user's row waits for the row lock and holds it to the *)
(* commit; a rejection also returns the diamonds.                          *)
(***************************************************************************)
ReviewMove(r) ==
  LET row == apply[review[r].on]
      u   == row.user
  IN  /\ review[r].pc = "checked"
      /\ rowLock[u] = NoOne
      /\ rowLock'  = [rowLock EXCEPT ![u] = r]
      /\ review'   = [review EXCEPT ![r].pc = "moved",
                                    ![r].oldDiamonds = diamonds[u],
                                    ![r].oldFrozen = frozen[u]]
      /\ diamonds' = [diamonds EXCEPT ![u] = @ + Refund(review[r].decision, row.amount)]
      /\ frozen'   = [frozen EXCEPT ![u] = Unfreeze(@, row.amount)]
      /\ UNCHANGED <<apply, cooling, tally>>

\* An approval confirms that the application was paid.
Paid(decision, row)  == IF decision = "approve" THEN row.amount ELSE 0
Again(row)           == IF row.status = "pending" THEN 0 ELSE row.amount

\* The save writes the new status whatever the row holds by now, and commits.
ReviewCommit(r) ==
  LET w   == review[r].on
      row == apply[w]
      u   == row.user
  IN  /\ review[r].pc = "moved"
      /\ apply'    = [apply EXCEPT ![w].status = IF review[r].decision = "reject" THEN "rejected" ELSE "paid"]
      /\ rowLock'  = ReleaseRow(u)
      /\ review'   = [review EXCEPT ![r] = Idle]
      /\ paidOut'  = [paidOut EXCEPT ![u] = @ + Paid(review[r].decision, row)]
      /\ repeated' = [repeated EXCEPT ![u] = @ + Again(row)]
      /\ UNCHANGED <<diamonds, frozen, cooling>>

\* The request dies before its commit: the database rolls its update back.
ReviewLost(r) ==
  LET u == apply[review[r].on].user
  IN  /\ review[r].pc # "idle"
      /\ review' = [review EXCEPT ![r] = Idle]
      /\ IF review[r].pc = "moved"
         THEN /\ diamonds' = [diamonds EXCEPT ![u] = review[r].oldDiamonds]
              /\ frozen'   = [frozen EXCEPT ![u] = review[r].oldFrozen]
              /\ rowLock'  = ReleaseRow(u)
         ELSE UNCHANGED <<diamonds, frozen, rowLock>>
      /\ UNCHANGED <<apply, cooling, tally>>

Next ==
  \/ \E u \in Users, w \in Applies, amount \in Packages, redisUp \in BOOLEAN :
       ApplyAccepted(u, w, amount, redisUp)
  \/ \E u \in Users, amount \in Packages : ApplyRefused(u, amount)
  \/ \E u \in Users : KeyExpires(u)
  \/ \E r \in Reviewers, w \in Applies, decision \in Decisions : ReviewCheck(r, w, decision)
  \/ \E r \in Reviewers : ReviewMove(r) \/ ReviewCommit(r) \/ ReviewLost(r)

\* A review that started runs to its end: the handler never waits for anything but a row lock.
Fairness == \A r \in Reviewers : WF_vars(ReviewMove(r)) /\ WF_vars(ReviewCommit(r))

Spec == Init /\ [][Next]_vars /\ Fairness
-----------------------------------------------------------------------------
\* What an application counts for among a user's applications of some status.
Amount(row, status, u) == IF row.user = u /\ row.status = status THEN row.amount ELSE 0

AmountIn(status, u) == SumFunction([w \in Applies |-> Amount(apply[w], status, u)])

(***************************************************************************)
(* While no review is inside its transaction on a user's row, the user's   *)
(* frozen diamonds are exactly the amounts of the user's pending           *)
(* applications: withdraw_apply freezes what a review later unfreezes,     *)
(* through rollbacks, lost idempotency keys and overlapping reviews.  Once *)
(* two reviews both decided one application of the user, which unfreezes   *)
(* it twice, they may be less, and are never more.                         *)
(***************************************************************************)
FrozenBacksPending ==
  \A u \in Users : rowLock[u] = NoOne =>
    /\ frozen[u] <= AmountIn("pending", u)
    /\ repeated[u] = 0 => frozen[u] = AmountIn("pending", u)

(***************************************************************************)
(* A withdrawal moves diamonds: what a user holds, has pending and was     *)
(* paid is what the user started with.  A second decision of one           *)
(* application, by a review that overlapped with the first, pays or        *)
(* returns its amount once more, and nothing else that overlaps, fails, is *)
(* rolled back or is retried makes or loses a diamond.                     *)
(***************************************************************************)
DiamondsConserved ==
  \A u \in Users : rowLock[u] = NoOne =>
    diamonds[u] + AmountIn("pending", u) + paidOut[u] = InitDiamonds + repeated[u]

\* Decided, and every review that found it pending has ended.
Settled(w) == apply[w].status \in {"paid", "rejected"} /\ \A r \in Reviewers : review[r].on # w

(***************************************************************************)
(* An application that is decided while no other review of it is under way *)
(* stays as it was decided, and no review of it is let in again: only one  *)
(* that had found it pending before the decision may still overwrite it.   *)
(***************************************************************************)
SettledIsFinal == [][\A w \in Applies : Settled(w) => apply'[w] = apply[w] /\ Settled(w)']_vars

(***************************************************************************)
(* A decided application is never decided again: withdraw.py refuses a     *)
(* second review of an application that is not pending.  Two reviews that  *)
(* overlap violate it.                                                     *)
(***************************************************************************)
DecisionIsFinal ==
  [][\A w \in Applies : apply[w].status \in {"paid", "rejected"} => apply'[w] = apply[w]]_vars
=============================================================================
