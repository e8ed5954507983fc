---------------------------- MODULE ReviewProofs ----------------------------
(***************************************************************************)
(* Proofs about ProfileReview: a price goes with a certificate, an         *)
(* application is completed once, and what is shown was approved, for any  *)
(* forms, and any requests and reviews under way at a time.                *)
(***************************************************************************)
EXTENDS ProfileReview, FiniteSetTheorems, SequenceTheorems, TLAPS

IsRow(r) ==
  r = [name |-> r.name, album |-> r.album, cover |-> r.cover, certified |-> r.certified,
       status |-> r.status, face |-> r.face, reviewed |-> r.reviewed, price |-> r.price]

-----------------------------------------------------------------------------
(* The price *)

Priced(r) == IF r.certified THEN r.price \in Tiers ELSE r.price = 0

(***************************************************************************)
(* The inductive invariant of the price: a handler that sets one has seen  *)
(* that it suits the row it read.                                          *)
(***************************************************************************)
PriceInv ==
  /\ IsRow(row)
  /\ ~raced => Priced(row)
  /\ \A h \in busy : h.do = "price" => PriceFor(h.row.certified, h.price) = h.price

\* A price that was normalised suits the certificate it was normalised for.
LEMMA NormalisedSuits ==
  ASSUME NEW certified, NEW price
  PROVE  IF certified THEN PriceFor(certified, price) \in Tiers ELSE PriceFor(certified, price) = 0
  BY TiersArePaid DEF PriceFor

\* A handler that begins leaves the rows alone.
LEMMA PriceBegins ==
  ASSUME PriceInv, NEW h, Begins(h), h.do = "price" => PriceFor(h.row.certified, h.price) = h.price
  PROVE  PriceInv'
  BY DEF PriceInv, Begins

\* A handler that ends has read the row as it is, or it raced.
LEMMA PriceEnds ==
  ASSUME PriceInv, NEW h \in busy, Ends(h, row # h.row), IsRow(row'),
         ~raced /\ row = h.row => Priced(row')
  PROVE  PriceInv'
  BY DEF PriceInv, Ends

\* The certificate and the price are all that matters.
LEMMA SameIsPriced ==
  ASSUME NEW r, NEW s, s.certified = r.certified, s.price = r.price, Priced(r)
  PROVE  Priced(s)
  BY DEF Priced

\* A handler that leaves the certificate and the price alone.
LEMMA PriceStays ==
  ASSUME PriceInv, IsRow(row'), row'.certified = row.certified, row'.price = row.price,
         raced => raced', busy' \subseteq busy
  PROVE  PriceInv'
<1>1. Priced(row) => Priced(row')
  BY SameIsPriced
<1>2. QED
  BY <1>1 DEF PriceInv

\* Every handler keeps the price what the certificate permits, if no two cross.
THEOREM PricesKept == Spec => []PriceInv
<1>1. Init => PriceInv
  <2> SUFFICES ASSUME Init
               PROVE  PriceInv
    OBVIOUS
  <2> DEFINE speaks == subject = "phrase"
             price  == IF speaks THEN UsualTier ELSE 0
  <2>1. row = [name |-> FirstName, album |-> <<FirstPhoto>>, cover |-> FirstPhoto,
               certified |-> speaks, status |-> "none", face |-> FALSE, reviewed |-> None, price |-> price]
    BY DEF Init
  <2>2. IF speaks THEN price \in Tiers ELSE price = 0
    BY TiersArePaid
  <2> HIDE DEF speaks, price
  <2>3. IsRow(row) /\ row.certified = speaks /\ row.price = price
    BY <2>1 DEF IsRow
  <2>4. Priced(row)
    BY <2>2, <2>3 DEF Priced
  <2>5. QED
    BY <2>3, <2>4 DEF Init, PriceInv
<1>2. PriceInv /\ [Next]_vars => PriceInv'
  <2> SUFFICES ASSUME PriceInv, [Next]_vars
               PROVE  PriceInv'
    OBVIOUS
  <2>1. CASE EditReads
    BY <2>1, PriceBegins DEF EditReads
  <2>2. CASE InitialProfile
    <3>1. row' = [row EXCEPT !.name = PoolName] /\ raced' = raced /\ busy' = busy
      BY <2>2 DEF InitialProfile
    <3>2. IsRow(row') /\ row'.certified = row.certified /\ row'.price = row.price
      BY <3>1 DEF PriceInv, IsRow
    <3>3. QED
      BY <3>1, <3>2, PriceStays
  <2>3. CASE UpdateReads
    BY <2>3, PriceBegins DEF UpdateReads
  <2>4. CASE ReviewReads
    BY <2>4, PriceBegins DEF ReviewReads
  <2>5. CASE ApplyReads
    BY <2>5, PriceBegins DEF ApplyReads
  <2>6. CASE PriceReads
    <3>1. PICK p \in Tiers \cup {0} :
            PriceFor(row.certified, p) = p /\ Begins([do |-> "price", price |-> p, row |-> row])
      BY <2>6 DEF PriceReads
    <3>2. QED
      BY <3>1, PriceBegins
  <2>7. CASE CertificationReads
    BY <2>7, PriceBegins DEF CertificationReads
  <2>8. CASE RulingReads
    BY <2>8, PriceBegins DEF RulingReads
  <2>9. CASE PhraseReads
    BY <2>9, PriceBegins DEF PhraseReads
  <2>10. CASE PhraseReviewReads
    BY <2>10, PriceBegins DEF PhraseReviewReads
  <2>11. ASSUME NEW h \in busy, EditWrites(h)
         PROVE  PriceInv'
    <3>1. PICK album, cover, name : row' = [row EXCEPT !.album = album, !.cover = cover, !.name = name]
      BY <2>11 DEF EditWrites, Saved
    <3>2. IsRow(row') /\ row'.certified = row.certified /\ row'.price = row.price
      BY <3>1 DEF PriceInv, IsRow
    <3>3. (raced => raced') /\ busy' \subseteq busy
      BY <2>11 DEF EditWrites, Ends
    <3>4. QED
      BY <3>2, <3>3, PriceStays
  <2>12. ASSUME NEW h \in busy, UpdateWrites(h)
         PROVE  PriceInv'
    <3>1. PICK name, album, cover : row' = [row EXCEPT !.name = name, !.album = album, !.cover = cover]
      BY <2>12 DEF UpdateWrites
    <3>2. IsRow(row') /\ row'.certified = row.certified /\ row'.price = row.price
      BY <3>1 DEF PriceInv, IsRow
    <3>3. (raced => raced') /\ busy' \subseteq busy
      BY <2>12 DEF UpdateWrites, Ends
    <3>4. QED
      BY <3>2, <3>3, PriceStays
  <2>13. ASSUME NEW h \in busy, ReviewWrites(h)
         PROVE  PriceInv'
    <3>1. row' = row /\ (raced => raced') /\ busy' \subseteq busy
      BY <2>13 DEF ReviewWrites, Ends
    <3>2. QED
      BY <3>1, PriceStays DEF PriceInv
  <2>14. ASSUME NEW h \in busy, CompleteWrites(h)
         PROVE  PriceInv'
    <3>1. PICK name, album, cover : row' = [row EXCEPT !.name = name, !.album = album, !.cover = cover]
      BY <2>14 DEF CompleteWrites
    <3>2. IsRow(row') /\ row'.certified = row.certified /\ row'.price = row.price
      BY <3>1 DEF PriceInv, IsRow
    <3>3. (raced => raced') /\ busy' \subseteq busy
      BY <2>14 DEF CompleteWrites, Ends
    <3>4. QED
      BY <3>2, <3>3, PriceStays
  <2>15. ASSUME NEW h \in busy, ApplyWrites(h)
         PROVE  PriceInv'
    <3>1. row' = [row EXCEPT !.face = TRUE, !.status = "pending", !.reviewed = None]
      BY <2>15 DEF ApplyWrites
    <3>2. IsRow(row') /\ row'.certified = row.certified /\ row'.price = row.price
      BY <3>1 DEF PriceInv, IsRow
    <3>3. (raced => raced') /\ busy' \subseteq busy
      BY <2>15 DEF ApplyWrites, Ends
    <3>4. QED
      BY <3>2, <3>3, PriceStays
  <2>16. ASSUME NEW h \in busy, PriceWrites(h)
         PROVE  PriceInv'
    <3>1. h.do = "price" /\ row' = [row EXCEPT !.price = h.price] /\ Ends(h, row # h.row)
      BY <2>16 DEF PriceWrites
    <3>2. IsRow(row') /\ row'.certified = row.certified /\ row'.price = h.price
      BY <3>1 DEF PriceInv, IsRow
    <3>3. PriceFor(h.row.certified, h.price) = h.price
      BY <3>1 DEF PriceInv
    <3>4. row = h.row => Priced(row')
      BY <3>2, <3>3, NormalisedSuits DEF Priced
    <3>5. QED
      BY <3>1, <3>2, <3>4, PriceEnds
  <2>17. ASSUME NEW h \in busy, CertificationWrites(h)
         PROVE  PriceInv'
    <3> DEFINE granted == h.verdict = "approved"
    <3>1. /\ row' = [row EXCEPT !.certified = granted, !.status = h.verdict, !.reviewed = now,
                                !.price = PriceFor(granted, h.row.price)]
          /\ Ends(h, row # h.row)
      BY <2>17 DEF CertificationWrites
    <3> HIDE DEF granted
    <3>2. IsRow(row') /\ row'.certified = granted /\ row'.price = PriceFor(granted, h.row.price)
      BY <3>1 DEF PriceInv, IsRow
    <3>3. Priced(row')
      BY <3>2, NormalisedSuits DEF Priced
    <3>4. QED
      BY <3>1, <3>2, <3>3, PriceEnds
  <2>18. ASSUME NEW h \in busy, RulingWrites(h)
         PROVE  PriceInv'
    <3> DEFINE f == h.form
               c == Or(Certified(f), row.certified)
    <3>1. PICK status, reviewed :
            row' = [row EXCEPT !.certified = c, !.price = RuledPrice(f, h.row),
                               !.status = status, !.reviewed = reviewed]
      BY <2>18 DEF RulingWrites
    <3>2. Ends(h, row # h.row)
      BY <2>18 DEF RulingWrites
    <3> HIDE DEF f, c
    <3>3. IsRow(row') /\ row'.certified = c /\ row'.price = RuledPrice(f, h.row)
      BY <3>1 DEF PriceInv, IsRow
    <3>4. ASSUME ~raced, row = h.row
          PROVE  Priced(row')
      <4>1. CASE Certified(f) = Keep /\ f.price = Keep
        <5>1. c = row.certified /\ row'.price = row.price
          BY <3>3, <4>1 DEF c, Or, RuledPrice
        <5>2. QED
          BY <3>3, <3>4, <5>1 DEF PriceInv, Priced
      <4>2. CASE ~(Certified(f) = Keep /\ f.price = Keep)
        <5>1. RuledPrice(f, h.row) = PriceFor(c, Or(f.price, row.price))
          BY <3>4, <4>2 DEF RuledPrice, c
        <5>2. QED
          BY <3>3, <5>1, NormalisedSuits DEF Priced
      <4>3. QED
        BY <4>1, <4>2
    <3>5. QED
      BY <3>2, <3>3, <3>4, PriceEnds
  <2>19. ASSUME NEW h \in busy, PhraseWrites(h) \/ PhraseReviewWrites(h)
         PROVE  PriceInv'
    <3>1. row' = row /\ (raced => raced') /\ busy' \subseteq busy
      BY <2>19 DEF PhraseWrites, PhraseReviewWrites, Ends
    <3>2. QED
      BY <3>1, PriceStays DEF PriceInv
  <2>20. CASE Tick \/ UNCHANGED vars
    <3>1. row' = row /\ raced' = raced /\ busy' = busy
      BY <2>20 DEF Tick, vars
    <3>2. QED
      BY <3>1, PriceStays DEF PriceInv
  <2>21. QED
    BY <2>1, <2>2, <2>3, <2>4, <2>5, <2>6, <2>7, <2>8, <2>9, <2>10, <2>11, <2>12, <2>13, <2>14,
       <2>15, <2>16, <2>17, <2>18, <2>19, <2>20 DEF Next
<1>3. QED
  BY <1>1, <1>2, PTL DEF Spec

(***************************************************************************)
(* Only a certified user has a price, and it is one of the tiers, whatever *)
(* the forms, as long as no two handlers cross.                            *)
(***************************************************************************)
THEOREM PriceHasCertificate == Spec => []PriceNeedsCertificate
<1>1. PriceInv => PriceNeedsCertificate
  BY DEF PriceInv, Priced, PriceNeedsCertificate
<1>2. QED
  BY <1>1, PricesKept, PTL

-----------------------------------------------------------------------------
(* Lists *)

IsList(s) == Len(s) \in Nat /\ DOMAIN s = 1..Len(s) /\ s = [i \in DOMAIN s |-> s[i]]

\* A sequence over any set is a list, and a list is a sequence over what is in it.
LEMMA SeqIsList == \A S : \A s \in Seq(S) : IsList(s)
  BY LenProperties DEF IsList

\* A list is a sequence over what is in it.
LEMMA ListIsSeq == \A s : IsList(s) => s \in Seq(Range(s))
<1> SUFFICES ASSUME NEW s, IsList(s)
             PROVE  s \in Seq(Range(s))
  OBVIOUS
<1>1. s \in [1..Len(s) -> Range(s)] /\ Len(s) \in Nat
  BY DEF IsList, Range
<1>2. QED
  BY <1>1, SeqDef

\* A list with one more element.
LEMMA ListGrows ==
  ASSUME NEW s, IsList(s), NEW x
  PROVE  LET t == Append(s, x)
         IN  /\ IsList(t) /\ Len(t) = Len(s) + 1 /\ DOMAIN t = DOMAIN s \cup {Len(t)}
             /\ Len(t) \notin DOMAIN s /\ t[Len(t)] = x
             /\ \A i \in DOMAIN s : t[i] = s[i]
<1> DEFINE S == Range(s) \cup {x}
           t == Append(s, x)
<1>1. s \in Seq(S)
  BY ListIsSeq, SeqMonotonic
<1>2. t \in Seq(S) /\ Len(t) = Len(s) + 1 /\ t[Len(s) + 1] = x /\ \A i \in 1..Len(s) : t[i] = s[i]
  BY <1>1, AppendProperties
<1> HIDE DEF t
<1>3. IsList(t)
  BY <1>2, SeqIsList
<1>4. DOMAIN t = DOMAIN s \cup {Len(t)} /\ Len(t) \notin DOMAIN s
  BY <1>2, <1>3 DEF IsList
<1>5. QED
  BY <1>2, <1>3, <1>4 DEF t, IsList

\* A list with one element replaced.
Replaced(s, i, x) == [s EXCEPT ![i] = x]

\* A list of which one place changes stays a list, as long as it was.
LEMMA ListChanges ==
  ASSUME NEW s, IsList(s), NEW i \in DOMAIN s, NEW x
  PROVE  LET t == Replaced(s, i, x)
         IN  /\ IsList(t) /\ Len(t) = Len(s) /\ DOMAIN t = DOMAIN s /\ t[i] = x
             /\ \A j \in DOMAIN s \ {i} : t[j] = s[j]
<1> DEFINE S == Range(s) \cup {x}
           t == Replaced(s, i, x)
<1>1. s \in Seq(S) /\ i \in 1..Len(s)
  BY ListIsSeq, SeqMonotonic DEF IsList
<1>2. t \in Seq(S) /\ Len(t) = Len(s) /\ \A j \in 1..Len(s) : t[j] = IF j = i THEN x ELSE s[j]
  BY <1>1, ExceptSeq DEF Replaced
<1> HIDE DEF t
<1>3. IsList(t)
  BY <1>2, SeqIsList
<1>4. QED
  BY <1>2, <1>3 DEF IsList, t

-----------------------------------------------------------------------------
(* The applications *)

IsApply(a) ==
  /\ a = [status |-> a.status, items |-> a.items, before |-> a.before, after |-> a.after]
  /\ a.status \in {"pending", "reviewing", "completed"}

AppliesOK ==
  /\ IsList(applies) /\ IsList(applied) /\ Len(applied) = Len(applies)
  /\ \A i \in DOMAIN applies : IsApply(applies[i])

\* A review under way has read an application that was not completed.
ReviewOK(h) ==
  h.do \in {"item", "all", "complete"} => h.i \in DOMAIN applies /\ h.apply.status # "completed"

OneOpen == \A i, j \in Open : i = j
OnceEach ==
  \A i \in DOMAIN applies : applied[i] = IF applies[i].status = "completed" THEN 1 ELSE 0

(***************************************************************************)
(* The inductive invariant of the applications.                            *)
(***************************************************************************)
ApplyInv ==
  /\ AppliesOK
  /\ \A h \in busy : ReviewOK(h)
  /\ ~raced => OneOpen /\ OnceEach

\* A reviewed application is one.
LEMMA ReviewedIsApply ==
  ASSUME NEW r, IsApply(r), NEW items, NEW a, a = [r EXCEPT !.items = items, !.status = "reviewing"]
  PROVE  IsApply(a) /\ a.status = "reviewing"
  BY DEF IsApply

\* Two changes to one application are one change.
LEMMA ReviewIsOneChange ==
  ASSUME NEW s, IsList(s), NEW k \in DOMAIN s, NEW x
  PROVE  [s EXCEPT ![k].items = x, ![k].status = "reviewing"]
           = [s EXCEPT ![k] = [s[k] EXCEPT !.items = x, !.status = "reviewing"]]
  BY DEF IsList

\* A handler that begins leaves the applications alone.
LEMMA ApplyBegins ==
  ASSUME ApplyInv, NEW h, Begins(h), ReviewOK(h)
  PROVE  ApplyInv'
  BY DEF ApplyInv, Begins, AppliesOK, ReviewOK, OneOpen, OnceEach, Open

\* Nor do the handlers that write other rows.
LEMMA ApplyStays ==
  ASSUME ApplyInv, UNCHANGED <<applies, applied>>, busy' \subseteq busy, raced => raced'
  PROVE  ApplyInv'
  BY DEF ApplyInv, AppliesOK, ReviewOK, OneOpen, OnceEach, Open

\* A review that ends has replaced its application, and nothing but it.
LEMMA ApplyReviewed ==
  ASSUME ApplyInv, NEW h \in busy, h.do \in {"item", "all", "complete"}, Ends(h, applies[h.i] # h.apply),
         NEW a, IsApply(a), applies' = Replaced(applies, h.i, a),
         \/ a.status = "reviewing" /\ applied' = applied
         \/ a.status = "completed" /\ applied' = Replaced(applied, h.i, applied[h.i] + 1)
  PROVE  ApplyInv'
<1> DEFINE k == h.i
<1>1. /\ k \in DOMAIN applies /\ h.apply.status # "completed"
      /\ IsList(applies) /\ IsList(applied) /\ DOMAIN applied = DOMAIN applies
      /\ \A i \in DOMAIN applies : IsApply(applies[i])
  BY DEF ApplyInv, ReviewOK, AppliesOK, IsList
<1> HIDE DEF k
<1>2. applies' = Replaced(applies, k, a)
  BY DEF k
<1>3. /\ IsList(applies') /\ Len(applies') = Len(applies) /\ DOMAIN applies' = DOMAIN applies /\ applies'[k] = a
      /\ \A j \in DOMAIN applies \ {k} : applies'[j] = applies[j]
  BY <1>1, <1>2, ListChanges
<1>4. /\ IsList(applied') /\ Len(applied') = Len(applied)
      /\ a.status = "reviewing" => applied'[k] = applied[k]
      /\ a.status = "completed" => applied'[k] = applied[k] + 1
      /\ \A j \in DOMAIN applies \ {k} : applied'[j] = applied[j]
  <2>1. CASE a.status = "reviewing" /\ applied' = applied
    BY <1>1, <2>1
  <2>2. CASE a.status = "completed" /\ applied' = Replaced(applied, k, applied[k] + 1)
    <3>1. k \in DOMAIN applied
      BY <1>1
    <3>2. /\ IsList(applied') /\ Len(applied') = Len(applied) /\ applied'[k] = applied[k] + 1
          /\ \A j \in DOMAIN applied \ {k} : applied'[j] = applied[j]
      BY <1>1, <2>2, <3>1, ListChanges
    <3>3. QED
      BY <1>1, <2>2, <3>2
  <2>3. QED
    BY <2>1, <2>2 DEF k
<1>5. AppliesOK'
  BY <1>1, <1>3, <1>4 DEF ApplyInv, AppliesOK
<1>6. busy' \subseteq busy /\ (~raced' => ~raced /\ applies[k] = h.apply)
  BY DEF Ends, k
<1>7. \A g \in busy' : ReviewOK(g)'
  BY <1>3, <1>6 DEF ApplyInv, ReviewOK
<1>8. ASSUME ~raced'
      PROVE  OneOpen' /\ OnceEach'
  <2>1. OneOpen /\ OnceEach /\ k \in Open
    BY <1>1, <1>6, <1>8 DEF ApplyInv, Open, IsApply
  <2>2. Open' \subseteq Open
    BY <1>3, <2>1 DEF Open
  <2>3. applied[k] = 0
    BY <1>1, <2>1 DEF OnceEach, Open
  <2>4. OnceEach'
    BY <1>1, <1>3, <1>4, <2>1, <2>3 DEF OnceEach, IsApply
  <2>5. QED
    BY <2>1, <2>2, <2>4 DEF OneOpen
<1>9. QED
  BY <1>5, <1>7, <1>8 DEF ApplyInv

\* Every handler keeps the applications, one of them open and each completed once, if no two cross.
THEOREM AppliesKept == Spec => []ApplyInv
<1>1. Init => ApplyInv
  <2>1. IsList(<<>>) /\ DOMAIN <<>> = {}
    BY EmptySeq, SeqIsList DEF IsList
  <2>2. QED
    BY <2>1 DEF Init, ApplyInv, AppliesOK, OneOpen, OnceEach, Open
<1>2. ApplyInv /\ [Next]_vars => ApplyInv'
  <2> SUFFICES ASSUME ApplyInv, [Next]_vars
               PROVE  ApplyInv'
    OBVIOUS
  <2>1. CASE ReviewReads
    <3>1. PICK i \in DOMAIN applies, do \in {"item", "all", "complete"} :
            Reviewable(applies[i], do) /\ Begins([do |-> do, i |-> i, apply |-> applies[i]])
      BY <2>1 DEF ReviewReads
    <3>2. ReviewOK([do |-> do, i |-> i, apply |-> applies[i]])
      BY <3>1 DEF ReviewOK, Reviewable
    <3>3. QED
      BY <3>1, <3>2, ApplyBegins
  <2>2. CASE EditReads \/ UpdateReads \/ ApplyReads \/ PriceReads
    <3>1. \A h : Begins(h) /\ h.do \in {"edit", "update", "apply", "price"} => ApplyInv'
      BY ApplyBegins DEF ReviewOK
    <3>2. CASE EditReads
      BY <3>1, <3>2 DEF EditReads
    <3>3. CASE UpdateReads
      BY <3>1, <3>3 DEF UpdateReads
    <3>4. CASE ApplyReads
      BY <3>1, <3>4 DEF ApplyReads
    <3>5. CASE PriceReads
      BY <3>1, <3>5 DEF PriceReads
    <3>6. QED
      BY <2>2, <3>2, <3>3, <3>4, <3>5
  <2>3. CASE CertificationReads \/ RulingReads \/ PhraseReads \/ PhraseReviewReads
    <3>1. \A h : Begins(h) /\ h.do \in {"certify", "rule", "phrase", "review"} => ApplyInv'
      BY ApplyBegins DEF ReviewOK
    <3>2. CASE CertificationReads
      BY <3>1, <3>2 DEF CertificationReads
    <3>3. CASE RulingReads
      BY <3>1, <3>3 DEF RulingReads
    <3>4. CASE PhraseReads
      BY <3>1, <3>4 DEF PhraseReads
    <3>5. CASE PhraseReviewReads
      BY <3>1, <3>5 DEF PhraseReviewReads
    <3>6. QED
      BY <2>3, <3>2, <3>3, <3>4, <3>5
  <2>4. ASSUME NEW h \in busy, EditWrites(h)
        PROVE  ApplyInv'
    <3>1. CASE UNCHANGED <<applies, applied>>
      BY <2>4, <3>1, ApplyStays DEF EditWrites, Ends
    <3>2. CASE \E a : IsApply(a) /\ a.status = "pending" /\ applies' = Append(applies, a) /\ applied' = Append(applied, 0)
      <4>1. PICK a : /\ IsApply(a) /\ a.status = "pending"
                     /\ applies' = Append(applies, a) /\ applied' = Append(applied, 0)
        BY <3>2
      <4> DEFINE n == Len(applies')
      <4>2. /\ IsList(applies)' /\ DOMAIN applies' = DOMAIN applies \cup {n} /\ n \notin DOMAIN applies
            /\ applies'[n] = a /\ n = Len(applies) + 1 /\ \A i \in DOMAIN applies : applies'[i] = applies[i]
        BY <4>1, ListGrows DEF ApplyInv, AppliesOK
      <4>3. /\ IsList(applied)' /\ Len(applied') = n /\ applied'[n] = 0
            /\ \A i \in DOMAIN applies : applied'[i] = applied[i]
        <5>1. DOMAIN applied = DOMAIN applies /\ Len(applied) = Len(applies) /\ IsList(applied)
          BY DEF ApplyInv, AppliesOK, IsList
        <5>2. QED
          BY <4>1, <4>2, <5>1, ListGrows
      <4> HIDE DEF n
      <4>4. AppliesOK'
        BY <4>1, <4>2, <4>3 DEF ApplyInv, AppliesOK, n
      <4>5. busy' \subseteq busy /\ (~raced' => ~raced /\ Open = {})
        BY <2>4 DEF EditWrites, Ends
      <4>6. \A g \in busy' : ReviewOK(g)'
        BY <4>2, <4>5 DEF ApplyInv, ReviewOK
      <4>7. ~raced' => OneOpen' /\ OnceEach'
        BY <4>1, <4>2, <4>3, <4>5 DEF ApplyInv, OneOpen, OnceEach, Open
      <4>8. QED
        BY <4>4, <4>6, <4>7 DEF ApplyInv
    <3>3. QED
      <4>1. \A items, before, after :
              LET a == [status |-> "pending", items |-> items, before |-> before, after |-> after]
              IN  IsApply(a) /\ a.status = "pending"
        BY DEF IsApply
      <4>2. QED
        BY <2>4, <3>1, <3>2, <4>1 DEF EditWrites
  <2>5. ASSUME NEW h \in busy, ReviewWrites(h)
        PROVE  ApplyInv'
    <3>1. PICK items : applies' = [applies EXCEPT ![h.i].items = items, ![h.i].status = "reviewing"]
      BY <2>5 DEF ReviewWrites
    <3>2. /\ h.do \in {"item", "all"} /\ Ends(h, applies[h.i] # h.apply) /\ applied' = applied
          /\ h.i \in DOMAIN applies
      BY <2>5 DEF ReviewWrites, ApplyInv, ReviewOK
    <3>3. PICK k \in DOMAIN applies : k = h.i
      BY <3>2
    <3>4. PICK r : r = applies[k]
      OBVIOUS
    <3> DEFINE a == [r EXCEPT !.items = items, !.status = "reviewing"]
    <3>5. IsApply(r)
      BY <3>4 DEF ApplyInv, AppliesOK
    <3>6. IsApply(a) /\ a.status = "reviewing"
      BY <3>5, ReviewedIsApply
    <3>7. applies' = Replaced(applies, k, a)
      BY <3>1, <3>3, <3>4, ReviewIsOneChange DEF ApplyInv, AppliesOK, Replaced
    <3> HIDE DEF a
    <3>8. QED
      BY <3>2, <3>3, <3>6, <3>7, ApplyReviewed
  <2>6. ASSUME NEW h \in busy, CompleteWrites(h)
        PROVE  ApplyInv'
    <3>1. /\ applies' = [applies EXCEPT ![h.i].status = "completed"] /\ h.do = "complete"
          /\ applied' = [applied EXCEPT ![h.i] = @ + 1] /\ Ends(h, applies[h.i] # h.apply)
          /\ h.i \in DOMAIN applies
      BY <2>6 DEF CompleteWrites, ApplyInv, ReviewOK
    <3>2. PICK r : r = applies[h.i]
      OBVIOUS
    <3> DEFINE a == [r EXCEPT !.status = "completed"]
    <3>3. IsApply(r)
      BY <3>1, <3>2 DEF ApplyInv, AppliesOK
    <3>4. IsApply(a) /\ a.status = "completed"
      BY <3>3 DEF IsApply
    <3>5. applies' = Replaced(applies, h.i, a) /\ applied' = Replaced(applied, h.i, applied[h.i] + 1)
      BY <3>1, <3>2 DEF Replaced
    <3> HIDE DEF a
    <3>6. QED
      BY <3>1, <3>4, <3>5, ApplyReviewed
  <2>7. ASSUME NEW h \in busy,
               \/ UpdateWrites(h) \/ ApplyWrites(h) \/ PriceWrites(h) \/ CertificationWrites(h)
               \/ RulingWrites(h) \/ PhraseWrites(h) \/ PhraseReviewWrites(h)
        PROVE  ApplyInv'
    BY <2>7, ApplyStays DEF UpdateWrites, ApplyWrites, PriceWrites, CertificationWrites, RulingWrites,
       PhraseWrites, PhraseReviewWrites, Ends
  <2>8. CASE InitialProfile \/ Tick \/ UNCHANGED vars
    BY <2>8, ApplyStays DEF InitialProfile, Tick, vars
  <2>9. QED
    BY <2>1, <2>2, <2>3, <2>4, <2>5, <2>6, <2>7, <2>8 DEF Next
<1>3. QED
  BY <1>1, <1>2, PTL DEF Spec

(***************************************************************************)
(* A user has one open application at most, and each is completed once and *)
(* then stays completed, as long as no two handlers cross.                 *)
(***************************************************************************)
THEOREM CompletedOnce == Spec => []CompletedIsFinal
<1>1. ApplyInv => CompletedIsFinal
  <2> SUFFICES ASSUME ApplyInv, ~raced
               PROVE  CompletedIsFinal
    BY DEF CompletedIsFinal
  <2>1. Open = {} \/ \E i : Open = {i}
    BY DEF ApplyInv, OneOpen
  <2>2. Cardinality(Open) <= 1
    BY <2>1, FS_EmptySet, FS_Singleton
  <2>3. QED
    BY <2>2 DEF ApplyInv, OnceEach, CompletedIsFinal
<1>2. QED
  BY <1>1, AppliesKept, PTL

-----------------------------------------------------------------------------
(* Albums *)

\* Those that are kept are those of the album that are among the photos: the positions of
\* the kept ones are counted, each has a number of its own, so that every number is one's.
LEMMA KeptAre ==
  ASSUME NEW s, IsList(s), NEW X
  PROVE  IsList(Kept(s, X)) /\ Range(Kept(s, X)) = Range(s) \cap X
<1> DEFINE K       == {i \in DOMAIN s : s[i] \in X}
           upto(i) == {j \in K : j <= i}
           n       == Cardinality(K)
           rank    == [i \in K |-> Cardinality(upto(i))]
           nth(m)  == CHOOSE i \in K : Cardinality(upto(i)) = m
           t       == [m \in 1..n |-> s[nth(m)]]
<1>1. /\ IsFiniteSet(K) /\ n \in Nat /\ K \subseteq Nat
      /\ \A i : IsFiniteSet(upto(i)) /\ Cardinality(upto(i)) \in Nat /\ Cardinality(upto(i)) <= n
  <2>1. IsFiniteSet(K)
    <3>1. Len(s) \in Nat /\ K \in SUBSET (1..Len(s))
      BY DEF IsList
    <3>2. IsFiniteSet(1..Len(s))
      BY <3>1, FS_Interval
    <3> HIDE DEF K
    <3>3. QED
      BY <3>1, <3>2, FS_Subset
  <2>2. \A i : upto(i) \in SUBSET K
    OBVIOUS
  <2>3. QED
    BY <2>1, <2>2, FS_Subset, FS_CardinalityType DEF IsList
<1>2. \A i \in K : Cardinality(upto(i)) \in 1..n
  <2>1. \A i \in K : upto(i) # {}
    BY <1>1
  <2> HIDE DEF upto, K
  <2>2. QED
    BY <1>1, <2>1, FS_EmptySet
<1>3. ASSUME NEW i \in K, NEW k \in K, Cardinality(upto(i)) = Cardinality(upto(k))
      PROVE  i = k
  <2>1. ASSUME NEW a \in K, NEW b \in K, a < b
        PROVE  Cardinality(upto(a)) # Cardinality(upto(b))
    <3>1. upto(a) \in SUBSET upto(b) /\ b \in upto(b) /\ b \notin upto(a)
      BY <1>1, <2>1
    <3>2. IsFiniteSet(upto(b))
      BY <1>1
    <3> HIDE DEF upto
    <3>3. QED
      BY <3>1, <3>2, FS_Subset
  <2>2. i < k \/ k < i \/ i = k
    BY <1>1
  <2> HIDE DEF upto, K
  <2>3. QED
    BY <1>3, <2>1, <2>2
<1>4. rank \in Injection(K, 1..n)
  <2> HIDE DEF upto, K, n
  <2>1. rank \in [K -> 1..n]
    BY <1>2
  <2>2. \A i, k \in K : rank[i] = rank[k] => i = k
    BY <1>3
  <2> HIDE DEF rank
  <2>3. QED
    BY <2>1, <2>2 DEF Injection, IsInjective
<1>5. rank \in Surjection(K, 1..n)
  <2>1. IsFiniteSet(1..n) /\ Cardinality(1..n) = n
    BY <1>1, FS_Interval
  <2> HIDE DEF rank, K
  <2>2. QED
    BY <1>4, <2>1, FS_Injection DEF n
<1>6. \A m \in 1..n : nth(m) \in K /\ Cardinality(upto(nth(m))) = m
  <2>1. \A m \in 1..n : \E i \in K : Cardinality(upto(i)) = m
    <3>1. \A m \in 1..n : \E i \in K : rank[i] = m
      <4> HIDE DEF rank, K, n
      <4>1. QED
        BY <1>5 DEF Surjection
    <3> HIDE DEF upto, K, n
    <3>2. QED
      BY <3>1
  <2> HIDE DEF upto, K, n
  <2>2. QED
    BY <2>1
<1>7. Kept(s, X) = t
  BY DEF Kept
<1>8. Range(t) = Range(s) \cap X
  <2>1. ASSUME NEW x \in Range(t)
        PROVE  x \in Range(s) \cap X
    <3>1. PICK m \in 1..n : x = s[nth(m)]
      BY <2>1 DEF Range
    <3>2. PICK i \in K : i = nth(m)
      BY <1>6
    <3> HIDE DEF nth
    <3>3. QED
      BY <3>1, <3>2 DEF Range
  <2>2. ASSUME NEW x \in Range(s) \cap X
        PROVE  x \in Range(t)
    <3>1. PICK i \in K : x = s[i]
      BY DEF Range
    <3>2. PICK m \in 1..n : m = Cardinality(upto(i))
      BY <1>2
    <3>3. nth(m) = i
      <4>1. nth(m) \in K /\ Cardinality(upto(nth(m))) = Cardinality(upto(i))
        BY <1>6, <3>2
      <4> HIDE DEF nth, upto, K
      <4>2. QED
        BY <1>3, <4>1
    <3> HIDE DEF nth, K, n
    <3>4. QED
      BY <3>1, <3>3 DEF Range
  <2> HIDE DEF t
  <2>3. QED
    BY <2>1, <2>2
<1>9. IsList(t)
  <2> HIDE DEF nth, K, n
  <2>1. t \in [1..n -> Range(t)]
    BY DEF Range
  <2> HIDE DEF t
  <2>2. t \in Seq(Range(t))
    BY <1>1, <2>1, SeqDef
  <2>3. QED
    BY <2>2, SeqIsList
<1> HIDE DEF t
<1>10. QED
  BY <1>7, <1>8, <1>9

\* The cover that is taken is in the album, or there is none.
LEMMA CoverIsTaken ==
  ASSUME NEW s, IsList(s), NEW cover
  PROVE  CoverOf(s, cover) \in Range(s) \cup {None}
<1>1. s \in Seq(Range(s))
  BY ListIsSeq
<1>2. First(s) \in Range(s) \cup {None}
  BY <1>1, HeadTailProperties DEF First
<1>3. QED
  BY <1>2 DEF CoverOf

-----------------------------------------------------------------------------
(* What is shown *)

\* A row shows what was approved.
RowOK(r) ==
  /\ IsRow(r) /\ IsList(r.album) /\ Range(r.album) \subseteq Photos
  /\ {r.name, r.cover} \cup Range(r.album) \subseteq vetted

CoverIn(r) == r.cover \in Range(r.album) \cup {None}

\* An application would grant what was shown before it or was approved since.
GrantOK(a) ==
  /\ IsList(a.after.album) /\ Range(a.after.album) \subseteq Photos
  /\ Range(a.before.album) \subseteq vetted
  /\ \A x \in DOMAIN a.items : a.items[x] = "approved" => x \in vetted

\* What a handler has read is such a row, application or phrase, and a form fits its row.
ReadOK(h) ==
  /\ h.do \in {"edit", "update"} => RowOK(h.row) /\ h.form \in Edits /\ Fits(h.form, h.row)
  /\ h.do \in {"item", "all", "complete"} => GrantOK(h.apply)
  /\ h.do = "review" => h.phrase.approved \in vetted

IsPhrase(p) == p = [approved |-> p.approved, pending |-> p.pending, status |-> p.status]

(***************************************************************************)
(* The inductive invariant of what is shown.                               *)
(***************************************************************************)
VettedInv ==
  /\ {None, PoolName} \subseteq vetted
  /\ RowOK(row)
  /\ ~raced => CoverIn(row)
  /\ IsPhrase(phrase) /\ phrase.approved \in vetted
  /\ \A i \in DOMAIN applies : GrantOK(applies[i])
  /\ \A h \in busy : ReadOK(h)

\* What was approved stays so.
LEMMA MoreIsVetted ==
  ASSUME vetted \subseteq vetted'
  PROVE  /\ \A r : RowOK(r) => (IsRow(r) /\ IsList(r.album) /\ Range(r.album) \subseteq Photos
                               /\ {r.name, r.cover} \cup Range(r.album) \subseteq vetted')
         /\ \A a : GrantOK(a) => (IsList(a.after.album) /\ Range(a.after.album) \subseteq Photos
                                  /\ Range(a.before.album) \subseteq vetted'
                                  /\ \A x \in DOMAIN a.items : a.items[x] = "approved" => x \in vetted')
  BY DEF RowOK, GrantOK
\* What a form means for an album: a list of photos, the one given or the present one.
LEMMA AlbumIsList ==
  ASSUME NEW r, RowOK(r), NEW e \in Edits
  PROVE  /\ IsList(Album(e, r)) /\ Range(Album(e, r)) \subseteq Photos
         /\ Album(e, r) = IF e.album = Keep THEN r.album ELSE e.album
         /\ e.name \in {Keep} \cup Names /\ e.cover \in {Keep, None} \cup Photos
<1>1. e \in [name : {Keep} \cup Names, album : {Keep} \cup Seq(Photos), cover : {Keep, None} \cup Photos]
  BY EditsAreForms
<1>2. e.album # Keep => IsList(e.album) /\ Range(e.album) \subseteq Photos
  <2>1. \A s \in Seq(Photos) : IsList(s) /\ Range(s) \subseteq Photos
    BY SeqIsList, ElementOfSeq DEF IsList, Range
  <2>2. QED
    BY <1>1, <2>1
<1>3. QED
  BY <1>1, <1>2 DEF Album, Or, RowOK

\* What is saved without a review was shown already.
LEMMA DirectIsShown ==
  ASSUME NEW r, RowOK(r), NEW e \in Edits, Fits(e, r), None \in vetted
  PROVE  /\ IsList(DirectAlbum(e, r)) /\ Range(DirectAlbum(e, r)) \subseteq Range(r.album)
         /\ DirectCover(e, r) \in vetted
         /\ CoverIn(r) => DirectCover(e, r) \in Range(DirectAlbum(e, r)) \cup {None}
<1> DEFINE s == Album(e, r)
           d == DirectAlbum(e, r)
           c == DirectCover(e, r)
           I == Items(e, r)
<1>1. /\ IsList(s) /\ Range(s) \subseteq Photos /\ s = IF e.album = Keep THEN r.album ELSE e.album
      /\ e.name \in {Keep} \cup Names
  BY AlbumIsList
<1>2. IsList(d) /\ Range(d) = Range(s) \ I
  <2>1. \A X : IsList(Kept(s, X)) /\ Range(Kept(s, X)) = Range(s) \cap X
    <3> HIDE DEF s
    <3>1. QED
      BY <1>1, KeptAre
  <2>2. d = Kept(s, Range(s) \ I)
    BY DEF DirectAlbum, Without
  <2> HIDE DEF s, I, d
  <2>3. QED
    BY <2>1, <2>2
<1>3. Range(s) \ I \subseteq Range(r.album)
  BY DEF Items
<1>4. e.album = Keep => Range(s) \ I = Range(r.album)
  <2>1. CASE e.name = Keep
    BY <1>1, <2>1 DEF Items, Or
  <2>2. CASE e.name # Keep
    BY <1>1, <2>2, ContentsAreApart DEF Items, Or
  <2>3. QED
    BY <2>1, <2>2
<1>5. e.cover \in Range(s) \cup {None, Keep}
  BY DEF Fits
<1>6. c = IF e.cover # Keep /\ (e.cover \in Range(d) \/ e.album = Keep \/ e.cover = None) THEN e.cover
          ELSE IF e.album # Keep THEN CoverOf(d, r.cover) ELSE r.cover
  BY DEF DirectCover
<1>7. Range(r.album) \subseteq vetted /\ r.cover \in vetted
  BY DEF RowOK
<1>8. (e.album # Keep => CoverOf(d, r.cover) \in Range(d) \cup {None})
  <2> HIDE DEF d
  <2>1. QED
    BY <1>2, CoverIsTaken
<1> HIDE DEF s, d, c, I
<1>9. Range(d) \subseteq Range(r.album) /\ Range(d) \subseteq vetted
  BY <1>2, <1>3, <1>7
<1>10. c \in vetted
  BY <1>1, <1>5, <1>6, <1>7, <1>8, <1>9
<1>11. CoverIn(r) => c \in Range(d) \cup {None}
  BY <1>1, <1>2, <1>4, <1>5, <1>6, <1>8 DEF CoverIn
<1>12. QED
  BY <1>2, <1>9, <1>10, <1>11 DEF d, c

\* What is approved adds to what may be shown.
LEMMA VettedGrows ==
  ASSUME vetted \subseteq vetted', NEW r, RowOK(r)
  PROVE  RowOK(r)'
  BY DEF RowOK

\* What an application would grant stays good when more is approved.
LEMMA GrantStays ==
  ASSUME vetted \subseteq vetted', NEW a, GrantOK(a)
  PROVE  GrantOK(a)'
  BY DEF GrantOK

\* What is kept of the invariant when more is approved, and what remains to be shown.
LEMMA VettedStep ==
  ASSUME VettedInv, vetted \subseteq vetted', RowOK(row)', ~raced' => CoverIn(row)',
         IsPhrase(phrase)', (phrase.approved \in vetted)',
         \A i \in DOMAIN applies' : applies'[i] \in Range(applies) \/ GrantOK(applies[i])',
         \A h \in busy' : h \in busy \/ ReadOK(h)'
  PROVE  VettedInv'
<1>1. \A a : GrantOK(a) => GrantOK(a)'
  BY GrantStays
<1>2. \A h \in busy : ReadOK(h)'
  <2>1. \A r : RowOK(r) => RowOK(r)'
    BY VettedGrows
  <2>2. QED
    BY <1>1, <2>1 DEF VettedInv, ReadOK
<1>3. \A i \in DOMAIN applies' : GrantOK(applies[i])'
  BY <1>1 DEF VettedInv, Range
<1>4. QED
  BY <1>2, <1>3 DEF VettedInv

\* A handler that begins has read what is there.
LEMMA VettedBegins ==
  ASSUME VettedInv, NEW h, Begins(h), ReadOK(h)
  PROVE  VettedInv'
  BY DEF VettedInv, Begins, RowOK, CoverIn, IsPhrase, GrantOK, ReadOK

\* A handler that writes the row, of which the columns shown are as good as before.
LEMMA VettedRow ==
  ASSUME VettedInv, UNCHANGED <<vetted, phrase>>, busy' \subseteq busy, raced => raced', RowOK(row)',
         ~raced' => CoverIn(row)',
         \A i \in DOMAIN applies' : applies'[i] \in Range(applies) \/ GrantOK(applies[i])'
  PROVE  VettedInv'
  BY VettedStep DEF VettedInv
\* What a user's edit saves at once was shown already; the rest is an application.
LEMMA EditVetted ==
  ASSUME VettedInv, ApplyInv, NEW h \in busy, EditWrites(h)
  PROVE  VettedInv'
<1> DEFINE e == h.form
           r == h.row
           d == DirectAlbum(e, r)
           c == DirectCover(e, r)
           I == Items(e, r)
           album == IF d # r.album THEN d ELSE row.album
           cover == IF c # r.cover \/ (I = {} /\ e.cover = Keep /\ e.album # Keep) THEN c ELSE row.cover
           name  == IF I = {} /\ e.name # Keep THEN r.name ELSE row.name
           a == [status |-> "pending", items |-> [i \in I |-> "pending"],
                 before |-> Snapshot(r.name, r.album, r.cover), after |-> Target(e, r)]
<1>1. RowOK(r) /\ e \in Edits /\ Fits(e, r)
  BY DEF EditWrites, VettedInv, ReadOK
<1>2. /\ IsList(d) /\ Range(d) \subseteq Range(r.album) /\ c \in vetted
      /\ CoverIn(r) => c \in Range(d) \cup {None}
  BY <1>1, DirectIsShown DEF VettedInv
<1>3. row' = [row EXCEPT !.album = album, !.cover = cover, !.name = name]
  BY DEF EditWrites, Saved
<1>4. UNCHANGED <<vetted, phrase>> /\ busy' \subseteq busy /\ (~raced' => ~raced /\ row = r)
  BY DEF EditWrites, Ends
<1>5. applies' = applies \/ applies' = Append(applies, a)
  BY DEF EditWrites
<1>6. GrantOK(a)
  <2>1. IsList(Album(e, r)) /\ Range(Album(e, r)) \subseteq Photos
    BY <1>1, AlbumIsList
  <2>2. a.after.album = Album(e, r) /\ a.before.album = r.album /\ a.items = [i \in I |-> "pending"]
    BY DEF Snapshot, Target
  <2> HIDE DEF a, I
  <2>3. QED
    BY <1>1, <2>1, <2>2 DEF GrantOK, RowOK
<1> HIDE DEF a, d, c, I, e, r
<1>7. \A i \in DOMAIN applies' : applies'[i] \in Range(applies) \/ GrantOK(applies[i])'
  <2>1. CASE applies' = applies
    BY <2>1 DEF Range
  <2>2. CASE applies' = Append(applies, a)
    <3>1. /\ DOMAIN applies' = DOMAIN applies \cup {Len(applies')} /\ applies'[Len(applies')] = a
          /\ \A i \in DOMAIN applies : applies'[i] = applies[i]
      BY <2>2, ListGrows DEF ApplyInv, AppliesOK
    <3>2. \A i \in DOMAIN applies' : applies'[i] \in Range(applies) \/ applies'[i] = a
      BY <3>1 DEF Range
    <3>3. GrantOK(a)'
      BY <1>4, <1>6, GrantStays DEF a, I, e, r
    <3>4. QED
      BY <3>2, <3>3
  <2>3. QED
    BY <1>5, <2>1, <2>2
<1>8. RowOK(row)' /\ (~raced' => CoverIn(row)')
  <2>1. name \in vetted /\ cover \in vetted /\ IsList(album) /\ Range(album) \subseteq vetted \cap Photos
    BY <1>1, <1>2 DEF VettedInv, RowOK
  <2>2. ASSUME ~raced'
        PROVE  album = d /\ cover = c /\ CoverIn(r)
    BY <1>4, <2>2 DEF VettedInv
  <2> HIDE DEF album, cover, name
  <2>3. IsRow(row') /\ row'.name = name /\ row'.album = album /\ row'.cover = cover
    BY <1>3 DEF VettedInv, RowOK, IsRow
  <2>4. QED
    BY <1>2, <1>4, <2>1, <2>2, <2>3 DEF RowOK, CoverIn
<1>9. QED
  BY <1>4, <1>7, <1>8, VettedRow

\* An administrator who enters the fields approves them.
LEMMA UpdateVetted ==
  ASSUME VettedInv, NEW h \in busy, UpdateWrites(h)
  PROVE  VettedInv'
<1> DEFINE e == h.form
           r == h.row
           s == Album(e, r)
           c == Cover(e, r)
           name  == Or(e.name, row.name)
           album == Or(e.album, row.album)
           cover == IF e.cover # Keep \/ e.album # Keep THEN c ELSE row.cover
<1>1. RowOK(r) /\ e \in Edits /\ Fits(e, r)
  BY DEF UpdateWrites, VettedInv, ReadOK
<1>2. row' = [row EXCEPT !.name = name, !.album = album, !.cover = cover]
  BY DEF UpdateWrites, Target, Snapshot
<1>3. vetted' = vetted \cup (({e.name} \cup Range(s)) \ {Keep})
  BY DEF UpdateWrites, Target, Snapshot
<1>4. UNCHANGED <<phrase, applies>> /\ busy' \subseteq busy /\ (~raced' => ~raced /\ row = r)
  BY DEF UpdateWrites, Ends
<1>5. /\ IsList(s) /\ Range(s) \subseteq Photos /\ s = IF e.album = Keep THEN r.album ELSE e.album
      /\ e.name \in {Keep} \cup Names /\ e.cover \in {Keep, None} \cup Photos
  BY <1>1, AlbumIsList
<1>6. e.cover \in Range(s) \cup {None, Keep}
  BY <1>1 DEF Fits
<1>7. e.album # Keep => CoverOf(e.album, r.cover) \in Range(s) \cup {None}
  <2> HIDE DEF s
  <2>1. QED
    BY <1>5, CoverIsTaken
<1>8. c = IF e.cover # Keep THEN e.cover
          ELSE IF e.album # Keep THEN CoverOf(e.album, r.cover) ELSE r.cover
  BY DEF Cover
<1> HIDE DEF s, c, e, r
<1>9. Range(s) \subseteq vetted' /\ None \in vetted'
  BY <1>3, <1>5, ContentsAreApart DEF VettedInv
<1>10. name \in vetted'
  BY <1>3 DEF Or, VettedInv, RowOK
<1>11. IsList(album) /\ Range(album) \subseteq vetted' \cap Photos
  BY <1>3, <1>5, <1>9 DEF Or, VettedInv, RowOK
<1>12. cover \in vetted'
  BY <1>3, <1>6, <1>7, <1>8, <1>9 DEF VettedInv, RowOK
<1>13. ASSUME ~raced'
       PROVE  cover \in Range(album) \cup {None}
  <2>1. CoverIn(r) /\ album = s /\ row.cover = r.cover
    BY <1>4, <1>5, <1>13 DEF VettedInv, Or
  <2>2. QED
    BY <1>5, <1>6, <1>7, <1>8, <2>1 DEF CoverIn
<1> HIDE DEF name, album, cover
<1>14. IsRow(row') /\ row'.name = name /\ row'.album = album /\ row'.cover = cover
  BY <1>2 DEF VettedInv, RowOK, IsRow
<1>15. RowOK(row)' /\ (~raced' => CoverIn(row)')
  BY <1>10, <1>11, <1>12, <1>13, <1>14 DEF RowOK, CoverIn
<1>16. vetted \subseteq vetted' /\ \A i \in DOMAIN applies' : applies'[i] \in Range(applies)
  BY <1>3, <1>4 DEF Range
<1>17. QED
  BY <1>4, <1>15, <1>16, VettedStep DEF VettedInv
\* An application that is replaced by one that grants what was approved.
LEMMA ReplacedGrants ==
  ASSUME ApplyInv, NEW k \in DOMAIN applies, NEW a, GrantOK(a)', applies' = Replaced(applies, k, a)
  PROVE  \A i \in DOMAIN applies' : applies'[i] \in Range(applies) \/ GrantOK(applies[i])'
<1>1. IsList(applies)
  BY DEF ApplyInv, AppliesOK
<1>2. /\ DOMAIN applies' = DOMAIN applies /\ applies'[k] = a
      /\ \A j \in DOMAIN applies \ {k} : applies'[j] = applies[j]
  BY <1>1, ListChanges
<1>3. \A i \in DOMAIN applies' : applies'[i] \in Range(applies) \/ applies'[i] = a
  BY <1>2 DEF Range
<1>4. QED
  BY <1>3

\* An administrator who decides on items writes the copy he has read, with what he approves.
LEMMA ReviewVetted ==
  ASSUME VettedInv, ApplyInv, NEW h \in busy, ReviewWrites(h)
  PROVE  VettedInv'
<1>1. PICK verdict \in {"approved", "rejected"},
           items \in IF h.do = "all" THEN {Pending(h.apply)} ELSE {{i} : i \in DOMAIN h.apply.items} :
        /\ applies' = [applies EXCEPT ![h.i].items = Mark(h.apply, items, verdict), ![h.i].status = "reviewing"]
        /\ vetted' = IF verdict = "approved" THEN vetted \cup items ELSE vetted
  BY DEF ReviewWrites
<1>2. h.i \in DOMAIN applies /\ GrantOK(h.apply)
  BY DEF ReviewWrites, ApplyInv, ReviewOK, VettedInv, ReadOK
<1>3. UNCHANGED <<row, phrase>> /\ busy' \subseteq busy /\ (~raced' => ~raced)
  BY DEF ReviewWrites, Ends
<1>4. vetted \subseteq vetted'
  BY <1>1
<1>5. PICK m : m = Mark(h.apply, items, verdict)
  OBVIOUS
<1>6. \A x \in DOMAIN m : m[x] = "approved" => x \in vetted'
  BY <1>1, <1>2, <1>5 DEF Mark, GrantOK
<1>7. PICK k \in DOMAIN applies : k = h.i
  BY <1>2
<1>8. PICK r : r = applies[k]
  OBVIOUS
<1> DEFINE a == [r EXCEPT !.items = m, !.status = "reviewing"]
<1>9. IsApply(r) /\ GrantOK(r)
  BY <1>8 DEF ApplyInv, AppliesOK, VettedInv
<1>10. a.items = m /\ a.before = r.before /\ a.after = r.after
  BY <1>9 DEF IsApply
<1>11. applies' = Replaced(applies, k, a)
  BY <1>1, <1>5, <1>7, <1>8, ReviewIsOneChange DEF ApplyInv, AppliesOK, Replaced
<1> HIDE DEF a
<1>12. GrantOK(a)'
  BY <1>4, <1>6, <1>9, <1>10 DEF GrantOK
<1>13. \A i \in DOMAIN applies' : applies'[i] \in Range(applies) \/ GrantOK(applies[i])'
  BY <1>11, <1>12, ReplacedGrants
<1>14. RowOK(row)' /\ (~raced' => CoverIn(row)') /\ IsPhrase(phrase)' /\ (phrase.approved \in vetted)'
  BY <1>3, <1>4 DEF VettedInv, RowOK, CoverIn
<1>15. QED
  BY <1>3, <1>4, <1>13, <1>14, VettedStep

\* What an application grants was shown before it or approved since, with a cover of its album.
LEMMA GrantedIsVetted ==
  ASSUME NEW a, GrantOK(a)
  PROVE  LET g == Granted(a)
         IN  /\ IsList(g.album) /\ Range(g.album) \subseteq vetted \cap Photos
             /\ g.name \in vetted \cup {Keep} /\ g.cover \in Range(g.album) \cup {None}
<1> DEFINE approved == {i \in DOMAIN a.items : a.items[i] = "approved"}
           album == Kept(a.after.album, Range(a.before.album) \cup approved)
           name  == IF a.after.name \in approved THEN a.after.name ELSE Keep
           cover == IF a.after.cover \in Range(album) THEN a.after.cover ELSE CoverOf(album, a.before.cover)
<1>1. approved \subseteq vetted /\ name \in vetted \cup {Keep}
  BY DEF GrantOK
<1>2. /\ IsList(album) /\ Range(album) \subseteq Range(a.after.album)
      /\ Range(album) \subseteq Range(a.before.album) \cup approved
  <2> HIDE DEF approved
  <2>1. QED
    BY KeptAre DEF GrantOK
<1>3. Granted(a) = Snapshot(name, album, cover)
  BY DEF Granted
<1> HIDE DEF album, name
<1>4. cover \in Range(album) \cup {None}
  BY <1>2, CoverIsTaken
<1> HIDE DEF cover
<1>5. Granted(a).name = name /\ Granted(a).album = album /\ Granted(a).cover = cover
  BY <1>3 DEF Snapshot
<1>6. QED
  BY <1>1, <1>2, <1>4, <1>5 DEF GrantOK

\* The completion of an application shows what it grants.
LEMMA CompleteVetted ==
  ASSUME VettedInv, ApplyInv, NEW h \in busy, CompleteWrites(h)
  PROVE  VettedInv'
<1> DEFINE g    == Granted(h.apply)
           name == Or(g.name, row.name)
<1>1. row' = [row EXCEPT !.name = name, !.album = g.album, !.cover = g.cover]
  BY DEF CompleteWrites
<1>2. UNCHANGED <<vetted, phrase>> /\ busy' \subseteq busy /\ (~raced' => ~raced)
  BY DEF CompleteWrites, Ends
<1>3. h.i \in DOMAIN applies /\ GrantOK(h.apply)
  BY DEF CompleteWrites, ApplyInv, ReviewOK, VettedInv, ReadOK
<1>4. /\ IsList(g.album) /\ Range(g.album) \subseteq vetted \cap Photos
      /\ g.name \in vetted \cup {Keep} /\ g.cover \in Range(g.album) \cup {None}
  BY <1>3, GrantedIsVetted
<1> HIDE DEF g
<1>5. name \in vetted
  BY <1>4 DEF Or, VettedInv, RowOK
<1> HIDE DEF name
<1>6. IsRow(row') /\ row'.name = name /\ row'.album = g.album /\ row'.cover = g.cover
  BY <1>1 DEF VettedInv, RowOK, IsRow
<1>7. RowOK(row)' /\ CoverIn(row)'
  BY <1>2, <1>4, <1>5, <1>6 DEF VettedInv, RowOK, CoverIn
<1>8. PICK k \in DOMAIN applies : k = h.i
  BY <1>3
<1>9. PICK r : r = applies[k]
  OBVIOUS
<1> DEFINE a == [r EXCEPT !.status = "completed"]
<1>10. IsApply(r) /\ GrantOK(r)
  BY <1>9 DEF ApplyInv, AppliesOK, VettedInv
<1>11. a.items = r.items /\ a.before = r.before /\ a.after = r.after
  BY <1>10 DEF IsApply
<1>12. applies' = Replaced(applies, k, a)
  BY <1>8, <1>9 DEF CompleteWrites, Replaced
<1> HIDE DEF a
<1>13. GrantOK(a)'
  BY <1>2, <1>10, <1>11 DEF GrantOK
<1>14. \A i \in DOMAIN applies' : applies'[i] \in Range(applies) \/ GrantOK(applies[i])'
  BY <1>12, <1>13, ReplacedGrants
<1>15. QED
  BY <1>2, <1>7, <1>14, VettedRow

\* The handlers that leave alone what is shown: the row keeps its name, album and cover.
LEMMA VettedStays ==
  ASSUME VettedInv, UNCHANGED <<vetted, applies, phrase>>, busy' \subseteq busy, raced => raced',
         IsRow(row)', row'.album = row.album, row'.cover = row.cover, row'.name \in {row.name, PoolName}
  PROVE  VettedInv'
<1>1. RowOK(row)' /\ (~raced' => CoverIn(row)')
  BY DEF VettedInv, RowOK, CoverIn
<1>2. \A i \in DOMAIN applies' : applies'[i] \in Range(applies)
  BY DEF Range
<1>3. QED
  BY <1>1, <1>2, VettedRow
\* Nothing is shown that was not approved, whatever is read and written in which order.
THEOREM VettedKept == Spec => []VettedInv
<1>1. Init => VettedInv
  <2> SUFFICES ASSUME Init
               PROVE  VettedInv
    OBVIOUS
  <2>1. row.name = FirstName /\ row.album = <<FirstPhoto>> /\ row.cover = FirstPhoto /\ IsRow(row)
    BY DEF Init, IsRow
  <2>2. IsList(<<FirstPhoto>>) /\ Range(<<FirstPhoto>>) = {FirstPhoto}
    <3>1. <<FirstPhoto>> \in Seq({FirstPhoto}) /\ Len(<<FirstPhoto>>) = 1 /\ <<FirstPhoto>>[1] = FirstPhoto
      OBVIOUS
    <3>2. IsList(<<FirstPhoto>>)
      BY <3>1, SeqIsList
    <3>3. QED
      BY <3>1, <3>2 DEF IsList, Range
  <2>3. RowOK(row) /\ CoverIn(row)
    BY <2>1, <2>2, ContentsAreApart DEF Init, RowOK, CoverIn
  <2>4. DOMAIN applies = {}
    BY DEF Init
  <2>5. QED
    BY <2>3, <2>4 DEF Init, VettedInv, IsPhrase
<1>2. VettedInv /\ ApplyInv /\ [Next]_vars => VettedInv'
  <2> SUFFICES ASSUME VettedInv, ApplyInv, [Next]_vars
               PROVE  VettedInv'
    OBVIOUS
  <2>1. CASE EditReads
    <3>1. PICK e \in Edits : Fits(e, row) /\ Begins([do |-> "edit", form |-> e, row |-> row])
      BY <2>1 DEF EditReads
    <3>2. ReadOK([do |-> "edit", form |-> e, row |-> row])
      BY <3>1 DEF VettedInv, ReadOK
    <3>3. QED
      BY <3>1, <3>2, VettedBegins
  <2>2. CASE UpdateReads
    <3>1. PICK e \in Edits : Fits(e, row) /\ Begins([do |-> "update", form |-> e, row |-> row])
      BY <2>2 DEF UpdateReads
    <3>2. ReadOK([do |-> "update", form |-> e, row |-> row])
      BY <3>1 DEF VettedInv, ReadOK
    <3>3. QED
      BY <3>1, <3>2, VettedBegins
  <2>3. CASE ReviewReads
    <3>1. PICK i \in DOMAIN applies, do \in {"item", "all", "complete"} :
            Begins([do |-> do, i |-> i, apply |-> applies[i]])
      BY <2>3 DEF ReviewReads
    <3>2. ReadOK([do |-> do, i |-> i, apply |-> applies[i]])
      BY <3>1 DEF VettedInv, ReadOK
    <3>3. QED
      BY <3>1, <3>2, VettedBegins
  <2>4. CASE PhraseReviewReads
    <3>1. PICK verdict \in {"approved", "rejected"} :
            Begins([do |-> "review", verdict |-> verdict, phrase |-> phrase])
      BY <2>4 DEF PhraseReviewReads
    <3>2. ReadOK([do |-> "review", verdict |-> verdict, phrase |-> phrase])
      BY DEF VettedInv, ReadOK
    <3>3. QED
      BY <3>1, <3>2, VettedBegins
  <2>5. CASE ApplyReads \/ PriceReads \/ CertificationReads \/ RulingReads \/ PhraseReads
    <3>1. \A h : Begins(h) /\ h.do \in {"apply", "price", "certify", "rule", "phrase"} => VettedInv'
      BY VettedBegins DEF ReadOK
    <3>2. CASE ApplyReads
      BY <3>1, <3>2 DEF ApplyReads
    <3>3. CASE PriceReads
      BY <3>1, <3>3 DEF PriceReads
    <3>4. CASE CertificationReads
      BY <3>1, <3>4 DEF CertificationReads
    <3>5. CASE RulingReads
      BY <3>1, <3>5 DEF RulingReads
    <3>6. CASE PhraseReads
      BY <3>1, <3>6 DEF PhraseReads
    <3>7. QED
      BY <2>5, <3>2, <3>3, <3>4, <3>5, <3>6
  <2>6. ASSUME NEW h \in busy, EditWrites(h) \/ UpdateWrites(h) \/ ReviewWrites(h) \/ CompleteWrites(h)
        PROVE  VettedInv'
    BY <2>6, EditVetted, UpdateVetted, ReviewVetted, CompleteVetted
  <2>7. ASSUME NEW h \in busy, ApplyWrites(h)
        PROVE  VettedInv'
    <3>1. row' = [row EXCEPT !.face = TRUE, !.status = "pending", !.reviewed = None]
      BY <2>7 DEF ApplyWrites
    <3>2. IsRow(row)' /\ row'.name = row.name /\ row'.album = row.album /\ row'.cover = row.cover
      BY <3>1 DEF VettedInv, RowOK, IsRow
    <3>3. QED
      BY <2>7, <3>2, VettedStays DEF ApplyWrites, Ends
  <2>8. ASSUME NEW h \in busy, PriceWrites(h)
        PROVE  VettedInv'
    <3>1. row' = [row EXCEPT !.price = h.price]
      BY <2>8 DEF PriceWrites
    <3>2. IsRow(row)' /\ row'.name = row.name /\ row'.album = row.album /\ row'.cover = row.cover
      BY <3>1 DEF VettedInv, RowOK, IsRow
    <3>3. QED
      BY <2>8, <3>2, VettedStays DEF PriceWrites, Ends
  <2>9. ASSUME NEW h \in busy, CertificationWrites(h)
        PROVE  VettedInv'
    <3>1. PICK certified, price :
            row' = [row EXCEPT !.certified = certified, !.status = h.verdict, !.reviewed = now, !.price = price]
      BY <2>9 DEF CertificationWrites
    <3>2. IsRow(row)' /\ row'.name = row.name /\ row'.album = row.album /\ row'.cover = row.cover
      BY <3>1 DEF VettedInv, RowOK, IsRow
    <3>3. QED
      BY <2>9, <3>2, VettedStays DEF CertificationWrites, Ends
  <2>10. ASSUME NEW h \in busy, RulingWrites(h)
         PROVE  VettedInv'
    <3>1. PICK certified, price, status, reviewed :
            row' = [row EXCEPT !.certified = certified, !.price = price, !.status = status, !.reviewed = reviewed]
      BY <2>10 DEF RulingWrites
    <3>2. IsRow(row)' /\ row'.name = row.name /\ row'.album = row.album /\ row'.cover = row.cover
      BY <3>1 DEF VettedInv, RowOK, IsRow
    <3>3. QED
      BY <2>10, <3>2, VettedStays DEF RulingWrites, Ends
  <2>11. ASSUME NEW h \in busy, PhraseWrites(h)
         PROVE  VettedInv'
    <3>1. phrase' = [phrase EXCEPT !.pending = h.content, !.status = "pending"]
      BY <2>11 DEF PhraseWrites
    <3>2. IsPhrase(phrase)' /\ phrase'.approved = phrase.approved
      BY <3>1 DEF VettedInv, IsPhrase
    <3>3. UNCHANGED <<row, applies, vetted>> /\ busy' \subseteq busy /\ (~raced' => ~raced)
      BY <2>11 DEF PhraseWrites, Ends
    <3>4. RowOK(row)' /\ (~raced' => CoverIn(row)') /\ \A i \in DOMAIN applies' : applies'[i] \in Range(applies)
      BY <3>3 DEF VettedInv, RowOK, CoverIn, Range
    <3>5. QED
      BY <3>2, <3>3, <3>4, VettedStep DEF VettedInv
  <2>12. ASSUME NEW h \in busy, PhraseReviewWrites(h)
         PROVE  VettedInv'
    <3>1. /\ phrase' = [approved |-> ApprovedContent(h), status |-> h.verdict,
                        pending |-> IF h.verdict = "approved" THEN None ELSE h.phrase.pending]
          /\ vetted' = IF h.verdict = "approved" THEN vetted \cup {h.phrase.pending} ELSE vetted
      BY <2>12 DEF PhraseReviewWrites
    <3>2. h.phrase.approved \in vetted
      BY <2>12 DEF PhraseReviewWrites, VettedInv, ReadOK
    <3>3. vetted \subseteq vetted' /\ ApprovedContent(h) \in vetted'
      BY <3>1, <3>2 DEF ApprovedContent
    <3>4. IsPhrase(phrase)' /\ (phrase.approved \in vetted)'
      BY <3>1, <3>3 DEF IsPhrase
    <3>5. UNCHANGED <<row, applies>> /\ busy' \subseteq busy /\ (~raced' => ~raced)
      BY <2>12 DEF PhraseReviewWrites, Ends
    <3>6. RowOK(row)' /\ (~raced' => CoverIn(row)') /\ \A i \in DOMAIN applies' : applies'[i] \in Range(applies)
      BY <3>3, <3>5 DEF VettedInv, RowOK, CoverIn, Range
    <3>7. QED
      BY <3>3, <3>4, <3>5, <3>6, VettedStep DEF VettedInv
  <2>13. CASE InitialProfile
    <3>1. row' = [row EXCEPT !.name = PoolName] /\ UNCHANGED <<applies, phrase, busy, vetted, raced>>
      BY <2>13 DEF InitialProfile
    <3>2. IsRow(row)' /\ row'.name = PoolName /\ row'.album = row.album /\ row'.cover = row.cover
      BY <3>1 DEF VettedInv, RowOK, IsRow
    <3>3. QED
      BY <3>1, <3>2, VettedStays
  <2>14. CASE Tick \/ UNCHANGED vars
    <3>1. UNCHANGED <<row, applies, phrase, busy, vetted, raced>>
      BY <2>14 DEF Tick, vars
    <3>2. QED
      BY <3>1, VettedStays DEF VettedInv, RowOK
  <2>15. QED
    BY <2>1, <2>2, <2>3, <2>4, <2>5, <2>6, <2>7, <2>8, <2>9, <2>10, <2>11, <2>12, <2>13, <2>14 DEF Next
<1>3. QED
  BY <1>1, <1>2, AppliesKept, PTL DEF Spec

(***************************************************************************)
(* What others see of a user, name, album, cover and phrase, an            *)
(* administrator has approved or entered; and the cover is a photo of the  *)
(* album, as long as no two handlers cross.                                *)
(***************************************************************************)
THEOREM ShownIsVetted == Spec => []OnlyVettedIsShown
<1>1. VettedInv => OnlyVettedIsShown
  BY DEF VettedInv, RowOK, CoverIn, OnlyVettedIsShown
<1>2. QED
  BY <1>1, VettedKept, PTL
=============================================================================
