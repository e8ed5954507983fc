---------------------------- MODULE ProfileReview ----------------------------
(***************************************************************************)
(* What a user may show of himself and who lets him: the profile with its  *)
(* album and the applications to change it (user.py,                       *)
(* profile_review_service, app_users.py profile-review), the certification *)
(* with the price it permits (certification.py, review_certification), and *)
(* the common phrases (common_phrase_service, review_common_phrase).       *)
(*                                                                         *)
(* A request reads the user's row when it is authenticated, a handler of   *)
(* an administrator reads what it decides on, and either writes later,     *)
(* without a lock.  What is written is named columns: the rest of the row  *)
(* keeps what others have written in between.                              *)
(*                                                                         *)
(* The nickname, the avatar and the signature are treated alike: name      *)
(* stands for them.  A behaviour is about one subject, as the three have   *)
(* columns and tables of their own.                                        *)
(***************************************************************************)
EXTENDS Integers, Sequences, FiniteSets, Functions

CONSTANTS
  Names, Photos,
  FirstName, FirstPhoto,   \* what the profile shows at the start
  PoolName,                \* a nickname of the pool for initial profiles
  None,
  Keep,                    \* a field that a form leaves out
  Edits,                   \* the forms a user or an administrator may send
  Rulings,                 \* an administrator's forms about the certification
  Tiers,                   \* the paid call price tiers
  UsualTier,               \* the tier taken when a price is none of them
  Phrases,
  Cooldown,                \* certification_reapply_cooldown
  MaxStarted,              \* bound: handlers begun
  MaxTime                  \* bound: the clock

ASSUME ContentsAreApart ==
  /\ {FirstName, PoolName} \subseteq Names /\ FirstPhoto \in Photos
  /\ {None, Keep} \cap (Names \cup Photos \cup Phrases) = {} /\ None # Keep
  /\ Names \cap Photos = {}
ASSUME EditsAreForms ==
  Edits \subseteq [name : {Keep} \cup Names, album : {Keep} \cup Seq(Photos), cover : {Keep, None} \cup Photos]
ASSUME TiersArePaid == Tiers \subseteq Nat \ {0} /\ UsualTier \in Tiers
ASSUME BoundsAreNat == {Cooldown, MaxStarted, MaxTime} \subseteq Nat

VARIABLES
  subject,     \* "profile", "certificate" or "phrase"
  row,         \* the user's row
  applies,     \* the app_user_profile_review_apply rows
  phrase,      \* a slot of app_user_common_phrase
  busy,        \* handlers that have read and will write
  now, started,
  vetted,      \* history: contents an administrator has approved or entered
  applied,     \* history: how often each application has been completed
  raced        \* history: a handler wrote after what it read had changed

vars == <<subject, row, applies, phrase, busy, now, started, vetted, applied, raced>>

Init ==
  /\ subject \in {"profile", "certificate", "phrase"}
  /\ row = [name |-> FirstName, album |-> <<FirstPhoto>>, cover |-> FirstPhoto,
            certified |-> subject = "phrase", status |-> "none", face |-> FALSE,
            reviewed |-> None, price |-> IF subject = "phrase" THEN UsualTier ELSE 0]
  /\ applies = <<>>
  /\ phrase = [approved |-> None, pending |-> None, status |-> "none"]
  /\ busy = {} /\ now = 0 /\ started = 0
  /\ vetted = {FirstName, PoolName, FirstPhoto, None} /\ applied = <<>> /\ raced = FALSE

\* A handler begins: it has read its copy of the rows and is allowed to go on.
Begins(h) ==
  /\ started < MaxStarted /\ Cardinality(busy) < 2 /\ started' = started + 1
  /\ busy' = busy \cup {h}
  /\ UNCHANGED <<subject, row, applies, phrase, now, vetted, applied, raced>>

Ends(h, stale) == busy' = busy \ {h} /\ raced' = (raced \/ stale) /\ UNCHANGED <<subject, now, started>>

-----------------------------------------------------------------------------
(* The profile: update_user_profile *)

First(album) == IF album = <<>> THEN None ELSE Head(album)
Or(given, current) == IF given = Keep THEN current ELSE given
CoverOf(album, cover) == IF cover \in Range(album) THEN cover ELSE First(album)

Album(e, r) == Or(e.album, r.album)

\* The cover that is meant: the one given, or the present one while the album has it.
Cover(e, r) ==
  IF e.cover # Keep THEN e.cover
  ELSE IF e.album # Keep THEN CoverOf(e.album, r.cover) ELSE r.cover

Fits(e, r) == e.cover \in Range(Album(e, r)) \cup {None, Keep}

Snapshot(name, album, cover) == [name |-> name, album |-> album, cover |-> cover]
Target(e, r) == Snapshot(Or(e.name, r.name), Album(e, r), Cover(e, r))

\* build_profile_review_payload: a changed name and each added photo is to be reviewed.
Items(e, r) ==
  {n \in {Or(e.name, r.name)} : n # r.name} \cup (Range(Album(e, r)) \ Range(r.album))

\* The photos of an album that are kept, in its order.
Kept(album, photos) ==
  LET kept   == {i \in DOMAIN album : album[i] \in photos}
      nth(n) == CHOOSE i \in kept : Cardinality({j \in kept : j <= i}) = n
  IN  [n \in 1..Cardinality(kept) |-> album[nth(n)]]

Without(album, photos) == Kept(album, Range(album) \ photos)

WholeAlbum(e, r)  == Album(e, r)                        \* mutant of DirectAlbum
\* What is saved without a review: the album without the photos that are new to it.
DirectAlbum(e, r) == Without(Album(e, r), Items(e, r))

DirectCover(e, r) ==
  IF e.cover # Keep /\ (e.cover \in Range(DirectAlbum(e, r)) \/ e.album = Keep \/ e.cover = None)
  THEN e.cover
  ELSE IF e.album # Keep THEN CoverOf(DirectAlbum(e, r), r.cover) ELSE r.cover

\* The columns that are written are those that differ from what was read.
Saved(e, r) ==
  [row EXCEPT !.album = IF DirectAlbum(e, r) # r.album THEN DirectAlbum(e, r) ELSE @,
              !.cover = IF DirectCover(e, r) # r.cover \/ (Items(e, r) = {} /\ e.cover = Keep /\ e.album # Keep)
                        THEN DirectCover(e, r) ELSE @,
              !.name  = IF Items(e, r) = {} /\ e.name # Keep THEN r.name ELSE @]

Open == {i \in DOMAIN applies : applies[i].status \in {"pending", "reviewing"}}

\* has_pending_profile_review refuses a user whose application is open.
EditReads ==
  /\ subject = "profile" /\ Open = {}
  /\ \E e \in Edits : Fits(e, row) /\ Begins([do |-> "edit", form |-> e, row |-> row])

EditWrites(h) ==
  /\ h.do = "edit"
  /\ LET items == Items(h.form, h.row) IN
     /\ row' = Saved(h.form, h.row)
     /\ IF items = {} THEN UNCHANGED <<applies, applied>>
        ELSE /\ applies' = Append(applies,
                  [status |-> "pending", items |-> [i \in items |-> "pending"],
                   before |-> Snapshot(h.row.name, h.row.album, h.row.cover),
                   after  |-> Target(h.form, h.row)])
             /\ applied' = Append(applied, 0)
  /\ Ends(h, row # h.row \/ Open # {}) /\ UNCHANGED <<phrase, vetted>>

\* complete_initial_profile: nothing asks whether it was completed before.
InitialProfile ==
  /\ subject = "profile" /\ started < MaxStarted /\ started' = started + 1
  /\ row' = [row EXCEPT !.name = PoolName]
  /\ UNCHANGED <<subject, applies, phrase, busy, now, vetted, applied, raced>>

\* update_app_user: an administrator enters the fields himself.
UpdateReads ==
  /\ subject = "profile"
  /\ \E e \in Edits : Fits(e, row) /\ Begins([do |-> "update", form |-> e, row |-> row])

UpdateWrites(h) ==
  /\ h.do = "update"
  /\ LET t == Target(h.form, h.row) IN
     /\ row' = [row EXCEPT !.name  = Or(h.form.name, @), !.album = Or(h.form.album, @),
                           !.cover = IF h.form.cover # Keep \/ h.form.album # Keep THEN t.cover ELSE @]
     /\ vetted' = vetted \cup (({h.form.name} \cup Range(t.album)) \ {Keep})
  /\ Ends(h, row # h.row) /\ UNCHANGED <<applies, phrase, applied>>

-----------------------------------------------------------------------------
(* Review of an application *)

Pending(a) == {i \in DOMAIN a.items : a.items[i] = "pending"}
Mark(a, items, verdict) ==
  [i \in DOMAIN a.items |-> IF i \in items THEN verdict ELSE a.items[i]]

ReviewableAgain(a, do) == do = "complete" => Pending(a) = {}    \* mutant of Reviewable
Reviewable(a, do) ==
  /\ a.status # "completed"
  /\ do = "complete" => Pending(a) = {}

ReviewReads ==
  \E i \in DOMAIN applies, do \in {"item", "all", "complete"} :
    Reviewable(applies[i], do) /\ Begins([do |-> do, i |-> i, apply |-> applies[i]])

\* The items of the copy that was read are saved with the decision on one, or on all that
\* are pending.
ReviewWrites(h) ==
  /\ h.do \in {"item", "all"}
  /\ \E verdict \in {"approved", "rejected"} :
     \E items \in IF h.do = "all" THEN {Pending(h.apply)} ELSE {{i} : i \in DOMAIN h.apply.items} :
       /\ applies' = [applies EXCEPT ![h.i].items = Mark(h.apply, items, verdict),
                                     ![h.i].status = "reviewing"]
       /\ vetted' = IF verdict = "approved" THEN vetted \cup items ELSE vetted
  /\ Ends(h, applies[h.i] # h.apply) /\ UNCHANGED <<row, phrase, applied>>

\* apply_approved_profile_review_items: the album as it was meant, of what was in it when
\* the user applied and what has been approved.
Granted(a) ==
  LET approved == {i \in DOMAIN a.items : a.items[i] = "approved"}
      album == Kept(a.after.album, Range(a.before.album) \cup approved)
  IN  Snapshot(IF a.after.name \in approved THEN a.after.name ELSE Keep, album,
               IF a.after.cover \in Range(album) THEN a.after.cover ELSE CoverOf(album, a.before.cover))

CompleteWrites(h) ==
  /\ h.do = "complete"
  /\ LET g == Granted(h.apply) IN
     row' = [row EXCEPT !.name = Or(g.name, @), !.album = g.album, !.cover = g.cover]
  /\ applies' = [applies EXCEPT ![h.i].status = "completed"]
  /\ applied' = [applied EXCEPT ![h.i] = @ + 1]
  /\ Ends(h, applies[h.i] # h.apply) /\ UNCHANGED <<phrase, vetted>>

-----------------------------------------------------------------------------
(* Certification and the price of calls *)

PriceFor(certified, price) ==       \* normalize_certified_call_price
  IF ~certified THEN 0 ELSE IF price \in Tiers THEN price ELSE UsualTier

Cooled(r) == r.status = "rejected" /\ r.reviewed # None => now >= r.reviewed + Cooldown

\* apply_certification; the capability limits refuse some users and others not.
ApplyReads ==
  /\ subject = "certificate" /\ ~row.certified /\ row.status # "pending" /\ Cooled(row)
  /\ Begins([do |-> "apply", row |-> row])

ApplyWrites(h) ==
  /\ h.do = "apply"
  /\ row' = [row EXCEPT !.face = TRUE, !.status = "pending", !.reviewed = None]
  /\ Ends(h, row # h.row) /\ UNCHANGED <<applies, phrase, vetted, applied>>

\* update_call_price: the price asked for must be the one that is normalised to itself.
PriceReads ==
  /\ subject = "certificate"
  /\ \E p \in Tiers \cup {0} :
       PriceFor(row.certified, p) = p /\ Begins([do |-> "price", price |-> p, row |-> row])

PriceWrites(h) ==
  /\ h.do = "price"
  /\ row' = [row EXCEPT !.price = h.price]
  /\ Ends(h, row # h.row) /\ UNCHANGED <<applies, phrase, vetted, applied>>

\* review_certification, whatever the status of the user.
CertificationReads ==
  /\ subject = "certificate"
  /\ \E verdict \in {"approved", "rejected"} :
       /\ verdict = "approved" => row.face
       /\ Begins([do |-> "certify", verdict |-> verdict, row |-> row])

CertificationWrites(h) ==
  /\ h.do = "certify"
  /\ LET granted == h.verdict = "approved" IN
     row' = [row EXCEPT !.certified = granted, !.status = h.verdict, !.reviewed = now,
                        !.price = PriceFor(granted, h.row.price)]
  /\ Ends(h, row # h.row) /\ UNCHANGED <<applies, phrase, vetted, applied>>

\* update_app_user on the columns of the certification.
Certified(f) ==
  CASE f.status = "approved"             -> TRUE
    [] f.status \in {"none", "rejected"} -> FALSE
    [] OTHER                             -> f.certified

PriceKept(f, r)  == Or(f.price, row.price)              \* mutant of RuledPrice
RuledPrice(f, r) ==
  IF Certified(f) = Keep /\ f.price = Keep THEN row.price
  ELSE PriceFor(Or(Certified(f), r.certified), Or(f.price, r.price))

RulingReads ==
  /\ subject = "certificate"
  /\ \E f \in Rulings :
       /\ f.status = "approved" => row.face
       /\ Or(Certified(f), row.certified) /\ f.price # Keep => f.price \in Tiers
       /\ Begins([do |-> "rule", form |-> f, row |-> row])

RulingWrites(h) ==
  /\ h.do = "rule"
  /\ LET f == h.form
         c == Certified(f) IN
     row' = [row EXCEPT
       !.certified = Or(c, @), !.price = RuledPrice(f, h.row),
       !.status    = IF f.status # Keep THEN f.status ELSE IF f.certified = TRUE THEN "approved" ELSE @,
       !.reviewed  = IF f.status = "pending" THEN None
                     ELSE IF f.status # Keep \/ f.certified = TRUE THEN now ELSE @]
  /\ Ends(h, row # h.row) /\ UNCHANGED <<applies, phrase, vetted, applied>>

-----------------------------------------------------------------------------
(* Common phrases *)

PhraseReads ==
  /\ subject = "phrase" /\ row.certified
  /\ \E c \in Phrases : Begins([do |-> "phrase", content |-> c])

PhraseWrites(h) ==
  /\ h.do = "phrase"
  /\ phrase' = [phrase EXCEPT !.pending = h.content, !.status = "pending"]
  /\ Ends(h, FALSE) /\ UNCHANGED <<row, applies, vetted, applied>>

PhraseReviewReads ==
  /\ phrase.status = "pending"
  /\ \E verdict \in {"approved", "rejected"} :
       Begins([do |-> "review", verdict |-> verdict, phrase |-> phrase])

ApprovedContent(h) == IF h.verdict = "approved" THEN h.phrase.pending ELSE h.phrase.approved

PhraseReviewWrites(h) ==
  /\ h.do = "review"
  /\ phrase' = [approved |-> ApprovedContent(h), status |-> h.verdict,
                pending |-> IF h.verdict = "approved" THEN None ELSE h.phrase.pending]
  /\ vetted' = IF h.verdict = "approved" THEN vetted \cup {h.phrase.pending} ELSE vetted
  /\ Ends(h, phrase # h.phrase) /\ UNCHANGED <<row, applies, applied>>

Tick ==
  /\ subject = "certificate" /\ now < MaxTime /\ now' = now + 1
  /\ UNCHANGED <<subject, row, applies, phrase, busy, started, vetted, applied, raced>>

-----------------------------------------------------------------------------
Next ==
  \/ EditReads \/ InitialProfile \/ UpdateReads \/ ReviewReads
  \/ ApplyReads \/ PriceReads \/ CertificationReads \/ RulingReads
  \/ PhraseReads \/ PhraseReviewReads
  \/ \E h \in busy :
       \/ EditWrites(h) \/ UpdateWrites(h) \/ ReviewWrites(h) \/ CompleteWrites(h)
       \/ ApplyWrites(h) \/ PriceWrites(h) \/ CertificationWrites(h) \/ RulingWrites(h)
       \/ PhraseWrites(h) \/ PhraseReviewWrites(h)
  \/ Tick

Spec == Init /\ [][Next]_vars

-----------------------------------------------------------------------------
(* Properties *)

Albums == {a \in UNION {[1..n -> Photos] : n \in 0..Cardinality(Photos)} : IsInjective(a)}

\* The rows keep their shape: the album has a photo once, an application decides on what
\* differs between its snapshots, and a phrase that awaits review has a content.
TypeOK ==
  /\ row.name \in Names /\ row.album \in Albums /\ row.cover \in Photos \cup {None}
  /\ row.certified \in BOOLEAN /\ row.face \in BOOLEAN /\ row.price \in Tiers \cup {0}
  /\ row.status \in {"none", "pending", "approved", "rejected"}
  /\ DOMAIN applied = DOMAIN applies
  /\ \A i \in DOMAIN applies :
       /\ applies[i].status \in {"pending", "reviewing", "completed"}
       /\ DOMAIN applies[i].items \subseteq
            {applies[i].after.name} \cup (Range(applies[i].after.album) \ Range(applies[i].before.album))
  /\ phrase.status = "pending" => phrase.pending \in Phrases

\* Nothing a user has entered is shown to others before an administrator has approved it:
\* the name, each photo, the cover and the phrase, in whatever order requests and reviews
\* read and write (update_user_profile, complete_profile_review, review_common_phrase); and
\* the cover is a photo of the album unless two writers cross, each with the album it read.
OnlyVettedIsShown ==
  /\ {row.name, row.cover, phrase.approved} \cup Range(row.album) \subseteq vetted
  /\ raced \/ row.cover \in Range(row.album) \cup {None}

\* An application is completed once and then stays as it is, and a user has one open at a
\* time, unless the writers cross (review_profile_review_item, complete_profile_review).
CompletedIsFinal ==
  ~raced => /\ Cardinality(Open) <= 1
            /\ \A i \in DOMAIN applies : applied[i] = IF applies[i].status = "completed" THEN 1 ELSE 0

\* Only a certified user has a price, and a certified user has one of the tiers, through
\* applications, reviews, rulings and price changes that do not cross
\* (normalize_certified_call_price and its callers).
PriceNeedsCertificate ==
  ~raced => IF row.certified THEN row.price \in Tiers ELSE row.price = 0
=============================================================================
