--------------------------- MODULE ProfileReviewMC ---------------------------
(***************************************************************************)
(* The forms TLC tries: a name; photos added, exchanged and removed, with  *)
(* and without a choice of the cover; no cover; and an administrator's     *)
(* certification by status or by flag, its loss, and a price.              *)
(***************************************************************************)
EXTENDS ProfileReview

CONSTANTS n0, n1, n2, p, q, say1, say2

Form(name, album, cover) == [name |-> name, album |-> album, cover |-> cover]
SomeEdits ==
  { Form(n1, Keep, Keep), Form(Keep, <<p, q>>, Keep), Form(n1, <<p, q>>, q),
    Form(Keep, <<q>>, q), Form(Keep, <<>>, Keep), Form(n1, <<q, p>>, Keep), Form(Keep, Keep, None) }

Ruling(certified, status, price) == [certified |-> certified, status |-> status, price |-> price]
SomeRulings ==
  { Ruling(TRUE, Keep, Keep), Ruling(FALSE, Keep, Keep), Ruling(Keep, "approved", Keep),
    Ruling(Keep, "rejected", Keep), Ruling(Keep, "pending", Keep), Ruling(Keep, Keep, 2) }
=============================================================================
