----------------------------- MODULE GreetingMC ------------------------------
(***************************************************************************)
(* A small instance of Greeting, and with it of Social, and the pages of   *)
(* every short list.                                                       *)
(***************************************************************************)
EXTENDS Greeting, Paging

CONSTANTS
  u1, u2, image, m0, m1, p1, p2

Ranks == <<3, 2, 1>>

\* Lists of candidates in the order of the database, each told apart by its place.
Lists ==
  UNION { {[i \in 1 .. n |-> [id |-> i, rank |-> r[i]]] : r \in [1 .. n -> {1, 2, 3}]} : n \in 0 .. MaxListed }

\* The candidates of a rank in that order.
OfRank(list, rank) ==
  LET Upto[k \in 0 .. Len(list)] ==
        IF k = 0 THEN <<>>
        ELSE IF list[k].rank = rank THEN Append(Upto[k - 1], list[k])
        ELSE Upto[k - 1]
  IN  Upto[Len(list)]

Ordered(list) == OfRank(list, 3) \o OfRank(list, 2) \o OfRank(list, 1)

\* Of a sequence those after the first offset, as far as a limit.
Part(s, offset, limit) ==
  SubSeq(s, offset + 1, IF offset + limit < Len(s) THEN offset + limit ELSE Len(s))

(***************************************************************************)
(* The pages of a list that does not change part it, in the order of ranks *)
(* and then of the database, so that each user is on one of them, whatever *)
(* their size; and there is more after a page just when the next one is    *)
(* not empty.                                                              *)
(***************************************************************************)
PagesAreTheList ==
  started = 0 =>
    \A list \in Lists, size \in 1 .. MaxListed + 1, n \in 1 .. MaxListed + 1 :
      /\ FetchPage(list, n, size, Ranks, MaxListed) = Part(Ordered(list), (n - 1) * size, size)
      /\ HasMore(list, n, size) <=> FetchPage(list, n + 1, size, Ranks, MaxListed) # <<>>
=============================================================================
