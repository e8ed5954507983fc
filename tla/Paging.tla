------------------------------- MODULE Paging --------------------------------
(***************************************************************************)
(* The pages of the lists of users (certified_user.py, flirt.py).  A list  *)
(* is ordered by availability first, which is in Redis, and within a rank  *)
(* by columns of the database; so each page walks through the candidates   *)
(* of the highest rank, then of the next, counting those it has seen until *)
(* the page's offset and taking the others until the page is full.         *)
(***************************************************************************)
EXTENDS Integers, Sequences

CONSTANT MaxListed       \* bound: length of the lists that are paged

ASSUME MaxListedIsNat == MaxListed \in Nat

\* A walk through the candidates: one of the rank is passed over or taken.
Full(walk, limit) == Len(walk.taken) >= limit

TakesAll(walk, offset) == walk.seen <= offset           \* mutant of PassesOver
PassesOver(walk, offset) == walk.seen < offset

Visit(walk, candidate, rank, offset, limit) ==
  IF Full(walk, limit) \/ candidate.rank # rank THEN walk
  ELSE IF PassesOver(walk, offset) THEN [walk EXCEPT !.seen = @ + 1]
  ELSE [seen |-> walk.seen + 1, taken |-> Append(walk.taken, candidate)]

\* fetch_rank: at most scanned candidates are looked at.
FetchRank(candidates, rank, offset, limit, scanned) ==
  LET last == IF scanned < Len(candidates) THEN scanned ELSE Len(candidates)
      Walk[k \in 0 .. last] ==
        IF k = 0 THEN [seen |-> 0, taken |-> <<>>]
        ELSE Visit(Walk[k - 1], candidates[k], rank, offset, limit)
  IN  Walk[last]

Less(offset, seen) == IF offset > seen THEN offset - seen ELSE 0

\* append_ranked_page: rank after rank, until the page is full.
AppendRank(page, candidates, rank, size, scanned) ==
  LET walk == FetchRank(candidates, rank, page.offset, size - Len(page.users), scanned)
  IN  IF Len(page.users) >= size THEN page
      ELSE [users |-> page.users \o walk.taken, offset |-> Less(page.offset, walk.seen)]

FetchPage(candidates, number, size, ranks, scanned) ==
  LET Page[k \in 0 .. Len(ranks)] ==
        IF k = 0 THEN [users |-> <<>>, offset |-> (number - 1) * size]
        ELSE AppendRank(Page[k - 1], candidates, ranks[k], size, scanned)
  IN  Page[Len(ranks)].users

HasMore(candidates, number, size) == Len(candidates) > number * size
=============================================================================
