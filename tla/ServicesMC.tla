----------------------------- MODULE ServicesMC ------------------------------
(***************************************************************************)
(* Six components that share no state, checked side by side: `part' says   *)
(* which of them moves in a behaviour, and the others stay as they began.  *)
(***************************************************************************)
EXTENDS Withdraw, WithdrawAccount, AdminAccess, Ranking, CallTrace, Broadcasts

VARIABLE part

\* Databases the seed may meet: a new one; one of before the catalogs of finance
\* and reviews; one where both names of a page, and a retired page, are left.
Page(path, parent, page) == [path |-> path, parent |-> parent, page |-> page]

SomeMenus ==
  { <<>>,
    <<Page("/operation", 0, "Layout"), Page("business-ledger", 1, "business-ledger"),
      Page("anchor-apply-review", 1, "anchor-apply-review")>>,
    <<Page("/review", 0, "Layout"), Page("anchor-apply-review", 1, "anchor-apply-review"),
      Page("certification-review", 1, "certification-review"),
      Page("certified-call-price-config", 1, "certified-call-price-config")>> }

\* Nothing tells one request from another, whichever component serves it, nor one application.
Twins == Permutations(Requests) \cup Permutations(Applies)

servicesVars == <<part, vars, accountVars, accessVars, rankVars, traceVars, castVars>>

ServicesInit ==
  /\ part \in {"withdraw", "account", "access", "ranking", "trace", "broadcasts"}
  /\ Init /\ AccountInit /\ AccessInit /\ RankInit /\ TraceInit /\ CastInit
  /\ part # "access" => menus = <<>> /\ granted = <<>>

Moves(name, A) == part = name /\ A /\ UNCHANGED part

ServicesNext ==
  \/ Moves("withdraw", Next) /\ UNCHANGED <<accountVars, accessVars, rankVars, traceVars, castVars>>
  \/ Moves("account", AccountNext) /\ UNCHANGED <<vars, accessVars, rankVars, traceVars, castVars>>
  \/ Moves("access", AccessNext) /\ UNCHANGED <<vars, accountVars, rankVars, traceVars, castVars>>
  \/ Moves("ranking", RankNext) /\ UNCHANGED <<vars, accountVars, accessVars, traceVars, castVars>>
  \/ Moves("trace", TraceNext) /\ UNCHANGED <<vars, accountVars, accessVars, rankVars, castVars>>
  \/ Moves("broadcasts", CastNext) /\ UNCHANGED <<vars, accountVars, accessVars, rankVars, traceVars>>

ServicesSpec == ServicesInit /\ [][ServicesNext]_servicesVars
=============================================================================
