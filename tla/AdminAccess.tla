----------------------------- MODULE AdminAccess -----------------------------
(***************************************************************************)
(* What the administrators of the back office may reach: the menu table,   *)
(* the table of API routes, the roles' grants of both, and the seed that   *)
(* an operator runs to bring an existing database to the current layout.   *)
(* The seed saves every menu and every grant on its own, so it may stop    *)
(* anywhere and be run again; administrators edit menus and roles between  *)
(* the runs, and an edit of a role's grants may itself stop half way.      *)
(***************************************************************************)
EXTENDS Integers, Sequences, FiniteSets, SequencesExt

CONSTANTS
  Routes,         \* the API routes the program registers
  Listed,         \* those the seed grants to every role
  Basic,          \* GET routes and those tagged as basic
  LedgerRoute,    \* the list of the business ledger
  Roles,          \* roles that may exist
  AdminRole, UserRole,
  OldMenus,       \* menu tables the seed may find at first
  Touched,        \* paths of the menus the administrators edit
  MaxEvents       \* bound on edits, and on seeds that stop

\* A menu table: rows by ids that are counted from one.
IsRow(row) == row = [path |-> row.path, parent |-> row.parent, page |-> row.page] /\ row.parent \in Nat
IsTable(t) == IsFiniteSet(DOMAIN t) /\ DOMAIN t \subseteq Nat \ {0} /\ \A i \in DOMAIN t : IsRow(t[i])

ASSUME MenusAreTables == \A t \in OldMenus : IsTable(t)

VARIABLES
  menus,          \* the menu table: id -> path, parent's id and page
  apis,           \* the routes of the api table
  granted,        \* for every existing role, the ids of its menus
  allowed,        \* and its routes
  step,           \* the step the seed is at, 0 when none runs
  seeded,         \* the last seed finished and nothing was edited since
  events          \* edits, and seeds that stopped, so far

accessVars == <<menus, apis, granted, allowed, step, seeded, events>>

-----------------------------------------------------------------------------
Layout == "Layout"      \* the page of a catalog

OperationChildren == <<"app-user", "call-record", "gift", "moment", "ranking",
                       "system-notification", "popup", "complaint", "feedback">>
ReviewChildren    == <<"certification-review", "profile-review", "withdraw-account",
                       "common-phrase-review">>
FinanceChildren   == <<"recharge", "business-ledger", "withdraw", "fee-bill",
                       "token-adjust-record">>
SettingsChildren  == <<"recharge-config", "withdraw-config", "initial-profile", "flirt-config">>
SystemChildren    == <<"user", "role", "menu", "api", "dept", "auditlog", "config">>

Catalogs == <<"/system", "/operation", "/review", "/finance", "/settings">>

ChildrenOf(catalog) ==
  CASE catalog = "/operation" -> OperationChildren
    [] catalog = "/review"    -> ReviewChildren
    [] catalog = "/finance"   -> FinanceChildren
    [] catalog = "/settings"  -> SettingsChildren
    [] catalog = "/system"    -> SystemChildren

First(ids)   == CHOOSE i \in ids : \A j \in ids : i <= j
NewId(table) == 1 + Max({0} \cup DOMAIN table)

RowsAt(table, path, parent) == {i \in DOMAIN table : table[i].path = path /\ table[i].parent = parent}
CatalogId(table, path) == First(RowsAt(table, path, 0))

Without(table, ids) == [i \in DOMAIN table \ ids |-> table[i]]

-----------------------------------------------------------------------------
\* A row is known by its place, or else a page by its path wherever it is.
Known(table, path, parent, page) ==
  IF RowsAt(table, path, parent) # {} \/ page = Layout THEN RowsAt(table, path, parent)
  ELSE {i \in DOMAIN table : table[i].path = path /\ table[i].page = page}

\* The row that is known is brought to the layout, an unknown one created.
EnsureMenu(table, path, parent, page) ==
  LET known == Known(table, path, parent, page)
      id    == IF known # {} THEN First(known) ELSE NewId(table)
      row   == [path |-> path, parent |-> parent, page |-> page]
  IN  [i \in DOMAIN table \cup {id} |-> IF i = id THEN row ELSE table[i]]

EnsureCatalog(table, catalog) == EnsureMenu(table, catalog, 0, Layout)

EnsurePages(table, paths, catalog) ==
  FoldLeft(LAMBDA rows, path : EnsureMenu(rows, path, CatalogId(table, catalog), path), table, paths)

\* The page that reviewed hosts becomes the review of certifications, or is
\* put aside when that one is there already.
RepairCertification(table) ==
  LET review  == CatalogId(table, "/review")
      legacy  == {i \in DOMAIN table : table[i].path = "anchor-apply-review"}
      taken   == RowsAt(table, "certification-review", review) # {}
      Repaired(i) == IF taken \/ i # First(legacy)
                     THEN [table[i] EXCEPT !.path = "legacy-certification-review",
                                           !.page = "certification-review"]
                     ELSE [path |-> "certification-review", parent |-> review,
                           page |-> "certification-review"]
  IN  [i \in DOMAIN table |-> IF i \in legacy THEN Repaired(i) ELSE table[i]]

-----------------------------------------------------------------------------
\* Parents of the layout: a role holds one exactly when it holds a child of it.
ParentRows(table) == {i \in DOMAIN table : table[i].path \in Range(Catalogs)}
HasChild(table, ids, parent) == \E i \in ids : table[i].parent = parent

ParentsAsTheyAre(table, ids) == ids       \* mutant of SyncParents

SyncParents(table, ids) ==
  {i \in ids : i \in ParentRows(table) => HasChild(table, ids, i)}
    \cup {i \in ParentRows(table) : HasChild(table, ids, i)}

-----------------------------------------------------------------------------
\* The seed in its order.
Task(name, path) == [do |-> name, path |-> path]

SeedPlan ==
  << Task("catalog", "/finance"), Task("ledger-page", "/finance"), Task("ledger", "none"),
     Task("catalog", "/system"), Task("retire", "none"), Task("pages", "/system"),
     Task("catalog", "/operation"), Task("catalog", "/review"),
     Task("catalog", "/finance"), Task("catalog", "/settings"),
     Task("certification", "none"),
     Task("pages", "/operation"), Task("pages", "/review"),
     Task("pages", "/finance"), Task("pages", "/settings"),
     Task("apis", "none"), Task("roles", "none"), Task("listed", "none"), Task("admin", "none") >>

Now == SeedPlan[step]

AccessInit ==
  /\ menus \in OldMenus
  /\ apis = Routes \ {LedgerRoute}
  /\ \E existing \in {{}, Roles}, ids \in SUBSET DOMAIN menus :
        /\ granted = [r \in existing |-> ids]
        /\ allowed = [r \in existing |-> {}]
  /\ step = 0 /\ seeded = FALSE /\ events = 0

SeedBegins ==
  /\ step = 0
  /\ step' = 1 /\ seeded' = FALSE
  /\ UNCHANGED <<menus, apis, granted, allowed, events>>

Proceed ==
  /\ step > 0
  /\ step'   = IF step = Len(SeedPlan) THEN 0 ELSE step + 1
  /\ seeded' = (step = Len(SeedPlan))
  /\ UNCHANGED events

Stops ==
  /\ events < MaxEvents
  /\ events' = events + 1
  /\ step' = 0
  /\ UNCHANGED seeded

SeedsMenu ==
  /\ Proceed
  /\ Now.do \in {"catalog", "ledger-page", "certification", "pages"}
  /\ menus' = CASE Now.do = "catalog"     -> EnsureCatalog(menus, Now.path)
                [] Now.do = "ledger-page" -> EnsurePages(menus, <<"business-ledger">>, Now.path)
                [] Now.do = "pages"       -> EnsurePages(menus, ChildrenOf(Now.path), Now.path)
                [] OTHER                  -> RepairCertification(menus)
  /\ UNCHANGED <<apis, granted, allowed>>

\* Every page is saved on its own: the seed may stop after some of them.
SeedsSomePages ==
  /\ step > 0 /\ Now.do = "pages"
  /\ \E k \in 1..Len(ChildrenOf(Now.path)) - 1 :
        menus' = EnsurePages(menus, SubSeq(ChildrenOf(Now.path), 1, k), Now.path)
  /\ Stops
  /\ UNCHANGED <<apis, granted, allowed>>

\* Every role is granted the ledger: its catalog, its page and its route.
SeedsLedger ==
  /\ Proceed
  /\ Now.do = "ledger"
  /\ LET finance == CatalogId(menus, "/finance")
         ledger  == First(RowsAt(menus, "business-ledger", finance))
     IN  granted' = [r \in DOMAIN granted |-> granted[r] \cup {finance, ledger}]
  /\ apis'    = apis \cup {LedgerRoute}
  /\ allowed' = [r \in DOMAIN allowed |-> allowed[r] \cup {LedgerRoute}]
  /\ UNCHANGED menus

\* Deleting a row takes the grants of it along.
Delete(ids) ==
  /\ menus'   = Without(menus, ids)
  /\ granted' = [r \in DOMAIN granted |-> granted[r] \ ids]

IsRetired(row) ==
  \/ {row.path, row.page} = {"im-text-billing"}
  \/ "certified-call-price-config" \in {row.path, row.page}

RetiresPages ==
  /\ Proceed
  /\ Now.do = "retire"
  /\ Delete({i \in DOMAIN menus : IsRetired(menus[i])})
  /\ UNCHANGED <<apis, allowed>>

Refresh ==
  /\ apis'    = Routes
  /\ allowed' = [r \in DOMAIN allowed |-> allowed[r] \cap Routes]

SeedsApis ==
  /\ Proceed
  /\ Now.do = "apis"
  /\ Refresh
  /\ UNCHANGED <<menus, granted>>

\* With no role there are two, which are granted all menus, and the seed ends;
SeedsRoles ==
  /\ step > 0 /\ Now.do = "roles"
  /\ DOMAIN granted = {}
  /\ granted' = [r \in {AdminRole, UserRole} |-> DOMAIN menus]
  /\ allowed' = [r \in {AdminRole, UserRole} |-> IF r = AdminRole THEN apis ELSE apis \cap Basic]
  /\ step' = 0 /\ seeded' = TRUE
  /\ UNCHANGED <<menus, apis, events>>

\* it may stop after the first of them, or grant neither of them anything.
SeedsRolesPartly ==
  /\ step > 0 /\ Now.do = "roles"
  /\ DOMAIN granted = {}
  /\ \E made \in {{AdminRole}, {AdminRole, UserRole}} :
        /\ granted' = [r \in made |-> {}]
        /\ allowed' = [r \in made |-> {}]
  /\ Stops
  /\ UNCHANGED <<menus, apis>>

\* Otherwise the parents of what the roles hold follow the new layout,
SyncsParents ==
  /\ Proceed
  /\ Now.do = "roles"
  /\ DOMAIN granted # {}
  /\ granted' = [r \in DOMAIN granted |-> SyncParents(menus, granted[r])]
  /\ UNCHANGED <<menus, apis, allowed>>

\* every role is granted the listed routes,
SeedsListed ==
  /\ Proceed
  /\ Now.do = "listed"
  /\ allowed' = [r \in DOMAIN allowed |-> allowed[r] \cup (Listed \cap apis)]
  /\ UNCHANGED <<menus, apis, granted>>

\* and the administrator's role everything.
SeedsAdmin ==
  /\ Proceed
  /\ Now.do = "admin"
  /\ granted' = [r \in DOMAIN granted |-> IF r = AdminRole THEN DOMAIN menus ELSE granted[r]]
  /\ allowed' = [r \in DOMAIN allowed |-> IF r = AdminRole THEN allowed[r] \cup apis ELSE allowed[r]]
  /\ UNCHANGED <<menus, apis>>

SeedStops ==
  /\ step > 1
  /\ Stops
  /\ UNCHANGED <<menus, apis, granted, allowed>>

-----------------------------------------------------------------------------
\* What every edit of an administrator has in common: no seed runs.
Edits ==
  /\ step = 0 /\ events < MaxEvents
  /\ events' = events + 1 /\ seeded' = FALSE
  /\ UNCHANGED step

\* Of the edit of a menu only its place matters here; any place will do.
UpdateMenu(i, parent) ==
  /\ parent # i
  /\ menus' = [menus EXCEPT ![i].parent = parent]
  /\ UNCHANGED <<apis, granted, allowed>>

CreateMenu(path, parent) ==
  /\ menus' = [i \in DOMAIN menus \cup {NewId(menus)} |->
                 IF i \in DOMAIN menus THEN menus[i]
                 ELSE [path |-> path, parent |-> parent, page |-> path]]
  /\ UNCHANGED <<apis, granted, allowed>>

DeleteMenu(i) ==
  /\ \A j \in DOMAIN menus : menus[j].parent # i
  /\ Delete({i})
  /\ UNCHANGED <<apis, allowed>>

\* The grants are cleared and added one by one, the menus before the routes:
\* when it stops half way the role keeps what was added so far.
Authorize(r, added, addedApis) ==
  /\ granted' = [granted EXCEPT ![r] = added]
  /\ allowed' \in {allowed, [allowed EXCEPT ![r] = addedApis]}
  /\ UNCHANGED <<menus, apis>>

DeleteRole(r) ==
  /\ granted' = [s \in DOMAIN granted \ {r} |-> granted[s]]
  /\ allowed' = [s \in DOMAIN allowed \ {r} |-> allowed[s]]
  /\ UNCHANGED <<menus, apis>>

CreateRole(r) ==
  /\ r \notin DOMAIN granted
  /\ granted' = [s \in DOMAIN granted \cup {r} |-> IF s = r THEN {} ELSE granted[s]]
  /\ allowed' = [s \in DOMAIN allowed \cup {r} |-> IF s = r THEN {} ELSE allowed[s]]
  /\ UNCHANGED <<menus, apis>>

DeleteApi(a) ==
  /\ apis'    = apis \ {a}
  /\ allowed' = [r \in DOMAIN allowed |-> allowed[r] \ {a}]
  /\ UNCHANGED <<menus, granted>>

RefreshApis ==
  /\ Refresh
  /\ UNCHANGED <<menus, granted>>

\* The rows the administrators touch.
Edited == {i \in DOMAIN menus : menus[i].path \in Touched}
Places == {0} \cup {i \in Edited : menus[i].parent = 0}

Seed ==
  \/ SeedBegins \/ SeedStops
  \/ SeedsMenu \/ SeedsSomePages \/ SeedsLedger \/ RetiresPages \/ SeedsApis
  \/ SeedsRoles \/ SeedsRolesPartly \/ SyncsParents \/ SeedsListed \/ SeedsAdmin

Edit ==
  /\ Edits
  /\ \/ \E i \in Edited : DeleteMenu(i) \/ \E parent \in Places : UpdateMenu(i, parent)
     \/ \E path \in Touched, parent \in Places : CreateMenu(path, parent)
     \/ \E r \in DOMAIN granted : \/ DeleteRole(r)
                                  \/ \E ids \in SUBSET Edited, routes \in {{}, apis} : Authorize(r, ids, routes)
     \/ \E r \in Roles : CreateRole(r)
     \/ \E a \in apis : DeleteApi(a)
     \/ RefreshApis

AccessNext == Seed \/ Edit

-----------------------------------------------------------------------------
\* The tree an administrator is shown has two levels: the roots among the
\* menus of the role, and the menus of the role that are under one of them.
ShownTo(r) ==
  LET roots == {i \in granted[r] : menus[i].parent = 0}
  IN  roots \cup {i \in granted[r] : menus[i].parent \in roots}

\* The pages of the layout that are in their catalog.
InPlace(catalog) ==
  LET parent == CatalogId(menus, catalog)
      paths  == Range(ChildrenOf(catalog))
  IN  {i \in DOMAIN menus : menus[i].parent = parent /\ menus[i].path \in paths}

(***************************************************************************)
(* Once a seed has finished, wherever earlier ones stopped and whatever    *)
(* administrators had made of the menus and the roles, every page of the   *)
(* layout is in its catalog, every page of it that a role holds is in the  *)
(* tree its members are shown, every route is known, and the               *)
(* administrator's role has all of them.                                   *)
(***************************************************************************)
SeedOpensTheLayout ==
  seeded =>
    /\ \A catalog \in Range(Catalogs) :
         LET pages == InPlace(catalog)
         IN  /\ Range(ChildrenOf(catalog)) \subseteq {menus[i].path : i \in pages}
             /\ \A r \in DOMAIN granted : granted[r] \cap pages \subseteq ShownTo(r)
    /\ apis = Routes
    /\ AdminRole \in DOMAIN granted => /\ granted[AdminRole] = DOMAIN menus
                                       /\ allowed[AdminRole] = Routes
=============================================================================
