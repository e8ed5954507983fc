------------------------------- MODULE Social --------------------------------
(***************************************************************************)
(* Who sees whom: blocks and follows (user.py, user_block_service), the    *)
(* moments with their review and the feed (moment.py, moments.py), and the *)
(* lists that are kept in Redis for a while: the users to leave out of a   *)
(* viewer's lists, the recommended users, and the system configuration     *)
(* (models/system_config.py).                                              *)
(*                                                                         *)
(* A cached list is read from Redis; if it is not there it is loaded from  *)
(* the database and then set, and a handler that changes the table deletes *)
(* the entry after its commit.  Between these steps any other handler may  *)
(* run, the process may die, and Redis may fail.                           *)
(***************************************************************************)
EXTENDS Integers, Sequences, FiniteSets

CONSTANTS
  Users, Media, None,
  Subjects,       \* what behaviours are about, some of "relations", "lists", "moments"
  Moments,        \* ids of moments that may be published
  FirstMoment,    \* a moment that is on show at the start,
  FirstAuthor,    \* and its author
  Procs,          \* requests that may be under way at the same time
  ListTTL,        \* ticks for which a list of users is kept
  ConfigTTL,      \* ticks for which the configuration is kept
  MaxStarted,     \* bound: requests begun
  MaxFailures     \* bound: requests that die and calls to Redis that fail

ASSUME FirstIsNew == FirstMoment \notin Moments /\ FirstAuthor \in Users
ASSUME NothingIsNoUser == None \notin Users \cup Moments \cup {FirstMoment}
ASSUME UsersAreNoNames == {"recommended", "config"} \cap Users = {}
ASSUME ProcsAreFinite == IsFiniteSet(Procs)
ASSUME TimesArePositive == {ListTTL, ConfigTTL} \subseteq Nat \ {0}

VARIABLES
  subject,        \* what the behaviour is about
  blocks,         \* the user_block rows, <<blocker, blocked>>
  follows,        \* the user_follow rows, <<follower, following>>
  recommended,    \* users with is_recommended
  open,           \* what the configuration lets every user do
  moments,        \* the moments rows
  media,          \* the moment each moment_media row is bound to
  page,           \* a pending moment as an administrator's page shows it
  cache,          \* the lists in Redis
  proc,           \* the requests under way
  started, failures,
  calm,           \* history: ticks since the table behind a list changed
  excused,        \* history: lists whose deletion was crossed, skipped or lost
  overtaken,      \* history: follows written although a block came first
  seen,           \* history: the media an administrator saw when approving
  hasty           \* history: moments whose page was loaded half published

tables == <<blocks, follows, recommended, open>>
shows  == <<moments, media, page, seen, hasty>>
counts == <<started, failures>>
past   == <<calm, excused, overtaken>>
vars   == <<subject, tables, shows, cache, proc, counts, past>>

Keys  == Users \cup {"recommended", "config"}
Rules == {"follow", "moment"}
Ids   == Moments \cup {FirstMoment}

TTL(k) == IF k = "config" THEN ConfigTTL ELSE ListTTL
Cap    == 2 + IF ListTTL > ConfigTTL THEN ListTTL ELSE ConfigTTL

\* The lists of a user's own relations: list_user_blocked, list_user_following, list_user_fans.
Blocked(u)   == {v \in Users : <<u, v>> \in blocks}
Following(u) == {v \in Users : <<u, v>> \in follows}
Fans(u)      == {v \in Users : <<v, u>> \in follows}

\* get_block_relation(...).interaction_blocked
Related(u, v) == v \in Blocked(u) \/ u \in Blocked(v)

\* What the profile of v tells u: get_user_public_profile, get_user_follow_status, get_user_block_status.
Profile(u, v) == [following |-> v \in Following(u), interactionBlocked |-> Related(u, v)]

\* What the database answers when the list k is loaded.
Source(k) ==
  CASE k = "recommended" -> recommended
    [] k = "config"      -> open
    [] OTHER             -> {v \in Users \ {k} : Related(k, v)}

NoMoment == [status |-> "none", owner |-> None, override |-> None]
Idle     == [op |-> "idle"]

\* A request: its user, what it is about, the lists it has yet to read and has read.
Request(op, u, what, step, keys) ==
  [op |-> op, by |-> u, what |-> what, step |-> step, keys |-> keys, got |-> {}, late |-> FALSE]

Init ==
  /\ subject \in Subjects
  /\ blocks = {} /\ follows = {}
  /\ recommended \in {{}, {FirstAuthor}} /\ open = Rules
  /\ moments = [m \in Ids |-> IF m = FirstMoment
                              THEN [status |-> "approved", owner |-> FirstAuthor, override |-> None]
                              ELSE NoMoment]
  /\ media = [x \in Media |-> None] /\ page = None
  /\ cache = [k \in Keys |-> None]
  /\ proc = [p \in Procs |-> Idle]
  /\ started = 0 /\ failures = 0
  /\ calm = [k \in Keys |-> Cap] /\ excused = {} /\ overtaken = {}
  /\ seen = [m \in Ids |-> {}] /\ hasty = {}

Starts(p, r) ==
  /\ proc[p] = Idle /\ started < MaxStarted /\ started' = started + 1
  /\ proc' = [proc EXCEPT ![p] = r]
  /\ UNCHANGED failures

At(p, op, step) == proc[p].op = op /\ proc[p].step = step
GoesTo(p, step) == proc' = [proc EXCEPT ![p].step = step] /\ UNCHANGED counts
Ends(p)         == proc' = [proc EXCEPT ![p] = Idle] /\ UNCHANGED counts

MayFail == failures < MaxFailures
Fails   == MayFail /\ failures' = failures + 1 /\ UNCHANGED started

-----------------------------------------------------------------------------
(* Lists in Redis *)

Reads(p) == proc[p] # Idle /\ proc[p].step = "read"
Key(p)   == Head(proc[p].keys)

\* The list is known; the next one is read, or the request goes on.
Gets(p, value) ==
  proc' = [proc EXCEPT ![p].got  = IF Key(p) = "recommended" THEN @ ELSE value,
                       ![p].what = IF Key(p) = "recommended" THEN value ELSE @,
                       ![p].keys = Tail(@),
                       ![p].step = IF Tail(proc[p].keys) = <<>> THEN "go" ELSE "read"]

Hits(p) ==
  /\ Reads(p) /\ cache[Key(p)] # None
  /\ Gets(p, cache[Key(p)].value)
  /\ UNCHANGED <<tables, shows, cache, counts, past>>

\* The list is not there, and is loaded.
Loads(p) ==
  /\ Reads(p) /\ cache[Key(p)] = None
  /\ proc' = [proc EXCEPT ![p].step = "loaded", ![p].got = Source(Key(p))]
  /\ UNCHANGED <<tables, shows, cache, counts, past>>

Sets(p) ==
  /\ proc[p] # Idle /\ proc[p].step = "loaded"
  /\ cache' = [cache EXCEPT ![Key(p)] = [value |-> proc[p].got, age |-> 0]]
  /\ Gets(p, proc[p].got)
  /\ UNCHANGED <<tables, shows, counts, past>>

\* Redis fails: the list is what the database says, and is not set.
LoadsAround(p) ==
  /\ Reads(p) /\ Fails
  /\ Gets(p, Source(Key(p)))
  /\ UNCHANGED <<tables, shows, cache, past>>

\* Some request has loaded a list and not yet set it.
Loaded(k) == \E p \in Procs : proc[p] # Idle /\ proc[p].step = "loaded" /\ Key(p) = k

\* The tables behind the lists ks change; skipped are the lists nobody will delete.
Changes(ks, skipped) ==
  /\ calm'    = [k \in Keys |-> IF k \in ks THEN 0 ELSE calm[k]]
  /\ excused' = excused \cup skipped \cup {k \in ks : Loaded(k)}

Invalidated(r) == r.what                                \* the lists a request deletes
OwnOnly(r)     == {r.by} \cap r.what                    \* mutant of Deleted
Deleted(r)     == Invalidated(r)

Invalidates(p) ==
  /\ proc[p] # Idle /\ proc[p].step = "invalidate"
  /\ cache' = [k \in Keys |-> IF k \in Deleted(proc[p]) THEN None ELSE cache[k]]
  /\ Ends(p)
  /\ UNCHANGED <<tables, shows, past>>

Feeds      == {"recommend", "latest", "following"}
Categories == Feeds \cup {"user", "people"}              \* what is read and shown, nothing written

\* Redis fails, or the process dies, before the lists are deleted or with anything else left to write.
Dies(p) ==
  /\ proc[p] # Idle /\ proc[p].op \notin Categories /\ Fails
  /\ excused' = IF proc[p].step = "invalidate" THEN excused \cup Invalidated(proc[p]) ELSE excused
  /\ proc' = [proc EXCEPT ![p] = Idle]
  /\ UNCHANGED <<tables, shows, cache, calm, overtaken>>

-----------------------------------------------------------------------------
(* Blocks and follows *)

Pair(u, v)    == {<<u, v>>, <<v, u>>}
OneWay(u, v)  == {<<u, v>>}                             \* mutant of Severed
Severed(u, v) == Pair(u, v)

\* block_user: one transaction, then the lists of both are deleted.
Block(p, u, v) ==
  /\ Starts(p, Request("block", u, {u, v}, "invalidate", <<>>))
  /\ blocks'  = blocks \cup {<<u, v>>}
  /\ follows' = follows \ Severed(u, v)
  /\ Changes(IF Related(u, v) THEN {} ELSE {u, v}, {})
  /\ overtaken' = overtaken \ Severed(u, v)
  /\ UNCHANGED <<recommended, open, shows, cache>>

Unblock(p, u, v) ==
  /\ Starts(p, Request("unblock", u, {u, v}, "invalidate", <<>>))
  /\ blocks' = blocks \ {<<u, v>>}
  /\ Changes(IF Related(u, v) /\ <<v, u>> \notin blocks THEN {u, v} ELSE {}, {})
  /\ UNCHANGED <<follows, recommended, open, shows, cache, overtaken>>

\* follow_user: the block relation is read, then the configuration, then the row is written.
Follow(p, u, v) ==
  /\ ~Related(u, v)
  /\ Starts(p, Request("follow", u, v, "read", <<"config">>))
  /\ UNCHANGED <<tables, shows, cache, past>>

FollowWrites(p) ==
  LET edge == <<proc[p].by, proc[p].what>>
  IN  /\ At(p, "follow", "go")
      /\ IF "follow" \in proc[p].got
         THEN /\ follows' = follows \cup {edge}
              /\ overtaken' = IF Related(edge[1], edge[2]) THEN overtaken \cup {edge} ELSE overtaken
         ELSE UNCHANGED <<follows, overtaken>>
      /\ Ends(p)
      /\ UNCHANGED <<blocks, recommended, open, shows, cache, calm, excused>>

Unfollow(u, v) ==
  /\ <<u, v>> \in follows
  /\ follows'   = follows \ {<<u, v>>}
  /\ overtaken' = overtaken \ {<<u, v>>}
  /\ UNCHANGED <<blocks, recommended, open, shows, cache, proc, counts, calm, excused>>

\* update_app_user with is_recommended: nothing deletes the list.
Recommend(users) ==
  /\ started < MaxStarted /\ started' = started + 1 /\ users # recommended
  /\ recommended' = users
  /\ Changes({"recommended"}, {"recommended"})
  /\ UNCHANGED <<blocks, follows, open, shows, cache, proc, failures, overtaken>>

\* An update of the configuration deletes the list,
Configure(p, rules) ==
  /\ rules # open
  /\ Starts(p, Request("configure", None, {"config"}, "invalidate", <<>>))
  /\ open' = rules
  /\ Changes({"config"}, {})
  /\ UNCHANGED <<blocks, follows, recommended, shows, cache, overtaken>>

\* the creation and the deletion of an entry do not.
CreateOrDeleteConfig(rules) ==
  /\ started < MaxStarted /\ started' = started + 1 /\ rules # open
  /\ open' = rules
  /\ Changes({"config"}, {"config"})
  /\ UNCHANGED <<blocks, follows, recommended, shows, cache, proc, failures, overtaken>>

-----------------------------------------------------------------------------
(* Moments *)

Bound(m) == {x \in Media : media[x] = m}
Pending(u) == \E m \in Ids : moments[m].status = "pending" /\ moments[m].owner = u

Publish(p, u, xs) ==
  /\ Starts(p, Request("publish", u, xs, "read", <<"config">>))
  /\ UNCHANGED <<tables, shows, cache, past>>

\* create_moment: the configuration and a pending moment refuse it,
PublishChecks(p) ==
  /\ At(p, "publish", "go")
  /\ IF "moment" \in proc[p].got /\ ~Pending(proc[p].by) THEN GoesTo(p, "create") ELSE Ends(p)
  /\ UNCHANGED <<tables, shows, cache, past>>

\* the moment is created,
PublishCreates(p) ==
  \E m \in Moments :
    /\ At(p, "publish", "create") /\ moments[m] = NoMoment
    /\ moments' = [moments EXCEPT ![m] = [status |-> "pending", owner |-> proc[p].by, override |-> None]]
    /\ proc' = [proc EXCEPT ![p].step = "bind", ![p].got = {m}]
    /\ UNCHANGED <<tables, media, page, seen, hasty, cache, counts, past>>

\* and then its media are bound to it; a moment deleted in between fails the foreign key.
PublishBinds(p) ==
  LET m == CHOOSE m \in proc[p].got : TRUE
  IN  /\ At(p, "publish", "bind")
      /\ media' = [x \in Media |-> IF x \in proc[p].what /\ moments[m].status # "gone"
                                   THEN m ELSE media[x]]
      /\ Ends(p)
      /\ UNCHANGED <<tables, moments, page, seen, hasty, cache, past>>

\* An administrator loads the page with a pending moment,
Looks(m) ==
  /\ moments[m].status = "pending"
  /\ page'  = [moment |-> m, media |-> Bound(m)]
  /\ hasty' = hasty \cup {h \in {m} : \E p \in Procs : At(p, "publish", "bind") /\ h \in proc[p].got}
  /\ UNCHANGED <<tables, moments, media, seen, cache, proc, counts, past>>

\* and decides on it: review_moment reads the status and writes it.
Review(p, verdict) ==
  /\ page # None /\ moments[page.moment].status = "pending"
  /\ Starts(p, Request("review", None, [moment |-> page.moment, media |-> page.media, verdict |-> verdict],
                       "write", <<>>))
  /\ UNCHANGED <<tables, shows, cache, past>>

Reviewed(p) == proc[p].what.moment

ReviewWrites(p) ==
  /\ At(p, "review", "write")
  /\ moments' = [moments EXCEPT ![Reviewed(p)].status = IF @ = "gone" THEN @ ELSE proc[p].what.verdict]
  /\ seen'    = [seen EXCEPT ![Reviewed(p)] =
                   IF proc[p].what.verdict = "approved" THEN @ \cup proc[p].what.media ELSE @]
  /\ Ends(p)
  /\ UNCHANGED <<tables, media, page, hasty, cache, past>>

\* delete_moment, of the author or an administrator: the media, then the moment.
Delete(p, m) ==
  /\ moments[m].status \notin {"none", "gone"}
  /\ Starts(p, Request("delete", None, m, "write", <<>>))
  /\ media' = [x \in Media |-> IF media[x] = m THEN None ELSE media[x]]
  /\ UNCHANGED <<tables, moments, page, seen, hasty, cache, past>>

DeleteWrites(p) ==
  /\ At(p, "delete", "write")
  /\ moments' = [moments EXCEPT ![proc[p].what] = [NoMoment EXCEPT !.status = "gone"]]
  /\ media'   = [x \in Media |-> IF media[x] = proc[p].what THEN None ELSE media[x]]
  /\ Ends(p)
  /\ UNCHANGED <<tables, page, seen, hasty, cache, past>>

\* recommend_moment, unrecommend_moment and clear_moment_recommend_override.
Override(m, value) ==
  /\ started < MaxStarted /\ started' = started + 1
  /\ moments[m].status \notin {"none", "gone"} /\ moments[m].override # value
  /\ moments' = [moments EXCEPT ![m].override = value]
  /\ UNCHANGED <<tables, media, page, seen, hasty, cache, proc, failures, past>>

\* get_moment_feed: whom u follows or the recommended users, then the users to leave out.
\* A feed is asked for where it tells something about the behaviour.
CategoriesFor ==
  CASE subject = "relations" -> {"latest", "following"}
    [] subject = "lists"     -> {"recommend"}
    [] subject = "moments"   -> {"recommend"}
    [] OTHER                 -> {}

Feed(p, u, category) ==
  /\ Starts(p, Request(category, u, IF category = "following" THEN Following(u) ELSE {}, "read",
                       IF category = "recommend" THEN <<"recommended", u>> ELSE <<u>>))
  /\ UNCHANGED <<tables, shows, cache, past>>

\* get_user_moments: the moments of one user.
UserMoments(p, u, v) ==
  /\ Starts(p, Request("user", u, {v}, "read", <<u>>))
  /\ UNCHANGED <<tables, shows, cache, past>>

\* certified_user_list, flirt_user_list: the users to leave out, and then a page of the others.
People(p, u) ==
  /\ Starts(p, Request("people", u, {}, "read", <<u>>))
  /\ UNCHANGED <<tables, shows, cache, past>>

Answers(p) == \E c \in Categories : At(p, c, "go")

InCategory(p, m) ==
  CASE proc[p].op = "recommend" -> \/ moments[m].override = TRUE
                                   \/ moments[m].override = None /\ moments[m].owner \in proc[p].what
    [] proc[p].op \in {"following", "user"} -> moments[m].owner \in proc[p].what
    [] OTHER                    -> proc[p].op = "latest"

Unrefused(m) == moments[m].status \notin {"none", "rejected", "gone"}  \* mutant of Approved
Approved(m)  == moments[m].status = "approved"

\* The moments a feed shows,
Rows(p) == {m \in Ids : /\ Approved(m) /\ InCategory(p, m)
                        /\ moments[m].owner \notin proc[p].got}

\* and the users a list shows: whoever passes its filters, and is not left out.
Listed(p) == IF proc[p].op = "people" THEN Users \ proc[p].got ELSE {}

FeedAnswers(p) == Answers(p) /\ Ends(p) /\ UNCHANGED <<tables, shows, cache, past>>

-----------------------------------------------------------------------------
LivesOn(k)  == TRUE                                     \* mutant of Lasts
Lasts(k)    == cache[k].age + 1 < TTL(k)

\* A tick passes; no request is under way for two of them.  Where moments are the
\* subject no list changes, and time need not pass.
TimePasses ==
  LET kept(k) == cache[k] # None /\ Lasts(k)
  IN  /\ subject # "moments"
      /\ \A p \in Procs : proc[p] # Idle => ~proc[p].late
      /\ proc'  = [p \in Procs |-> IF proc[p] = Idle THEN Idle ELSE [proc[p] EXCEPT !.late = TRUE]]
      /\ cache' = [k \in Keys |-> IF kept(k) THEN [cache[k] EXCEPT !.age = IF @ < Cap THEN @ + 1 ELSE @] ELSE None]
      /\ calm'  = [k \in Keys |-> IF calm[k] < Cap THEN calm[k] + 1 ELSE calm[k]]
      /\ excused' = {k \in excused : kept(k) \/ Loaded(k)}
      /\ UNCHANGED <<tables, shows, started, failures, overtaken>>

\* What goes on with a request that has begun,
Continues(p) ==
  \/ Hits(p) \/ Loads(p) \/ Sets(p) \/ LoadsAround(p) \/ Invalidates(p) \/ Dies(p)
  \/ FollowWrites(p) \/ FeedAnswers(p)
  \/ PublishChecks(p) \/ PublishCreates(p) \/ PublishBinds(p) \/ ReviewWrites(p) \/ DeleteWrites(p)

\* and the requests that may begin, by what a behaviour is about.
FeedBegins(p) ==
  \E u \in Users :
    \/ \E c \in CategoriesFor : Feed(p, u, c)
    \/ subject = "relations" /\ People(p, u)
    \/ subject = "relations" /\ \E v \in Users \ {u} : UserMoments(p, u, v)

RelationBegins(p) ==
  /\ subject = "relations"
  /\ \E u \in Users : \E v \in Users \ {u} :
       Block(p, u, v) \/ Unblock(p, u, v) \/ Follow(p, u, v) \/ Unfollow(u, v)

ListBegins(p) ==
  /\ subject = "lists"
  /\ \/ \E users \in SUBSET Users : Recommend(users)
     \/ \E rules \in {{}, Rules} : Configure(p, rules) \/ CreateOrDeleteConfig(rules)
     \/ \E u \in Users : \E v \in Users \ {u} : Follow(p, u, v)

MomentBegins(p) ==
  /\ subject = "moments"
  /\ \/ \E u \in Users, xs \in SUBSET Media : Publish(p, u, xs)
     \/ \E verdict \in {"approved", "rejected"} : Review(p, verdict)
     \/ \E m \in Ids : \/ Looks(m) \/ Delete(p, m)
                       \/ \E value \in {TRUE, FALSE, None} : Override(m, value)

RequestMoves ==
  \E p \in Procs : /\ \/ Continues(p) \/ FeedBegins(p) \/ RelationBegins(p)
                      \/ ListBegins(p) \/ MomentBegins(p)
                   /\ UNCHANGED subject

Next ==
  \/ RequestMoves
  \/ TimePasses /\ UNCHANGED subject

Spec == Init /\ [][Next]_vars

-----------------------------------------------------------------------------
(***************************************************************************)
(* Every variable has its type, and a page shows media there are.          *)
(***************************************************************************)
TypeOK ==
  /\ subject \in Subjects
  /\ blocks \subseteq Users \X Users /\ follows \subseteq Users \X Users
  /\ recommended \subseteq Users /\ open \subseteq Rules
  /\ \A m \in Ids : /\ moments[m].status \in {"none", "pending", "approved", "rejected", "gone"}
                    /\ moments[m].owner \in Users \cup {None}
                    /\ moments[m].override \in {TRUE, FALSE, None}
  /\ media \in [Media -> Ids \cup {None}]
  /\ page = None \/ (page.moment \in Ids /\ page.media \subseteq Media)
  /\ \A k \in Keys : cache[k] = None \/ (cache[k].value \subseteq Users \cup Rules /\ cache[k].age \in 0 .. Cap)
  /\ calm \in [Keys -> 0 .. Cap] /\ excused \subseteq Keys
  /\ overtaken \subseteq follows
  /\ seen \in [Ids -> SUBSET Media] /\ hasty \subseteq Ids
  /\ started \in 0 .. MaxStarted /\ failures \in 0 .. MaxFailures

Deleting(k) == \E p \in Procs : proc[p] # Idle /\ proc[p].step = "invalidate" /\ k \in Invalidated(proc[p])

(***************************************************************************)
(* A list in Redis that is not what the database says is one whose         *)
(* deletion is under way, or was crossed by a load, failed or forgotten;   *)
(* and it is behind for its time to live and one request at most, although *)
(* a slow request may set what it loaded before the change.                *)
(***************************************************************************)
CacheCatchesUp ==
  \A k \in Keys : cache[k] # None /\ cache[k].value # Source(k) =>
    /\ Deleting(k) \/ k \in excused
    /\ calm[k] <= TTL(k)

(***************************************************************************)
(* No profile shows a follow and a block at once, in either direction, and *)
(* nobody sees a fan whom they have blocked, unless the follow passed its  *)
(* check before the block: a block removes both follows, and no later      *)
(* follow is let through.                                                  *)
(***************************************************************************)
BlockedDoNotFollow ==
  \A u \in Users :
    /\ \A v \in Users : LET profile == Profile(u, v)
                       IN  profile.following /\ profile.interactionBlocked => <<u, v>> \in overtaken
    /\ \A v \in Fans(u) \cap Blocked(u) : <<v, u>> \in overtaken

(***************************************************************************)
(* A feed shows media that an administrator saw when approving the moment, *)
(* unless the page was loaded while the media were still being bound; and  *)
(* a moment of a user with a block between them, or such a user in a list  *)
(* of users, only for the time a list may be behind, and one request.      *)
(***************************************************************************)
FeedIsVetted ==
  \A p \in Procs : Answers(p) =>
    /\ \A m \in Rows(p) : m \in hasty \/ Bound(m) \subseteq seen[m]
    /\ \A v \in {moments[m].owner : m \in Rows(p)} \cup Listed(p) :
         Related(proc[p].by, v) => calm[proc[p].by] <= ListTTL + 1
=============================================================================
