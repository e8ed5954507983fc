# Formal verification of the 1v1 call platform

The repository is a paid 1v1 video-call product: a FastAPI backend
(`src/backend/app`) on a SQL database and Redis, run as several worker processes,
a Flutter client (`src/huanxi`) and a Vue administration client
(`src/backend/web`).  Users dial each other; the uncertified party pays coins by
the started minute, the certified one earns diamonds and withdraws them as money.

The modules here model the parts where several requests, workers, timers and
administrators act on the same rows, caches and keys.  `PROJECT.json` maps every
definition to the lines it models, and lists the runs, mutants, findings, hazards
and theorems.

Check a run with `tlc -config <file>.cfg <module>.tla`, and the proofs with
`tlapm <module>.tla` for each of the modules whose name ends in `Proofs`.

## 1. Inventory

Paths are below `src/backend/app` unless they say otherwise.

| Component | State | Operations | Hard behaviour | What makes it correct |
|---|---|---|---|---|
| Call lifecycle and billing: `api/v1/app/call.py`, `core/call_watchdog.py`, `services/service_fee_service.py`, `services/call_income_service.py` | `call_record` rows, `app_user.coins`, `.diamonds`, certification | dialing, accept, reject, cancel, end; watchdog: ring timeout, renewal, balance close, forced exit; settlement | five actors may end one call; bills computed from snapshots of different moments; refunds after renewals; rounding | one ending per call, coins and diamonds conserved, the bill fits the duration, no user in two calls, ringing ends |
| Call presence: `core/call_presence.py`, heartbeat of `websocket/router.py`, `_resolve_force_exit_decision` | Redis hash `call:presence:<id>`, 10 minutes | heartbeat (last seen, unmark), pass (read, clear, mark, commit) | heartbeats write without the lock that passes hold; the hash expires; Redis fails | a present party stays, an absent one is noticed, the end is when it was last seen |
| Watchdog leader: `websocket/manager.py`, `run_call_watchdog` | Redis key `watchdog:leader`, a local `is_leader` per worker | acquire, refresh, pass, crash | key expiry against slow loops, Redis errors | one leader, and always again one |
| Withdrawal: `api/v1/app/wallet.py`, `api/v1/withdraw/withdraw.py` | `withdraw_apply`, diamonds, frozen diamonds, Redis key | apply, review | review without a row lock, lost requests, Redis down | diamonds conserved, decisions final once nobody else reviews |
| Payout account: same files | `withdraw_account` row | save, list, review, use | every handler reads and later writes without a lock | paid only to details an administrator approved |
| Recharge and VIP orders, gifts, billed texts, adjustments: `wallet.py`, `recharge.py`, `vip_service.py`, `gift.py`, `im_text_billing_service.py` | order rows, records, balances, `vip_expires_at`, Redis keys | create, callback, mark paid, send, adjust | retries with one id, keys kept on failure, unlocked reads | each request counts once; records explain the balances |
| Ledgers: `business_ledger.py`, `fee_bill.py`, `wallet.py` transactions, `ranking_service.py` scores | queries | list, total | four queries over the same records | they tell the same story |
| WebSocket and online presence: `websocket/` | connections per worker, Redis online set, owner pid, lease | connect, replace, disconnect, lease refresh, drop, push, announce | reconnects across workers, lost pushes, unordered announcements | online while the newest connection lives; ends are heard; apps show what users are |
| Notifications, popups: `system_notification_service.py`, `system_popup_service.py`, their admin APIs | tasks, occurrences, receipts | create, publish, pause, resume, cancel, delete; pull, mark | pulls of several users create the same rows; schedules | one receipt per user and run; the runs of the calendar; what is due arrives |
| Certification, profile review, phrases: `app_users.py`, `profile_review_service.py`, `certification.py`, `common_phrase_service.py` | profile, applications with snapshots and items, certification, price | submit, review items, complete, edit, certify | handlers read on authentication and write later | shown only what was approved; final decisions; price only with certificate |
| Blocks, follows, moments, lists: `user.py`, `user_block_service.py`, `moment.py`, `moments.py`, `recommended_user_cache.py`, `certified_user.py`, `flirt.py` | relations, moments with media, cached lists in Redis | block, follow, publish, review, delete, feeds, pages | loads cross deletions of a cache; checks before writes | caches catch up; blocks sever; feeds show what was approved |
| Greeting quota: `flirt_greet_service.py` | Redis counter per day, cooldown | reserve, release, pause | midnight, failure after the reservation | at most the limit a day |
| Ranking: `ranking_service.py` | snapshot rows per period, Redis lock | read, refresh | lock expiry, Redis errors, waiting readers | a board is only replaced by a later one |
| Call traces: `call_trace_service.py` | claims in Redis, messages in the chat | append | several enders, retries, traces before the commit | users read of one end |
| Menus, roles, routes: `core/init_app.py`, `controllers/role.py`, `controllers/api.py`, `api/v1/menus`, `roles`, `apis` | menu, api, role tables | seed, edit | the seed saves row by row and may stop | every page a role holds can be reached |
| Configuration: `models/system_config.py` | key-value rows, cache | read, change | stale caches | values catch up |
| Flutter client: `src/huanxi/lib/modules/call` | call session, RTC | dial, answer, heartbeat | pushes lost, duplicated, late | only its heartbeat is modelled |
| TIM, RTC, authentication, middlewares, active pin, capability limits, complaints, feedback, departments, audit log, web client, migrations | single rows, external services | CRUD, signatures | none that this project aims at | not modelled |

Interaction.  A dial creates a pending `call_record`; accept makes it ongoing and
snapshots payer and fee rates.  From then on the clients' heartbeats
(every second) write `call:presence` and make a billing pass of their call; the
leader's watchdog makes the same pass of every call.  A pass renews, closes or
forces an exit; `call_end` ends the call as well.  Each of them settles: service
fee, then the certified user's diamonds, which withdrawals take out.  Every end
is pushed through the WebSocket workers, announced to whoever is online, and
traced in the chat.  The ledgers and boards add up what all of them recorded.

## 2. Modules

| Module | Models | Extends |
|---|---|---|
| `CallBilling` | the bill's arithmetic as operators | – |
| `CallContract` | abstract specification: what a call promises its parties | `CallBilling` |
| `CallLifecycle` | call records, coins and diamonds; one action per handler; implements `CallContract` | `CallBilling` |
| `CallLifecycleMC` | prices, balances and fee configurations of the runs | `CallLifecycle` |
| `SumProofs` | lemmas about sums over finite sets, and the least of some numbers, by induction over sets | `Functions`, `FiniteSetTheorems`, `TLAPS` |
| `CallLifecycleProofs` | theorems about calls, their bills, the fee loop, conservation of coins and diamonds, the refinement | `CallLifecycleMC`, `SumProofs` |
| `CallPresence` | the presence hash, heartbeats and passes of one call | – |
| `WatchdogLeader` | leader election of the worker processes | – |
| `WatchdogMC` | the two parts of the watchdog, side by side | `CallPresence`, `WatchdogLeader` |
| `WatchdogProofs` | theorems about presence and the election | `CallPresence`, `WatchdogLeader`, `TLAPS` |
| `Withdraw` | withdrawal applications and reviews | – |
| `WithdrawAccount` | the payout account of one user | – |
| `TokenLedger` | orders, gifts, texts, VIP, adjustments, and the reports over them | – |
| `LedgerProofs` | theorems about the ledger and the reports over it | `TokenLedger`, `SumProofs` |
| `WsPresence` | one user's connections over the workers, and the push of a call's end | – |
| `Broadcasts` | announcements of availability | – |
| `CallTrace` | traces of a call's end in the chat | – |
| `SystemTasks`, `SystemTasksMC` | notification and popup tasks, schedules, pulls | – |
| `ProfileReview`, `ProfileReviewMC` | profile, certification, phrases and their review | – |
| `ReviewProofs` | theorems about reviews | `ProfileReview`, `FiniteSetTheorems`, `SequenceTheorems`, `TLAPS` |
| `Social` | relations, moments, feeds, caches of lists and configuration | – |
| `Greeting` | the day's greetings | `Social` |
| `GreetingProofs` | theorems about `Social`, `Greeting` and `Paging` | `GreetingMC`, `SumProofs`, `SequenceTheorems` |
| `Paging` | the pages of ranked lists, as operators | – |
| `GreetingMC` | instance of `Greeting`; lists to page | `Greeting`, `Paging` |
| `AdminAccess` | menus, routes, roles' grants, the seed | – |
| `AdminProofs` | theorems about tasks, their calendar and the seed | `SystemTasks`, `AdminAccess`, `SumProofs` |
| `Ranking` | one board's snapshots and their refresh | – |
| `ServicesMC` | six components that share no state, side by side | `Withdraw`, `WithdrawAccount`, `AdminAccess`, `Ranking`, `CallTrace`, `Broadcasts` |
| `ServicesProofs` | theorems about withdrawals, payout accounts, announcements, traces, connections and boards | `Withdraw`, `WithdrawAccount`, `CallTrace`, `Broadcasts`, `WsPresence`, `Ranking`, `SumProofs`, `SequenceTheorems` |

### CallBilling, CallLifecycle and CallContract

`coins`, `diamonds`, `certified`, `normal` are columns of `app_user`, in
hundredths where the code has two decimals; `call` is the `call_record` table
with the columns the bill reads.  `now` is the wall clock in whole seconds.
`outlay` is a history variable: what other features took.

*Step size.*  Every handler runs in one transaction that locks the call's row
before it reads it (`select_for_update`), and takes coins only with an update
guarded by `coins >= n` or under the user's row lock.  So a transaction is one
action: `DialingIn`, `AcceptCall`, `AcceptTooLate`, `RejectCall`, `CancelCall`,
`CallEnd`, and the passes `CloseTimeoutPending`, `Renew`, `CloseBroke`,
`ForceExit`.  A pass of one call by a heartbeat
(`process_ongoing_call_billing_once`) is the same code as the watchdog's, hence
the same actions.  A batch of the watchdog is modelled as its calls one by one.

*Data.*  `ForceExit` takes any second old enough as the last seen one;
`CallPresence` models how it comes about.  `AcceptCall` takes any configured fee
snapshot.  The fee loop is the closed form `MinutesCovered`, compared with
the loop itself (`LoopOutcome`) by `LoopIsClosedForm`, in real seconds.  `Settled` is the final
adjustment and the income settlement; `Close` adds the top-up or refund.

*What the model makes explicit.*  A call without a payer has payer 0, and the
renewal treats it as a payer it does not find; `IncomeBps` has the fallback of a
zero rate; `EarnerOf` has the settlement's choice without a snapshot.

*The contract.*  `CallContract` knows no handlers, passes, fee loops or settlements:
a call rings (`Ring`) for two users who are not engaged, is answered or missed,
is metered while it runs, and is over (`HangUp`) as of a second it ran.  The
payer loses exactly what the bill grows by; the bill is at most the tariff of the
minutes owed; one party earns at most its share of the final bill.
`CallLifecycle` maps each record to its agreement (`Agreed`), and what users lost
and earned to their balances, and `KeepsContract` is the refinement
`Contract!Spec`: every handler and pass is one of those steps or a stutter.  It is
checked on a run and proved for all parameters (section 4).

### CallPresence

Ages in place of timestamps, saturating where nothing compares any more.  A
heartbeat is `BeatSeen` (HSET), `BeatUnmark` (HDEL and EXPIRE), then a pass; a
pass is `PassLock`, `PassRead`, `PassClear`*, `PassMark`*, `PassCommit`.  Redis
errors are `BeatFails` and `PassFails`; a party that leaves for good is `Leave`.
`Interval` bounds how long the watchdog is away, `Jitter` how long a client that is there
may be silent.  `Prompt` says that a started heartbeat and a started pass end
within their second.  It is an assumption, not a fact: a pass that stalls
between its read and its commit for longer than detection plus settling time can
end the call of a party that came back in between (`PresentIsNotForcedOut` fails with `Prompt = FALSE`).

### WatchdogLeader

`holder` and `age` are the key and its expiry, `isLeader` the local variable of
each worker's loop, `turn` the seconds of the current turn.  `Cycle` bounds a
turn (pass and sleep).  `PassRaises` is the exception handler of the loop, which
skips the refresh; `raises` counts, for each worker, its turns in a row that did not come to look at
the key, and `MaxRaises` bounds them: whatever fails turn after turn does not go
on for ever.

`WatchdogMC` puts both parts into one run: `part` picks which moves in a behaviour,
and behind the passes one worker is the leader throughout (`Elected`).

### Withdraw and WithdrawAccount

`withdraw_apply` holds the user's row from check to commit, so it is one action
(`ApplyAccepted`, `ApplyRefused`), with or without the idempotency key.  `withdraw_review`
is split where it can interleave: `ReviewCheck` (plain read), `ReviewMove` (the update
that locks the user's row), `ReviewCommit`; `ReviewLost` rolls back.  Any number of
reviews overlap, on one application too, and what comes of that is not excluded but
accounted for: `paidOut` and `repeated` are history variables with what administrators
confirmed to have paid, and with the amounts of decisions of what was already decided.

In `WithdrawAccount` every handler is split into its read and its write, and a
reviewer's page is state, because the details a review approves are those the page
showed.  Three variables are history: `vouched` has the details that administrators answer
for, `before` the saves that were under way when a page was loaded, and `outdated` the
pages under which one of those was written, or another administrator's review.

### TokenLedger

Two users' balances and the records that are to explain them.  A gift is its
unlocked reads (`GiftRead`), its key, and one transaction; a text is its lookup
and its transaction, whose insert fails when it is second; an order's callback
takes its key and then credits under the lock, `mark_paid` reads and later
writes; a password change writes back the whole row it read.  Calls and
withdrawals are single steps here, as their modules have them.  The reports are
operators over the records (`ListLedger`, `UserBill`, `FeeBill`, `Transactions`,
`BoardScore`), each translated from its own query, and `ReportsAgree` relates them.
The history variables `crossed` and `lapsed` mark what the properties except:
a write of a stale read, and a gift key that expired or could not be taken.

### WsPresence and Broadcasts

In `WsPresence` every call of Redis is a step which may fail and then ends the
procedure it belongs to: connecting (`Joining`) and leaving (`Leaving`) are
sequences of them, as are the reader's check of a lease and its drop of the user.
A worker may die with its memory; its keys stay until they expire.  The end of
the user's call is pushed once, through Redis to the workers that are subscribed,
and asked for by the app's heartbeats.  `Broadcasts` has the tasks that read a
user's availability anew and push it to whoever is online; reading and pushing
are steps that others separate.  Announcements are a set: any may be next.

### CallTrace

The committed record, the transaction that is ending the call (`closing`), traces
with their claim in Redis and up to three attempts.  Two of accept's traces start
before its commit, and `Rollback` may undo it.

### SystemTasks

An administrator's handler reads the task's row and later writes all of it; two may
overlap.  A pull reads the running tasks, creates the notification of each run that
is due (unique by its run key), then the receipt, one query after another, and may
be cut short.  The schedule's search for the next run is translated as it is
written, and `RunsAreTheCalendar` compares it with a calendar that is not searched
but defined.  Notifications and popups share everything but what `IsPopup` selects.
Nothing in the repository calls `publish_due_*`, so tasks reach users by pulls only.

### ProfileReview

A behaviour is about one subject: the profile with its album and applications, the
certification with its price, or a phrase.  Handlers are split where they read and
where they write; what they write is named columns.  Requests carry the user's row
as of their authentication.  `vetted` is history: what an administrator approved.
`raced` marks that a handler wrote what another had changed since it read.

### Social, Greeting and Paging

`Social` has the three caches (`blocked users`, `recommended users`, `configuration`)
with one protocol: read the entry, load from the database, set; a change deletes
the entry after its commit.  Requests that answer feeds and lists take those steps,
so that answers may be behind.  `calm` counts the ticks since a table changed, and
says how far.  Follows check blocks before they write; publishing checks, creates
and binds media in three steps.  `Greeting` extends it with `flirt_greet`: the script
takes a greeting under the day's key, the targets are found with the cached blocks,
and the greeting is given back, or sent and followed by a pause.  `Paging` is the walk through the
ranked candidates, candidate by candidate and rank after rank, as recursive functions.
`GreetingMC` defines what the pages should be: parts of the list in order.

### AdminAccess, Ranking and ServicesMC

`AdminAccess` has the menu table, the routes and the roles' grants.  The seed is a
list of steps (`SeedPlan`), each of which may stop half way; administrators edit
between seeds, and an edit of a role's grants may stop half way too.  `Ranking` has one
board per period, its lock, and requests that find a fresh board, wait for another's,
or refresh.  `ServicesMC` puts six components that share no state into one run:
`part` picks which moves in a behaviour.

## 3. Runs

| Run | Shows |
|---|---|
| `services_one` | `FrozenBacksPending`, `DiamondsConserved`, `SettledIsFinal` with two reviews at a time of two applications; `PayoutWasSeen` with two saves and two administrators; `SeedOpensTheLayout`; `BoardAdvances`; `OneEndIsTold`; `ShownIsActual` |
| `call_bill` | `CoinsConserved`, `DiamondsBacked`, `BillMatchesDuration`, `EndedIsFinal`, `KeepsContract` on one call of two users, with recharges, other spending, certification and account changes; `LoopIsClosedForm` |
| `call_serve` | `OneCallPerUser`, `PendingEnds`, `OverdueIsBilled` on three users and two calls |
| `watchdog_one` | `PresentIsNotForcedOut`, `EndsAtLastSeen`, `LeftCallEnds`, with one Redis error; `OneLeader`, `SomeoneLeads`, with a Redis error, a raising pass and a crash |
| `ws_one` | `NewestKeepsOnline`, `AbandonedFades`, `EndIsHeard` with two connections, two workers, a Redis error and a crash |
| `ledger_one` | `LedgerExplains`, `CountedOnce`, `ReportsAgree`, `OrderIsCredited` |
| `tasks_one` | `ToldOnce`, `RunsAreTheCalendar`, `DueArrives` for notifications and popups |
| `review_one` | `OnlyVettedIsShown`, `CompletedIsFinal`, `PriceNeedsCertificate` |
| `social_one` | `CacheCatchesUp`, `BlockedDoNotFollow`, `FeedIsVetted`, `GreetsAreCounted`, `PagesAreTheList` |
| `withdraw_two` | violated: `DecisionIsFinal` with two reviews at a time |
| `account_two` | violated: `AccountDecisionIsFinal` with two administrators |
| `call_unpaid` | violated: `UnpaidNeverBroke` |

The violated properties state what a comment or a message of the repository
says; section 6 explains them.

Most modules also have their types as `TypeOK` (`AccountTypeOK`), which hold in every
state of the runs.  Those of `CallLifecycle`, `Withdraw`, `WithdrawAccount`,
`CallPresence`, `WatchdogLeader`, `WsPresence` and `TokenLedger` are proved, as theorems or as parts of
an inductive invariant, and no run repeats any: an operator
applied outside of its types stops TLC anyway.

*Bounds.*  In the call runs a minute has three seconds and the clock stops at
`Horizon`: `call_bill` reaches eight seconds, so a call can owe three minutes,
pay two with fees and fail to pay the third; balances are chosen so that half a
minute's price is left and the fee takes part of it.  Two users suffice for the
bill, since no action but certification concerns a third; three users and two
calls suffice for two parties to compete for one.  `MaxOutlay` bounds what other
features take, both between renewals and before a settlement.  `LoopIsClosedForm`
uses sixty seconds a minute and the real free seconds (10) among others.
`call_serve` has a minute of two seconds, so that a second renewal falls due
within its five, and no fee, on which none of its properties depends.

In `watchdog_one` detection, settling and expiry keep their order (1 < 3 < 9 for
the default 3, 5 and 600 seconds), heartbeats come two seconds apart at worst,
and every age above the largest compared one is one value; the
leader's key lives 7 and a turn takes at most 2, which leaves room for the one raising
pass the run allows.  In `ws_one` the lease outlives the heartbeat timeout, as in
the code, two connections suffice for an old one to leave after a newer one came,
on the same worker or on the other.

`services_one`: two applications of two users, so that one user holds both while two
reviews are under way, of both or of one of them; two details of a payout
account, those a page shows and those behind it, with two saves and two pages, since
what one administrator does not see takes a second one or a second save.
Applications are alike, and so are requests of one kind (`Twins`).
`MaxEvents` bounds the edits and the seeds that stop, two of which
suffice for a seed to meet what an edit left of an earlier one; the databases
a seed may meet are a new one, one of before the catalogs of finance and reviews, and
one where both names of a page and a retired page are left.
A ranking's time counts half lives of a snapshot, and `Horizon` reaches into a second
period.  `MaxTries` is the code's three attempts.  `MaxChanges` and `MaxMidway`
let two announcements of one user overlap with two changes.

`ledger_one` begins at most three operations (`MaxStarted`), of all kinds, so that
any three overlap or follow each other; `MaxDay` is beyond the days of both VIP
orders.  `tasks_one` counts two parts of a day, weeks of two days and months of two
and one, so that the second day of a month is missing in every other one; it
compares the calendars up to `Horizon` and runs pulls and handlers up to
`MaxTime`.  `MaxBackfill` is 2 where the code has 30.  `review_one` lets five
handlers begin (`MaxStarted`): a submission, two reviews of it, an edit and a new
submission.  `social_one` has two requests at a time, of three in all, over entries that live
one and two ticks, with one death or Redis error; time does not stop there, since ages
saturate above the largest that is compared.  The lists
that are paged have up to four candidates (`MaxListed`), in every order of their three ranks, and pages of up to five.

Clocks that stop and bounded counters are why runs do not check for deadlock.

*Fairness.*  `call_serve`: the clock, and the passes of a leader that runs; no
user and no heartbeat is fair.  `watchdog_one`: the clock, the loop of the
watchdog, the steps of a started heartbeat or pass and the row lock (strongly,
since a database serves waiters), and a client that is there going on with its
one-second timer; in the election the clock and each live worker's loop.
`ws_one`: the clock, the steps of a handler that runs, a listener that reconnects
(its loop does), a connection that sends its heartbeats or leaves.  `ledger_one`:
the gateway that goes on reporting an order it has no answer for, a request
under way, and the expiry of its key.  `tasks_one`: an app goes on pulling (it does so when
it is opened and by a timer), and is not cut short for ever.  `Withdraw!Spec`: a
review that was checked goes on to its commit; no property of a run needs it.
Nothing else is fair: no user need ever answer, end or leave a call.

## 4. Proofs

`tlapm` proves the theorems below for all values of the constants that satisfy
the modules' assumptions.  A theorem that needs more says so as a hypothesis.

| Theorem | Property | Hypothesis |
|---|---|---|
| `CallLifecycleProofs!CallInvariant`, `TypeCorrect` | no balance below zero, every record of its type | – |
| `CallLifecycleProofs!BillFitsDuration` | `BillMatchesDuration` | – |
| `CallLifecycleProofs!EndedStays` | `EndedIsFinal` | – |
| `CallLifecycleProofs!NoUserInTwoCalls` | `OneCallPerUser` | – |
| `CallLifecycleProofs!NoCoinIsLost` | `CoinsConserved` | – |
| `CallLifecycleProofs!DiamondsAreIncomes` | `DiamondsBacked` | – |
| `CallLifecycleProofs!HandlersKeepContract` | `KeepsContract` | – |
| `CallLifecycleProofs!LoopIsClosed`, `FeeLoopIsClosed` | `LoopIsClosedForm`, for every balance, fee and number of minutes | – |
| `ServicesProofs!WithdrawTypes` | no diamonds below zero | – |
| `ServicesProofs!FrozenIsPending` | `FrozenBacksPending` | – |
| `ServicesProofs!NoDiamondIsLost` | `DiamondsConserved` | – |
| `ServicesProofs!SettledStays` | `SettledIsFinal` | – |
| `ServicesProofs!PaidWasSeen` | `PayoutWasSeen` | – |
| `ServicesProofs!AppsShowUsers` | `ShownIsActual` | – |
| `ServicesProofs!OneEndIsRead` | `OneEndIsTold` | – |
| `ServicesProofs!WsTypesKept` | the types | – |
| `ServicesProofs!NewestStaysOnline` | `NewestKeepsOnline` | `LeaseOutlives` |
| `ServicesProofs!BoardsGoForward` | `BoardAdvances` | – |
| `WatchdogProofs!LeaderTypes` | the types | – |
| `WatchdogProofs!OneLeaderAtATime` | `OneLeader` | `KeyOutlivesTurns` |
| `WatchdogProofs!PresenceTypes` | the types | – |
| `WatchdogProofs!StutteringIsNotLeaving` | `PresentIsNotForcedOut` | `Tolerant` |
| `WatchdogProofs!EndIsNotForgotten` | `EndsAtLastSeen` | `Attended` |
| `LedgerProofs!PaidOnce` | `CountedOnce` | – |
| `LedgerProofs!BalancesAreExplained` | `LedgerExplains` | – |
| `LedgerProofs!ReportsTellTheSame` | `ReportsAgree` | – |
| `GreetingProofs!GreetingIsCounted` | `GreetsAreCounted` | – |
| `GreetingProofs!BlockSeversFollows` | `BlockedDoNotFollow` | – |
| `GreetingProofs!CacheIsNotFarBehind` | `CacheCatchesUp` | – |
| `GreetingProofs!FeedShowsVetted` | `FeedIsVetted` | – |
| `GreetingProofs!PagesPartTheList` | `PagesAreTheList` | – |
| `AdminProofs!RunIsToldOnce` | `ToldOnce` | – |
| `AdminProofs!CalendarIsKept` | `RunsAreTheCalendar` | – |
| `AdminProofs!LayoutIsOpened` | `SeedOpensTheLayout` | – |
| `ReviewProofs!ShownIsVetted` | `OnlyVettedIsShown` | – |
| `ReviewProofs!CompletedOnce` | `CompletedIsFinal` | – |
| `ReviewProofs!PriceHasCertificate` | `PriceNeedsCertificate` | – |

The hypotheses are what section 6 says the code does not enforce, and each is
met by the constants of a passing run:

* `KeyOutlivesTurns`: `Cycle * (MaxRaises + 2) < TTL`, the rest of the turn of one look
  at the key, the turns in a row that raise, and the turn of the next look.
* `Tolerant`: `Prompt`, `Jitter < Settle`, and one Redis call that fails at most.
* `Attended`: `Prompt`, and `Longest(MaxFailures) + Interval < KeyTTL`, where `Longest`
  is the longest that passes find nothing to write: until both parties are stale and
  the marks settled, and for each failing call another round of the watchdog
  and another detection time.  With the code's 3, 5 and 600 seconds and the default
  interval that is far below; with a poll interval of ten minutes it is not.
* `LeaseOutlives`: `Timeout < LeaseTTL`, the 75 seconds the router waits for a message against
  the 120 seconds of a lease.

Assumptions on constants are those of the modules: the sets that are summed over or
counted are finite (`CallsAreFinite`, `AppliesAreFinite`, `ProcsAreFinite`, `EarnersAreIds`: rows
and requests are), markers for "nothing" are no values
(`NoUserIsNew`, `NoOneIsNew`, `NoneIsNoSettlement`, `NothingIsNoUser`), a user is no key of
another list (`UsersAreNoNames`), the menus a seed meets are a finite table whose ids are counted from
one (`MenusAreTables`), the schedules compared are what the form admits, on a
calendar with months enough for a run after the last time compared and after their start
(`CalendarsAreSchedules`; the code's calendar has no end), a trace is sent at least once (`TriesArePositive`), users of a
board are ranked by number (`EarnersAreIds`), and names are told from photos (`ContentsAreApart`: the
code's review items carry the field they are about).  `EditsAreForms` says what a form may hold.

*Sums.*  `SumProofs` relates the folds of the library to their first element
(`SumIsIteration`), and shows that what a sum comes to does not depend on the
order: a sum over a finite set changes by what its one changed term changes
(`SumChanges`, `TotalChanges`), is a number, is zero of zeros, and is the sum of its parts
(`SumOfUnion`), of what its terms are mapped to one by one (`SumOfImage`), and of the
terms that are not zero (`SumOfSome`).  The induction
over finite sets is a least counterexample: strict inclusion is well-founded
on the finite subsets of a set (`FS_StrictSubsetOrderingWellFounded`), so of the
subsets a claim fails for there is a minimal one.

*The invariant of calls.*  `BillMatchesDuration` is not inductive: that a refund
reduces the bill to what was owed needs that the record's fee was never more
than its processed minutes cost; that a renewal's charge keeps
`deducted = minutes * price` needs it before; that an unconnected call settles
to nothing needs that nobody has paid yet.  `IInv` adds to the types, for every
call that has not ended, `OpenBill` (deducted is minutes times price, the fee is
at most that of the processed minutes, these are at most the chargeable ones, and
an ongoing call's minutes are at most those its time owes), and for every ended
one `FinalBill`.  The handlers' lemmas (`DialingKeeps`, `AcceptKeeps`, `RenewKeeps`, `ForceExitKeeps`,
...) each show that one record is replaced by a good one, and
`OneRecordChanges` that this keeps `IInv`; `CloseKeeps` is shared by the three
ways a running call ends.  The arithmetic they need (quotients and products are
monotonic, the fee loop never takes more than the balance) is stated once at the
top of the module.

*The fee loop.*  `LoopOutcome` is a function of the minute, `MinutesCovered` a quotient.
Of the minutes for which they differed there would be a least (`LeastOfSome`, from the
same well-foundedness as the sums); it is not zero, and the minute before it leads to it,
because one minute more is charged exactly if the balance that is left covers it (`ClosedGoesOn`).

`EndedStays` needs only that every action's guard refuses an ended record
(`StepAdvances`).  `NoUserInTwoCalls` follows from the dial's guards and from
`StepAdvances`: no other action makes a call active or changes its parties.

*Conservation and the contract.*  `MInv` adds what the bill does not need: a
call that has not ended is not settled, and an active one has users as parties
and no other earner.  Under it each handler is one of five kinds of step of one
call, `Dials`, `Misses`, `Answers`, `Meters`, `HangsUp`, or happens `Elsewhere`.  A
kind says what the step does to the record, and to the two balances by
exactly as much.  Conservation follows kind by kind from `TotalChanges`; so does the
refinement, since a kind is a step of `CallContract` under the mapping `Agreed`, where
what a user lost and earned are the sums that conservation has shown to be the balances.

*The invariants of reviews.*  A review past its check works on an application that
exists and has a user.  Reviews of one user's applications, of the same one too, take the
user's row in turn (`LockedByMover`).  The books are kept user by user: those of a user whose row
nobody has locked are balanced (`UnlockedIsBalanced`); those of a locked one were, before the
review that holds the row moved its amount (`LockedIsMoved`), and there `ReviewLost` goes back to.  A
commit of a pending application takes its amount out of what is pending; one of a decided
application adds it to `repeated`, and `frozen`, which has less by then, is no longer exact but
never too much.  For the account, the row is pending and as the page shows it while the page is not
outdated (`SeenAsIs`), because no save can begin then and those that began earlier are
known (`SavesAreEarlier`).

*The invariant of the election.*  A worker that takes itself for the leader has its
pid in the key, and the key's age is at most `Cycle` for each turn the worker began
since it looked, and what passed of the current one (`HoldsInTime`).  So the key cannot
have expired when another tries.

*The invariants of presence.*  The row's lock is held by whoever reads or writes,
and its snapshot is of this second.  A party that is there is marked as
left only for as long as it was silent, or while a heartbeat of its is on the way to take the mark back
(`MarkOK`); the only Redis failure is the one that can leave it standing.  For the
end's second, the hash's age is bounded by what the passes may find nothing to write for
(`Kept`), and while it is, each field is known, or older than the hash by
detection at least (`SilentOK`), so that the watchdog's next pass
marks or ends (`LongestIsEnough`).

*The invariants of the ledger.*  `CountInv`: while the gift's key lives and did not
lapse, one try at most was let through it; credits are one exactly if the order is paid;
and the VIP days used and left are those of the paid orders.  `LedgerInv`: the list of all rows
is finite and nets to the balances.  Each step that moves coins or diamonds adds one
row that the list did not have before (`Adds`), which is where the identity of rows
matters: a gift or a text is told from others by its request (`OneGift`, `OneText`).

*The reports.*  The rows of the ledger are named one by one (`InRows`), and so are the
rows of every other report.  A user's bill finds the other party of a call in the row it has where
the ledger asks for the payer (`BillIsLedger`), and the app's list differs from
the ledger by what the property says (`TransactionsAreLedger`).  What boards and the fee bill add
up are sums over records; they are the sums over those records' rows, since rows carry their
record's id and so no two records share one (`SumOfRecords`).  The folds of the library take a
LAMBDA; they are related to sums of functions first (`BoardSums`, `FeeSums`).  `GiftsInv` adds that
gifts are finitely many, and that no fee was taken that was not due.

*The invariant of announcements.*  `CastInv`: of a user who is not `crossed`, either a reading is
still to be made or an announcement under way will make one (`Unread`), or the latest reading
is what the user is, and every app shows it or has it coming (`Announced`).  While a call's end is not
committed, both its parties are still to be read.

*The invariant of traces.*  A phase is sent by the one trace that claimed it, and heard
no more often than that trace has tried (`SentByOne`).  Of a call whose transaction was not
undone, what was told and is to be told are ends of one kind, which fits the record or the
transaction that is ending it (`TellsTruth`).

*The invariant of connections.*  While nobody raced and no call of Redis failed (`Calm`):
a connection on its way in meets none on its way out and no reader about to drop the user; one
that leaves is not its worker's current one; and if the last owner's current connection is open, the user is
online, the owner's key names it, the lease is no older than its silence, and nobody is past the check
of the owner (`ConnParts`).  `LeaseOutlives` is what keeps the lease from expiring under a silent app.

*The invariant of boards.*  Unless somebody was `loose`, whoever has computed a board holds the lock, and
knows at least what the board there is says (`KnowsMore`); scores only grow within a
period.  That a computed board misses nobody needs that it is sorted by counting: the ranks
of its users are an injection into as many places, hence onto (`RankedIsAll`).

*The invariants of lists, follows, moments and greetings.*  `ProcsOK` is the shape of a request under way.
`CountInv`: the counter, with what midnight shifted, is what was sent, is held
by requests or was lost with them.  `FollowInv`: a follow between users with a block
is one that overtook it.  `ListInv`: a loaded list that is behind is excused, and was loaded at most a tick ago;
a cached one that is behind is being deleted or excused, and its source was
calm for no longer than the entry is old.  `MomentInv`: an approved moment's media were all seen by
who approved it, or it is `hasty`; a page and a review under way
show all media or of a hasty moment; and one request at most still binds media
to a moment.

*The pages.*  What a walk has met of a rank's candidates decides what it has counted and taken
(`Met`, `VisitMeets`, `WalkMeets`), and the candidates of one more rank are put after those
before, whether the page begins before them, among them or after them (`PartOfConcat`, `RankIsAppended`).
Each candidate has one of the ranks, so the order has all of them (`OrderedIsAll`), and a page is
empty just if the list ends before it.  The inductions go from a number to the next
(`StepByStep`), over sets of numbers.

*The invariant of tasks.*  `NotesInv`: notifications are told apart by their ids, which are counted,
and by their runs, and a pull that is about to give a receipt has found or made its
notification.  Receipts are a set, as the table has a unique key, so the rest is
that two notifications never share a run.

*The calendar.*  A time is a day and a part of it (`TimeOfDay`), so the next run is the schedule's part
of the first suitable day on which that part is still to come (`NextIsOnDay`).  That day is
today or tomorrow, within a week since a weekday comes back after a week and no earlier
(`SameWeekday`), or in the first month that has the day, since every day is in
one month (`DayHasMonth`, `MonthsInOrder`).  The loop over the runs has a closed form: those of the
times after a run that the end admits and that fewer than `max_runs` others come before (`Made`).  Of the
runs for which the loop differed from it there would be one with the least time left, which
ends the loop or leads to a later one (`LoopMakes`); from the first run on the closed form is what the calendar
promises (`MadeIsPromised`).

*The invariant of the seed.*  `SeedInv`: before each step of the plan the catalogs and pages of the steps
before it are there (`LayoutAt`), and after the routes and the roles so are their grants
(`GrantsAt`); a seed that has finished has done all of it (`Opened`).  A catalog is known by its
first row, so a step must not put another row before it: new ids are above all others
(`NewIdIsNew`), and what is saved for a page has that page's path (`OnlyPaths`), which is no other's
(`PathsAreApart`).  The pages of a catalog are a fold over a list: `WalkExists` builds the
table after each page, and a least counterexample shows that every page is there in the end
(`PagesAdded`).  That a role sees the pages it holds needs that it holds their catalog, which
`SyncParents` adds to whoever holds a page of it (`SyncedAreShown`).

*The invariants of reviews of profiles.*  `PriceInv`: a handler that sets a price has
normalised it for the certificate it read.  `ApplyInv`: a review under way
has read an application that was not completed; unless somebody raced, that is the application as it
is, so the one that completes it finds its count at zero, and a user who applies has none open.
`VettedInv`: what a row shows is approved, in the table and in every copy a handler has read;
an application would grant only what was shown before it (its snapshot) or an item whose approval has been
recorded, again in the table and in every copy, so that a stale copy may undo decisions but never
show what nobody approved.  A form saves at once only what the row had (`DirectIsShown`).  What is
left of an album is defined by counting the kept positions (`Kept`), and `KeptAre` shows that it is a list of exactly
those photos: the ranks of the kept positions are an injection into as many numbers, hence onto.

## 5. What is only model-checked

* Liveness, out of the prover's reach: `PendingEnds`, `OverdueIsBilled`,
  `LeftCallEnds`, `SomeoneLeads`, `AbandonedFades`, `EndIsHeard`, `OrderIsCredited`,
  `DueArrives`.

## 6. Findings

1. `withdraw_two` - `withdraw_review` reads the application without a row lock;
   of two simultaneous reviews the second overwrites the first decision, and
   the diamonds are unfrozen twice.
2. `account_two` - `withdraw_account_review` does the same to a payout account, whose
   second review its own message rules out.
3. `call_unpaid` - a call of two uncertified users, documented as not billed,
   ends as `balance_empty` once its first minute is due.

*Where passing properties end.*  Some hold only under a bound of their run, or with
an exception in the property, that the code does not enforce.  Widening the bound,
or dropping the exception, gives the counterexample.

Calls and money:

* A certification between dialing and accept can make one user payer and
  earner of a call (payer and earner are snapshots of different moments), and a configured
  income fee rate of zero falls back to the payer's rate (`IncomeBps`).  No
  property here forbids either; the contract only bounds what is earned.
* `DiamondsConserved` and `FrozenBacksPending` count what a second decision of an
  application makes (`repeated`): an approval and a rejection that overlap pay the amount
  out and return it too, and unfreeze it twice, so that what is frozen may not cover the user's
  other applications.  How often is bounded by the reviews that were under way at
  the first decision (`SettledIsFinal`).
* `PayoutWasSeen` lets outdated pages approve what they do not show: of two administrators, one
  rejects, the user submits other details, and the other approves them from a page that shows the old ones;
  or of two saves that both read the row before either writes, the second replaces what is under review.
* `CountedOnce`, `LedgerExplains`: `crossed` excepts that `mark_paid` reads the order
  without a lock and credits it again, and that a password change writes the
  whole row, and with it balances it read before.  `lapsed` excepts that a gift's key
  lives two minutes: an equal request afterwards, or while Redis fails, sends again.  The key is
  also kept when the balance did not suffice, so that a retry is refused.
* `ReportsAgree`: the ledger goes on listing a rejected withdrawal; the app's own
  list shows a call's expense under its caller, even where the callee paid, has rows of zero for gifts
  without income, and leaves out fees and adjustments.
* `OrderIsCredited` takes up to an hour after a failed transaction, as the
  callback's key is kept; a second insert of a text's charge record answers 500,
  with its transaction undone.

Presence, leader, connections:

* `OneLeader` needs turns of the loop that are short against the key's 60
  seconds.  The polling interval may be configured up to 600 seconds, and a
  leader makes its pass before it looks at the key (`Cycle = 6`, `TTL = 5`).
* `EndsAtLastSeen` needs heartbeats or passes within the ten minutes the hash
  lives: after a longer outage a party whose last second is forgotten counts as
  last seen at the start, and the call is refunded (`Interval = 7`, `KeyTTL = 5`).
* `PresentIsNotForcedOut` needs `Prompt`, see above, and a Redis that loses no
  more heartbeats than the settling time allows for.
* `NewestKeepsOnline` excepts `raced` and failing Redis calls: a disconnect that
  read the owner before a newer connection registered removes its keys; connecting
  adds the user to the online set before it writes the owner, and an older
  disconnect may come in between; a reader may drop a user who just reconnected;
  and after a refresh that failed until the lease expired, later refreshes set only the
  lease, so that a user dropped meanwhile stays offline until the next connection.
* `ShownIsActual` sets `crossed` users apart: an older reading pushed last, a
  reading before the commit it announces, and a lease or a manual offline mark that
  lapses, which nobody announces.
* `OneEndIsTold`: accept tells of a timeout or an empty balance before its commit, which
  may be undone; a hang-up with unpaid minutes is told as an end though its reason is
  `balance_empty`; a trace is lost when its worker dies after the claim; a
  send that was accepted but not answered is repeated.

Reviews, relations, lists:

* `CompletedIsFinal`, `PriceNeedsCertificate` and the cover in `OnlyVettedIsShown`
  except `raced`: a stale review of an item reopens a completed application, two
  submissions leave two applications open, a price is set after the certificate was
  withdrawn, a cover is chosen from an album that is gone.
* `CacheCatchesUp` bounds how long a list is behind; that it is behind is real:
  nothing calls `invalidate_recommended_user_ids_cache`, so recommendations lag by
  up to 45 seconds; creating or deleting a configuration entry does not clear its
  cache; a load that crosses a change sets the old list after the deletion.
* `BlockedDoNotFollow` excepts a follow that passed its check before the block
  (`overtaken`); `FeedIsVetted` a moment approved before its media were bound (`hasty`).
* `GreetsAreCounted`: a release after midnight gives yesterday's greeting to
  today's counter (`shifted`); a request that dies keeps its greeting (`lost`).
* `PagesAreTheList` is about lists that fit the scan: `flirt_list` looks at no more
  than 20 batches, beyond which it may promise a page that is empty.

Tasks, administration, boards:

* `DueArrives` is about running tasks: a scheduled one reaches nobody until
  it is published; of two administrators that cross, one may revive a task the other
  cancelled; resuming back-fills the runs of the pause; an edited schedule counts its
  `max_runs` anew.
* `BoardAdvances` excepts `loose`: a refresh without the lock (Redis failing, or a
  wait that found nothing) or one that outlives the lock's 30 seconds may bring an
  older board back, until the next refresh.  A reader that finds the board fresh
  leaves the lock it took to expire.
* `SeedOpensTheLayout` is about a seed that finished; edits while it runs are not
  modelled.

## 7. Not modelled

* Row locks of two users: dialing, accept and an end lock two users' rows in
  different orders, and the database resolves a deadlock by aborting one
  transaction, which is as if it had not begun.  A batch of twenty calls that is
  rolled back as one is not modelled either; `CallLifecycle` has the batch of one.
* `WsPresence`: the order of the online list, the manual offline mark (which
  `Broadcasts` has), authentication, message formats.  `Broadcasts`: pushes lost on
  the way (`WsPresence` has them), balance pushes, Redis reads that fail.
* `TokenLedger`: packages and catalogs (constants), the payment gateway's
  signatures, sending texts through the messaging service.
* `SystemTasks`: business notifications (no schedule), `publish_due_*` (no
  caller), `next_run_at`, which no pull reads.
* `ProfileReview`: uploaded files; name, avatar and signature are one field.
* `Social`: a user's own list of moments, the upload of media, filters by customer
  service; the active section's walk through Redis and the active pin.
* `Ranking`: anonymity, the display limit, banned users.
* `AdminAccess`: the super user's creation, the legacy top menu, the permission
  cache, two seeds at once, hidden flags, icons and order of menus.
* External services (TIM, RTC), authentication and middlewares, complaints,
  feedback, departments, the audit log, migrations, both clients but for the heartbeat timer:
  input and output, or single rows that decide nothing elsewhere.

## 8. Plan

Done: calls, their bill and their contract; withdrawals and payout accounts;
presence, leader, connections, announcements, traces; the ledger of everything
that moves coins and diamonds; tasks; reviews; relations, moments, lists and
greetings; menus and roles; boards.

Proved: calls, their bill, the fee loop, conservation and contract; withdrawals and payout
accounts; the election; presence, connections, announcements and traces; the
ledger's balances, counts and reports; the greeting quota, blocks, caches, feeds and pages; the
runs of tasks and their calendar; what a profile shows, its applications and prices; boards; the seed.

Every safety property of a passing run is a theorem; the liveness properties stay with TLC.
What could be added is the state that section 7 lists as left out of a module: the pins and the
walk of the active section through Redis, the batch of twenty calls, and edits of menus while a seed runs.
