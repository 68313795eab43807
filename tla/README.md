# Verification of seyr

seyr is a web analytics product: a browser script sends beacons to a Go service
(`apps/ingestor`), which checks them, counts them against the plan of the
organization and writes them to ClickHouse; a SvelteKit dashboard
(`apps/dashboard`) handles accounts, sites, statistics, payments and renewals.
This directory holds TLA+ models of its stateful parts, the TLC runs that check
them and the TLAPS proofs about them. `PROJECT.json` lists components, runs,
mutants, hazards, theorems and, for every definition, the lines it models.

## Inventory

| part | state | operations | what is hard | what makes it correct |
|---|---|---|---|---|
| usage tracker (`internal/usage`, `internal/store/postgres.go`) | counters per org, the flush batch, the `usage` table | `Record`, `flush`, `Start`, `Stop` | the lock is released to seed a counter; writes fail or commit without a reply; the month changes; restarts | nobody is billed for what was not sent, lost replies apart; losses have known causes; increments reach Postgres |
| event buffer (`internal/buffer`, `internal/store/clickhouse.go`) | a channel, a batch, the `events` table | `Add`, `Run` | saturation, failed inserts, drain at shutdown | FIFO, at most once, shed only when full, no row waits for ever |
| site resolver (`internal/sites`) | a cache with a TTL | `Resolve` | lookups without the lock overtake one another; negative entries | answers are at most a TTL stale |
| ingest handler and process (`internal/server`, `cmd/ingestor`) | one position per request, `main`'s position | `handleIngest`, `run` | handlers that outlive `Shutdown`; two drains under one timeout | counted = buffered; a month's refusals are events over its limit, or credited twice; a clean exit leaves only what could not be written |
| event pipeline and its contract (`internal/event`, `packages/shared`) | none but the daily salt | `Validate`, `BuildRow`, ... | boundaries, day change, byte and character lengths | the Go and the TypeScript side agree on plain beacons |
| payments (`lib/server/payments`, `routes/(app)/billing`) | `payments`, `subscriptions` | checkout, callbacks, notification, renewal cron, switch | no transaction; notification against browser; late redirects; requests that die | a plan is paid for; a payment counts once; what is paid is granted |
| sessions and accounts (`lib/server/auth`, `hooks.server.ts`, `routes/(auth)`) | `sessions`, `users`, `organizations`, `memberships` | sign-up, login, validate, renew, logout | renewal from a row read earlier; sign-up is a lookup, a transaction and a session | a logged-out token stays dead; an address has one account, complete, and its sessions are its own |
| sites and sharing (`lib/server/sites.ts`, `routes/share`) | `sites` | create, delete, publish, rotate | read, then update | a rotated token stays dead |
| analytics (`lib/server/analytics`, the statistics pages) | `events`, `events_daily`; the page, its address and filters | some ten queries per page | two sources for one chart; queries answered at different moments; filters in the address | chart, cards and panels agree |
| pages of a site (`routes/(app)/sites`) | the list with its form, the setup page with its timer | visit, create, delete, listen, verify | overlapping checks, stale caches, failures of ClickHouse | the first event is found and the timer stops |
| browser tracker (`packages/tracker`) | queue of the loader stub, last path | `seyr`, `trackPageview`, history patches | order of loading, prerendering | one pageview per stay at a path |
| landing and billing page, build, infrastructure | none | | | |

How they interact: request goroutines call resolver, tracker and buffer in this
order and share them under their locks; the flush goroutine and `Run` share the
one context that `main` cancels; resolver and tracker read Postgres tables that
the dashboard writes; in the dashboard concurrent HTTP requests, the gateway's
notifications and a cron meet only in Postgres, one statement at a time. The
visitor's browser and the owner's meet in ClickHouse: the script's beacons become
rows under the site the resolver's cache gives, and the pages query them.

## Modules

| module | what it is |
|---|---|
| `UsageTracker` | `tracker.go` over the `usage` table |
| `EventSink` | what the buffer promises: rows accepted in order, settled in runs from the oldest on, shed at capacity |
| `EventBuffer` | `buffer.go` with its channel, batch and goroutine; implements `EventSink` |
| `SiteResolver` | `resolver.go` over a database that changes |
| `Ingestor` | `server.go` and `main.go`; extends `UsageTracker`, with an instance of `EventBuffer` |
| `Sessions` | `session.ts` under the request hook, and logout |
| `Accounts` | sign-up and login over the tables of accounts; extends `Sessions` |
| `Sharing` | `sites.ts`: the table `sites` and its public links |
| `Billing` | `orders.ts`, `finalize.ts`, `renewals.ts` and the billing routes, for one org |
| `BrowserTracker` | `tracker.ts` in one page of one browser |
| `Beacon` | a beacon, `packages/shared`'s reading of it and the ingestor's; operators only |
| `SitePages` | the list of sites and the setup page of one domain, over the resolver's and ClickHouse's answers |
| `Onboarding` | `BrowserTracker`, `Beacon` and `SitePages` together: from a page view to "You're all set!" |
| `Analytics` | the queries of `lib/server/analytics` over a growing table with its rollup, and the two statistics pages |
| `MC_*` | constants for TLC |
| `*_proofs` | theorems |

`EventSink` is an abstract specification and translates no code; all the others
do, definition by definition. A definition introduced by "Mutant of X" is not
part of a model: it is X with a plausible bug, put in its place to see that a
property notices (`PROJECT.json`, "mutants").

### UsageTracker

`counters[o]` is the entry of the map (period 0: none), `batch[o]` the entry of
the local slice of `flush`, with what became of its write; `call[r]` is the
position of a request in `Record`. Each critical section is one action
(`RecordHit`, `Install`, `Collect`, `ReCredit`), each database call one or
several: `AddUsageOk`, `AddUsageFails`, `AddUsageReplyLost` (the statement
commits, the caller sees an error). A request reads the clock in `Begin`, so it
may reach `Record` after the month has changed. A write whose context is already
cancelled fails without being charged to `MaxFailures`. `Exit` is `main`'s return
or a crash at any moment, followed by a restart with an empty map.

`recorded` counts the events that `Record` has counted and `doubled` the deltas
credited again after a lost reply; both are history variables. `Missing` is what
the books lack: `recorded + doubled - usage - Unflushed`. A lost reply makes Postgres
hold more than was counted, a later seed reads that back, and the total then runs ahead
of the events by as much: `doubled` is the exemption that `NeverOverbills`,
`CountNotAhead` and `BlockedOnlyOverLimit` name.

### EventSink and EventBuffer

A row is the number of its `Add`. `Enqueue` and `Drop` are the two cases of
`Add`'s select; `Receive`, `Tick`, `StartDrain`, `Drain`, `EndDrain` those of `Run`
and its drain. When the batch is full, `Run` is in `flushing` and takes nothing
from the channel until `InsertStores` or `InsertFails`: the insert is a blocking
call, while `Add` goes on. The refinement maps `pending` to `batch \o queue`. A
batch that is flushed is delivered or lost as a whole, since it is one block for
ClickHouse. `InsertEvents` may report an error for rows that are stored; the code
treats this like any error, so it is `InsertStores`.

### SiteResolver

What Postgres answers for a domain is a number that grows with each change, "not
registered" being one of the answers; `until` remembers when an answer stopped
being true. `Resolve` reads the clock first (`Begin`), then the cache, then,
unlocked, the database; the expiry it stores is counted from the clock it read
first. Whether the entry came from a younger lookup is not looked at.

### Ingestor

`handleIngest` in steps: `Arrive`, `Reject` (bot, unreadable or invalid beacon,
unknown site), `Resolved` (the clock is read, `Record` begins), the steps of
`Record`, then `BlockEvent` or `BufferEvent`. `main` goes from `serving` through
`shutdown` (inside `httpServer.Shutdown`), `cancelled` (inside `tracker.Stop`) and
`waiting` (the last select) to `exited`, or from `serving` to `failed` when the
listener fails. `Shutdown` returns when all handlers have ended or the timeout is
over; in the second case they go on running. The site cache is represented by
its outcome: an org, or a rejection; `Limit` is fixed. `blocked` counts the events
refused by the month they were counted in, `unwritten` the increments whose write failed
in the final flush; both are history variables. Restarts are left to the
component models. The module extends `UsageTracker`, whose `Init`, `Next` and `Spec` keep
their names; its own are `Boot`, `IngestorNext` and `IngestorSpec`.

### Billing

One org. `pay` is the `payments` table by transaction id, `sub` the row of
`subscriptions`, `work[w]` the local variables of a `finalizePayment` call or a
cron run. Every statement and every gateway call is an action; nothing in the
code is in a transaction. `activateSubscription` is two steps: `ReadSub` (the
select and the new end) and `WriteSub` (the upsert). `Die` ends a call at any
point; `RenewalThrows` is an exception inside the `try` of the renewal loop, also one
thrown by an upsert that has committed. A
charge may succeed although the call throws. `FailOrCancel` is either redirect:
they set the status whatever it was. The gateway gives a card token or none with
each validation. The callbacks concern orders only; renewals have no redirect.

`activations`, `reopened`, `stranded` and `cycles` are history variables: how often a
payment extended the subscription, whether it lost the status `success`, whether
its call died, met an error or lost the gateway's answer between the money and the
upsert, how often the subscription was extended by any payment.

### Sessions

`sessions[t]` is the expiry in the row of token `t`, or 0 for no row. A request goes
from `Select` (the join) through `Check`, which reads the clock, to the delete of
an expired row, the update of one near its expiry, or straight to `valid`, from
where it serves a page or logs out. Every statement is a step and `Die` ends a
request at any of them. `lastUse` is the last moment at which a token passed
`Check`, `kept` the same for requests that got past their renewal; `cutShort` marks
tokens whose renewal crossed a `DeleteExpired` of the same row, which needs two
requests within one latency of the expiry. `CreateSession` is the insert of a
sign-up or a login. Which token a browser keeps in its cookie is not modelled: a request
may carry any token that has a row, and without a row the hook changes nothing.

### Accounts

`form[f]` is a form under way: `creating` between the lookup and the transaction of
a sign-up (the password is hashed in between), `signing in` between the account
and the session. `SignUp` is the validation and `findUserByEmail`, `CreateAccount` the
transaction: user, organization and membership, or nothing when a unique column
is taken. An e-mail is an address and whether it is typed in lower case, so that
`toLowerCase` is a conversion that does something. A session is opened under a
user's id (`owner`); `entered` remembers which address and password were typed. The
requests of `Sessions` go on meanwhile. `FormDies` is an exception or the end of the
process at any point.

### BrowserTracker

JavaScript runs a handler to its end, so a step is a handler: `CallSeyr` (the
customer's code, before the script the stub's queue), `RunScript`, `Navigate`
(`pushState`, `replaceState`, back and forward), `ChangeTab`. `tracker` is the closure:
`lastPath` and what `send` has handed to the browser. A prerendered page is either
today's `document.prerendering` or the older visibility state `prerender`; the code
treats them differently, and so does the model. A stay is a maximal time at one
path; `watched` says whether the script saw it and whether it had to ignore the page
then, `reports` counts its pageviews.

### Beacon

A text is its length in UTF-16 units, the bytes of a unit and whether blanks
surround it: what validation on either side tells apart. An address has what the two
parsers read in it: `net/url` finds the host after `//` with or without a scheme and
leaves it as it is written, `new URL` throws without a scheme and writes hosts its own
way; `net/url` refuses a `%` that is no escape. A number has its two spellings: Go stores
all its digits (`stringifyProp`), JavaScript a power of ten outside 1e-6 to 1e21
(`String`). `SchemaAccepts`,
`SchemaProps`, `parseUrl`, `classifyReferrer` translate `packages/shared`; `Validate`,
`Validated`, `NormalizeProps`, `BuildRows` the ingestor, which walks a Go map, so that
which properties survive the limit is open, with `ParseURL` and `ClassifyReferrer`,
its own versions of the two: Go cuts a campaign tag in bytes, drops one whose pair has a
`;` or a bad escape, and undoes the escapes of a path, which the TypeScript keeps. The
three tags are one text.

The comments of `event.go:2-3` and `validate.go:10-11` say that the two sides mirror one
another. They do for what `Plain` (in `Onboarding`) describes, which is what browsers send
from ASCII pages: that is what `StoredAsAgreed` says. Outside it they differ in the
ways listed under "Seen in the code".

### SitePages and Onboarding

One domain. `list` is the page with the sites, `setup` the setup page: `polling`,
`checking`, the timer; `checks` counts its requests that are at the server or answered
yes or no, in any order. A count of ClickHouse may fail (`CountEvents`): the pages
take that for no rows. The resolver is abstracted to what `StaleAtMostTTL` leaves of
it: `recent` holds the answers that were true less than a TTL ago, and any of them
may still be given, until `Expire`.

`Onboarding` adds the way of a beacon (`Deliver`, `Lose`): bot filter, the limit of the
body, validation, the id the domain resolves to, block mode, the row. Whether block mode
finds the org over its limit is open at each beacon (`Ingestor` has the counting), except
while the owner waits at the dashboard: `ListeningFinds` takes for granted that the org
is not blocked, since nothing is stored for one that is. `watching` divides the runs in two, a bound: the
owner acts while one visitor's script reports its first page, or the visitor moves
about while the owner is quiet. The two interact only through the table and the
resolver, both of which take part in each.

### Analytics

`rows` is the events table, `rollup` the `events_daily` table and how many rows its
view has processed: an insert is visible before the view's part of it. `load` is a
request on its way with the answers it has (`Promise.all`: each query is answered at
a moment of its own, `getTotals`' second after its first), `page` what is on screen:
the address, the data, the point of the chart under the pointer. `Breakdown` and
`CustomEvents` give the set of possible answers, since the order of equals is open
under a limit. `RollupSeries` counts whole UTC days, `RawSeries` hours or days of the
timezone in the request's scope. `Rolled` says what the rollup of given rows is, for the rows
stored before; `Merge` is what the view does with one more. `navigate` merges into the address on screen, `Request` replaces a
request on its way. `uniq()`, which estimates, is taken to count exactly.

### Sharing

`sites[d]` is the row of domain `d`, under its identity `id`; token 0 is the null of a
site that was never public. `toggle[r]` is a `setSitePublic` between its select
(`ReadSite`, which also mints the token) and its update (`WriteSite`, which matches
on the id alone). `RotateToken`, `CreateSite` and `DeleteSite` are one statement
each. The checks that the actions in `routes/` make before (user, organization,
ownership) only decide whether `ReadSite` and the others happen. `rotated` and
`dead` are history variables; `dead` holds the tokens whose end nothing may undo.

## Runs

| run | bounds | shows |
|---|---|---|
| `usage_tracker` | 1 org, 2 requests, 2 months, 2 events a month per starting call, 1 failure | `NeverOverbills`, `CountNotAhead`, `LossHasCause`; liveness `FlushesEventually`, `StopReturns` |
| `usage_stale_total` | 1 org, 2 requests, 1 month, no failure | violated: `ReturnsMonthToDate` |
| `event_buffer` | flush size 2 (capacity 8), 10 rows | `EachRowOnce`, `StoredInOrder`, `BatchBound`, `ImplementsSink`; liveness `DrainCompletes`, `RowsSettle` |
| `site_resolver` | 1 domain, 2 requests, TTL 2, 4 ticks, 3 changes | `StaleAtMostTTL` |
| `ingestor` | 1 org with a limit of 1, 2 requests, 2 months, 1 event a month per starting call, 1 failing or half-acknowledged write, flush size 1, 1 row, block mode | `CleanExitDrains`, `BlockedOnlyOverLimit`, `CountedOnceBufferedOnce`; liveness `ShutdownCompletes` |
| `billing` | 2 plans, 2 orders, 1 renewal, 2 calls (plans, orders and calls symmetric), 1 cron, cycle 2, grace 1, 2 ticks, 1 switch, 2 errors | `PlanWasPaid`, `OneCyclePerActivation`, `PaidMeansActivated`, `ReplayIsHarmless` |
| `billing_activated_once` | 1 plan, 1 order, 2 calls, no error | violated: `ActivatedOnce` |
| `sessions` | 1 token, 2 requests, 2 forms, 3 e-mails of 2 addresses, 2 passwords, 2 slugs (requests, forms, passwords, slugs symmetric), TTL 4, threshold 2, requests of at most 1 tick, 5 ticks | `LoggedOutStaysDead`, `IdleSessionsEnd`, `UseKeepsAlive`, `AccountsComplete` |
| `sharing` | 2 domains, 2 toggles (all symmetric), 3 rows, 4 tokens | `EndedLinksStayDead`, `PublicHasLink` |
| `onboarding` | 4 paths (the root, one with a final slash, one with escapes, one excluded), 2 moves, 2 calls, 1 change of the tab; limits of 1 to 15 characters; 3 kinds of visitors; 2 registrations, 2 checks at a time, 1 failure | `OnePageviewPerStay`, `StoredAsAgreed`; liveness `ListeningFinds` |
| `analytics` | days of 2 hours, windows of 1 and 3 days, zone UTC+1, 3 rows before and 1 during 2 requests, 1 panel of 1 row, 1 address by hand | `SeriesAddsUp`, `DrillDownAgrees` |
| `sharing_rotation` | 2 domains, 2 toggles, 1 row, 2 tokens | violated: `RotationIsFinal` |

Why these bounds are enough to be interesting. Orgs of the tracker share nothing
but the flush loop, so one org with two racing requests has all the races of a
counter; two months give the change of month with a late request; one failure is
enough for a retry, and for it to come before or after a restart. Ten rows
saturate a channel of eight with a full batch in front of it. A TTL of two ticks
out of four lets an entry expire, be replaced by an older lookup and expire
again. In `ingestor` the limit is reached, the timeout may pass with a handler at
every position, and the one failing write may be any flush's, the final one's
included. One row is enough there: what the buffer does with several is the question of
its own run, and the theorems have no such bound. In `billing` a renewal, both
callbacks and a redirect can be in progress at the same time; the second order may be of
the other plan, so that an org changes plans, and the second call may be a late replay
of the first one's payment. In `sessions`
tokens share nothing; two requests are a renewal and one that overtakes it or ends
the row, two forms are two sign-ups with one address or a sign-up and a login; the
theorems lift the bounds on all five properties. In `onboarding` two
moves leave a path and come back, with a queued call and the script's own first
pageview between them; every text length is at a limit, one below or one above; one
referrer has a host and no scheme, one number is a power of ten, one campaign tag is odd,
one body is too long; two
registrations let a cached answer point at the deleted site; two checks overlap. In
`analytics` one row lies in the long window's first UTC day but before the window,
one belongs to another site, one is in both windows; the row that arrives may fall
between any two answers, and between the table and its rollup; the zone of one hour
makes the site's days differ from UTC days. Sites made through the form are in UTC,
but the action takes any timezone, and the table stores it.
In `sharing` a site is deleted
and its domain registered anew while both toggles are under way. What bounds cut off is named in each
module next to its constant.

### What the three violations mean

`usage_stale_total`: `tracker.go:49-50` promises the new month-to-date total. Two
first requests of an org (after a start, or in a new month) both miss, both seed,
and the second one's counter replaces the first one's: both return 1 and one
event is never billed. `LossHasCause` shows that this, a restart and a write that
fails across a change of month are the only ways an event is lost to billing; the
error is always in the customer's favour, but for what a lost reply credits twice
(`NeverOverbills`, `CountNotAhead`).

`billing_activated_once`: `finalizePayment` is called idempotent
(`finalize.ts:23`, `ipn/+server.ts:5-6`, `integration.test.ts:134`). Its check and its
update are separate statements with the gateway call in between, so the
notification and the browser's callback, which arrive together for every
payment, can both activate: one payment, two cycles. `ReplayIsHarmless` shows
that a replay that starts after the activation does nothing, unless a late fail
or cancel redirect has reset the status.

`sharing_rotation`: `sites.ts:67` says that a rotation invalidates any previously
shared link. A toggle that read the row before the rotation writes the old token
back with the flag. `EndedLinksStayDead` shows that this overlap is the only way:
a rotation that meets no toggle, and a deletion, are final.

### Fairness

Safety is checked without fairness or under it alike. Liveness assumes

- that a database or ClickHouse call returns: `InsertEvents` has a 30 s timeout;
  for `AddUsage` in the final flush this is an assumption on Postgres, as `Stop`
  itself has no timeout (`WF(Flush)`, `WF(Run)`);
- that the tickers keep firing (`WF(FlushTick)`, `WF(Run)`);
- that Go's `select` does not pass over a ready case for ever: it chooses
  uniformly at random among the ready cases, so a cancelled context is taken with
  probability one although a ticker or a channel may be ready each time
  (`SF(FlushFinal)`, `SF(StartDrain)`);
- in `ingestor` only that the tracker's goroutine and `main` go on and that the
  shutdown timeout elapses: requests and ClickHouse may hang;
- in `onboarding` that the browser's timer and requests go on, that a cached answer
  expires, and that the site keeps having visitors once it has.

No fairness is assumed of arrivals, signals, crashes, or the change of month.
Liveness properties are stated up to "or the process is stopped or restarted":
`Exit` may happen at any time. Of `ListeningFinds` the excuses are that the page is
closed or the site deleted. `ingestor`, `onboarding`, `analytics`, the billing, session
and sharing runs do not check for deadlock: the process ends, and bounded
payments, errors, ticks, tokens, moves and requests are used up.

## Proofs

All are checked by TLAPS for every value of the constants that satisfies the
modules' assumptions (finite or non-empty sets, natural bounds, positive limits, a
positive flush size). Every safety invariant and action property of the passing runs
is a theorem. Each inductive invariant was checked by TLC on the run's instance first,
save that of `Analytics`, which speaks of all times and all sequences of rows: there TLC
checks the three properties that follow from it.

- `Ingestor_proofs`, of the tracker (`UsageTracker`): `TypeCorrect`; `NoOverbilling` and `TotalNotAhead` from one
  inductive invariant, `IInv`. Neither property is inductive by itself. To keep
  `Missing >= 0` when `Collect` overwrites the batch one must know that the batch
  is empty between flushes (`BatchEmptyBetweenFlushes`); to keep a counter's total
  at or below the events of its month and its doubled ones when `Install` replaces it one must know that a
  seed read without the lock is at most what Postgres holds *now* (`SeedNotAhead`:
  rows only grow), and that Postgres holds at most what was counted or doubled, which is
  `NeverOverbills` again. A step that handles one entry of a flush moves events
  between three places of the sum; `CountBooks`, `CollectBooks` and `EntryBooks` are these
  cases. They give the sum of each org and month after the step as well, so that
  `LossesExplained` (`LossHasCause`, an action property) rests on the same lemmas: where the
  sum falls, the step is a restart, an `Install` over a counter with increments, or a
  `PutBack` to another month.
- `SiteResolver_proofs`: `TypeCorrect`; `NeverStalerThanTTL` from `EntryFresh` (an entry
  expires at most a TTL after its answer was last true, because the expiry is
  counted from the start of the call that looked it up) and `FoundFresh` (what a
  call found was true after the call began).
- `EventBuffer_proofs`: `TypeCorrect`; `BufferImplementsSink`: every step of the buffer is
  a step of the sink or changes nothing of it. The lemmas say how `batch \o queue`
  behaves when a row is enqueued, moves from channel to batch, or the batch is cut
  off. `RowsStoredInOrder` is the sink's invariant (delivered and pending rows together
  are increasing and no larger than `added`) carried over by the refinement;
  `IncreasingCut` and `IncreasingAppend` are about sequences alone. `RowsAccountedFor`
  (`EachRowOnce`) from an invariant that says the same of sets: stored, waiting, lost and
  dropped rows are disjoint and together `1 .. added`. `BatchBounded` bounds the batch
  outside the drain.
- `Ingestor_proofs`, of the process: `IngestorRunsTracker` and `IngestorRunsBuffer` say that the process is a
  behaviour of `UsageTracker` and of `EventBuffer`: a step of a handler or of `main` that
  calls into one of them is one of its steps with the arguments it allows, and leaves
  it alone otherwise. So `TotalNotAhead` holds in the process, and `BlockingIsJust`
  (`BlockedOnlyOverLimit`) follows from `RefusedOver`: in each month the events refused and
  those about to be (`Refusable`: the handler holds a count over the limit) are together
  within those over it, since each of them was counted when the total was over already,
  and a month's count only grows.
  `ShutdownDrains` (`CleanExitDrains`) from three invariants: `MainInv` says what `main` has
  cancelled where it is, and that with the timeout kept no handler runs from then on;
  `FinalFlush` that a counter then holds what failed writes of the final flush have put
  back, each into its month; `FinalDrain` the same of the buffer.
  `UsageAgreesWithAnalytics` (`CountedOnceBufferedOnce`) is about a sum over orgs: each step
  changes one term (`SumStep`).
- `Billing_proofs`: `TypeCorrect`, `PlansArePaid`, `PeriodsArePaid`, `PaymentsCount` and
  `ReplaysAreHarmless` (an action property) from one invariant. Its core is about the
  workers: a call that is between two statements holds the payment it looked up, the
  gateway's yes, or an end of the period that was worked out from some earlier row (so a
  payment whose money is taken is under way, has extended the subscription or is in
  `stranded`, `UnderWay`), and
  that end is at most a cycle after what the activations until then account for.
  `cycles` counts the extensions, so that the bound survives a worker that writes an end
  worked out before another worker's.
- `Accounts_proofs`: `TypeCorrect`, `LogoutIsFinal`, `IdleEnds` and `RenewalSuffices` of
  `Sessions` from one invariant. Its core says what has become of a row since a request read it
  (`RequestInv`): unchanged, renewed to at least a TTL from `MaxStall` before the
  read, or expired and deleted. With that, `Check` may judge a row that is no longer
  there, and a late `Renew` may overwrite a younger one, and a served user still
  has the threshold left. The assumption `RenewThreshold + 2 * MaxStall <= TTL` is
  what this takes: with 30 and 15 days, requests of up to a week.
  `AccountsRunSessions` says that a step of `Accounts` is a step of
  `Sessions` or leaves its variables alone, so that the theorems above hold of it.
  `AccountsAreComplete` from an invariant in four parts: ids of users are `1` to their
  number and e-mails are in lower case and distinct (`UsersInv`), memberships and
  organizations correspond one to one to users (`MembersInv`), a form that signs in
  holds the id of a user with its address and password (`FormsInv`), and so does
  every token with a row (`OwnersInv`). The proof is for any forms, e-mails and
  passwords, and for any interleaving with requests.
- `Sharing_proofs`: `TypeCorrect`, `EndingIsFinal`, `PublicImpliesLink` and `LinksAreUnique`, from an
  invariant about holders of tokens: rows and toggles that hold the same token
  have the same id, and a toggle that holds a dead one has the id of a row that is
  gone, so that its update matches nothing.

- `Onboarding_proofs`: `OnboardingTypeCorrect`, `StaysReportedOnce` (`OnePageviewPerStay`) and
  `RowsAreAsAgreed` (`StoredAsAgreed`). The invariant of the script (`StayInv`): the last path
  is the page's exactly when its stay has been seen, and a stay has one pageview when it
  was seen by a script that did not ignore the page, none otherwise. `Reported` says this of
  one state of the closure and is kept by each call; `DrainReports` carries it along the
  stub's queue, which `RunScript` drains at once, by induction on its length. `PagesInv`
  adds to the shape of the pages that a yes on its way is true and that a closed page does
  not listen. `RowsAgree` is about one beacon, without any state: cutting in bytes
  (`CutKeepsWithin`), the two readings of plain texts (`PlainCutsAlike`), of values
  (`ValuesAreTexts`), of the properties (`PropsWithin`) and of the referrer (`ReferrerKept`,
  `SourceAlike`). What it says of both sides is for plain beacons only.
- `Analytics_proofs`: `TypeCorrect`, `ViewIsExact` (`RollupIsExact`, stated by no run), `ChartAddsUp`
  (`SeriesAddsUp`) and `ClicksAgree` (`DrillDownAgrees`), for any rows, windows, zones and
  panels. The invariant ties every answer a request or a page holds to a moment: it is the
  query's answer on the first `n` rows (`Upto`), `n` being what the history variable `seen`
  says; rows are only appended, so that stays true (`AnsweredStays`). For the rollup it says
  that `days` is `Rolled` of the rows processed, which `MergeRolled` carries from row to row.
  A total over the chart's buckets is the size of a union: `SumOfSizes`, by induction over
  sets of buckets, with equality where the buckets' sets are apart. `RollupTotals` needs for
  this that identities change with the UTC day, so that a visitor is in one bucket of the
  rollup; in raw buckets pageviews are apart and visitors are not, hence the one-sided bound
  there (`RawTotals`). `ChartAndCards` then compares answers on different numbers of rows.
  `LineIsFilter` is the drill-down: a line of a panel is the set of rows the filter
  it leads to selects, because the table of filter columns and that of panel columns agree
  and no line has an empty label. `AnalyticsAssumption` asks of the constants that a day is
  a number of hours, panels are panels of the page, and stored rows fit the bound.

Induction. The provers cannot instantiate the library's induction theorems, which take
an operator, but they can instantiate one about a *set* of numbers: `SetInduction` and
`NatSetInduction` follow from the well-foundedness of `<` on the naturals. With them
recursive functions are shown to exist and are unfolded: sums over finite sets
(`SumExists`, `SumStep`, `SumOfSizes`), the fold over the stub's queue (`DrainExists`), least and greatest
elements (`MinIsLeast`, `MaxIsGreatest`).

Only model-checked: all liveness properties, since TLAPS has no rules for fairness and
`ENABLED`. `LinksAreUnique` and `RollupIsExact` are only proved: no run states them. The
provers know no laws of `SelectSeq`, so the models select with sets of indices, and none of strings, so
that a text that a theorem must know to be one is a member of a constant (`Words`).

## Not modelled, and why

- Durability behind ClickHouse's acknowledgement: with
  `wait_for_async_insert=0` a server crash may lose acknowledged rows. Nothing in
  this code could notice.
- A second ingestor process. The deployment has one; two would each keep totals
  of their own.
- An `AddUsage` or an upsert of a subscription whose reply is lost *and* which
  commits after its caller has gone on.
- The mock gateway's approval of every `mock_` id, the amount check of
  `sslcommerz.ts` and the request to the gateway in `initiate`: data, not order.
- The session cookie in the browser: which answer arrives last decides which token
  it holds, but the table decides who is served, and a request may carry any token.
- What a row derives from the request's headers (country, browser, device), the
  hash of a visitor: functions of one request. The salt matters
  by its day alone, which `Analytics` has.
- The ranking of referrer needles against host names, ClickHouse's estimate in
  `uniq()`, and its own evaluation of time zones with daylight saving.
- The landing page, the billing page (it shows two reads and posts the forms that
  `Billing` starts from), layout and wording of the others.
- Configuration, password hashing, migrations, deployment.

## Seen in the code, stated by no run

Behaviour met while modelling that no doc, comment or test promises otherwise,
or that is a matter of data:

- A page that is prerendered (`document.prerendering`) sets `lastPath` before `send`
  ignores it, so its pageview is never sent (`tracker.ts:73-119`); `OnePageviewPerStay`
  counts such a stay as ignored.
- A needle that occurs in another host shadows it: `t.co` is part of
  `producthunt.com` and `reddit.com`, `x.com` of `netflix.com` (`url.ts:42-77`, `url.go:54-85`).
- The rollup's days are UTC days, while `schema/sites.ts:16` speaks of local days.
- A beacon beyond ASCII is measured in bytes by the ingestor and in UTF-16 units by
  the schema; a cut may fall inside a character. A path written with escapes is stored
  decoded (`url.go:47`), while `url.ts:27` keeps it as written. Which properties are kept beyond
  the limit follows a Go map's order.
- Further ways in which the ingestor does not read a beacon as the shared helpers do
  (`event.go:2-3`, `validate.go:10-11` say it mirrors them), all in the model and exempted by
  `Plain`: a referrer `//google.com/x` is Google for `url.go:71-75`, which does not ask for a
  scheme, and Direct for `url.ts:66-70`; a host with capitals keeps them in Go and a known
  needle misses; 1e-7 is stored as "0.0000001" and 1e21 with 22 digits (`validate.go:60-71`),
  while `String()` gives "1e-7" and "1e+21" (`events.ts:43`); a campaign tag whose pair has a
  `;` or a `%` that is no escape is dropped by `Query()` (`url.go:44-50`) and kept by
  `URLSearchParams`; an address with such a `%` in its path is refused by
  `validate.go:22`, a referrer with one is Direct. `NormalizeProps` stores a list or null as
  Go prints it, where the schema refuses the beacon. A body over 64 KiB is cut and then no
  JSON (`server.go:84-92`); the schema has no such limit, as it cuts long values.
- In block mode a new site of an org over its limit stores nothing, and its setup page
  goes on listening (`server.go:102-108`).
- A renewal that throws after its charge, or whose answer is lost, leaves a payment that
  the gateway collected marked `failed`, with or without the extension
  (`renewals.ts:34-57`); `PaidMeansActivated` names these cases.
- `normalizeProps` cuts what its comment says it drops (`events.ts:31-34`); `getSitesForOrg`
  says "newest first" and sorts ascending (`sites.ts:21-23`).
- The error of a refused domain is set on a form that the reload closes
  (`sites/+page.svelte`), unless the list is empty.
- The last bucket of a raw series is there only when a row is in it, and the chart
  keeps the pointer's index over a reload of the same range (`AreaChart.svelte:90`).
- Two quick clicks on filters: the second is merged into the address on screen,
  which does not have the first yet (`stats/+page.svelte:38-45`).
- Overlapping cron runs charge a card twice, each charge extending the
  subscription (`renewals.ts:17`).

## Plan

Done: usage tracker, event buffer with its abstract sink, site resolver, ingestor
process, billing, sessions and accounts, sharing, browser tracker, beacons, the
sites' pages, analytics. Next, in this order:

1. The resolver in `Ingestor` and `SitePages` as an instance of `SiteResolver` in place of
   its outcome.
2. The cookie in the browser, over `Sessions`.
