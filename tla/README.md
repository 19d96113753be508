# shortr, specified and checked

This directory is the formal side of shortr, the self-hosted URL shortener in
this repository: TLA+ modules of its core behaviour, TLC configurations that
check them on small instances, and theorems about them that TLAPS checks for
every value of the constants. Line numbers refer to the files beside it.

How to run things, with the TLA+ tools on the path:

    tlc -config LinkCache_visitors.cfg MCLinkCache.tla
    tlapm LinkCacheProofs.tla

`PROJECT.json` lists components, runs, the mutation of the code each property
is known to catch, the lines every definition stands for, the findings, the
hazards and the theorems.

## 1. The system

shortr is one Go process over SQLite or PostgreSQL, through one store. docs/wiki/Deployment.md
58-61 asks for a single instance, because the redirect cache, the live counters, the
rate limiter and the lock of the setup belong to a process; the modules of these are about
one process. What several processes on one PostgreSQL share is the database, and
`Startup` is about them opening it. The database makes each statement, and each
`WithTx` transaction (store.go 224-234), atomic; nearly all that can go wrong is
therefore *between* statements: in the caches, counters, queues and snapshots
the process keeps in memory, and in handlers that read, decide and write.

| component | state | operations | what makes it correct |
|---|---|---|---|
| **redirect cache and loads** (link/cache.go, link/service.go) | cache of rows and of misses, keyed by lowercased code; singleflight group | `ResolveForRedirect`, `Get`, `Put`, `PutMissing`, eviction, expiry, `Invalidate` after every `Create`, `Update`, `Delete`, `Restore`, `Purge` | visitors never go back in time; staleness is bounded; a mutation is seen once it returned; every waiter is answered |
| **click limit** (link/service.go, server/redirect.go) | `s.hits`: a live counter per limited link; `click_count` in the row | `ConsumeClick`, `PruneHits`, `hits.Delete` by edits, the flush | at most `max_clicks` visitors are redirected, and none is refused early |
| **click pipeline** (click/writer.go, store/clicks.go, cmd/shortr/main.go) | buffered channel, batch, spool directory, clicks table, counters | `Enqueue`, `Run`, `flush`, `spool`, `replaySpool`, `Close`; shutdown, crash, restart | no accepted click vanishes unaccounted; copies are bounded; the writer ends |
| **link table** (link/service.go, server/api_links.go, store/links.go, store/idempotency.go) | links, tags, idempotency keys | create, patch, delete, restore, purge, bulk; `If-Match`, `Idempotency-Key` | codes unique, per-user limit, one edit for each version under `If-Match`, one link per key |
| **accounts** (server/auth.go, api_me.go, api_admin.go, auth_middleware.go, store/users.go, sessions.go) | users, sessions, password resets | setup, sign-up, sign-in, sign-out, password change and reset, profile, admin edits, deletion | an administrator remains; a disabled or demoted account has no session with old powers; edits do not undo each other |
| **second factor** (server/mfa.go, store/mfa.go, auth/totp.go) | secret, last step, recovery-code hashes | set up, enable, check, regenerate, disable | a code is accepted once |
| **single sign-on** (server/oidc.go, store/oidc.go, auth/oidc.go) | identities | sign-in, link, unlink | an identity belongs to one account, an account can always sign in |
| **runtime settings** (server/live_settings.go, api_admin.go, store/settings.go) | settings table; three copies: the snapshot requests load, the policy of link creation, the flag of the click writer | read, merge, validate, write key by key, apply; reload at the start | the copies agree with each other and with the table |
| **rate limiter and lockout** (ratelimit/bucket.go, server/auth.go) | token buckets, bounded table | `Allow`, `Peek`, `Reset`, `GC`, eviction | never more than the allowance; a bucket that restricts is forgotten in two known cases only |
| **enrichment** (click/geo.go, iplookup.go, backfill.go, ua.go) | lookup cache, pause after a failure, switch as last read, back-fill cursor | `Lookup`, `available`, `BackfillGeo` | no address goes to a service that was switched off; no row is hidden from the back-fill for good |
| **jobs and backups** (jobs/jobs.go, backup.go) | timers, backup directory | purges, collection, `doBackup`, `pruneBackups` | live data is never purged; the newest backups are kept |
| **storage engine** (store/store.go, helpers.go, lock_*.go) | schema_migrations, file lock, advisory lock on a pooled connection | `Open`, `OpenShared`, migrate, keyset pagination | migrations run once, in order, before anybody serves; pages neither skip nor repeat |
| **API keys and request authority** (server/auth_middleware.go, api_apikeys.go, store/apikeys.go) | keys; the two rows a request has read | `resolveIdentity`, `TouchAPIKey`, wrappers, creation and revocation | a request that begins after a revocation, an expiry or a demotion has nothing of what was taken |
| audit, notifications, analytics | tables | single statements, read-only queries | nothing spans two steps |
| HTTP wiring, DTOs, MCP, OpenAPI, pages, CORS | none across requests | routing, rendering | data conversion |
| configuration, validation, cryptography, metrics | none | parsing, hashing | data conversion |
| web console, Android client | user interfaces | API calls | outside the process |

How they interact: a GET of a short link goes through the redirect cache, then
through the status, expiry and password checks on the *snapshot* it was handed,
then through the live counter, and after the response its click goes into the
channel of the click writer, whose flush raises `click_count` in the row. API
handlers change the row first, the live counter second and the cache third.
Jobs change rows behind everybody's back. Sessions and settings are consulted by
the middleware on each request. `main` owns start and stop: server, writer and
database are closed in that order, with a timeout.

The hard behaviours, each listed at its line under "hazards" in `PROJECT.json`:
a load racing an invalidation; loads shared by several requests; caches that
remember misses; a counter object deleted while a request holds it; a row
that lags behind the counter by a queue, a batch and a spool; crash between
commit and removal of a spool file; a spool file that is read in part; a COMMIT that reports an error after it took
effect; a shutdown that times out with handlers running; check-then-act on
limits and on the last administrator; full-row writes from stale reads; saves of
settings that overlap or stop half way; an advisory lock that belongs to a
connection and not to the process; pages cut while rows move; a table of buckets
that is full; two goroutines that share a lookup whose lock is not held during
the request.

## 2. Modules

| module | what it is |
|---|---|
| `LinkCache` | cache, loads, invalidation, and all writers of the links table as the cache sees them |
| `MonotoneReads` | what a visitor is promised, with neither cache nor loads; implemented by `LinkCache` |
| `LinkCacheProofs` | theorems about `LinkCache` |
| `ClickWriter` | the pipeline from `Enqueue` to the clicks table, with the process around it |
| `ClickLedger` | what is promised about each click; implemented by `ClickWriter` |
| `ClickWriterProofs` | theorems about `ClickWriter` |
| `ClickLimit` | live counters against rows, snapshots, edits, pruning and restarts |
| `ClickLimitProofs` | theorems about `ClickLimit` |
| `LinkTable` | links and idempotency keys: creation, edits, deletion, restore and every purge |
| `LinkTableProofs` | theorems about `LinkTable` |
| `SecondFactor` | the enrolment of one account, the second step of a sign-in, its lockout |
| `SecondFactorProofs` | theorems about `SecondFactor` |
| `Accounts` | users, sessions, identities and the handlers that change them |
| `AccountsProofs` | theorems about `Accounts` |
| `Settings` | the settings table, overlapping saves and the three copies |
| `Enrichment` | the lookup of addresses, shared by click writer and back-fill, and the back-fill |
| `Buckets` | the rate limiter's bounded table |
| `TokenBuckets` | a bucket for every key, for ever; implemented by `Buckets` |
| `Startup` | processes opening one database: locks and migrations |
| `Backups` | scheduled and manual snapshots and their pruning |
| `Pages` | keyset pagination while rows come, go and change |
| `StoreProofs` | theorems about `Startup`, `Backups` and `Pages`: what a database and its files rely on |
| `Credentials` | API keys, and the authority of a request |
| `ServerProofs` | theorems about `Settings`, `Enrichment`, `Credentials` and `Buckets`: state the server keeps beside its tables |
| `MCLinkCache`, `MCClickWriter`, `MCClickLimit`, `MCLinkTable`, `MCSecondFactor`, `MCAccounts`, `MCOperations` | values and symmetries for TLC; the last one has the seven modules from `Settings` to `Credentials` as the parts of one instance |

The modules meet at the statements of the store, each of which is atomic. `LinkCache`
takes every writer of the links table as "the row behind a code changes", and
`LinkTable` says which rows the writers leave; `ClickLimit` takes the flush of
`ClickWriter` as "some of the clicks reach the row, some of them twice"; `Accounts` takes the second step as
accepted or not, which `SecondFactor` decides; `Credentials` takes an account as a row that
is edited and deleted, which `Accounts` does; `Enrichment` takes the insert of a click as one
step, which `ClickWriter` takes apart; the switch of the address service is a setting that is
read when needed, and therefore in `Enrichment` and not in `Settings`.

### LinkCache

A row is abstracted to a *stamp*, the number of committed changes behind a
lowercased code; an entry, a load or an answer carries the stamp it was read at.
`cache` is `Cache.entries` (an entry without ticks left is no entry),
`flight` the singleflight calls under the names they really have (`FlightKey`),
`rpc`, `rcode`, `res` the requests in `ResolveForRedirect`, `mpc`, `mut` the
mutating handlers, `links` the table, `doomed` the ids the purge job listed.

| action | code |
|---|---|
| `Lookup`, `JoinLoad` | `Cache.Get` and `loads.Do` in `ResolveForRedirect` (service.go 374-404) |
| `QueryAnswers`, `FillCache`, `AnswerWaiters`, `LoadFails` | the function passed to `loads.Do`: query, `Put`/`PutMissing`, return; errors and the 5 second timeout |
| `Evict` | `put`, `evict` and `Invalidate` by capacity (cache.go 98-130) |
| `StartMutation`, `Commit`, `CommitFails`, `InvalidateOld`, `InvalidateNew` | `Create`, `Update`, `Delete`, `Purge`, `Restore`: read the link, write it, invalidate the code before and after |
| `JobSelects`, `JobPurges` | `PurgeSoftDeletedBefore` (store/links.go 154-175), which invalidates nothing |
| `Tick` | time: expiry of entries, the timeout of a load |

The capacity of the cache is left out: `Evict` may remove any entry at any time,
which includes every choice the capacity makes.

### ClickWriter

A click is an identity. `queue` is the channel, `batch` the slice `Run`
collects, `pc` the position of the writer goroutine in `Run`, `flush`, `spool`,
`replaySpool` and `replayFile`, `spool` the files on disk with what can still be
read of each, `rows` how often a click is in the table, `dropped` the clicks that
`IncClicksDropped` counted, `main` the stages of the shutdown in main.go.
`decoded` is what `replayFile` has decoded of the file in hand: with `DiskFaults` any part of what is
readable, since every error of the decoder, a failed read included, ends its loop, and the file
is removed once that part is inserted, or at once if there is none.
`AmbiguousCommit` and `DiskFaults` switch on two kinds of fault. Ghosts: `lost`
(in memory when the process ended), `torn` (never written as a readable
record) and `unread` (readable, but not read when the file was removed). Handlers are `fate`: a handler can outlive the shutdown timeout, and
then panics on the closed channel, as `Enqueue` does (`fate = "panicked"`); that
click is neither queued nor counted as dropped.

### ClickLimit

One link with a limit. `row` and `cached` are the stored link and the snapshot
in the cache, `flight` a load, `heap` the counter objects, `current` the one in
`s.hits`: a request may hold an object that is no longer in the map. `Seed`,
`Touch`, `Add` and `Undo` are the four steps of `ConsumeClick`; `PruneSees` and
`PruneDeletes` the two of `PruneHits`; an edit is row, counter, cache, in that
order. `pending` and `spooled` are the clicks in the writer's memory and on its disk, `replay` those on disk
that this start is still to replay. `Flush` and `Replay` raise `click_count` and are done with the clicks; `FlushRepeats`
(a COMMIT that took effect and reported an error, writer.go 207-220) and `ReplayRepeats` (the same, or a file that is not removed,
273-274) raise it and keep them, to be inserted again; the ghost `recounted` counts these. `raced` is a ghost: a counter was thrown away while the row, a snapshot or
a request still in flight did not cover what had been served.

### LinkTable

A row keeps its owner, its code, one other column (`text`), the time of its last change
(`at`), whether it is live, in the trash, purged or not yet made, and whether it has been
in the trash for 30 days (`old`). `keys` is the table of idempotency keys, `job` what each
handler knows at the step it has reached, `doomed` what the purge job has selected.

| action | code |
|---|---|
| `Begin` | `GetIdempotentResponse` finds nothing, or fails, which api_links.go 55 ignores; an item of a bulk request has no key |
| `CheckAlias`, `CheckLimit`, `Insert`, `CreateFails` | `CodeExists`, `CountLinksForUser`, `CreateLink` in `Service.Create` |
| `Save` | `SaveIdempotentResponse` after the answer: the first answer stays, errors are ignored |
| `Prune` | `PruneIdempotencyKeys` |
| `Send`, `Read`, `CheckRename`, `Update`, `UpdateFails` | `handlePatchLink`: `getOwnedLink`, `If-Match`, `Service.Update`, whose `UpdateLink` writes all columns but `deleted_at` |
| `Delete`, `Restore`, `AdminPurge` | one statement each |
| `AskPurge`, `Purge` | the purge of `handleBulkLinks`: look, then delete |
| `JobSelects`, `JobPurges`, `JobFails`, `Age` | `PurgeSoftDeletedBefore` |
| `Crash` | the process ends; keys and links stay |

Ghosts record what was asked for (`latest`, `made`) and when an exception applies
(`slipped`, `overlapped`, `coincided`, `revived`, `handled`), and which versions conditional edits have replaced (`claimed`,
`twice`). `updated_at` is stored in milliseconds, so `at` numbers the different values it has had, and a write may repeat one of
them (`Stamps`): two versions can have the same ETag. Simplifications: the limit is one constant; a code stands for
all its spellings; validation is a failure that may
happen; `Delete` and `Restore` are one step, since they look at nothing but
ownership before they write.

### SecondFactor

`row` is the row of user_mfa, `pc`, `given`, `seen` the sign-ins in `handleLoginMFA`,
`tokens` the bucket of failed attempts, `hpc` and `draft` the enrolment handlers, which
read the row and write all of it back (`Setup`, `Enable`, `Regenerate`, then `Put`).
`Advance` is `AdvanceMFAStep`, a conditional UPDATE; `ReadCodes` and `Swap` are the
compare-and-swap of `ConsumeRecoveryCode`; `Begin` peeks at the bucket, `Charge` takes from
it, `Succeed` resets it; `Refill` stands for its refill, eviction and collection. A
time-based code is its secret and its step; recovery codes are numbered by the set they
were made in.

### Accounts

A row keeps status, role, `role_locked` and the password, every password ever set being a
number. A request is `Take`n with the row it has read (`read`) and the row it is
going to write (`draft`), and goes through the steps of its handler: `Create`, `Rehash`,
`SecondStep`, `AddIdentity`, `Sync`, `WriteBack`, `Open` (a session), `Count` (`CountAdmins`
or `CountOIDCIdentitiesForUser`), `Revoke`, `WriteRow`, `WritePassword`, `RevokeOthers`,
`DeleteRow`, `DeleteIdentity`. The ghost `slips` says which kind of exception has
happened: a row written back that had changed since it was read (`write`), two removals that counted each
other (`count`), a role taken by group membership (`sync`), a session that came
too late or could not be deleted (`session`), an identity removed by an administrator or by two
requests at once (`unlink`), a creation that stopped half way (`identity`). Each property names the ones
it is conditional on. Left out: `MustChangePassword`, `MaxLinks`, names, verified
addresses (an address is the account's name), the time a session was last used.

### Settings

`settings` is the table, a row that is missing, empty or null being `NoValue`; `copies` what
`s.live`, the link service and the click writer have been given; `saveAt`, `unwritten` and
`merged` what each `handleAdminPutSettings` knows.

| action | code |
|---|---|
| `Reload`, `Halt` | `reloadSettings` when the server is made; the process ends |
| `BeginSave` | the table is read, overlaid with the request and validated |
| `SaveKey`, `SaveFails` | `SetSetting` for each key, in the order of a Go map; an error ends the handler, whether or not the row was written |
| `ApplyLive`, `ApplyLinks`, `ApplyWriter` | the three stores of `applySettings`, one after the other |

The ghost `drift` is set by every write of a row and cleared by a start, or by a save that was
`alone` from its reading to its last store. `BadValue` is a value an older release has stored
and this one refuses.

### Enrichment

The two goroutines that use one `ipLookup` are `"writer"` (`Enrich`, `EnrichAnswered`) and
`"backfill"`. `answers` is the cache with the lifetime that is left, `down` the pause after a
failure, `allowed` and `readAgo` the switch as it was last read, `asking` the request each
goroutine has at the service, with `had`, the old answer it took along before it unlocked.
`StartRun`, `NextRow`, `EndRun`, `BackfillLookup`, `BackfillAnswered` and `SetClickGeo` are the
steps of `BackfillGeo`; `todo` and `cursor` are the rest of its batch and `backfillCursor`. A tick
is longer than a request may take. User agents, masking and the GeoIP file are conversions and left out.

### Buckets

Tokens and time have one unit, so that a bucket is brought up to date by an addition (`Tokens`).
`Allow`, `Peek`, `Reset` and `Collect` (`GC`) are the methods, each under the lock
of the limiter; `MakeRoom` and `Victims` are the eviction, on any `Sample` buckets that the iteration
over a Go map may meet. `TokenBuckets` has neither table nor collection: a key's bucket is only
forgotten when at least `Sample` keys are short of tokens, and a tenth of them at a time, or when the key has not asked
for `IdleFor` (`Lapse`). The interval of a rate may be longer than that: `ParseRate` and the
configuration (docs/wiki/Configuration.md 102-111) accept any, and the collection waits ten minutes (server.go 137).

### Startup

`Open` is the file lock of `store.Open`; `MakeTable`, `TakeLock`, `ReadMigrations`,
`ApplyMigration`, `Serve` are `migrate` and `applyMigration`; `WaitInVain` and `Fail` the ten seconds
and every other way to exit. `advisory` names the process with the connection that holds the advisory lock:
`LoseConnection` breaks it while the process goes on, an unlock after the ten seconds does nothing
and leaves the lock where it is until the pool closes the connection (`Recycle`). `ReadMigrations`
may see some of the rows only, since `rows.Err` is not looked at. `done` counts how often a
migration took effect.

### Backups, Pages

In `Backups` a file is its name: who made it (`manual-`, `shortr-`) and at which second. The job
begins, ends, lists and removes in separate steps; API requests and commands add files in between; the
clock may be set back; whatever breaks may leave part of a file. In `Pages` a list is a set of rows with a
sort value, which others insert, delete and change between two pages; `Less` and `BehindCursor` are
the order and the condition of the query, `Page` its limit. `steady`, `moved` and `repeated` are ghosts.

### Credentials

`calls` is what a request knows: `CallWithKey`, `ReadOwner`, `TouchAPIKey` are the steps of
`resolveIdentity`, `PassWrapper` the wrapper, which trusts the rows those have read. `CreateAPIKey`, `FindAPIKey`,
`RevokeAPIKey` are the handlers of keys. The ghost `standing` collects what was true of the credential and its
owner at some moment since the request began.

## 3. Runs

| run | instance | what it shows |
|---|---|---|
| `LinkCache_visitors` | one code in two spellings, two visitors, a handler, the purge job, starting from no link or a soft-deleted one; 4.0 million states | monotonic reads, staleness below one lifetime plus one load, implementation of `MonotoneReads` |
| `LinkCache_renames` | two codes, two handlers, one visitor; 2.4 million states | a mutation that returned is seen, unless it raced a load that had already read, or another rename |
| `LinkCache_live` | two codes, fair scheduler | each waiter is answered; the cache converges after the last change |
| `LinkCache_writethrough` | violation | "called on every link mutation for write-through consistency" (cache.go 119-120) does not hold: a load stores an old row after the invalidation |
| `ClickWriter_safe` | five clicks, channel and batch of two, three starts; 0.6 million states | bounded copies, one place for each click, a shutdown in time loses nothing, implementation of `ClickLedger` |
| `ClickWriter_faults` | two clicks, channel of one, batch of two, three starts, every fault, fair writer | no accepted click is lost without a trace; a click has at most a row for each attempt and each later start; memory drains; the writer ends after `Close` |
| `ClickLimit_limit` | three requests, two at a time, limits one and two, bots, an edit, a pruning, a restart, an insert that is repeated; 5.5 million states | the limit holds unless a counter was thrown away too early; nobody is refused too early, clicks counted twice allowed for |
| `ClickLimit_edit` | violation | "so the limit holds even before the batch writer has flushed the click" (service.go 73-76) does not hold across an edit |
| `LinkTable_requests` | three ids and codes, two users, one key, two requests at a time and three in all, limit one; 0.74 million states | how far concurrent creations exceed the limit; one link per key; no lost edit; one edit for each version under `If-Match`; nothing but trash is purged |
| `SecondFactor_codes` | two sign-ins, two enrolment handlers, two secrets, two sets of codes; 2.0 million states | codes sign in once, only confirmed secrets are asked for, the allowance of failures |
| `Accounts_races` | two accounts, one subject, three requests at a time, two sessions; 1.1 million states | an administrator remains, setup runs once, password changes and disabling end sessions, accounts can sign in, an administrator's edit wins; each with its exceptions |
| `Operations_parts` | the seven modules from `Settings` to `Credentials`, one at a time; 0.47 million states | settings: the copies are the table's; enrichment: the switch is honoured, the back-fill finishes; buckets: implementation of `TokenBuckets`; start: the schema is complete before anybody serves, and everybody serves in the end; snapshots: the newest stay; pages: every row once; requests: authority is current |

The seven parts of `Operations_parts` share no state, so that interleaving them would show nothing new:
the initial state chooses a part, the others stay where they are. What they ask is seven questions,
answered in one run because each instance is small. There is no symmetry, since the run checks liveness.

Bounds, and why they are enough. *LinkCache*: a race of a load with an
invalidation needs one load, one mutation and one later visitor, and a
second, concurrent load under another name needs two spellings; a rename race
needs two handlers and two codes. `MaxStamp = 2` gives a mutation before and one
after each read. Lifetimes of one or two ticks make every expiry happen while
something else is in progress. *ClickWriter*: five clicks fill a channel of two and a batch
of two with one to refuse; three starts give a replay of a file that was itself
left over by a replay. *ClickLimit*: two concurrent requests show every
overlap of seed, touch, add and undo; three give a limit of two reached and asked for again, or a limit of one
passed while a counter is made anew; one repeated insert makes the row run ahead of what was served. *LinkTable*: every race in it is between two requests, or one
request and the purge job, on one link or one key; a third request sees the result, and the
initial states with a link in the trash save the ones that would put it there.
*SecondFactor*: two sign-ins show every race on a code, two handlers one stale write each;
the clock makes two steps, so that a code is new, current and old. *Accounts*: a
stale write needs two requests, and the third makes the state they meet in, with
the settled initial states (an administrator made by setup, another by group
membership); two administrators are what demotions that count each other need.
*Settings*: two saves of two keys overlap in every way and stop between two keys; a value beside the default and a
bad one tell every row of the merge apart. *Enrichment*: two clicks are a batch and a row behind it; two
faults switch or fail something and undo it, which the liveness property needs; an address the service knows and one it does not
fill a cache of one. *Buckets*: four keys, a table of three and samples of two: a
bucket that is refused room, one that is looked at and one that is not; a token is two units of a bucket of three, so
that buckets are refused, half full and full; the collection waits two units, so that it also finds buckets that are not full. *Startup*: two servers of two releases and a command, two migrations, two faults: a lock
that is lost and one that is left behind. *Backups*: three seconds with two snapshots to keep. *Pages*: three rows in pages of two, two
sort values: a tie at the edge of a page. *Credentials*: two requests, one key, one owner: one request that takes away
what the other is using. Most bounds are `CONSTANT`s named `Max...`; ages are bounded by `Forever`, `MaxReadAgo` and `MaxOffFor`, from which on
older is not told apart.

Deadlock checking is off where the bounded instance or the system may
really stop: no more requests are left, or the process has exited for good.

Fairness. `ClickWriter!FairSpec` assumes weak fairness of the writer goroutine
only: Go schedules a runnable goroutine, and each of its steps is a local
computation, a database call that returns (with an error at worst) or a file
operation. Nothing is assumed of clients, of the database's answers, signals or
restarts. `LinkCache!FairSpec` assumes it of waiting requests, loads, mutating
handlers and time; not of clients, jobs or eviction. `Enrichment!FairEnrichmentSpec` assumes it of the
job, which a ticker starts again and again, of the answer to the click writer's request, which ends by its timeout at
the latest, and of time; that visitors come is not assumed. `Startup!FairStartupSpec` assumes that whoever supervises a process
starts it again, that statements return (with an error at worst), and that pools close connections after their maximal lifetime (`SetConnMaxLifetime`).
`MCOperations!Spec` asks the same, of the part that takes the steps.

## 4. Findings

Two comments of the code are refuted by runs, see "findings" in `PROJECT.json`:
the write-through consistency of the redirect cache, and the click limit across
an edit of the link.

The models show more, as the exceptions that properties name; no run is kept for these:

* *Click limit.* `PruneHits` looks at the time of last use and deletes in two steps, so
  that a counter which came into use in between is dropped (`PruneSees`,
  `PruneDeletes`); `ConsumeClick` publishes a new counter before it stores its time
  of last use (`Seed`, `Touch`).
* *Click pipeline.* A handler that outlives the shutdown timeout panics on the closed channel
  (main.go 244, `fate = "panicked"`). `replayFile` takes any error of the decoder for the end of the file (writer.go 285-296): after a
read that fails the file is removed with what was not read (`unread`). A retry after a COMMIT that took effect and reported
an error inserts the batch again, up to four times (`RowsBounded`), and raises `click_count` again, so that visitors of a link with a limit
are refused early (`recounted`).
* *Links.* "A retried request with the same key and body returns the original result"
  (docs/wiki/API-Reference.md 64-66): not if it overlaps the first request, if the client
  had gone away (the request's context cancels the save), if the lookup of the key fails (api_links.go 55 drops the error), or after a crash between the two statements, and not
  for a second user of the same key; the body is not compared. The expiry after
  24 hours is not enforced by the caller as the comment of idempotency.go 9-11 says, only by
  the prune job. `Restore` ignores the limit, so that deleting, creating and restoring
  exceeds it. "Permanent, so only for links already in Trash" (api_links.go 384) is tested
  before the purge: it, and the purge job, can remove a link restored in between. `If-Match` is tested
  on an earlier read, and the update that follows is not conditional; and two changes in one millisecond have the same ETag.
* *Accounts.* The write of `last_login_at` at the end of a sign-in stores the whole row it
  read before, and can undo a role edit, a disabling or a password change that happened
  meanwhile ("an explicit admin edit always wins", api_admin.go 179). The group
  synchronisation can take the role of the last administrator without `CountAdmins`
  (oidc.go 228-239). An account that registers before setup blocks setup for good.
  Errors of the deletion of sessions are ignored.
* *Second factor.* A read of the enrolment that fails counts as "not enrolled", and a setup that read before
  the enrolment was enabled replaces it (mfa.go 185): the account is then without second factor
  until it is confirmed again.
* *Settings.* Two saves that overlap leave copies that no reading of the table gives (`drift`); a save that fails half way is
  answered with an error although some keys are stored, and in force from the next start. One stored value that does
  not pass validation refuses every save that does not overwrite it, since the merged result is validated. Another process sees a save when it is started again.
* *Enrichment.* A request that fails puts back the answer it took along before it, over a newer one that another goroutine got
  meanwhile (iplookup.go, the end of `Lookup`). Nothing calls `Reload` or `Close` of the GeoIP file.
* *Rate limiter.* The collection (server.go 137) forgets buckets after ten idle minutes. That is harmless for rates whose interval is no longer;
  with `10/1h`, which the configuration accepts, a key that keeps quiet for ten minutes has its whole burst again (`TokenBuckets!Lapse`).
* *Start.* If the ten seconds end while migrations run, the unlock is not sent, and the advisory lock stays with the pooled connection: other processes wait
  until it is recycled. `migrate` ignores `rows.Err`; the primary key of schema_migrations makes that harmless.
* *Snapshots.* Names sort as text, and `manual-` before `shortr-`: manual snapshots are removed first, the newest too, even while
  they are written (backup.go 40; the comment in lines 11-12 and docs/wiki/Backup-and-Restore.md 5-8 speak of the oldest). Each start makes a scheduled snapshot,
  so that restarts in quick succession push older ones out. An error of the listing is reported as "Backup failed" after a good snapshot.
* *Deletion of an account* (api_me.go 229-242) walks the links page by page; links made during the walk lose their owner and are not deleted.
* *Notices of expiry.* "Rare", "once" (jobs.go 161-167): with a run every six hours and a window of a day an owner is told about four times.
* *API keys* survive a change of password, and work again once a disabled account is enabled or a demoted administrator is promoted.

## 5. Proofs

All theorems hold for any sets of codes, links, requests, handlers and clicks,
any sizes, lifetimes and bounds that satisfy the named assumptions of the modules.

* `LinkCacheProofs!TypeCorrect`, `ReadsAreMonotonic`. `MonotonicReads` speaks of
  answers that were given and is not inductive. `ReadOrder` strengthens it with
  the order in which versions can travel: what was answered is at most what is
  cached, what is cached at most what a load in progress has read, and that at
  most what is committed. It needs that at most one load is in progress per key,
  which is why it also says that calls run under lowercased names: with any
  other name for the singleflight call the invariant, and the property, fail.
  One lemma per action preserves `ReadOrder`; everything that only changes the
  table, evicts or ages is covered by one lemma (`OrderKept`).
* `LinkCacheProofs!StalenessIsBounded`: what a load has read is at most as old as the time it has
  used up, so age and time left together stay within the timeout (`LoadAge`); an entry adds one lifetime (`EntryAge`).
* `LinkCacheProofs!CacheImplementsPromise`: `ReadOrder` is exactly what `MonotoneReads` asks of an answer. A hit is a request
  answered as it arrives, the end of a load answers all its waiters, commits and purges change versions, all else stutters.
* `LinkCacheProofs!MutationsWriteThrough`. Between its commit and its answer a handler owes an invalidation. `Owed`: for a key
  that has not raced, no load holds what the handler replaced, the handler will invalidate the key, and the entry of the
  code it invalidated first is as new as its change. `Paid`: after the answer the same holds of loads and entries for what was acknowledged.
  Without either of the two exceptions (`raced` in `Commit`) the proof of `WriteCommit` fails, and TLC finds a stale answer.
* `ClickWriterProofs!WriterTypeCorrect`, `NothingLostSilently`. The invariant
  says for each position of the writer where the clicks it holds are, and that a
  file being replayed or removed is still listed in the spool directory; before it is removed, what was
  decoded of it has rows, and the rest becomes `unread`.
* `ClickWriterProofs!AttemptsBoundRows`, with every fault there is. A click in the batch has at most as many rows as attempts were made
  (`Attempted`), one in a file at most four and one for each start that could replay it, one less while this start
  still has to (`SpoolAttempts`); no two files share a click, and none shares one with the batch.
* `ClickWriterProofs!WriterImplementsLedger`: with truthful COMMITs and disk the
  pipeline implements `ClickLedger` under the mapping of `Status`. Steps of
  the pipeline that move no click are stutters; the crash is `Die`.
* `ClickWriterProofs!EachInOnePlace`: channel, batch, what is kept, dropped and lost share no click (`Separate`), what is in any of them
  has gone through `Enqueue` and can do so only once (`Entered`), and the file in hand is one of the directory (`FilesAreThere`); this also holds with a failing disk.
* `ClickWriterProofs!CopiesAreBounded`: files of the spool share no click (`OneFile`), and a click in the spool has fewer rows
  than the process has had starts, one less while its file is still to be replayed in this one (`SpoolRows`).
* `ClickWriterProofs!GracefulExitsLoseNothing`: the channel is closed before the last flush starts, so what is empty when
  the writer is done stays empty until main returns (`ExitOrder`).

* `SecondFactorProofs`. `SecretsAreConfirmed` needs that every draft that is on has a
  confirmed secret. `RecoveryCodesSignInOnce`: no code that was
  used is in the row or in a set that is about to be stored, and those sets are disjoint, because
  each is newly made; the compare-and-swap then accepts only codes that are in the row.
  `TotpCodesSignInOnce`: until a race, the row's step is at least that of every used code of its
  secret. `FailuresAreLimited` counts: while there are tokens, the failures are at most the tokens
  taken and the failed attempts not charged yet; once there are none, the failures and the
  attempts still pending are at most the allowance and the number of sign-ins less one.
* `LinkTableProofs`, all six invariants. `TypeInv` is `TypeOK` with what a
  handler knows at each step, and with the uniqueness of codes, which follows because each
  statement that writes a code tests the index. `EditInv`: a row that a handler has read still
  has that content, until another edit makes them overlap; all steps that write no content
  are one lemma (`EditFrame`). `TrashInv` says of what is condemned that it is in the trash,
  purged, or was handled since. `KeyInv`: until a key slips, the creation that is on its way to make
  a link is the only one of that user and key and none has been made; afterwards the answer
  is kept or about to be saved; a lookup that fails is a slip only where there is an answer to be found.
  `VersionInv` (for `VersionsAreReplacedOnce`): a version that a conditional edit has replaced is not the link's any more, and no edit that has
  read it is still to write, unless the link overlapped or had a version again. `LimitInv` adds to the links of a user the
  creations that have counted them and not inserted yet: the sum is at most the limit
  plus the number of handlers less one, whichever step is taken.
* `ServerProofs!CopiesAreTheTable`. The table is up to date only between saves, so `CopiesInv` says where an
  alone save stands: the table overlaid with what it has still to write is the snapshot it carries
  (`MergedInv`), the copies it has already stored are that snapshot (`HalfApplied`), and nobody else is active (`AloneInv`).
* `StoreProofs!SchemaIsServed`. `RestPending`: what a process is not going to apply any more is recorded, whoever did
  it. `RecordedOnce` and `InOrder` say that the record is true and has no gaps. None of them mentions a lock: the property rests on the primary
  key and on the transaction around each migration, and the locks only avoid useless failures.
* `StoreProofs!SnapshotsStay`. What is on the list of the job is a manual snapshot, or is followed by enough later scheduled
  ones (`DoomedInv`); this is kept by new snapshots and by removals, since attempts are only added.
  The order of names is used once: the end of the sorted list is scheduled.
* `StoreProofs!RowsAreReturnedOnce`. The cursor divides the rows that have not moved: those returned lie before it (`NotAgain`), the steady
  ones that were not returned behind it (`StillToCome`); a page is a prefix of the rest.

* `ClickLimitProofs!LimitIsKept`. `LimitHoldsUnlessRaced` only compares two numbers; what keeps them apart is `CoverInv`: until
  the ghost `raced` is set, everyone who consumes a click does so with the one shared counter, that counter has counted everyone served *and*
  everyone about to give a click back, and while there is no counter, whatever a new one could be seeded from covers those served.
  It needs `SnapshotsInv`: a cached row, the row of a load and every snapshot in use are rows as they were, so that no limit in them is above
  the highest ever set. `raced` is set only where a counter is thrown away, by an edit, a prune or a restart.
* `ClickLimitProofs!NobodyIsRefusedEarly`, an action property. `CountInv` is the other direction: what is in the row, pending or on its way is
  at most what was served, counted for bots or inserted once more (`recounted`), and so is every counter that somebody can still reach, less those who are giving a click back.
* `AccountsProofs`, over every request of `Accounts`. What the steps have in common is proved once: a request starts (`RequestsStart`),
  goes on as the same request (`RequestsGoOn`), and creates, writes back or deletes a row (`RowSteps`), opens or verifies a session (`SessionSteps`)
  or moves an identity (`IdentitySteps`); the theorems then argue about these few cases and not about each handler. `JobsInv` says how the row that will be
  written differs from the row that was read (`Drafted`), what was counted before somebody may lose a role or an identity (`Counted`), and which requests
  have which steps (`Staged`).
  `OneFounder`: the request that holds `setupMu` has seen that the accounts made by earlier setups are gone (`SetupInv`).
  `EditsWin`: a role an administrator has set is locked, and a group synchronisation leaves a locked role alone (`EditedInv`).
  `DisabledAreSignedOut`: between the deletion of the sessions and the write that disables, no session of the account is there (`DisabledInv`).
  `PasswordChangesSignOut`: a session verified with an older password will be deleted by a request that did not come with it (`OutdatedInv`).
  `AccountsCanSignIn`: the password that allowed an identity to go is still set (`PasswordInv`).
  `AnAdminRemains` is a property of steps and needs only `Counted`: a count that is stale sets the ghost `slips` in the same step.
* `ServerProofs!SwitchOffIsHonoured`. While the last reading of the settings allows requests, the switch has been off for no longer than the
  reading is old (`SwitchIsRead`), and a request that started on it lasts one more tick (`RequestsAreShort`).
* `ServerProofs!AuthorityIsNeverOld`. What a request has in hand at each of its steps, the key, the row of its owner and the role in it, was valid at some
  moment since it began (`CallAuthority`). A key once revoked or expired never works again, whatever is written to it late (`KeysInv`).
* `ServerProofs!LimiterImplementsTokenBuckets`. A key that is not in the table has a full bucket. A bucket that is collected was full, or
  its key has not asked for `IdleFor`, which is `Lapse`; no relation between the interval of the rate and the collection is assumed. One that is evicted while short is in a sample of which every member was short, which bounds how many can be
  forgotten at once (`VictimsAre`, from the cardinalities of samples).

Every safety invariant, every action property and all three refinements that the passing runs check are stated by a theorem. Each module with
theorems also proves its type invariant. The strengthenings of `Accounts` were checked by TLC
on the instance of its run before they were proved.

The theorems rest on the `ASSUME`s of the modules, which TLC evaluates in every run, and on the atomicity of a statement. Where a
theorem says "unless", the exception is a ghost (`raced`, `slips`, `drift`, ...) that is set only in the step that is the race; that these exceptions are
needed is shown by the findings and by the mutants. Where the code does nothing against a race, its property says that this race is the only way:
"hazards" in `PROJECT.json` names, for each, what the properties leave out.

Only model-checked: liveness (`RequestsAnswered`, `CacheConverges`, `MemoryDrains`, `CloseIsAnswered`, `BackfillFinishes`, `ProcessesStart`), which is out of
the prover's reach, as is the fairness it rests on. `WriteThrough` and `LimitHolds` are false, as the two runs that expect a violation show.

## 6. Not modelled, and the plan

Not modelled for good: rendering and parsing, cryptography, the OIDC protocol
(a library), notification senders (fire and forget), read-only analytics, the
two user interfaces. The status, expiry and password checks of a redirect touch no
shared state and are left out of `ClickLimit`.

Analytics are queries, senders are fire and forget, the wiring, the configuration, validation and cryptography keep no state across
requests. In the components that are modelled in part, what is left out is named in `PROJECT.json`: the password page and the headers of a
redirect, the protocol with an identity provider, flags and the command line, CSRF tokens, the enrolment gate, and what `Accounts` leaves out.
A statement and a `WithTx` transaction are atomic everywhere; what the SQL of a statement computes is the action.

The modules of the plan are written: `LinkCache`, `ClickWriter`, `ClickLimit`, `SecondFactor`, `Accounts`, `LinkTable`, then `Settings`,
`Enrichment`, `Buckets`, `Startup`, `Backups`, `Pages` and `Credentials`; every safety property has its theorem. Left, in this order:

1. An abstract specification of `Accounts`, which holds no row between read and write, and the refinement by the histories without slips.
2. The steps under the liveness properties that are safety: that the ranks they decrease (tries of `flush`, time of a load, cursor of the back-fill)
   never increase between the steps that reset them.
