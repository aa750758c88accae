# Kasra: specification and proofs

Kasra is a FastAPI gateway that inspects the traffic between employees and AI
models. A separate SDK (package `kasra`, not in this repository) detects;
everything here is what the gateway does around it: log what was detected, seal
the log, keep the rules of the database and of every worker's engine in step,
count per user, forward traffic, limit it.

This directory holds TLA+ modules that model those parts, TLC configurations
that check them on small instances, and proofs for every value of the constants.

## 1. Inventory

The program runs as `python -m app`: uvicorn starts 4 worker processes
(`app/config.py:24`, `app/__main__.py:19-25`). Each has its own SDK engine, rate
limiter, connection pool and TCP proxy, and they share one PostgreSQL database at
READ COMMITTED. Synchronous endpoints run in a pool of 40 threads per worker.
Apart from the file lock around `init_db` there is no lock in the code of the
gateway: what orders two requests is the database, and often nothing does.

| component | state | operations | interacts with | hard behaviour |
|---|---|---|---|---|
| audit chain (`services/audit_chain.py`) | `audit_chain` rows | `seal_chain_batch`, `verify_chain` | called by the scan service with a second connection | concurrent sealers read the same last hash; rollback leaves gaps in ids |
| scan service (`services/scan_service.py`) | `audit_logs`, `user_behavior`, `users` | `scan_input`, `scan_output`, `scan_batch`, `_log_to_db`, `_update_user_behavior` | engine, chain, proxies | commit of the log and seal are two transactions; read-modify-write of counters |
| retention (`main.py:47-63`) | `audit_logs` | `_cleanup_audit_logs` | runs in every worker | interleaves with sealing |
| engine service (`services/engine_service.py`) | two engines per worker: the I/O engine and the code scanner | `initialize`, `reload`, `shutdown`, `detect_*`, `review_code` | rules, dictionaries | `reload` takes many steps that requests can see, and can abort halfway |
| rules service (`services/rules_service.py`, `api/rules.py`) | `rules`, `custom_rules` | create, update, delete, import | commits, then edits the engine of its own worker | commit and sync are separate; other workers learn nothing |
| database set-up (`database.py`) | schema, default rows, bundles | `init_db`, `get_db` | every start | reimports the bundles at every start |
| lifespan and seeding (`main.py:69-215`) | how far each start is; sample rows in `users`, `audit_logs`, `user_behavior` | `lifespan` | all of the above | starts run side by side outside the lock of `init_db`; any step can fail |
| rate limiter and middleware (`main.py:219-305`) | hits per client, per worker | `check`, `security_middleware` | every request | both ends of the window; refused calls; one limiter per worker |
| CONNECT proxy (`proxy/tcp_proxy.py`) | listener, connections, two relay tasks each | `start`, `stop`, `_on_connect`, `_handle_connect`, `_relay` | remote hosts | half-closed connections, cancellation, timeouts |
| HTTP proxy (`proxy/http_proxy.py`) | the state of a call | scan, log, forward, scan, log | scan service, upstream models | what is sent before it is checked; failures of logging |
| dictionary service (`services/dictionary_service.py`) | `dictionaries` | CRUD, add and remove entries | read by `reload` | lost updates, stale engines |
| migration of dictionaries (`scripts/migrate_dictionaries.py`) | `dictionaries`, `rules` | one run of a script | shares the tables with running workers | reads the codes, inserts later |
| connection pool and threads (`database.py`, `api/*.py`) | connections, threads, the event loop | `get_db`, check-out, timeout, close | every component | several connections per request; waits on the event loop |
| audit queries, dashboard, categories, pattern types, metrics | rows above | reads, status updates, CRUD | UI | simple |
| user agent hook (`hooks/kasra-hook.sh`), frontend, deploy scripts, migrations | - | - | HTTP | thin or one-off |

What makes each component correct, in the words of this project:

- **audit chain**: a block is made after the commit of the rows it covers and
  covers none above its `last_log_id`; no row is counted twice; every
  `prev_hash` leads back to genesis; `verify_chain` rejects only what concurrent
  sealers forked; without failures a logged row is eventually covered.
- **counters**: they never claim more than happened, are exact where nobody
  raced, belong to users that exist, and nobody waits for ever on an INSERT.
- **rules**: the engines of a worker agree with the tables except for named
  causes; an enabled rule is in force, a deleted one is gone; a reload heals.
- **CONNECT proxy**: the connections it counts are the handlers that run; what
  was opened is closed; a tunnel ends with either side; `stop()` ends.
- **dictionaries**: a change nobody interferes with takes effect as a whole; only
  requests, and starts that put back words of the master data, change a dictionary
  that is there; an engine that has reloaded since the last change looks for the
  words of the active dictionaries.
- **starts**: a start that waits for the lock gets through it or ends; sample rows
  come with their users and in no more copies than there are workers.
- **rate limiter**: no window of a client holds more than the limit; no call is
  refused without that many accepted ones in its window.
- **connection pool**: nobody keeps a connection; everybody is answered even
  when all of them are taken; a block survives a failure to log it.

## 2. Modules

| module | lines of the program | extends or instances | role |
|---|---|---|---|
| `AuditLedger` | `audit_chain.py` | - | abstract: the table as a set of rows that grows as a tree, or as a line |
| `AuditChain` | `scan_service.py:39-116,190-354`, `audit_chain.py`, `main.py:47-63` | `AuditLedger` | requests that log and seal, reviews that only log, cleanup |
| `AuditChainProofs` | - | `AuditChain` | eight theorems |
| `RuleSync` | `rules_service.py`, `engine_service.py`, `database.py:108-192`, `api/rules.py` | - | tables, two engines per worker, administrators, reloads, restarts |
| `RuleSyncProofs` | - | `RuleSync` | two theorems |
| `RuleSyncCauses` | - | `RuleSyncProofs` | three theorems, about divergence and about one worker served one request at a time |
| `DictionaryStore` | the promises of `api/dictionaries.py` | - | abstract: a table on which every change is one step |
| `Dictionaries` | `dictionary_service.py`, `engine_service.py:110-161,263-302`, `database.py:128-192`, `02-master-data.sql`, `migrate_dictionaries.py` | `DictionaryStore` | the table, the administrators' requests, reloads, starts, the script |
| `DictionariesProofs` | - | `Dictionaries` | six theorems, the refinement among them |
| `UserBehavior` | `scan_service.py:119-354`, `dashboard_service.py:32-67` | - | users and daily counters |
| `UserBehaviorProofs` | - | `UserBehavior` | seven theorems |
| `TcpProxy` | `tcp_proxy.py`, start and stop in `main.py` | - | handlers, relays, `stop()` |
| `TcpProxyProofs` | - | `TcpProxy` | five theorems |
| `Worker` | `database.py`, `scan_service.py:96-116`, `http_proxy.py`, `api/scan.py`, `main.py:47-63` | - | event loop, threads and connection pool under logging, proxy calls and cleanup |
| `WorkerProofs` | - | `Worker` | six theorems |
| `RateLimiter` | `main.py:228-239` | - | the decision of one limiter about one call |
| `Service` | `main.py`, the lock of `database.py:128-192` | `RateLimiter` | starts of workers, seeding, limiters, retention and the clock |
| `ServiceProofs` | - | `Service` | five theorems |
| `MC...` | - | the module of that name | symmetry and the choices of operations for TLC |

Operators whose comment begins with "Slip" are wrong versions of the definition
that follows them. No specification uses them; put in its place, each makes TLC
refute the property it is listed with in `PROJECT.json`, which shows that the
property depends on that definition.

### AuditChain

`logs` and `chain` are the committed rows of `audit_logs` and `audit_chain`,
`nextLog` and `nextBlock` the sequences behind their ids. The local variables of
a request are functions of the request. One action is one statement or commit of
`_log_to_db` and `seal_chain_batch`:

| action | code |
|---|---|
| `Detect` | `now` is taken, nothing written; `n` rules triggered, perhaps none |
| `InsertLog` | one INSERT of the flush; the id leaves the sequence here |
| `CommitLogs`, `CommitReview` | `db.commit()`; a review is over with it |
| `ReadLastId` | `SELECT id ... ORDER BY id DESC LIMIT 1` in a new transaction; no row or no batch ends it |
| `ReadPrevHash` | `get_last_chain_entry` |
| `InsertBlock`, `CommitBlock` | INSERT and COMMIT of the chain row |
| `Fail` | any exception, a dead worker: rollback, ids are not reused |
| `Cleanup`, `Tick` | the hourly DELETE, in its own transaction; midnight |

A hash is an injective function of the block's content, the clock included. Two
blocks of the same content therefore have the same hash in the model as in the
code. History variables: `committed`, `covered` (the batch a block was made
for), `overlap` (two requests were ever between `ReadPrevHash` and their end).
The assumption behind `Tick` is that no request lasts for a retention period. That
is fine for the 90 days of the default; `config.py` accepts any number of days, 0
included, with which the cleanup may delete what a request has just committed, and the
model says nothing of that.

### RuleSync

`sdkOn` and `rows` are the tables `rules` and `custom_rules`; `io` and `scanner`
the two engines of every worker, as the definitions they hold. A row keeps what
the engines tell apart: its kind, whether it is enabled, whether it has a
pattern. The kind is where its stages are: of prompts and answers, of code review, or
both (such a rule is a code review rule to a reload, but its requests put it into the
I/O engine). Requests run `Start...`, `Commit...`, `Refresh`, then the engine calls
of their operation (`Switch`, `Remove`, `Add`) or, for an import of built-in
rules, the eight steps of a reload (`Load` ... `CustomOff`). A request reads its row at
its start and commits later what it worked out from it (`Insert`, `Update`,
`SetEnabled`); an update may change any of the columns together. A starting worker
takes the lock of `init_db` (`InitDb`), imports the bundles one after the other, each
with a commit of its own (`ImportBundle`; one that fails is skipped, and a rule that a
request disables in between may keep what the request wrote), and reloads after
the last (`Imported`). `Stop` is a worker that ends for whatever reason.

`excused` is a history of <<rule, worker>> pairs with a known reason to differ;
`Excuse` is the list of those reasons. `lagging` is the same for custom rules and
scanners: no request tells a scanner of a custom rule, so a pair is in it from the
commit that creates, changes or deletes a code review row until the worker has
reloaded from start to end with nothing interfering and no other reload under way, or
stops. A reload that fails, or leaves a disabled rule in the scanner, adds to it. `fresh` are the workers whose last reload nothing
interfered with.

A request that fails at any step (`Fail`) leaves what it committed. The rows of
an UPDATE are merged column by column (`Updated`), as SQLAlchemy writes only the
columns whose value changed since the row was read.

### DictionaryStore and Dictionaries

`rows` is the table by primary key, `used` the ids its sequence has handed out.
An administrator's request reads its row (`Start...`), and one action later writes
what it worked out from it: `CommitChange` is the UPDATE and the COMMIT of
`update_dictionary`, `add_entries` and `remove_entries`, with the columns that
differ from what was read, the list of words and the version among them;
`CommitCreate` fails on a code that is there. A worker that reloads holds the
active dictionaries it read first (`Load`) until `Inject` resolves the references
of the rules with them; `eng` is the result. `Seed` is the part of `init_db` that
runs `02-master-data.sql`, of which `todo` holds the statements still to come: an
INSERT for every seeded dictionary that is not there and, for two of them, an UPDATE
that gives a dictionary the words it lacks of a list, all of the list, and the next
version (`Extend`; lines 174-178 and 189-193 of the file). Every statement is committed
by itself, and one that fails is skipped, so a start may leave a dictionary out, or
unextended. Since this runs at every start, a start puts words back that an
administrator has removed, and may do so between the read and the write of a request.
The migration script
reads the codes that are there (`ScriptReads`), inserts the missing ones in a
transaction of its own (`ScriptInserts`), and then goes through the rules
(`ScriptMigrates`), where it changes nothing (section 6).

`DictionaryStore` is the table its users believe in: `Create` adds dictionaries
with new codes, `Change` applies a request to the row as it is at that moment,
`Delete` removes it, and `Extend` is what a start does to a dictionary that lacks words
of the master data: all of them are added, nothing is lost, the version grows by one.
`Overwrite` is the exception the code makes necessary: a
request whose row has changed since it was read may leave anything in the columns
of that one row, but neither changes its code nor another row.

### RateLimiter and Service

`phase` is how far the start of each worker is: waiting for `flock`, in
`init_db`, one phase per statement of the seeding, the reload, up. A failed
`init_db` ends the start; a failed seeding is logged and the worker goes on
(`SeedFails`), and it serves even if its engine could not be loaded (`ComeUp`). A
stop or a crash may come in every phase (`Stop`). `copies` counts the copies of the sample
rows in `audit_logs`, `users` and `daily` the rows of the two other tables. `calls`
are the windows of each worker's limiter, `accepted` (history) all calls it has
let through since it started. `Admit` and `Refuse` are `security_middleware` with
`RateLimiter.check`; a call that is let through may leave rows. `Cleanup` may empty
the log, after which the next start fills it again beside the users that are
still there. `Tick` is the clock.

### UserBehavior

One action per statement of `_update_user_behavior`: `FindUser`, `AddUser`,
`FindRow`, `AddRow`, and `Commit` of the caller's transaction. A review commits,
and counts again in a transaction that ends with its session (`Leave`). `Commit`
writes, as SQLAlchemy does, only columns whose value changed, with the values
computed from what was read. `events` is what the counters should be and `raced`
the keys that changed between the read and the write of some request.

### TcpProxy

A handler's `pc` is the `await` it is in; an action takes it to its next one.
`forward` holds the two `_forward` tasks of a tunnel, by the side they write to;
`socket` and `gone` the state of our end and of the peer's. `cancel` is a
cancellation that was requested and not delivered. Bytes are abstracted: a
reader may always have something to forward until its peer closes. A half-closed
peer (`gone`) may go on reading for ever, or never read. `Forget` lets a
connection number be used again, so that a run of any length fits in the model.

### Worker

A client is a synchronous request in a thread, a proxy call or the cleanup, the
last two on the event loop itself. `held` counts the connections it has taken
out: a session takes one at its first statement and returns it at its commit,
its rollback or its `close()`, and after a failed statement only at the
`close()`. A proxy call or a cleanup that fails skips the `close()`. Its connection is
`held` as long as a variable refers to the session, and then `lost` (`Drop`): a session
and its transaction refer to each other, so only Python's garbage collector frees them,
at a time of its own (`Collect`). `LoopFree` says that no coroutine is inside a synchronous database
call. A request gets its thread, and returns its result, through the loop.

## 3. Runs

| run | instance | distinct states | shows |
|---|---|---|---|
| `chain_concurrent` | 2 gateways, 1 reviewer, 3 requests of at most 1 row, 2 midnights, 1 day of retention | 659,645 | with requests interleaved at every statement and failing anywhere: the chain covers committed rows, once, is rooted, is a tree, breaks only after an overlap, and never heals |
| `chain_fair` | 1 gateway, 1 reviewer, 3 requests of at most 2 rows, 2 midnights, 1 day of retention, no failure | 158,916 | one sealer implements the linear chain; what it commits is eventually covered |
| `rules_serial` | 1 I/O and 1 code review rule, 1 custom id of any kind, all operations, one at a time, restarts | 203,637 | enabled I/O rules are enforced, deleted ones are gone from the I/O engine, whatever the sequence; the I/O engine and the built-in rules in the scanner follow the tables but for named causes, custom rules lag in the scanner until a reload; a reload that is left alone heals every divergence |
| `rules_concurrent` | 1 I/O rule, 1 custom id, 1 worker, two requests at once, failures, restarts | 1,411,049 | the I/O engine falls behind for named causes only |
| `rules_restart` | 1 worker, toggles only | stops | finding 1 |
| `dictionaries` | 2 codes, one of them seeded and extended, 2 words, 2 administrators, 1 worker, the script, 2 primary keys, versions up to 2 | 1,928,423 | the endpoints, starts and the script implement `DictionaryStore`; an engine nothing has overtaken follows the table |
| `behavior_counters` | 2 users, 2 requests at once, 3 in all, 1 midnight | 68,112 | counters never too high, exact unless raced, with their users; no wait for ever |
| `behavior_rate` | 1 user, 2 at once, 4 in all | stops | finding 2 |
| `tcp_tunnels` | 2 connections, reused, one start and stop after the other | 186,876 | task accounting, sockets, orphans, ends of tunnels and of `stop()` |
| `tcp_stop` | 2 connections | stops | finding 3 |
| `worker_pool` | 2 requests, 1 proxy call, the cleanup, 2 threads, 2 connections, of which any may be lost for ever | 103,972 | leaks, gridlock, blocking without a log, everybody answered |
| `service` | 2 workers, 1 client, 2 calls per window of 2, 4 instants | 180,320 | samples are whole and bounded; what limiters admit and refuse; every start gets through the lock |

### Bounds, and why they are enough

- *Requests.* The races are between two actors and one row: two sealers, two
  counters of one user, two administrators of one rule, one worker that restarts
  beside one that serves. Two of a kind show all of them; the third request
  (`MaxRequests` = 3) comes when the other two have left a fork, a gap in the ids
  or a stale row behind. `behavior_rate` needs four: one slow and three blocked.
- *Rows per request.* Two in `chain_fair`, so that a batch has more than one id;
  one in `chain_concurrent`, where what matters is how the batches of three
  requests interleave. The theorems cover any number.
- *Days.* `MaxDay` = 2 with one day of retention is the least that lets the
  cleanup delete rows while requests of a later day run.
- *Clock.* One value of `Instants`: the worst case, in which hashes differ by
  content alone.
- *Rules.* Every rule of a kind is treated alike and none refers to another, so
  one of each kind shows every branch; requests for different rules meet in
  `rules_concurrent`, where one built-in and one custom rule change at once, but no
  custom rule is imported and no built-in one deleted. That no worker learns of
  the requests of another is the first line of `Excuse`, and a matter of the theorems:
  they cover every operation, any number of workers and requests at once.
- *Dictionaries.* One dictionary that is seeded and one that is not show every
  branch of starts and script; two administrators show every overwriting. Two
  primary keys are enough for a dictionary that is deleted and created again, the
  bound `MaxVersion` for a request that writes a version that was reached since
  it read. A dictionary is seeded with version 1 and a start and a request, or two
  requests, race for version 2; a start that puts back what an administrator has removed
  is the same step one version later, which the theorems cover. A second worker adds
  nothing: workers share the table only, and the lock lets one of them at a time run
  the master data.
- *Time.* A window of 2 and a clock of 4 instants let a window open, fill, pass
  and open again, with calls at either end of it. The theorems hold for any window
  and any clock.
- *Pool.* With 2 connections the three clients that may want a second one, or
  wait for one on the loop, can hold them all. A pool of one is a case of its own:
  a seal that wants its second connection can then only time out.
- *Connections of the CONNECT proxy.* They share `tasks` and `stop()` only; two
  are one that `stop()` waits for and one that comes meanwhile.

No run uses a state constraint; symmetry is used in `rules_concurrent`,
`chain_concurrent` and `dictionaries`, which check no liveness property.
Deadlock is checked everywhere: requests that trigger no rule, or name no user,
are not bounded and keep the models moving.

### Fairness

- `AuditChain`, `UserBehavior`: weak fairness of each statement of a running
  request. Threads run, and the database answers a statement as soon as no other
  transaction stands in its way. Nothing forces a request to arrive, time to
  pass, or the cleanup to run. `EventuallySealed` is stated for `CalmSpec`: a
  request that fails between its commit and its seal leaves rows uncovered, and the
  next block of anybody covers them.
- `TcpProxy`: the event loop runs what is ready, which is a task whose `await`
  is over or whose cancellation is delivered, and a socket that lost its peer is
  reported. Peers owe nothing. `EitherSideEndsBoth` therefore has an exception,
  `Stalled`: a peer that is left and neither reads nor closes. A handler that only
  has an error to answer (`Refused`) ends as well: the message is short and its
  `drain` returns at once.
- `Worker`: weak fairness of `Get` because a wait for a connection ends by itself
  after `pool_timeout` = 30 s, and of `Work`. `Begin` and `Return` need the loop
  free, which other coroutines may take away again and again; asyncio's ready
  queue and the thread limiter are first in, first out, which strong fairness
  expresses. An upstream call may never end (no fairness), nor need anybody call, nor
  the collector ever run.
- `Service`: weak fairness of the steps of a start, and strong fairness of `Lock`:
  the lock is free again and again and the kernel wakes a waiter when it is
  released. Calls, the clock, stops and crashes are not forced.
- `Dictionaries` states no liveness, for no endpoint asks for a reload.
- `RuleSync` states no liveness: what a request leaves behind is left until the
  next reload, and nothing in the code makes one come.

## 4. Proofs

The theorems hold for every value of the constants that satisfies the module's
assumptions: any number of requests, rows, users, days, workers, dictionaries,
connections, threads. They are named in `PROJECT.json`; `tlapm` checks all of them.

### AuditChainProofs

| theorem | property | inductive invariant |
|---|---|---|
| `TypeCorrect` | `TypeOK` | itself |
| `SealsAreSound` | `SealsFollowCommits` | `LogInv`, `IdInv`, `SealInv` |
| `ChainIsRooted` | `LinksLeadBack` | `IdInv`, `TreeInv` |
| `ImplementsTree` | `GrowsAsTree` | the same, and `GraftStep`: every step grafts one row or stutters |
| `OnlyOverlapBreaksChain` | `ForksNeedOverlap` | `IdInv`, `LineInv` |
| `OneSealerImplementsLedger` | `GrowsInLine` | `LineInv`, `SealerInv`; assumes at most one gateway |
| `RowsSealedOnce` | `NoRowSealedTwice` | `IdInv`, `BatchInv` |
| `BrokenChainStaysBroken` | `BrokenForGood` | `TreeInv`, `DepthInv`, `Distinct` |

None of the properties is inductive. That a block's `last_log_id` is not below
its rows holds because the request read it while its own rows were still in the
table: `LogInv` says so of every request past its commit, which needs the
assumption that no request lasts as long as rows are kept. `IdInv` says that ids of
blocks are unique, also of those not committed. `TreeInv` says that what a
request holds, or has inserted, is rooted in the committed table, which only
grows. `LineInv` says that without overlap there is one sealer, that it extends
the tip, and that the tip does not move under it. With one gateway `SealerInv`
shows that the overlap never happens, in the presence of failures too, which
`chain_fair` leaves out.

`BrokenChainStaysBroken` is about steps: none makes a table that fails
`verify_chain` pass it. Ids are handed out before the commit, so a late block may
fill a gap below rows that are there, and it has to be excluded that it is just
the link the row above it missed. `DepthInv` says that every hash has a depth, the
number of blocks it stands on, and that every row, committed or not, is one deeper
than the row it extends. In a table that passes, the depth grows with the id
(`DepthGrows`). A row above the late block that extends it has, by `TreeInv`, that
same hash in a committed row below it as well: two rows of one depth, which such a
table has not (`NoBlockMends`).

### UserBehaviorProofs

`TypeCorrect` (`TypeOK`) needs `NamedInv`: whoever is on the way to count has a user.
`CountersHaveUsers` (`RowsHaveUsers`) follows from `UserInv`: a request past
`FindUser` found the user or commits it with the row. `CountersNeverTooHigh`
(`NeverOvercounts`) follows from `HeldInv`: what a request holds was committed
before. `CountersExact` (`ExactUnlessRaced`) needs `RowInv` (of those that insert a
row for a key only one does, and nobody has committed it) and `ExactInv` (who
holds a key nobody raced for holds its current value). Two consequences have no
run: `SerialCountersExact`, that with one request at a time the counters are exact
always, and `RatesSoundUnlessRaced`, that of a row nobody raced for the blocked
requests are not more than all requests, so that finding 2 needs a lost update.

`InsertsNeverDeadlock` is the safety half of `EventuallyAnswered`: a request that
waits for the insert of another waits for one that either does not wait or waits
for one that does not (`NoCircle`), for any number of requests. `OrderInv` is the
lock order behind it: the user is inserted before the row, and the row just
before the commit.

### TcpProxyProofs

`TypeCorrect`; `TasksCounted` (`TasksAreHandlers`) by `TaskInv`, which adds that
a server that is down has no handlers; `EndsCloseSockets`
(`OpenSocketsHaveATask`) by `OpenInv`, which adds that there is no connection to a
target before the handler made it; `OrphansAreCancelled` (`OnlyStopOrphans`) by
`OrphanInv`, which adds that nothing forwards before the handler relays.

`StopWaitsForTheCancelled` is the safety half of `StopEnds`: whoever `stop()` waits
for runs, and is to learn of its cancellation, or has lost it in
`asyncio.wait_for` (`StopIsHeard`). The second can happen in two ways. The connection
is made in the same moment, and the handler goes on with its tunnel; or it has failed
in the same moment, and the handler has nothing left to do but to answer with the
error. `StopInv` adds that nobody else has lost one, so that a handler that is
still connecting when it is waited for has its cancellation before it.

### WorkerProofs

`HoldInv` says how many connections a client holds at each place. It proves
`ConnectionsComeBack` (`NothingLeaks`), `BlockedNeverForwarded`
(`BlockedStaysHere`) and `StuckHoldOne`: whoever is stuck holds at most one
connection. `PoolKeepsLimit` (`TypeOK`, with the limit of the pool in it) counts
the set `Out` of connections that are held, as pairs of a client and a number, so
that taking or returning one adds or removes one element and no sum over the
clients is needed; a dropped session (`DroppedInUse`) moves one from `Out` to `lost`.
`GridlockIsRare` (`GridlockNeedsCapacity`) maps the
connections of a gridlock, of which nobody holds two, to their holders, one to one.
`FewClientsNeverGridlock` draws the conclusion: as long as clients and lost connections
are together fewer than the pool has connections, it never comes to that. (The
program's has 30, and 40 threads.) How many are lost is up to the collector: nothing in
the code bounds it below the size of the pool, and with all of them lost every
request fails after 30 seconds until there is a collection.

### RuleSyncProofs

`TypeCorrect` is about the tables, the engines and the requests (`Types`), with
what each kind of request may be doing (`Moves`). `FreshReloads`
(`FreshReloadAgrees`) holds for any number of workers, administrators and rules. It
is not inductive: while a reload runs, the two engines pass through states that
agree with nothing. `Reloads` says how far it has come: for every step, which part
of which engine has been rebuilt from the tables (`Progress`). A reload is `fresh`
only as long as nothing was committed and no other request touched its worker, so
the tables it read are those in force at its end.

### RuleSyncCauses

`DivergencesHaveCauses` (`DivergenceHasCause`) holds for any number of workers,
administrators and rules, with failures and restarts at every step. The property
speaks of quiet states only; the invariants say why they are as they are. There are two,
because two histories say who may differ: `Causes` for the I/O engine and the built-in
rules of the scanner (`excused`), `Scanners` for custom rules in the scanner
(`lagging`).

`Causes` is about a rule `x` and a worker `w` without an excuse (`Tidy`) and has five
parts:

- `Sole`: whoever asks for `x` asks `w`, and no other request there is about `x` or
  reloads. This is what the pairs in `excused` exclude.
- `Reads`: what a reload in `w` holds of the tables is, for `x`, still so.
- `Knows`: a request about `x` holds the row as it is, once it has refreshed it, and
  has left the engine free of `x` where it will add nothing.
- Either the engine agrees with the tables on `x`, or a request about `x` has its
  engine calls before it, or a reload of `w` has yet to reach the step that settles
  `x` (`IoSteps`, `CrSteps`): a rule that is on is settled by `Inject`, one that is
  off by `SwitchOff` only, since `Inject` turns every built-in rule on.
- `Loaded`: an engine that is loaded holds every built-in rule, on or off, so that
  `Switch` finds it. Without that a toggle would change nothing.

A step leaves `x` and `w` alone, which `Kept` states once for all of them, or it is a
step of the one request about `x` (`CommitOwn`, `SyncOwn`) or of a reload of `w`
(`ReloadOwn`). `Plans` adds what a request at a given step is for, `Told` that a
start that is importing bundles has excused the built-in rules everywhere else.

`Scanners` is simpler, since nothing but a reload touches a custom rule in a scanner:
of a custom rule that does not lag in `w`, every reload of `w` has read what is still in
the table (`Sees`), and either the scanner is right about it or a reload has yet to
pass the step that puts it there (`Follows`). The step that clears `lagging` is the end
of a reload that was undisturbed from its first step to its last, which has put in
what it read and switched off what is disabled (`ClearedFollows`).

`SerialRulesEnforced` (`EnabledRulesEnforced`) and `SerialRulesGone`
(`DeletedRulesGone`) are about `CalmSpec` with one worker and one thread that serves
administrators, and any number of rules: `OneActs` turns that into the fact that
at most one process is at work. Here no rule is excused, not even one that an
operation leaves out of step by design, so that the parts above do not apply; what
holds of every rule instead is weaker on purpose. `Solid` says that the I/O engine
enforces the rule if the tables enable it (or the request that enabled it, or a
reload, is still to see to it), that the engine has it only if a table has it (or
the request that deleted it is still to remove it), and that what the request
or the reload under way has read is still so. A rule may be in force although the
table has switched it off, or wait for a reload in the code review engine.

### DictionariesProofs

`Inv` has four parts: what the table may hold (`Table`), what the processes may
hold (`Shapes`), what a request that is about to write has found out before it
was (`Requests`), and what a reload nobody has overtaken has in hand
(`Reloads`). `ImplementsStore` (`ChangesAreAtomicUnlessStale`) is the refinement:
every step of the requests, of starts and of the script is a step of
`DictionaryStore` or a stutter. The step that matters is `CommitChange`: if the
row is the one that was read, writing the differing columns is applying the
request; if not, it is an `Overwrite` of that row and of no other. `EnginesFollow`
(`FreshEnginesFollowTable`) follows from `Reloads`.

`ApartChangesAreAtomic` says when there is no `Overwrite` at all. Its assumption,
`Apart`, has two halves: no two requests that are about to write are about the same
dictionary, and no worker that is starting is still to extend the dictionary of such
a request. Then, however many requests there are, and whatever starts, reloads and the
script do beside them, every step is a step of `DictionaryStore` without the exception.
Between its read and its write nobody but the request itself writes to its row
(`OthersSpare`), so the row is the one it read (`NoneStale`).
`VersionsTellListsApart` draws a conclusion about the versions clients see.

The second half of `Apart` cannot be had from the code: with one thread that serves
administrators a start may still get in between. `OneAdministratorMeetsOnlyStarts`
(`RequestsMeetOnlyStarts`) says that it is all that may, and what the request then
finds: its row with the words put back, once, since a row that has them all is not
extended again.

### ServiceProofs

`TypeCorrect`; `LimitHolds` (`RateLimited`) and `NoUndueRefusal`
(`RefusalsAreDue`) for any limit, window, clock and number of workers, from
`Remembers`: a limiter has forgotten no accepted call that is still in the window.
`SeedingIsWhole` (`SamplesAreWhole`) bounds the copies by counting the starts that
still hold an old answer (`Pending`). `SeedingAloneIsOnce` says what a lock around
the sample rows would give: while no two workers are between their count of the
audit log and their commit, there is at most one copy.

### Only model-checked

- Liveness: `EventuallySealed`, `EventuallyAnswered`, `EitherSideEndsBoth`,
  `StopEnds`, `EveryRequestEnds`, `LoopGoesOn`, `StartsComeUp`. The prover has no
  rules for fairness. `InsertsNeverDeadlock` and `StopWaitsForTheCancelled` are
  theorems about what two of them rest on.
- Sums over rows, such as the one behind the block rate: an induction over a set.
  The theorem is about each row.

Every other invariant and action property of a passing run is stated by a theorem.

## 5. What is taken as given

The programs below are not in the repository; how they are used is, and the
models assume no more than this of them.

- *PostgreSQL* at READ COMMITTED: a statement sees what is committed when it
  starts; sequences hand out each number once; an INSERT of a unique key waits
  for another transaction's INSERT of it, and fails when that one commits.
- *CPython*: what is dropped in a circle of references is freed by the collector, which
  runs at some time or never.
- *SQLAlchemy*: an UPDATE names changed columns only; rows a session holds are not
  read again by a query; `commit()` and `close()` return the connection, a failed
  flush does not; the pool has 10 connections and 20 of overflow and gives up after 30 s.
- *asyncio* of Python 3.11: a task runs until it awaits; `wait_for` returns the
  result of a future that is done, or raises its exception, even if it was cancelled in
  that moment;
  `asyncio.wait` cancels nothing; `Server.wait_closed` returns at once.
- *Starlette, anyio*: 40 threads for synchronous endpoints; the exit of
  `get_db` is a task of its own in a thread.
- *The SDK*: `add_custom_rule` replaces a rule of the same id,
  `remove_custom_rule` tolerates unknown ids, `load_rules_from_list` replaces the
  whole set in one step, `enable_rule` and `disable_rule` raise
  `RuleNotFoundError` for unknown ids.

## 6. Findings

1. *A restart enables disabled rules* (`rules_restart`). `database.py:171` imports
   the bundles at every start and overwrites `enabled`;
   `docs/04-enable-disable-test.md:98-109` (TC-ED-10) expects the opposite.
2. *A block rate above 100 percent* (`behavior_rate`). `scan_service.py:170`
   writes a stale total over newer ones while `blocked_requests`, unchanged, keeps
   the newer value; `tests/test_dashboard_api.py:52` states the range 0 to 100.
3. *`stop()` leaves tunnels running* (`tcp_stop`). A handler cancelled in
   `asyncio.wait` leaves its two relay tasks to themselves, and no reference to
   them; `tcp_proxy.py:84` promises to clean up.

Other places where the documents and the code part, read off the code and not
checked by a run of their own:

- The chain forks: `audit_chain.py:104` reads the last hash without a lock, so
  two requests can extend the same row, and `verify_chain` reports a broken chain
  for ever, though nobody touched the table. `docs/05-database-test.md:70-79`
  (TC-DB-08) expects adjacent ids to be linked. `ForksNeedOverlap` and
  `BrokenForGood`, checked in `chain_concurrent`, say when this happens and that it
  stays; `OnlyOverlapBreaksChain` and `BrokenChainStaysBroken` are the proofs.
- `config.py:39` calls `rate_limit_rpm` requests per minute and IP. Every worker
  has a limiter of its own (`main.py:241`), so a client has as many times the limit
  as there are workers, and a new allowance when one restarts. `RateLimited` is
  stated per worker.
- The docstring of `init_db` (`database.py:108-116`) promises retries on a
  failing connection; neither parameter is used, and a failure ends the start.
- `migrate_dictionaries.py:3` says that rules are updated in place. It changes
  the JSON value inside the row it loaded, which SQLAlchemy does not notice, and
  the commit writes nothing (`ScriptMigrates`). The dictionaries are inserted.
- A seeding that fails skips `db.close()` (`main.py:151`): the session keeps its
  connection until it is collected. So do a proxy call that cannot log
  (`http_proxy.py:151,232`) and a cleanup that fails (`main.py:61`), which `Worker` models.
- A custom rule for code review takes effect at the next reload, which nothing but a
  start or an import of built-in rules brings: its requests tell the I/O engine alone
  (`rules_service.py:290`), where such a rule does nothing. One for both kinds of stages
  runs on prompts until a reload puts it into the scanner alone.
- The header of the seed file (`02-master-data.sql:4`) says that it is safe to run again
  because all its INSERTs use WHERE NOT EXISTS. Its two UPDATEs (lines 174-178 and
  189-193) undo an administrator's removal of one of their words at every start.
- `rules_service.py:251` looks for the id and inserts later: of two requests that
  create the same rule one ends in an error of the database, not in the message
  that the rule exists.
- A reload puts the rules into the engine before it switches the disabled ones off
  (`engine_service.py:161`): for a moment they are in force.
- `BatchUpdateRequest` (`api/audit.py:40`) does not check the status that the update of
  a single row checks (`api/audit.py:29-33`).
- `docs/05-database-test.md:166-173` (TC-DB-21) expects every audit row to be at
  or below the last block's id. Batch reviews (`scan_service.py:276`) log rows and make
  no block; the next sealing request covers them, if there is one.
- `docs/05-database-test.md:109-112` (TC-DB-13) and `api/rules.py:116` say that
  deleting a built-in rule resets it to enabled; `rules_service.py:386-391` disables
  it in the table and leaves the engine as it is.
- `docs/05-database-test.md` TC-DB-18 expects five detections to count five; with
  requests side by side the counters may stay behind. `ExactUnlessRaced` and
  `NeverOvercounts` are what holds.
- The docstring of `verify_chain` calls `blocks_verified` a number of blocks; on
  failure it is a row id.

## 7. Not modelled

- *What the SDK detects*: a detection is a number of rules and whether they block.
- *Audit service*: lists, reports and exports change nothing, and a status update
  is one UPDATE of one column, the last writer wins. A report takes its three
  figures from three statements with three snapshots, and pages are cut by OFFSET from
  a list that grows and may have ties, so a row can be seen twice or not at all;
  the code promises neither, and there is no property to state.
- *Dashboard*: the sums behind the block rate are modelled with `UserBehavior`;
  the other figures are single reads.
- *Categories and pattern types*: one row, one statement, one commit each, and
  unique names are kept by the database.
- *Health, metrics*: counters of one process that nothing depends on.
- *Configuration, logging, entry point, routers*: they run once, before anything
  concurrent; the number of workers and the limits enter as constants.
- *Frontend, its server and the agent hook*: users of the API without a state the
  gateway relies on.
- *Schema migrations, deployment*: one-off, or configuration of other programs. The
  constraints the schema sets are part of the models.
- *Skills, system tests, sample cases*: prompts and tests of the above.

## 8. Plan

The order is by how much depends on the part. Steps 1 to 9 are done, and the limit
of the pool (step 10) is a theorem.

1. `AuditLedger`, `AuditChain`: the chain, its abstract ledger and the proofs.
2. `RuleSync`: tables and engines of several workers.
3. `UserBehavior`: the counters, and their proofs.
4. `TcpProxy`: handlers, relays and `stop()`, and their proofs.
5. `Worker`: the resources all of the above run on, and its first proofs.
6. `Dictionaries`: read-modify-write by several administrators, starts and a script,
   the engines that follow, and the abstract table it implements.
7. `RateLimiter` and `Service`: limiters, the clock, starts and seeding, for every
   limit and any number of workers.
8. Proofs about `RuleSync`: its types, and what a reload achieves.
9. A proof of `DivergenceHasCause` for any number of workers and administrators.
   Done since: every other property of a passing run that is not a liveness
   property, and what holds of each component where its requests do not overlap.
10. An abstract specification of the pool (a counting semaphore with timeouts) that
    `Worker` implements.
11. Requests of `AuditChain` on the connections of `Worker`: the failure between
    the commit and the seal as the timeout it mostly is.
