# Verification of systembolaget-mcp

TLA+ models of the nightly sync of systembolaget-mcp and of the tools that answer from its
data, their model checking with TLC, and proofs checked by TLAPS. Paths are relative to the repository; `sb_stack` is
`src/src/sb_stack`.

## The system

The program mirrors the product catalogue of Systembolaget into a DuckDB file and answers
questions about it. One container runs three services: an embedding server, a sync
scheduler and an MCP server. All state is under one data directory.

| Part | State | Operations | What makes it hard | What makes it correct |
|---|---|---|---|---|
| lockfile (`sync/lockfile.py`) | one file with a pid and a time | acquire, release | check and write are separate system calls; a process dies holding it; pids come back | one run at a time; a leftover file does not block for good; nobody removes another's lock |
| orchestrator (`sync/orchestrator.py`, `sync/phase_types.py`) | the run's `phase_results`; its rows in `sync_runs`, `sync_run_phases`, `sync_config` | run_sync | exceptions and cancellation at every await; death between autocommitted writes | rows tell what happened and agree with each other; every run ends |
| scheduler, `sb-stack sync` (`sync/scheduler.py`, `sync/cli.py`) | an in-memory job | first run, nightly run, manual run | a manual run meets the nightly one; a restart in the middle of a first run | runs never overlap; a skipped run leaves no trace |
| Phase A (`sync/phases/fetch.py`), raw archive (`raw_archive/`) | a directory of pages per day | fetch and archive pages | partial fetches, a second run of the day, a catalogue that moves | an archived page is what the API said; the outcome says whether all were seen |
| Phase B (`sync/phases/persist.py`, `sync/product_mapper.py`) | `products`, `product_history`, stores, stock, taxonomy | one transaction | change detection by a stored hash; absence as evidence | listed values are stored, changes logged, only dropped products discontinued |
| Phase C (`sync/phases/details.py`) | detail columns, `last_detail_fetched_at` | fetch and merge, concurrently | failures of single products, retry in a later run | missing details arrive |
| Phases D, E, F (`sync/phases/`) | embeddings, full-text index, backups, metrics | derive, index, close | embedding service not ready; two definitions of one index; best-effort steps | a closed run is whole; derived data follow the rows |
| API client (`api_client/`) | the subscription key | requests, retries, shared refresh of the key | many requests meet an expired key at once | one refresh serves all; no needless failure |
| notifications (`notifications/ntfy.py`) | a file with failure count and cooldowns | evaluate, fire_critical | undeliverable alerts, cooldowns | each change of state is told once |
| embedding client and server (`embed/`, `embed_server/`) | none kept | ready, embed with retry | warm-up, batches of different fate | vectors belong to their texts |
| database (`db/`) | the schema, applied migrations | migrate, open for writing or reading | two processes migrate; one writer excludes other processes | migrations apply once, in order |
| MCP server, pairing (`mcp_server/`, `pairing/`) | none | queries | several reads while a sync commits | consistent answers |
| bootstrap, doctor, CLI | flags in `stores` | start-up, diagnostics | order of services | idempotent |

How they interact: the scheduler and the command call `run_sync` (a function call within a
process; across processes, only the lockfile keeps them apart). `run_sync` calls the
phases in order; Phase A hands pages to Phase B through files, Phase B hands changed
products to Phase C and D in memory and through columns of `products`. Phase F closes the
run in three tables, which the scheduler (`_needs_first_run`), the status tool and the
metrics read. The notifier is told the status at the end. The MCP server reads the same
database file.

`PROJECT.json` lists every component with what is modelled of it, and under `hazards` what
is hard to test, line by line, with the properties that would notice.

## Modules

| Module | What it is |
|---|---|
| `SyncLock` | what `run_sync` expects of the lock: a region entered only while it is empty |
| `Lockfile` | `sync/lockfile.py`, one step per file-system call |
| `SyncRun` | the life of a sync run: its callers, rows, phases, exceptions, Phase F, alerts |
| `SyncRunProofs` | proofs about `SyncRun` |
| `Catalog` | what runs make of the catalogue: pages, products, history, the queue of details |
| `LockfileCatalogProofs` | proofs about `Lockfile`, with the refinement of `SyncLock`, and about `Catalog` |
| `ApiClient` | requests that share the limiter, the subscription key and its refresh |
| `ApiClientProofs` | proofs about `ApiClient` |
| `Alerts` | `notifications/ntfy.py`, from one run to the next |
| `Stock` | what runs make of the stock of the home stores: pages, `stock`, `stock_history` |
| `StockProofs` | proofs about `Stock` |
| `Details` | Phase C as tasks under one gather, and those that outlive their run |
| `DetailsProofs` | proofs about `Details` |
| `Derived` | Phases D and E and the index of Phase F: embeddings and the full-text index |
| `DerivedProofs` | proofs about `Derived` |
| `Database` | `db/`: the file and its log, migrations with their snapshot, writers and readers |
| `DatabaseProofs` | proofs about `Database` |
| `Retrieval` | `pairing/` and the tools that answer from embeddings |
| `RetrievalAlertsProofs` | proofs about `Retrieval` and about `Alerts` |
| `MCLockfile`, `MCSyncRun`, ... | for each module the instance TLC checks |

`SyncLock` composes them: `Lockfile` is shown to implement it, `SyncRun` takes its lock by
`SyncLock`'s actions, and `Catalog`, `Details` and `Alerts` rely on runs not overlapping. `SyncRun`
says which runs the notifier is told of (`told`), and `Alerts` what becomes of it.
`Catalog`'s `PageFails` and `DetailFails` are the calls that `ApiClient` ends with an error,
and so is `Stock`'s `PageFails`. `Catalog`, `Stock` and `Derived` are the three
kinds of tables one run writes, each with the other two reduced to what it needs of them; in
`Database` a run is a sequence of `Write`s, and in `Retrieval` one `SyncCommits`.

Two modules of proofs extend two components each. The specifications of `Catalog` and
`Retrieval` are therefore named `CatSpec` and `RetSpec` (`CatInit`, `RetNext` and so on), and
their places `phase` and `stage`, where the other modules have `Spec` and `pc`.

### Lockfile

State: `file` (absent; empty, which is what an opened but unwritten file reads as; or held
with a pid and an age), and for each process its place `pc`, the record `seen` by `_read`
and the age of the timestamp it took (`mine`). Ages stand for timestamps, because the code
compares nothing but ages with `stale_after_hours`; they saturate there. `AcqExists`,
`AcqRead`, `AcqDecide`, `AcqOpen`, `AcqWrite` are the five steps of `acquire` (opening
truncates, the write comes after), `RelExists`, `RelRead`, `RelUnlink` those of `release`.
`Crash` and `Restart` let a process die anywhere and its pid come back, `Tick` lets time
pass.

`acquire` is not atomic, and nothing in the file system makes it so. `Spec` is the code as
it is; under it two runs can overlap, and TLC finds how. `OrderlySpec` adds the two
conditions the code relies on: two acquires do not overlap (the nightly and a manual run do
not start within the same instant), and no run lasts `StaleAfter`, which the header of
`lockfile.py` says of the six hours. Under them everything holds, and that is what the
other modules use.

### SyncRun

A caller is a process that calls `run_sync`. `pc` follows `run_sync` and the functions it
calls; `run`, `out` (`phase_results` by phase), `pending` (an exception on its way out) and
`work` (what decides between ok and skipped) are its local variables. `row` holds
`sync_runs` and `sync_run_phases` by id, `lastRun` is `last_run_id`, `told` what the
notifier heard; `fate` is a history variable that says how a run really went.

| Action | Code |
|---|---|
| `Boot`, `Start` | `run_scheduler` up to the first run; the cron job or the command |
| `Acquire`, `Busy` | `lockfile.acquire()`, its `LockfileBusyError` |
| `InsertRow`, `InsertFails`, `OpenArchive` | `_start_run_row` and the archive's directory, ahead of the inner `try` |
| `Fetch` ... `Index` | the phases, by outcome; `Abort` is a `CatastrophicError`, `Escape` any other exception or a cancellation, as far as each phase lets it out |
| `CloseRow`, `RecordPhase`, `PhasesRecorded`, `WriteConfig` | Phase F's statements, each committed by itself |
| `FinalFails` | one of them raises |
| `Alert`, `Release` | `AlertManager.evaluate`, the outer `finally` |
| `Crash`, `Restart` | death of the process anywhere; s6 or a person starts it again |

A leftover lockfile may look alive or dead (`Lockfile` says when); `Acquire` and `Busy` are
then both possible. Outcomes are kept as far as `overall_status` tells them apart: clean
(ok, skipped), short (partial, failed) and fatal. The result that the `except` clause
appends has a slot of its own, `abort`; in `sync_run_phases` it takes the row of Phase A,
whose name it bears.

### Catalog

`world` is what the API would list, in pages; `archive` is today's directory; `db` the
products table, where `hash` is the value `field_hash` was computed from and `told` the row
as one would rebuild it from `product_history`. A run is `Start`, `PageFetched` for each
page, `RestFetched`, `Persist` (Phase B, one transaction), `Select`
(`_changed_product_numbers`), `DetailFetched` for each product, `DetailsDone`, with
`PageFails`, `RestFails` and `DetailFails` for errors of requests, and `RunStops` for a
run that is killed, aborted or left by an exception at any point. `NewDay` and
`WorldMoves` are the outside.

The tasks of Phase C run one after the other here; `Details` has them at once.

Abstractions: one tracked value stands for the tracked fields that payloads carry, and
`is_discontinued` for the one they always carry as false; one partition of `NPages` pages
stands for all, within `PAGE_CAP`; the details fetch shows the value the catalogue lists.
`texted` are the rows without details to which a list payload has given one of the three texts
that `_changed_product_numbers` takes for a sign of details (`taste`, `aroma`,
`producer_description`); whether it does is open whenever Phase B writes such a row.
`blurred` collects the products for which the two known leaks of `product_history` have
happened, so that `HistoryExplainsRow` can say that there is no third.

### ApiClient

A request is one call of `_get_json`; everything runs in one event loop, so a step is what
happens between two awaits. Per request: its place `pc`, the key in its header `hdr`, its
`attempt`, its `round` (2 after a refresh) and `got`, the key it has read from the frontend.
Shared: `free` (the limiter), `lock` (`_refresh_lock`) and `key` (`api_key`). Outside: keys
are numbered as the frontend publishes them, `page` is the one it shows, and the API
accepts those from `oldest` on.

| Action | Code |
|---|---|
| `Start` | `_get_json` up to the limiter; the key is taken here, before the wait |
| `Send` | `limiter.acquire()` returns, the request goes out |
| `AnswerOk`, `AnswerFails` | a success; an error that is not retried |
| `AnswerTransient`, `Resume` | a retry of tenacity's: the wait, and the next `_once()` |
| `AnswerAuth` | 401 or 403: raised, or on to the refresh |
| `Enter`, `ReadPage` | `async with self._refresh_lock`, `extract_config` |
| `ExtractionFails`, `SameKey`, `NewKey` | its three ends |
| `Cancel` | cancellation at any await |
| `Publish`, `Revoke` | the frontend and the API move on |

Mobile requests, and all requests of a client without a `key_refresher`, never refresh;
`Mobile` stands for both. The endpoints, the parsing of answers and the scan of the chunks
the homepage names are left out: a scan is one read of the published key, or a failure.

### Alerts

`file` is `alerts.json` (`Broken` when missing, empty or not JSON), `mem` the state of the
`AlertManager` that each call makes for itself, `event` what it is about to send. Times are
ages in ticks that stop at `Cooldown`. `Evaluate` counts and chooses the alert,
`FireCritical` is the orchestrator's call for a rejected mobile key; `Sent`,
`SentUnconfirmed` (the message arrives, its answer does not) and `NotSent` (priority,
cooldown, no URL, network) are the ends of `_fire`; `OpenFile` and `WriteFile` are the two
steps of `write_text`; `Lost` is a death or an exception of the save, which the
orchestrator swallows. The rest is history: `streak` (failed runs since the last success),
`since` (age of the last message of each kind), `told`, `belief`, and `missed` and
`unsaved`, which record what the network or the file have lost, so that the properties can
say that nothing else goes wrong.

### Stock

`world` is what each store would list, in pages; `archive` today's files, `NoPage` and
`TornPage` among them; `home` is `SB_STORE_SUBSET` of the running process; `stock` the table,
`told` the last row of `stock_history` for each store and product. `whole` (stores fetched to
their last page by this run) and `moved` (stores that have changed since the directory began)
are history.

| Action | Code |
|---|---|
| `Start`, `NextStore` | the loop over home stores in `run_phase_a` |
| `PageFetched` | one round of `_fetch_stock_for_store`: request, archive, test for the last page |
| `PageFails` | the `SystembolagetAPIError` that ends a store |
| `PageTorn` | a death or a full disk in the middle of `_write_gz` |
| `FetchDone`, `Persist` | on to Phase B; `_persist_stock` with its insertions, its history and its deletions |
| `RunStops`, `NewDay`, `Restart` | end of a run anywhere; a new directory; a process with other settings |

An item is its level; number, shelf and assortment flag are one value. `Persist` cannot read a
torn page (`Readable`), so that the run can only stop. Stores are fetched in any order, and
pages are read back in the order of their names, which is that of their numbers up to page 99.

### Details

`row` is the products table: the version of the answer a row shows, that of its `field_hash`,
and whether `last_detail_fetched_at` is set. `task` is, for each run, where the coroutine `_one` of each product is and the
answer it holds; `caller` tells whose event loop it lives in: the scheduler's loop goes on after
a run, a command's `asyncio.run` cancels what is left (`ProcessEnds`).

| Action | Code |
|---|---|
| `Begin`, `PhaseA`, `PhaseB`, `Select` | a run up to the gather of `run_phase_c`, by what it does to rows and list |
| `Acquire`, `Answered`, `FetchFails`, `FetchRaises` | the semaphore, `product_by_number`, a `SystembolagetAPIError`, any other exception |
| `WriteRaises`, `Merge`, `MergeFails` | `write_detail` with a full disk; `_merge_detail_into_product`, which may fail after the UPDATE is committed; its errors before that, which are noted |
| `GatherReturns`, `GatherRaises`, `Cancelled` | all tasks have returned; one has raised, and the others go on; the run is cancelled and its tasks with it |
| `Rest`, `Aborts`, `Close` | Phases D and E; an exception elsewhere; Phase F and the release of the lock |
| `ProcessEnds`, `WorldMoves` | death of a process or end of a command; another version of a product |

Runs have the lock and follow one another, but tasks of an earlier run may go on beside a
later one: `left` remembers the runs whose gather has raised. That no other task runs between Phase B and
the gather is the event loop's (`LoopFree`): there is no await. Which of the rows without
details (`Bare`) are queued again is open here; pages left over from an earlier run,
discontinued products, gifts and rows with texts are `Catalog`'s.

### Derived

`text` says what each product says, `Silent` when it has no template, `template` the version
that renders it; `emb` is `product_embeddings.source_hash`; `index` is the full-text index by
its number of columns and the rows written since it was built. A run is `Start`, `Persist` and
`Details` (Phases B and C by what they write and hand on), then Phase D statement by statement:
`NotReady` or `Collect`, `NextRound`, for each batch in flight `Answered`, `Retried`,
`Exhausted` or `Escapes`, `Gathered`, `Store` for each vector, `WrongSize`, `Embedded`; Phase E
(`BuildIndex`, `BuildFails`); and the index of Phase F (`Rebuild`, `RebuildFails`). `Aborts`
leads to Phase F from anywhere, `Crash` to nothing, and `Deploy` installs other templates.

A hash is the text together with the template, which stands for a template whose wording has
changed. `lost` and `owed` are history: products whose batch has failed in this run, and
products with a failure since their last embedding. What Phases B and C hand on is open
within `Lists`; a row whose merge fails half-way is written and not counted (`counted`).

No property is stated about the index. When a run ends, it is what the last successful
statement made of it, and both builds are best-effort: what could be said would repeat that statement.

### Database

`db` is what is committed, `main` what the file itself holds, `wal` whether a log lies beside
it: DuckDB is modelled by what the code relies on, one process that writes or many that read,
a log that is folded in when the writer closes and that outlives a crash. `release` is the
content of `schema/`, by checksums; `applied` the table `schema_migrations`, `schema` the SQL
that has been executed.

| Action | Code |
|---|---|
| `Check`, `Checked` | `run`'s first connection: table, `_applied`, `_verify_applied_integrity`, `_pending` |
| `CopyFile`, `CopyLog` | `_backup_pre_migration`, two copies with no connection open |
| `Reopen`, `ReopenFails` | the second `db.writer()` |
| `Apply`, `ApplyFails`, `Applied` | one migration in its transaction; any error, which ends the process; the end of the list |
| `Write`, `Written`, `Leave` | the run that follows, or the command's end |
| `Serve`, `Query`, `Answer` | `create_server` with `verify`, a tool's reader |
| `Crash`, `Deploy` | death of a process; another image, newer, older or edited |

A sync migrates before it takes the lockfile, which is why several processes are in
`run` at once here and never in `SyncRun`. `before` and `raced` are history: what a
snapshot ought to hold, and the versions for which another process opened the file between the
check and the change.

### Retrieval

A call is one of three tools (`req`); `cands`, `order`, `at` and `picked` are its local
variables. `Ask`, `Embedded`, `EmbedFails` bring it to its query; `PairFetch` is
`_fetch_candidates` with both of its queries on one connection, `PairScore` is
`score_candidates`, `compute_confidence` and the floor; `Spread`, `SpreadDone`, `Fill` and
`FillDone` are the two loops of `diversify`. `SearchRank` and `SearchRows` are
`semantic_search` on its two connections, `Similar` is `find_similar_products`. `ReadFails` is a
reader that a sync shuts out, `SyncCommits` what a sync changes between any two steps.

A connection is a moment, because DuckDB admits no writer while a reader has the file. A search
ranks in one (`fits` keeps what the request allowed then) and reads the rows it shows in another:
`belied` are the products whose rows, as read, say that they are dropped or sold out against the
request, and `changed` what syncs have done to the ranked products in between. `SameCategory` follows
`find_similar_products` from `category_level_2` to `category_level_1` and to no filter; `PoolSize` is
`max(50, limit * 5)`, with `Pool` for 50 and `PerPick` for 5.

A text is what the code finds in it, and the similarity of each product to it; scores are
exact integers, where the code has floating-point numbers and rounds what it returns to four
places. The columns that price, category and `include_alcohol_free` filter by are the sets in
`Columns`, and do not change during a call; dropping and stock do. Every product has an embedding.

## Runs

| Run | Instance | Shows |
|---|---|---|
| `lockfile` | 3 processes, threshold 3 ticks, 2 crashes; `OrderlySpec` | the lock implements `SyncLock`, `release` removes nobody else's, a leftover lock is taken over |
| `sync_run` | scheduler and a command, 2 runs, 1 crash | open rows have one owner, closed rows and alerts tell the truth, `last_run_id` names a whole run and only advances, runs end |
| `sync_run_escape` | scheduler, 1 run | violation: a run cut short by an exception is recorded as success |
| `catalog` | 2 products (one a gift), 2 values, 2 pages | history explains rows, listed values are stored, only dropped products are discontinued |
| `catalog_live` | 2 products, 1 value, 2 pages | dropped products are noticed, missing details arrive unless a list payload gave the row a text |
| `stock` | 2 stores (one may leave the subset), 2 products, 2 levels, 2 pages, 1 torn file | `stock_history` ends where `stock` stands; a store that was fetched whole is mirrored |
| `details` | 2 products (interchangeable), 2 runs, 2 versions, 1 place | the list of Phase C is worked off, rows never go back, closed runs write no more, unless tasks were left behind |
| `derived` | 2 products, 2 texts, 2 templates, batches of 1, 2 in parallel, 2 attempts | embeddings lag only where something failed, a run over all products repairs them |
| `database` | 2 migrators, 1 server, 3 versions, 3 releases, 2 writes | migrations are applied once and in order, the server's schema is its release's, snapshots restore |
| `retrieval` | 4 products, two of one level 2, one with a level 1 only, one with neither; 5 texts, pool 2 or the limit, injection 1, limits 1 and 3 | picks are spread as `diversify` means to, answers fit the request, a row shown against it has changed after the ranking, confidence and ranking are honest |
| `api_client` | 2 ecommerce requests and a mobile one, 1 slot, 2 attempts, 2 keys; `HealingSpec` | slots and lock are never leaked, a repeated call has a newer key, every call ends, a revoked key is replaced |
| `alerts` | cooldown of 2 ticks, failures counted to 3, all priorities let through | the saved count is the streak, each transition is told once, the operator's belief is right, failure alerts keep the cooldown |

The violation is a disagreement between code and documentation; `findings` in `PROJECT.json`
quotes the lines. The section "Known disagreements" lists the others.

Bounds. Three processes let one hold the lock, one leave a file behind and one try. A
threshold of 3 ticks is the least that leaves a young, an ageing and a stale record. Two
crashes let a process die, come back and die again. Two runs are enough to make one late
with `last_run_id`, or to reuse an id, and one crash to lose the first; the proofs remove
these bounds. In `Catalog` two products on two pages let a product be on a page not
fetched, move to another page, and be seen twice; two values make a change and a change
back; the catalogue changes by one product within a day (`moved`), and arbitrarily overnight.
The number of runs and of days is unbounded. In `ApiClient` two requests with one slot make
each wait for the other in the limiter and at the lock, the second attempt is the last one,
and one key is revoked before or after the next is published; calls follow one another
without end. In `Alerts` the code tells counts 0, 1 and 2 apart, so 3 is one more than it
can see; a cooldown of 2 ticks has a strict inside; the number of runs is unbounded. In `Stock` one
store lists two products on two pages, either way round, so that a page of an earlier run can
name what a later one names elsewhere; the other is there to leave the subset and come back
with old rows. In `Details` the
second run meets the tasks of the first, in the same loop or in another; the second version
tells an older answer from a newer; with one place for two products a task waits while its
sibling fails. The number of runs and versions is a bound here; the proofs remove it. In `Derived` a batch of one and two in parallel let one batch of a round fail
while its sibling is stored, and two templates make an embedding stale without a change of its
product. In `Database` one release is followed by another with two new migrations, so that a
batch can be broken off in the middle, and by one whose second migration differs; the writes
tell a snapshot before from one after. In `Retrieval` the pool is smaller than the products,
the injection smaller than the tagged products, and the limit 3 larger than the number of
categories above the floor in some texts and smaller in others; `PerPick` is 1, so that `PoolSize` is the
pool for one limit and the limit for the other; `HighAt` is 2 instead of 5. A product with a level 1 only
has neighbours with a level 2.
The number of runs, days and calls is unbounded in all four.

Fairness. `Lockfile`: processes keep trying and come back, a run ends, time passes.
`SyncRun`: only that a running process goes on (`WF` on its steps); nobody has to start a
run or restart a process, and every call inside has a timeout. `Catalog`: days pass, a run
is started every day, and each request, tried night after night, is answered in some run
that lives to its end (`SF` on the successful steps); the API client's retries and cron
justify it. Nothing is assumed about failures, which may go on forever in between.
`ApiClient`: a request that has been sent, waits between attempts or extracts is answered or
times out (`WF` of `Goes`: every await there has a timeout); the semaphore and the lock of
asyncio serve their waiters in order (`SF` of `Served`, because what they wait for comes and
goes). `KeyHeals` needs more, which `HealingSpec` and its premise name: calls go on being
made, a revoked key is answered with 401 and the frontend read at last, the frontend ends up
with a key the API accepts, and cancellations cease (a cancellation is the end of the
process). `Alerts`, `Stock`, `Details`, `Derived`, `Database` and `Retrieval` have safety properties only,
and no fairness: that a stale embedding is repaired in the end, for example, is not so, because
the night without changes on which `RepairRunRepairs` counts may never come.

Mutants: for each property `PROJECT.json` names a plausible fault (an inverted test, a
guard dropped, a `return` in the `finally`) under which TLC finds the property violated.
They stand in the modules under "Mutant".

The type invariants of `Catalog`, `Derived` and `Retrieval` are checked by their runs as well as
proved, those of the other modules are proved.

## Proofs

Every invariant and action property of the passing runs is a theorem; the runs show it on a
small instance, the proofs for every value of the constants. What is left to TLC is liveness.

`LockfileCatalogProofs` begins with the lockfile, for any set of processes, threshold and number of crashes:
type correctness under `Spec`; under `OrderlySpec` mutual exclusion, ownership of the file,
that `release` removes only its own, and that the file implements `SyncLock`.
The inductive invariant says who may be where while another is inside: a process inside
owns a young record, so that whoever comes later reads it and decides against
itself; the two conditions of `OrderlySpec` are used exactly there.

Its second part is `Catalog`, for any products, values and number of pages: `CatTypeOK`,
`HistoryExplainsRow`, `ListedValueIsStored` and `OnlyDroppedIsDiscontinued`. What Phase B
makes of a product is a recursive function over the pages (`Read`), and the heart of the
proof is `ReadFacts`, that `ReadsRight` holds after any number of them: the last page that
lists the product has set its hash, and history rebuilds the row if it did before, or the change is
among the lost. In place of induction the proof looks at the first page after which it
would not hold; that there is a first one (`Least`) follows from the library's facts about
finite sets, and so does that such a function exists (`ReadingExists`, `ReadUnfolds`).
`ListedValueIsStored` alone is not inductive: the early return of Phase B compares hashes,
so the invariant `CatIInv` has to say that a hash is the one of the value in its row, unless a
detail payload came between (`HashIsOfValue`). `OnlyDroppedIsDiscontinued` needs to know that what
the directory shows is what the API has (`ArchiveIsOfToday`), although earlier runs of the
day have left pages in it; a page of an earlier run is harmless where the API has no page
any more, because Phase A stops at the last page and not before (`NothingAfterTheLast`).

`SyncRunProofs`, for any callers, number of runs and crashes: type correctness,
`OpenRunsHaveAnOwner`, `ClosedRowsTellTheTruth`, `LastRunIsWhole`, `AlertsHearTheTruth`,
`LastRunMovesForward` and `ClosedRowsStay`. None of them is inductive: what Phase F may
write depends on what the phases have left in `phase_results` and on how the run ended,
and that depends on nobody else being past the lock. `IInv` therefore adds, for each caller
(`CallerOK`), what its local variables are at each place (`IdOK`, `ResultsOK`), what its row
is until Phase F (`OpenOK`), how the run has ended when Phase F begins (`EndOK`) and what
Phase F has written so far (`ShutOK`); and, over all runs, that ids the sequence has not
given out are unused (`FreshInv`) and that an open row is lost or somebody's (`OwnerInv`).
The lemma `Alone` turns the lock into "all others are outside", `Holder` reduces a step of
the lock's holder to its own part, and `PhaseEnds`, `RunEnds` and `RunGivesUp` take the
many outcomes of the phases together by what they may change. `OverallByResult` and
`OverallOfParts` relate `overall_status` of the whole list to the results one by one.

`ApiClientProofs`, for any finite set of requests, number of slots, attempts and keys: type
correctness, `ResourcesAccounted`, `KeyMovesForward` and `RetryHasNewerKey`. That the
attempts stay within their limit needs that a request which waits for another attempt has
one left (`BackoffHasAttempt`), and that the key moves forward although it is read long
before it is installed needs the order of what the lock's owner has read, what is installed
and what the requests have in their headers (`KeysInOrder`). The lemmas `InFlightMoves` and
`SlotsStep` count the requests in flight; `EndsStep` covers every way a call can end, the
cancellation included, and `MoveStep` the moves outside the refresh.

`StockProofs`, for any stores, subsets, products and levels and any number of pages: type
correctness, `HistoryEndsAtRow` and `WholeStoreIsMirrored`. The second needs to know what lies
in the directory when Phase B reads it: while a store stands still every page of it, whoever
wrote it, says what the store says (`PagesAreTrue`), this run has overwritten the pages up to
the one it asks for (`ReadUpToHere`), and of a store fetched whole every page that lists
anything is there (`ReadToTheEnd`). That the last page ends the listing is an assumption on the
API (`ShelvesAssumption`), as is that a product stands on one page while nothing changes.

`DatabaseProofs`, for any processes, releases and number of migrations: type correctness,
`SchemaIsApplied`, `ServedIsMigrated` and `SnapshotRestores`. A process works with a list of
pending migrations that others may have worked off meanwhile; what keeps the schema in order is
that the rest of the release is applied (`PendingIsRest`) and that the row of a migration can be
inserted once (`Taken`), so that the next one is always the one after the last (`ApplyIsNext`).
For the snapshots the invariant follows the copy: nobody has touched the file since the check
(`Quiet`), no log was copied (`NoLogCopied`), the copy is the database (`Copied`), what comes
before a batch is applied for good (`PriorApplied`), and so the snapshot is not replaced once its
batch has begun (`Kept`); each holds of versions that are not `raced`.

`RetrievalAlertsProofs` begins with `Retrieval`, for any finite tables of products and symbols,
any texts, columns, limits and sizes of the pools: `RetTypeOK`, `PicksAreSpread`,
`AnswerFits`, `ShownAsAsked`, `ConfidenceIsHonest` and `NoLexicalLuck`. `RetIInv` says what a call has in hand
at each stage. Candidates are allowed, and one of them shares a symbol if anything allowed does
(`CandsAreFit`), for which the second query of `_fetch_candidates` is there; the pool
holds nothing twice (`OrderIsFit`); the ids that wait for the second connection are the nearest
(`RowsAreNearest`). `ShownIInv`, on top of it, follows a ranked product to the second connection:
what does not fit any more there, a sync has changed since. For the two loops of `diversify`, `SpreadSoFar` and `FillSoFar` name
the places of the pool that the picks come from: the first of each category among those passed,
and later these together with everything passed by the second loop. `RankedFacts` says what sorting
gives, `NearestFacts` what a limit on a sorted query leaves out, `SharedCounts` that the division in
the symbol match does not round a shared symbol to nothing, and `BetterScoresMore` that better
signals make a better total in spite of the halving for names.

Its second part is `Alerts`, for any priority, cooldown and bound on the count: type correctness,
`CountIsStreak`, `OperatorKnows`, `ToldOnce` and `FailuresKeepCooldown`. `State` is the one an
evaluation would begin with, or has in hand; the parts of the invariant relate its count to the
streak (`CountOK`), its stamps to the times of the messages (`StampsOK`), what was told to the
failures there have been (`ToldOK`), and what the operator believes to its count (`BeliefOK`).

`DerivedProofs`, for any products, texts, versions of templates, attempts and sizes of batches:
`TypeOK`, `StaleIsOwed` and `RepairRunRepairs`. Between two runs nothing needs to be
known but the first; inside a run `Accounted` follows a stale embedding from the list of Phases B
and C into the queue, a batch in flight and the vectors about to be stored (`InHand`), and
`Repairing` does so again for runs that take everything for candidates, where an old debt is no
excuse. `StaleByWriting` says what all steps have in common: only what is written to, or a new
template, makes an embedding stale. The types need that a round is a finite set of batches, each
within its size, and stays so while single batches are answered, retried or given up
(`RoundIsSmall`).

`DetailsProofs`, for any products and any number of runs, versions and places: type correctness,
`ListIsAccountedFor`, `RowsMoveForward` and `ClosedRunsAreQuiet`. That a merge puts no older
answer over a newer one needs that nothing is newer than what the API would answer (`NotAhead`) and,
for runs before which nothing was left behind (`Earlier`), that the pages and answers the
run has in hand are no older than the row (`InHandIsNewer`); and a task lives on only while its
phase waits for it, or when it was left behind (`Minded`).

Assumptions: `Scheduler \in Callers`, at least one run id, a natural number of crashes; for
the lockfile, `NoPid` is no pid and the threshold is positive; for the client, `Nobody` is no
request, `Mobile` are requests, slots and attempts are positive;
for the stock, levels are neither `Off` nor `Sold`, subsets are sets of stores, and listings are
as said above; for the database, releases number their migrations from 1 without gaps, and
servers are not migrators; for the catalogue, gifts are products, `Off` is no value and there is a
page; for the tools, the tables give each product symbols, a body and a smokiness in the ranges of the
data, products and symbols are finitely many, and there are at most 60 symbols (the profile knows
fourteen), so that a shared one counts in integers as it does in floating point; for the
embeddings, products are finitely many, `Off` and `Silent` are no texts and `Off` is no
hash, and there are at least one template, attempt, product per batch and batch per round; for the details, there is at
least one run, version and place; for the alerts, the cooldown is positive and the count is kept up to
2 at least.

Only model-checked: liveness (`LeftoverLockGoesAway`, `OpenRunsEnd`, `DroppedIsNoticed`,
`DetailsArrive`, `CallsEnd`, `KeyHeals`), because the prover does not reach fairness and ENABLED.
The violation of `sync_run_escape` is TLC's, too.

## Known disagreements

Checked as a violation: `sync_run_escape`. Met while modelling, and left out
of what the properties claim:

- Lockfile: two runs that start together both get the lock, because `acquire` looks at the file
  and writes it in separate steps (`sync/lockfile.py:37`);
  `docs/10_sync_orchestration.md:1097`: "Lockfile prevents two sync runs concurrently."
  `OrderlySpec` excludes it.
- History: the detail merge updates tracked columns without `product_history` or `field_hash`
  (`sync/phases/details.py:106`); `sync/product_mapper.py:201`: "Tracked fields (whitelist) —
  change → append to product_history." `Catalog`'s `blurred` excludes it.
- API client: requests that met the old key extract again one after the other; all but the first
  find the key already installed, take it for a failure and raise (`api_client/client.py:260`);
  `docs/02_systembolaget_api.md:91`: "force-refresh once, retry the failing call".
- Alerts: `fire_critical` never saves its stamp, so that the alert comes every night;
  `sync/orchestrator.py:102`: "Cooldown'd inside AlertManager, so a persistent revocation
  doesn't page every night."
- Stock: a store whose fetch broke off loses the rows of the pages not seen
  (`sync/phases/persist.py:388`), against `docs/10_sync_orchestration.md:129`; a store that lists nothing at
  all keeps its rows for ever, and so does a store that leaves `SB_STORE_SUBSET`.
  `WholeStoreIsMirrored` speaks of stores fetched whole.
- Raw archive: a page that a dying run left half-written makes Phase B of every later run of the
  day fail, unless that page is fetched again.
- Details: a product that has details, changes, and cannot be fetched is not "retried next run"
  (`docs/10_sync_orchestration.md:1082`) unless it changes again. Nor is one whose first fetch fails
  after a list payload has given its row a taste, an aroma or a description of the producer
  (`sync/orchestrator.py:323`, `sync/product_mapper.py:105`): it waits for its next change or a
  full refresh. `DetailsArrive` leaves such rows out (`texted`).
- Details: the UPDATE of a merge is committed before the variants are written
  (`sync/phases/details.py:106`). If one of these raises, the product counts as failed, but its row is
  stamped, so that it is not "retried next run" either and keeps some of its variants.
- Catalogue: a product that comes back with the same tracked fields has the same `field_hash` and
  stays discontinued (`sync/phases/persist.py:162`); `docs/03_data_schema.md:531`: "appears in catalog again →
  UPDATE `is_discontinued=false`". `Catalog`'s `Upsert` does what the code does, and its properties about
  listed products do not speak of the flag.
- Details: "Failed detail fetches are non-fatal" (`sync/phases/details.py:3`) holds of
  `SystembolagetAPIError` only. A network error of the last attempt, which the client raises as it is
  (`reraise=True`, `api_client/client.py:302`), leaves the task, gather, the phase and the run (`FetchRaises`).
- Details: the tasks that a failed sibling leaves behind go on in the scheduler's process when
  the lock is released, with the files, the requests and the database. One of them can put an older answer
  over a newer one, which `field_hash` then hides from the next Phase B, and change rows after the
  index and the embeddings of the run are made. `Details` leaves these runs out of its claims
  (`left`); `Catalog` and `Derived` have no such tasks.
- Embeddings: changing a template does not re-embed "every row in that category \[...\] on the next
  sync" (`embed/templates.py:5`), only rows that are candidates; and a batch that failed is not
  taken up by the next run, unless its products change or nothing at all does.
- Full-text index: Phase F replaces the eight columns of Phase E by three (`sync/phases/finalize.py:100`), so that
  country, taste, aroma, usage and the description of the producer are not searched;
  `docs/03_data_schema.md:507` and `docs/05_sync_pipeline.md:251` list eight columns, and
  `docs/04_mcp_surface.md:52` says "FTS over name, producer, country, taste, aroma, usage, producer_description".
- Search: `semantic_search` shows rows of a later moment than the one it ranked in
  (`mcp_server/tools/semantic_search.py:151`), so that a product may be shown as dropped, or without the stock
  that was asked for; `ShownAsAsked` says that nothing else is.
- Snapshots: with two processes migrating at once, the file may change between the check and the
  copy, or be in the middle of a write (`raced` in `Database`); a log copied by an earlier attempt
  stays beside a newer copy of the file.
- Pairing: "At most one per category_level_2" (`pairing/scoring.py:127`) holds of the first loop of
  `diversify` only, as `PicksAreSpread` says; and longer keywords do not "win over substrings"
  (`pairing/profile.py:206`): the symbols of both are added.

## Not modelled, and the plan

1. A catalogue partition at `PAGE_CAP`, and products that move between pages while they are read.
2. The daily backup, retention and metrics of Phase F, with the database file of `Database`.

Left out for good: the embedding server, the wording of templates and of the sommelier's answer,
the doctor and the command line's parsing (pure input and output); the tools that run one query
and format it (search_products, get_product, compare_products, stores, taxonomy, status); the
mapping of payload fields and text (data, no control); APScheduler's misfire arithmetic (a
library); the order of services at start-up (the supervisor's).
