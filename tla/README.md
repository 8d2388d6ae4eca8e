# AniDown / Sonarr-AnimeDownloader: verification project

TLA+ models, TLC runs and TLAPS proofs for the program in this repository. The repository holds
two generations of the program: **V3** (`src/components`), a daemon that finds missing episodes
in Sonarr, downloads them from AnimeWorld and renames them, and **V4** (`src/v4`), which separates
finding a mapping, reviewing it and executing it, with a durable ledger between them. V4 is where
the hard behaviour is (crashes between external effects, races between a scan, reviewers and
workers, a once-only promise), so it is modelled first.

Paths below are relative to the repository root.

## 1. Inventory

### V4

| Component | State it keeps | Operations | Talks to |
|---|---|---|---|
| Execution coordinator (`src/v4/execution.py`), attempt ledger (`application_store.py`), journal of the production adapter (`production_adapter.py`), start-up recovery (`runtime.py`) | attempts and their envelopes in SQLite; one journal file, one staging folder per execution; library files | reserve, execute, dispatch, reconcile, reconcile_startup; adapter execute / reconcile / lookup | Sonarr (RescanSeries), the provider's download, the file system |
| Review ledger (`application_store.py`, `application.py`) | immutable items, mapping and review states with a revision, current item per target, season overrides, provider validation rows, writer claims, attempts | record_scan, transition, set/clear override, record validation, reserve (approved, automatic, manual), claim and transfer of writers | the scan, the HTTP API, the scheduler |
| Download scheduler (`download_manager.py`) | the set of submitted operations, a pool of 1..3 threads | sync_missing (loop and HTTP), run operation, done callback, close | Sonarr wanted/queue, the coordinator |
| Scan jobs and automatic scan (`scan_jobs.py`) | job rows (queued, running, completed, failed), next due time | start (coalesced), run, progress, restart clean-up, loop | the service's scan |
| Scan pipeline (`application.py`, `live_dataset.py`) | inventory fingerprints, provider detail cache, catalogue generation | inventory diff, provider verification, dirty mapping, storage | Sonarr, AnimeWorld, research, judge |
| Notifications (`notifications.py`, `application_store.py`) | event outbox, cursor, delivery and retry state per backend | poll, suppress, send, record, retry | ntfy / Telegram / webhook |
| Matching and release resolution (`matching.py`, `release_resolver.py`, `releases.py`, `composite_replay.py`, `models.py`, `normalization.py`) | none: pure | score candidates, resolve episode coordinates, choose audio variants | |
| Catalogue index (`animeworld_index.py`) | the catalogue file and its generations | refresh, resume, publish | AnimeWorld |
| Provider validation (`provider_validation.py`) | detail cache with expiry | get, peek, is_due, validate | AnimeWorld |
| LLM judge and verifier (`llm_judge.py`, `llm_verify.py`) | cache, daily budget, attempts | evaluate, evaluate_many | Gemini |
| Review repository of the replay phase (`review_store.py`) | reviews with revisions | create, decide | |
| HTTP API, transport, DTOs (`api.py`, `application_dto.py`, `runtime.py`) | none | routing, authorization, presentation | |
| Cut-over and phase tools (`cutover.py`, `precutover.py`, `disposable_validation.py`, `production_capture.py`, `shadow.py`, ...) | evidence files | one-shot checks | |

### V3

| Component | State it keeps | Operations | Talks to |
|---|---|---|---|
| Core loop (`core/Core.py`), runtime coordinator (`backend/runtime.py`) | the processing semaphore, the scan timer | run, wakeUp, job, update checks | Processor, Downloader |
| Processor (`core/Processor.py`) | none between runs | missing episodes to season/source groups | Sonarr, the mapping table |
| Downloader (`core/Downloader.py`) | files, download progress | download, move, rescan, rename, notify | AnimeWorld, Sonarr |
| Database (`database/*.py`, `atomic_json.py`) | JSON tables, settings, tags, connections | load, atomic save with backup, edit | file system |
| Mapping automation (`mapping.py`, `mapping_automation.py`, `mapping_resolver.py`, `matching.py`, `search_v3/*`) | the table, decisions log | propose, validate, apply, undo | AnimeWorld index |
| AnimeWorld index V3 (`animeworld_index.py`) | the index file | refresh, lookup | AnimeWorld |
| Connections (`connection/*.py`) | tokens | send | Telegram, Sonarr, GitHub |
| HTTP API and old front end (`components/api`, `frontend_OLD`) | none of their own | edit settings, table, tags | Database, Core |
| Web front ends (`frontend`, `frontend-v4`, `chrome-extension`) | page state | | the HTTP API |

### What is hard here

* **Crashes between effects**: an execution is a download, several moves and several Sonarr
  commands; the process may die between any two, and only files and one SQLite row tell the next
  start what was done.
* **Unknown outcomes**: a rescan whose answer was lost must be neither repeated nor called failed.
* **Races over one item**: a scan works for minutes on items it read first; reviewers and workers
  act on what they were shown; provider checks sit between a read and a reservation.
* **Two writers**: V3 and V4 must never both write a target, across cut-over and rollback.
* **Evidence that ages**: provider pages, the catalogue and Sonarr's inventory are read at different
  moments under budgets; what a scan could not read must not look like what it read and found unchanged.
* **One table, many editors**: V3's mapping table is a list in memory that four kinds of thread change,
  some without the lock, and one file that each of them publishes.
* **Switches in the middle**: search-only mode and pauses are read between the effects of a V3 download.
* **Queues and callbacks**: a pool whose done-callback takes the lock its submitter holds; jobs
  coalesced by a status row; an outbox with a cursor, retries and suppression.

What each component must guarantee is the property list of its module below; every hazard is in
`PROJECT.json` at the line where it bites.

## 2. Plan

| # | Module | Of | Abstract specification | State |
|---|---|---|---|---|
| 1 | `Downstream` | once-only execution: ledger, journal, staging, library, rescans, recovery | `OnceOnlyEffect`: a key is attempted once, announced at most once, closed by a classified failure only if never announced | modelled, checked, proved |
| 2 | `ReviewLedger` | items, reviews, revisions, overrides, reservations, writer claims | | modelled, checked, proved |
| 3 | `DownloadScheduler` | polling, outstanding keys, pool, callbacks | reserve and outcome of `Downstream`, reduced to three steps | modelled, checked, safety proved |
| 4 | `ScanJobs` | scan jobs, automatic scan, restart clean-up | | modelled, checked, safety proved |
| 5 | `Notifications` | outbox, cursor, retry, suppression | | modelled, checked, safety proved |
| 6 | `ScanEvidence` | the scan pipeline: inventory fingerprints, the page cache and its expiry, the catalogue index and its copy, budgets, audio masters, the five transactions of the results | | modelled, checked, safety proved |
| 7 | `ReleaseResolver` | release resolution: grouping, rules, exact covers, selection, shared sources | `ExactCovers`: every set of proposals, tried one by one | modelled, checked, safety proved |
| 8 | `MappingRows` | V3's mapping table as data: rows of the page, imports, shared URLs, existing mappings | | used by 9 and 10 |
| 9 | `MappingTable` | the threads that edit that table, its atomic file and its copy, crashes | the table in memory as one sequence of whole tables | modelled, checked, safety proved |
| 10 | `SeriesScan` | V3's loop and manual scan: missing episodes, binding, source episodes, download to announcement | | modelled, checked, safety proved |
| 11 | `JudgeBudget` | the LLM judge: cache, daily budget | | to do; concerns cost, not state |
| 12 | `Pipeline` | 2, 3 and 6 composed: a scan, a reviewer and the scheduler over one mapping | | to do |

Every safety property of every run is a theorem; what is left to the runs alone is liveness (section 5).

Modules are written so that they can be proved about: parameters are CONSTANTS with named
assumptions, no module uses RECURSIVE operators, and each action is one transaction, one file
operation, one request or one lock region of the code. `SeriesScan` and `MappingTable` extend
`MappingRows`; the others are connected by what they leave open: `DownloadScheduler` reduces the
coordinator to what `Downstream` shows of it, `ReviewLedger` reduces a scan to what it records, and
`ScanEvidence` looks into that scan, reducing in turn the plans to the pages they use, which
`ReleaseResolver` computes.

## 3. The modules and the code

Conventions: an action is one atomic effect of the code (one SQLite transaction, one file
operation, one HTTP request, one region under a lock), so every interleaving and every crash
between two effects is a behaviour. Thread-local state is a program counter `pc` and what the thread
has in hand. Names are the source's where TLA+ allows it. A definition commented "Mutation" is a
plausible bug of the definition after it; it is used by no specification. `PROJECT.json` maps each
definition to its lines.

### 3.1 `Downstream` and `OnceOnlyEffect`

One execution key goes through reserve (`reserve_execution`), the adapter's `execute`
(`Lookup`, `CreateJournal`, `FillJournal`, `Fetch`, `WriteDispatching`) and the adapter's `reconcile`
(`ReadJournal`, `SkipMoved` / `MoveArtifact` / `NoteMove`, `WriteRescanning`, `Rescan`,
`WriteCompleted`), and ends in `Finish`, or in `Pend` when the outcome is unknown. `caller` records
who called the adapter's `reconcile`, since `execute` and the coordinator's `reconcile` treat its
answers differently (`Return`, `Judged`). What fails is told apart by how it leaves the adapter: a
`DownstreamFailure` (`failed`, or `pend` if the outcome is unknown), and an exception the adapter does not
classify. That is any exception of a preparation (`Abort`), the journal or its folder being away
(`JournalAway`, `CreateJournal`, `Unrecorded`) and a library path that cannot be examined (`MoveFails`);
called from the dispatch it closes the attempt as `error`, whatever was published by then
(`execution.py:269`), while the coordinator's own `reconcile` takes it for an unknown outcome. A move
between file systems is a copy and a removal: it may be cut short with part of the file at its destination,
or with all of it and the source still there.

| Variable | Code |
|---|---|
| `ledger` | `v4_execution_attempts.status` of the key: no row, reserved, completed, failed, or "error", which is failed with the category `adapter_error` |
| `journal`, `manifest` | the journal file: its state, and the digests of its artifacts; "torn" is a journal whose exclusive creation was cut short |
| `staged`, `library` | the staging folder and the destination of each artifact, by content |
| `rescans` | a history: the `RescanSeries` commands Sonarr got |
| `mode`, `backlog`, `starts`, `permitted` | the runtime: down, recovering, ready, blocked; the reservations `reconcile_startup` still has to visit; the keys the effect authorization of this start binds |
| `pc`, `key`, `caller`, `todo`, `digests` | the locals of each thread |

`Crash` may come at any time; what is on disk and in SQLite stays. Abstractions: a file's content is a
model value (its size and digest are compared together in the code, so they are one value); a failed
download leaves nothing, an empty folder, or a file; the audio and language checks of a download are
one way to fail; the envelope of an attempt is determined by its key, since the ledger refuses another
one. `Operators` are threads of the operator control (`cutover.py`), which may call `execute` and
`reconcile` at any time; the runtime does not inject them, so they are empty except in the runs that are
about them.

### 3.2 `ReviewLedger`

| Variable | Code |
|---|---|
| `snapshot`, `mapping`, `review`, `revision`, `decision` | the rows of `v4_items` |
| `current` | `v4_current_targets`: the item each target points to |
| `validation` | `v4_provider_validation_state`: no row, current, or one that is not |
| `override` | `v4_season_overrides`: provider URLs, audio preference, manual approval |
| `claim` | `v4_writer_claims` |
| `opened`, `closed`, `reached` | `v4_execution_attempts`, and a history of what was handed to the adapter |
| `scan` | the locals of a running scan that matter to later transactions: the items it preserves |
| `request` | what each client was shown: item, revision, states, approvals |

A scan is `ScanRead` (the reads at the start, then minutes of work), `RecordScan` (one transaction:
supersede what left the library or changed, insert the new items) and two transactions on the
validation rows; it may fail between them. A client is a reviewer or a worker: it `Read`s an item,
and later its `Transition`, `SetOverride` or one of the three reservations
(`reserve_execution` for an approved, a proposed, and a manually approved plan) meets whatever
others committed in between. `Dispatch` and `Finish` are `Downstream` seen from the ledger.
`ClaimWriter` and `TransferWriter` are the cut-over.

Abstractions: a snapshot is its targets, its first state and an opaque content; "airing" and
"unavailable" behave as "waiting"; the episodes of a reservation are not distinguished below a
target.

### 3.3 `DownloadScheduler`

`Ask` and `Select` are the two reads of `_mapped_missing` (Sonarr first, the mapping afterwards);
`Acquire` .. `Release` is the region of `sync_missing` under `_lock`; `Take` .. `Complete` is
`_run_operation` in a pool thread. `concurrent.futures` is modelled from how the code uses it: a
callback runs in the thread that completes the future, or in the thread that adds it if the future is
already complete (`early`), and `Done` is `_done`, which needs the lock. A failed sync of the loop is noted in
the ledger by its handler, and nothing handles a failure of that note: the thread is `dead` (`EndFailed`). What a reservation may answer
is reduced to "once per revision, or refused".

### 3.4 `ScanJobs`

`Ask` .. `Submit` is `ScanJobs.start`, for the threads of the API and for `AutoScanScheduler._loop`;
`Begin` .. `Fail` is `_run`. `adrift` is a history: the active jobs whose own bookkeeping failed (the first
update of `_run`, which no handler covers; the last transaction of the handler; a submit to a pool
that was shut down). Progress percentages, the dataset and the mode of a job, and the interval of the
automatic scan are left out: whether a scan is due is a nondeterministic choice.

### 3.5 `Notifications`

`Raise` is the insertion of a notification event with the state change it is about; `Start` is
`NotificationWorker.start` with the first initialisation of the cursor; `Poll` .. `Clear` is `run_once`,
one transaction or one request each. `lastSent` is the delivery row of an error condition, `retry` the
retry row (waiting until its time, then due). Time is a bounded counter so that the window of repeated
errors can be open, closed, or lie before the event. `Dies` is an exception outside of the handler.

### 3.6 `ScanEvidence`

| Variable | Code |
|---|---|
| `sonarr`, `page` | the world: the version (fingerprint) of each season's inventory and of each provider page |
| `cache` | `ProviderDetailCache`: status, version, whether a stale success is kept, whether it is due |
| `index` | the catalogue file and its `.lkg` copy: missing, the empty document (0), or a generation |
| `item`, `row` | the current item of each season (its snapshot, the inventory it saw, the decision on it) and its provider validation row |
| `recorded`, `master` | `v4_target_inventory`, `v4_series_audio_master` |
| `override` | the audio of each season in `v4_season_overrides` |
| `scan` | the locals of `ApplicationService.scan` and `read_incremental`, phase by phase |
| `settled`, `unrecorded` | histories: series whose audio the last normal scan enforced; seasons mapped by a scan that did not get to record its inventory |

The phases are the calls in their order: the missing masters (`SetMaster`, one upsert each), Sonarr and
the choice of the sources to validate (`ReadInventory`), the validations (`VerifyProvider`), what is kept
(`DiffInventory`), the catalogue (`LoadIndex`, or `RefreshIndex` and `PublishBackup`), the shortlists
(`Retrieve`), the pages within the budget (`LoadDetail`), `Evaluate`, the verifier that only demotes
(`AuditProposals`), and then `RecordScan`, `RecordInventory`, `SetMaster` again, `RecordRows` and `EndScan`,
one transaction each. `ScanFails` may come at any of them. A page or an inventory changes between scans
only: a scan reads each of them at most once, so that a change during a scan is seen as one before or
after it. Users approve, choose and override at any time (`Approve`, `ChooseAudio`, `ClearAudio`): an audio
may be chosen for any season, and for the first one the series master follows in a transaction that may
fail. `Mode` is the audio of an item as a scan computes it (`_preserve_group`), without the override;
`Executed` is the audio of its execution, in which the override of the season comes first for a proposal
(`reserve_execution`) and has no part for an approval.

Abstractions: an item is one season with one segment; which pages fit a season in which versions is a
constant (`Fits`), and so is which pages a series' titles and words match (`Strong`, `Weak`); the judge,
enrichment and public research change no state the properties speak of.

### 3.7 `ReleaseResolver`

A behaviour is one call of `resolve_series`: `Group`, `ProposeByRules` and `ProposeBySeries` (every rule of the
function, as an operator that yields segments), then per season `StartCover`, one `CoverItem` per segment
of `best_exact_covers`, `Select`, and at the end `Collide`. `cover` is the table of the dynamic program:
a state is what is covered and which source episodes are used, with its best score and the solutions kept.
Titles, aliases and external records enter as facts of a candidate and a season; a premiere is the set of
rows it agrees with, since dates agree within a day (`same_date`) and one day may bring several episodes.
`CasesAssumption` says what a call consists of (at least one season, finitely many, counts that are numbers),
nothing of how its parts fit together. The inferred plans over several seasons
(`release_resolver.py:1019`) are left out: they are always for review.

### 3.8 `MappingRows` and `MappingTable`

`MappingRows` has no state: tables (lists of entries with seasons and URLs), the rows of the mapping page
(`FlattenTable`, `TableFromRows`), the three imports (`ReconcileImportRows`), shared URLs, and what the
resolver calls mapped. Words and URLs are numbers in the order the code sorts them, with `Key`, `Norm` and
`Part` for the normalisations.

| Variable of `MappingTable` | Code |
|---|---|
| `table`, `preferences` | `Table._data`, `MappingPreferences.data` (review and shared flags, drafts) |
| `lock`, `fileLock` | `MappingAutomation.lock`, the lock of the durable write |
| `th` | what each thread (scan, parse job, mapping page, old form) is doing, and the list it holds |
| `disk`, `lkg` | the published file and its copy |
| `saved`, `crossed`, `failed` | histories: what the last completed write published; whether the form and another thread wrote two lists at a time; whether a write has failed, and whether one that began later is under way |

`Swap` is `replaceAll` and `setData` (a new list), `Change` the methods of `Table` that change the list in
place; both are followed by `PublishMain` and `PublishLkg`, which write the list the thread was called
with. Either may fail for good (`WriteFails`: the disk is full, or the file stays in use for eight attempts):
the operation ends and its locks are released, the table in memory keeps its change, and what was not
published is as it was. A backup that fails before the change is the operation not
happening. A failing write of the preferences is left out: it touches neither the table nor its files, but
the flags and drafts of that operation are then in memory only. `Crash` is a restart, perhaps with a damaged file. The automation's steps are `Search`,
`HandleSearchResult`, `CheckAgain`, `ReadTable` and `ReplaceTable`; the page computes a request (`SavePage`,
`ImportApply`, `BulkAction`) before it takes the lock (`ApplyRequest`, `ApplyFlags`); the form takes none.

### 3.9 `SeriesScan`

| Variable | Code |
|---|---|
| `loop`, `scanLock`, `at` | `Core.run` and its semaphore, `scan_lock`, where each of the two scanning threads is |
| `work` | its locals: pages read, series, seasons bound, the flattened source episodes, the chosen source |
| `table`, `settings`, `runtime` | the mapping table, the settings, the operation mode and the pause |
| `sonarr` | missing list, queue, pending rescans, episodes still to air |
| `folder`, `library` | the download folder and the series folders: which source each file is |
| `trail`, `after` | histories: what was done for an episode; effects since a switch |

`GetAllMissing` reads one page of Sonarr per step, so that the list may change between two of them;
`BindSerie`, `BindUrl`, `SerieBound` are `__bindUrl`; `DownloadSeason` to `Announce` are one episode of
`Downloader.download`, each step one external effect with the check of the operation mode that follows
it. `CallRaises` is an exception of any call: it ends a manual scan, and the loop together with the process,
which the service manager starts again (`Restart`).

## 4. The runs

| Run | Instance | Question and answer |
|---|---|---|
| `downstream_crash` | 2 keys, 2 files, 2 series, 2 contents, 2 workers, 3 starts; symmetric | Through kills, failing writes, moves cut short, unclassified exceptions and changing authorizations: rescans at most once, a classified failure means no effect, `adapter_error` never a completed journal, and completed the whole effect (`OutcomeMatchesEffect`), no file lost or unjournaled, and `OnceOnlyEffect` is implemented. Holds. |
| `downstream_live` | 1 key, 2 files, 1 worker, 1 operator, 2 starts; fair | Recovery always decides, every thread lets its key go, outcomes and abandoned rescans stay as they are although operator and worker race (`DecisionsStand`). Holds. |
| `review_scan` | 3 items, 2 targets | Scans that split and merge groups leave no plan half current and keep what they preserved. Holds. |
| `review_decisions` | 1 item, 2 clients, 2 revisions, 1 attempt, both writers | Reviews, overrides, scans, reservations, claims and rollbacks in any order: each acts on the state that was shown, and no target is taken from an open attempt. Holds. |
| `scheduler` | 1 episode, the loop and a request, 2 workers; fair | One operation of an episode at a time; its key is noted exactly while that is outstanding; it is tried again until reserved, unless the loop has died. Holds. |
| `scheduler_wedge` | 1 episode, the loop, 1 worker; fair | Does the loop poll on? Not if an operation is complete before its callback is added: finding. |
| `scan_jobs` | 3 jobs, the loop and 2 requests; fair | One active scan, always somewhere, reported exactly if failed, and ended eventually. Holds. |
| `notifications` | 2 events, 1 condition, 3 instants, batches of 2; fair | Nothing lost, nothing out of order, everything dealt with. Holds. |
| `scan_evidence` | 3 seasons of 2 series, 3 pages, 2 generations, budgets of 1, 2 events; fair | Scans that fail anywhere: what is on record was mapped, a settled series is executed in one audio but for its overrides, a proposal rests on its whole shortlist, no outdated mapping stays executable for ever. Holds. |
| `release_resolution` | 7 families of calls: up to 3 candidates and 3 seasons of up to 4 episodes | A matched season has exactly one source per wanted episode, no source has two seasons, two ways to cover one part of a season from the same source episodes are equally strong (`PartsAgree`), and the search finds the strongest exact cover. Holds. |
| `mapping_table` | 3 titles (2 alike), 4 URLs (2 alike, 1 invalid), 2 operations, crashes | With writes that fail: nobody loses what he was not asked to remove or could not know of, file and copy hold what was answered for since the last failure, and the page is read back as it was. Holds. |
| `series_scan` | 2 series with 3 pages of their lists, 1 fault, 1 operation of the operator or of Sonarr; fair | A switch lets at most one effect through, an announcement was earned, files are the right episodes, wanted episodes arrive. Holds. |

**Why the bounds are enough.** The state of a key, item, job or event touches that of another only
through what the instances have two of: two keys share workers and the recovery list, two artifacts
and two series make "some done, some not", two contents make "other bytes", three starts allow a
recovery that is itself killed and recovered. Three items on two targets are a merge and a split with
the old owners still there. Two revisions are a stale client and a fresh one. Three jobs are one left by
a crash, one active and one that must coalesce. Two events in one batch have the second one behind a
failure of the first, and three instants put the window before, at and after an event. In `scan_evidence`
two events are a change and a failure that hides it, the second page is on both shortlists and beyond the
budget, and some pages fit only once they have changed. The seven families of `release_resolution` are: one
release against every rule and a rival (`ByRule`), several releases composed (`Composed`), the
same published in one day (`AtOnce`), labelled parts (`Parted`), more solutions than `StateLimit` (`Crowded`), releases over several seasons (`Spanning`) and two
seasons that want one release (`Shared`). In `mapping_table` two operations at a time are what a race
needs: one that has read and one that writes. In `series_scan` one fault and one switch may fall between
any two steps, and the loop scans again and again. Each bound is a constant (`MaxStarts`, `MaxRevision`,
`MaxAttempts`, `MaxJobs`, `MaxTime`, `MaxEvents`, `MaxErrors`, `MaxOps`) that appears in a guard; `StateLimit`,
`ShortlistLimit` and the budgets are the code's own limits, made small. Deadlock is not checked where the
instance runs out of starts, jobs, events or operations, where the call of a function is over, or where
the system simply waits for work.

**Fairness.** Weak fairness of a thread's own steps stands for the scheduler of the operating system
and for the time-outs of every request the code makes (Sonarr, provider, relay, SQLite). Nothing is
assumed of requests, reviewers, crashes, faults (of a sync, either) or, in `Downstream`, starts. Strong fairness is used where
a step needs something that comes and goes: a free lock (`Acquire`, `Done`), Sonarr answering the loop now
and again (`Ask`, `Select`), the relay being reachable now and again and its delivery recorded (`Send`,
`Record`), and the hours of a page that pass between two scans (`Expire`). `ScanEnds` assumes that the
service's scan returns or raises, which its time-outs give. `ScanEvidence` lets normal scans begin
(`AutoScanScheduler`) and a begun scan work on. `SeriesScan` lets the delay pass (`Wake`), a dead
process be started again (`main.py` ends with the loop; the service manager restarts it), and Sonarr
finish the rescans and downloads it has accepted (`Import`, `Grabbed`).

Every property of a passing run has a mutant: the named definition is replaced by its commented bug
and TLC finds the property violated.

## 5. The proofs

Checked by TLAPS for every value of the constants that the named assumptions allow.

* **`DownstreamProofs`**: types, and that outcomes and abandoned rescans are final (`DecisionsStand`), both
  with any operator requests; and for `Operators = {}` the
  safety invariants of `downstream_crash` and the refinement of `OnceOnlyEffect`, whose `Break` is the
  exception that closes an attempt before or after its announcement. The inductive
  invariant says, for each key, in which journal states and at which steps a thread may be, that the
  thread that works on an open key is alone, and per artifact where its bytes are at each journal state.
  It is needed because the safety properties speak of durable state only, while what keeps them is
  where the one thread of a key is. `Operators = {}` is what the runtime has; section 6 says what
  happens without it.
* **`ReviewLedgerProofs`**: types, `CurrentIsWhole`, `StatesAgree`, `RevisionIsToken`,
  `ApprovalIsBound`, `ReservedKeepsOwner`, `ActsAsSeen`, `PreservedIsKept`. The
  invariant adds that an item without a snapshot is untouched, that no client knows a future revision,
  that an attempt is for targets of its item, and that what a scan preserves is live when it records.
* **`WorkerProofs`** holds the proofs of two modules. `DownloadScheduler`: types, `OneFlight`,
  `SubmittedIsOutstanding`; the invariant says where the one outstanding operation of a noted key is, and
  whether its future has its callback. `Notifications`: types, `NothingLost`, `InOrder`; the invariant says
  what is known of the event the worker is at, and that a delivery row stands for a recorded delivery.
* **`ScanProofs`** holds the proofs of two modules. `ScanJobs`: types, `OneActive`, `FailedIsReported`,
  `ActiveIsHeld`, and that the outcome of a job is final. The invariant says that the active job is in one
  place: with the client that inserted it (which then holds the lock), in the pool, or with the worker.
* **`ReleaseResolverProofs`**: `MatchedIsExact` and `SourceHasOneSeason` for every call and every limit.
  The invariant says of each solution in a state of the search that its segments are apart and that the
  state is what they cover and feed (`StatesAreSound`). For any proposals the search completes a cover exactly if there is one,
  and its strongest are among the strongest there are (`CoversAreFound`). That it has all of the strongest
  (`CoversAreBest`) takes two more invariants. The first is of the search: every way to choose apart segments
  among those taken has a state that covers and feeds the same with no lower score, and a state keeps its
  ties as far as equally placed parts of the season are equally strong. Only the parts without a gap before
  a segment matter, because segments are taken in the order of their first episodes: a cover without its last
  segment leaves nothing open before any other. The second is of the proposals (`PartsAlwaysAgree`), rule by
  rule: a segment covers its season alone, or is a placed piece of rank 3, or one half of a continuation of
  two, or spans seasons with rank 3. Only the halves are neither whole nor of rank 3: a part that holds
  anything else has quality 3, one of halves alone is a single half, and every part that covers the same
  from the same sources contains that half.
* **`MappingTableProofs`**: `SavedIsSafe`, for any tables, sheets and requests and any number of operations:
  with no write under way the file and its copy are what the last write published, and that is the table in
  memory unless the form has written at the same time as another (`crossed`), or a write has failed and none
  that began after it has succeeded (`failed`). The invariant says that only
  the form writes without the lock, that one thread is between the two files, that the file is the list of
  that thread unless the form has changed it in place and will publish it again, and that while nothing
  has crossed every writer's list is the one in memory.
  `NothingLostUnasked`: a write takes away only what its thread was asked to and what came after it had read
  the table. It is about two moments, the read and the write, so its invariant speaks of what a thread holds in
  between: the list, or the table its sheet will be read as, serves all the table serves now but for what the
  thread was asked to take away and what came late; and late can come only the form's changes, or what was
  written before the page took the lock. That a list keeps what a table serves is shown operator by operator:
  for sorting, for the methods of `Table.py`, for the automation's entry, for the rows of the page and the way
  back from them (`FlattenTableIs`, `RowIsKept`), and for the three ways of an import (`ImportKeeps`). The
  inputs are assumed to be tables, sheets, titles, seasons and URLs (`MappingsAssumption`); nothing is assumed
  of how many there are or what they hold.
  `PageRoundTrip` (`PagesAreReadBack`) does not hold of every table: one that is not sorted by title, or that has a
  URL twice in a season, is read back differently. Its invariant `NInv` says that the table, the file, its copy and
  every list a thread holds are sorted and repeat nothing, and that what is about to replace the table repeats
  nothing. The proof goes through every method that writes; each keeps the order and looks for a URL before it adds
  it. Only two tables come from outside, the file at the start and an uploaded one (`api.py`), and neither is looked
  at: the theorem has the hypothesis `TidyInputs` about them. From such inputs the program makes only such tables,
  and those of the run are such. From there the round trip is computed: the rows of
  the page and the entries correspond one to one (`SheetIs`, `EntryRead`), the ids are read in the order of the
  table up to ten entries (`IdsRead`), and a stable sort leaves a sorted table alone (`SortedStays`).
* **`MappingRowsProofs`**: what both V3 modules rest on. That a file or a list with some property keeps it
  through sorting, the methods of `Table.py` and the automation's entry; where an entry, a season and a URL are
  found; and what a recursive function, a filter and a flattened list return.
* **`SeriesScanProofs`**: the two scans exclude each other, `AnnouncedIsDone`, `SwitchStopsWithinOne`. The
  invariant says what the trail of the current episode holds at each step of a thread, that one thread
  is at work at a time, and that with a switch on a thread is past its last check or has stopped.
  `EpisodesAreRight` (`RightSource`): the file of an episode is the one that counting through the releases of its
  season leads to. What a thread has in hand is computed from Sonarr's answers, the table and the pages, so the
  invariant (`DataIsKept`) says of each position of a thread what that is made of, and of a season that every number
  is offered by its right source first. That is shown of `flattenEpisodes` release by release (`Counted`): as long as
  the releases so far list their last episodes, the last number is the sum of their lengths and each number up to it
  has the source of one release and one place in it. An episode 0 of a later release repeats the last number of the
  one before; it stands behind it, and the first match is taken (`ZeroFollows`). Binding, extending an entry,
  sorting by the number of the episode, removing what another thread switched off and the move of the file are
  each shown to keep it. `PagesAssumption` says that no page lists a number after the last episode of its release, and a
  number 0 only as an episode of its own (`expand_episode_number` gives nothing for a merged "0-2");
  `ScanAssumption` that the episodes of Sonarr have titles, seasons and numbers.
* **`ScanProofs`**, of `ScanEvidence`: types, `InventoryIsSeen`, `OneAudio`, `WholeEvidence`. The invariant says of
  each phase of a scan what it has read and still knows: of the seasons it does not map again, that their record
  is what it read, or that they have none; of each series whose audio nobody has touched since the scan
  began, which items may still be of another audio before any override (those yet to compare, then those invalidated, until
  that is written to their rows); and that the results are flagged where candidates are missing. It is
  needed because the properties speak of five transactions, each of which writes what an earlier phase
  found. It assumes that series come in an order with a last one in every set (`SeriesAssumption`).

Only model-checked: everything that must happen eventually (`RecoveryEnds`, `ExecutionEnds`, `TriedAgain`,
`ScanEnds`, `AllDealtWith`, `StaleIsStopped`, `WantedIsDelivered`), since liveness under fairness and ENABLED
are out of the prover's reach.

## 6. Where the code and its documents disagree, and what else was met

The finding of `PROJECT.json`: `download_manager.py:106`, where a future that is complete before its
callback is added runs the callback under the lock it takes (`scheduler_wedge`).

Met while modelling, described here and not given a run.

V4, execution:

* A reconcile request while the same key is executing makes both threads send the rescan
  (`execution.py:275`), against `production_adapter.py:262`. The runtime injects no operator control.
* An item superseded between reservation and dispatch still reaches the adapter (`execution.py:260`),
  against `docs/v4/downstream-execution.md:56`; a changed audio preference gives the same snapshot, revision
  and target a second key (`application_store.py:29`), against line 62 of the same document.
* The adapter's `reconcile` asks no permission: recovery moves files of a journal that another
  authorization dispatched, and only its receipt is judged afterwards (`production_adapter.py:268`).
* A new item has no validation row until a scan confirms it, and a reservation accepts an absent row
  (`application_store.py:579`), although `docs/v4/downstream-execution.md:59` speaks of validated evidence.
* With overlapping operator requests a reconcile can discard the preparation of an execution that then
  fails, or close as failed one whose other thread goes on (`production_adapter.py:255`).
* A key whose attempt failed is never tried again; a revision of the item is the only way on.
* An exception that the adapter's `reconcile` does not catch, called from `execute`, closes the attempt as failed
  with `adapter_error` after files were published, or after Sonarr was told (`execution.py:269`; it comes from
  `production_adapter.py:191`, 229 or 275). `docs/v4/phase13-precutover.md:56` says "Any interruption after dispatch begins
  is `unknown`: the local execution remains reserved", and `findings.md:259` "rather than finalizing a false failure".
  Such attempts need a person; what is left of the guarantee is in `OutcomeMatchesEffect`.
* The loop of the downloads notes a failed sync in the ledger, in the handler itself: a ledger that is locked then
  ends its thread until the next start (`download_manager.py:127`), although
  `test_av4_012_scheduler_survives_and_records_initial_sync_failure` (`tests/v4/test_phase2_remediation.py:150`)
  expects it to go on.

V4, scans and notifications:

* A scan that fails after its ledger transaction has changed decisions, while its error says
  "Existing decisions are retained" (`scan_jobs.py:54`). If the first update of a job fails, the job
  stays queued with nobody to run it until the next start (`scan_jobs.py:47`); the model calls it adrift.
* A page pending for two series is charged to the one that comes last (`live_dataset.py:299`);
  `WholeEvidence` states what is left of the guarantee: that series goes to review.
* A changed page that a failing scan has fetched is not due again, and so not compared, until it expires;
  a second scan within the retry time turns `stale_retry` into current; a first inventory lost by a crash
  passes the comparison (`unrecorded` names those seasons).
* `set_series_audio_master` overwrites whatever is there (`application_store.py:445`): a choice of the
  user between the scan's read and its write is lost, until the user decides again.
* A season mapped again to the same digest keeps its item, and its row stays "current" or "invalidated"
  as it was. A deep audit leaves the rows of the items alone.
* After an exception in the middle of a batch the verifier appends verdicts a second time
  (`llm_verify.py:160`), so that those after them are attributed to other items; the comment above speaks
  of failing closed for one item only (`llm_verify.py:148`).
* A season override with another audio than the series master has the season executed in it, from the variant of
  the same plan (`application_store.py:585`, `execution.py:159`). Scans know nothing of that: they validate the
  source of the item's own audio (`application.py:49`), so a page that only an override has executed may change
  and the season stays executable. `OneAudio` and `StaleIsStopped` say so.
* Validation and page budgets take the due sources in the order of the items: the same ones may be
  served every time.
* The search of covers keeps the best solutions of a state and drops weaker ones that a later segment could
  make as strong, while its docstring promises every canonical best cover (`release_resolver.py:48`). That it
  keeps the promise all the same is owed to the rules, which never propose such a tie (`PartsAlwaysAgree`): a
  rule that proposed pieces of unequal rank would break it. A best cover is found in any case.
* An exception outside of the handler ends the notification thread until the next start
  (`notifications.py:247`); the model calls it `Dies`. The window of repeated errors compares the
  event's time with the last delivery, so identical errors raised during an outage of the relay are all
  sent after it (`notifications.py:78`).

V3, mapping table:

* The old form edits the list without the lock: `replaceAll` of another thread drops its edit, and an older
  list may be published after a newer one (`crossed`).
* A durable write that fails leaves the table in memory changed, or the file without its copy (`Table.py:13`,
  `atomic_json.py:121`), and the request answers with an error: what it asked for is there until a restart, and
  for good once anything else is saved (`WriteFails`).
* The ids of the page are compared as text (`mapping.py:331`): entry 10 comes before entry 9, and saving an
  unchanged page swaps two entries of one title at these places. `PageRoundTrip` is stated for up to ten
  entries; `TextRank` orders the ids as the code does up to three digits.
* An import "update" ignores a file that only reorders URLs (`mapping.py:555`); "add_only" and "update" may
  turn the absolute flag of an entry (`mapping.py:341`); a series without seasons makes every bulk-save
  fail validation.
* The automation renames an entry that differs in spelling and leaves its flags under the old title
  (`mapping_automation.py:158`); its duplicate check is made before it takes the lock
  (`mapping_automation.py:145`).

V3, scans:

* Any exception of a scan ends the loop and with it the process (`Core.py:178`): a rename that finds no
  file after three attempts (`Downloader.py:355`) is enough.
* A wake-up during a manual scan is skipped; `wakeUp` blocks while the loop scans, so that the answer
  that a scan is running is never given (`api/__init__.py:49`).
* An episode that airs between two pages of `/wanted/missing` shifts them: one is listed twice, another is
  missed until the next scan (`Processor.py:52`).
* `flattenEpisodes` counts from the last number of the pages before it: `RightSource` holds only if
  every page but the last lists its last episode. If a later page lists an episode 0, it gets the number of the
  last episode before it; only the order of the search keeps that from being taken. A season is downloaded from a search result that could
  not be saved (`Processor.py:269`). The numbers of the first season are not filtered when a series is
  converted to absolute numbers (`Processor.py:285`).
* The answer of Sonarr to a rescan command is not looked at (`Downloader.py:147`).

## 7. What is not modelled

The components marked `not_modelled` in `PROJECT.json`, each with its reason, and of the ones marked
`partly` what their note says. In short: the HTTP layers, presentation, one-shot tools and research readers
hold no state another component relies on, and the state changes their requests cause are actions of the
module of the component they call; the front ends hold the state of one page; scores of titles are
arithmetic on strings, which enter the models as facts; the LLM judge only writes a suggestion beside an
item, and its cache and budget limit cost. Four hazards have no property, each with its reason in
`PROJECT.json`.
