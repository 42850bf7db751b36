# Verification of the data lake

TLA+ models of the data lake's concurrent core, the TLC configurations that
check them on small instances, and proofs that TLAPS checks for every instance.

- [Components](#components): the inventory
- [Hard behaviours](#hard-behaviours)
- [Modules](#modules): what is modelled and how it corresponds to the code
- [Runs](#runs): what is checked, and with which bounds
- [What the code does not keep](#what-the-code-does-not-keep)
- [Proofs](#proofs)
- [What is left out](#what-is-left-out)
- [Plan](#plan)

Paths are those of the repository; `service.py` is
`file_asset_service/app/quota_parser/service.py`, `quota_api.py` is in
`file_asset_service/app/`, `worker` is `quota/parser/quota_parser_worker.py`, and
`parse_chunked.py` is in `quota/parser/external/mineru_pdf_parse/scripts/`.

## Components

The repository collects Chinese construction-cost documents (price journals,
quota books, tender results), keeps files in MinIO and rows in PostgreSQL, lets
an archive desk curate them, and parses quota books from PDF into tables.
`DEPLOY.md` puts the processes on several machines that share one PostgreSQL and
one MinIO and nothing else.

| Component | State | Operations | Interacts through | Correct when |
|---|---|---|---|---|
| Parse API (`service.py`, `quota_api.py`) | none of its own; one database session for each call | trigger a parse, upload a reviewed workbook, delete the results (all, or only the review), delete the archive | rows of `archive`, `quota_parse_job`, `archive_file`, `file_asset`; objects in MinIO | an archive has at most one active job; `parsing` always has a job behind it; results that are gone stay gone; shared files survive |
| Job table (`models.py`, `database.py`) | `quota_parse_job`, the `parse_*` columns of `archive` | row locks of READ COMMITTED, `ON DELETE CASCADE`/`RESTRICT` | all of the above and below | jobs are opened exclusively, claimed once, closed for ever |
| Parse worker (`worker`) | the job it holds, a local work directory | claim, dispatch, download, OCR and extract, upload, register, publish, finish or fail | job and archive rows, MinIO, the OCR client | no job is run twice; whatever happens to it, a claimed job ends |
| Sweeper (`quota_parser_sweeper.py`) | the jobs it has selected | fail every job without a heartbeat for 35 minutes, or queued for 30 | the same rows, and the work directories of its host | no parse hangs; a parse that is making progress is left alone |
| OCR client (`parse_chunked.py`) | section, attempt, 404 count, result list | submit, poll, retry, fetch, merge | the MinerU service by HTTP; the job's heartbeat by a callback | a complete merge is aligned; the call returns; no section is OCRed twice at a time |
| MinerU (external) | its tasks | end a task, restart (and forget), be away | HTTP | – |
| Crawl queue (`cost_info_worker.py`, `cost_info_scheduler.py`, `crawl_campaign.py`, `crawler_loop.py`) | `collection_task` rows: status, lease, attempts; the status of a source | schedule, lease a batch (`SKIP LOCKED`), complete, fail with backoff, dead letter | rows; sites by HTTP | one live lease for each task; attempts are bounded; due work is done |
| Archive ingest (`archive_service.py`, `archive_rules.py`, `assets.py`, `source_registry.py`, `trading_registry.py`) | `archive`, `archive_file`, lineage, events, outbox | create or fold into an archive by business key, attach a file or a link that waits for one, fetch it, rename, withdraw, delete | rows, MinIO, outbox readers | one archive for each business key; what it holds it keeps; an archive with files shows one; nothing enters a deleted archive |
| Crawl campaign (`crawl_campaign.py`, `cost_info_worker.py`) | `crawl_campaign`, `crawl_item`, the campaign's `collection_task` | create, record the source's list, mark items, refresh, fail | the crawl queue, archive ingest in the crawler's session | items, campaign and task agree; what is marked done is stored; a campaign comes to an end |
| Trading task loop (`trading_task_loop.py`) | `trading_*` task rows | lease, run, retry | rows | as the crawl queue |
| Crawler platform (`crawler_platform/`) | last request time for each host | rate limit, run reports | called by adapters | two requests to a host are far enough apart |
| Quota lake prototype (`quota_lake/`) | a stand-alone catalogue | ingest, job state machine | files | only legal transitions |
| Object store and mirror, adapters, web UI, offline pipelines | – | I/O, text processing, rendering | – | – |

`PROJECT.json` lists the same components with their sources and status.

## Hard behaviours

All processes share rows and objects but no locks other than PostgreSQL's own.
What a reader has to keep in mind, and what a unit test with one session and
SQLite does not exercise:

- **Read, work, write.** API handlers read an archive, call MinIO or await an
  upload, and write it back in a later statement. The worker never looks at its
  job again after the claim, however long the OCR took.
- **Locks nobody wrote down.** Two triggers of one archive are kept apart only
  by SQLAlchemy's autoflush: the dirty archive is `UPDATE`d before the `SELECT`
  for an active job, and the row lock lasts until the commit.
- **Two stores.** MinIO calls are not part of the transaction: a rollback, a
  crash or a second archive sharing the object meets them half done.
- **Death at any point.** Nobody requeues a `running` job, so the sweeper is the
  only way out of `parsing` when a worker dies or hangs.
- **Time.** The OCR client's own limits and the sweeper's race each other.
- **One session, several owners.** A crawler ingests in the session in which it
  keeps its campaign. Every commit inside an ingest commits the marks made so
  far, an error of the database inside it ends the whole run.
- **Computed from what was seen.** Which file of an archive is its primary one is
  computed from the links one transaction sees, and only the flags that differ
  from those it loaded are written. Two sessions that attach at once write from
  two different views.

The list `hazards` in `PROJECT.json` gives each of these at its line, with the
properties that would catch it going wrong.

## Modules

| Module | Models | Extended by |
|---|---|---|
| `ParseBoard` | abstract: what the parse queue promises about jobs | refined by `ParseQueue` |
| `ParseQueue` | Parse API, job table, worker, sweeper, composed | `MCParseQueue` (TLC), `ParseQueueProofs` (TLAPS) |
| `TaskLedger` | abstract: what the crawl queue promises about tasks | refined by `CrawlQueue` |
| `CrawlQueue` | schedulers, task creation, crawler processes, the operator | `MCCrawlQueue` (TLC), `CrawlQueueProofs` (TLAPS) |
| `Catalog` | abstract: what the archive tables promise their readers | refined by `ArchiveIngest` |
| `ArchiveIngest` | archives and their files, changed by concurrent sessions | `CampaignRun`, `ArchiveIngestProofs` (TLAPS) |
| `CampaignRun` | a campaign: `ArchiveIngest` and a `TaskLedger`, composed with items and the campaign row | `MCCampaignRun` (TLC), `CampaignRunProofs` (TLAPS) |
| `SectionList` | abstract: what the OCR of a job promises about its sections | refined by `OcrSections` |
| `OcrSections` | the OCR client with the service it calls | `MCOcrSections` (TLC), `OcrSectionsProofs` (TLAPS) |

Definitions marked "Mutant" are faulty variants of the definition that follows
them. No specification uses them; each shows, put in that definition's place,
that a property notices the fault.

### ParseQueue

One action is one database transaction, one object-store call, or one statement
of an open transaction that takes a row lock. The variables:

| Variable | Code |
|---|---|
| `rows` | which `archive` rows exist |
| `archive[a]` | `parse_status`, and whether `candidate_xlsx_key` and `final_xlsx_key` are set |
| `job[j]` | `quota_parse_job` rows; ids are given in the order of `enqueued_at`; `overdue` says that the row's timestamp is past the sweeper's limit |
| `worker[w]` | how far `_process_job` has come, for which job, and the content it uploaded |
| `sweep` | the jobs `sweep_stuck_jobs` has selected and not committed |
| `request[r]` | an API call: which statement comes next, the row as its session loaded it (`seen`), the jobs its uncommitted `UPDATE` holds (`cancel`), the link and asset rows it has deleted but not committed (`drop`, `orphan`) |
| `asset`, `link`, `bytes` | `file_asset` rows and the object key each names, `archive_file` rows of parse artifacts, the objects in MinIO |
| `workRoot` | jobs whose local work directory exists |

The actions follow the handlers:

| Actions | Code |
|---|---|
| `BeginTrigger`, `FlushTrigger`, `Enqueue` | `POST …/parse`: `trigger_parse` and `enqueue_parse_job` |
| `BeginReview`, `FinalizeReview`, `CommitReview` | `POST …/reviewed`: the check, the upload that is awaited, the commit |
| `BeginDeleteAll`, `BeginDeleteReviewed`, `CancelActiveJobs`, `DeleteObjects`, `DropAsset`, `CommitDelete` | `POST …/parse/delete` |
| `DeleteArchive` | `DELETE …/{id}` |
| `AbortRequest` | the web process dies: rollback, while MinIO keeps what was done |
| `Claim`, `Prepare`, `MarkSkipped`, `Heartbeat`, `RunPipeline`, `OcrStalls`, `OcrResumes`, `Upload`, `Register`, `Publish`, `MarkDone`, `MarkJobFailed` | the steps of `_claim_next_job` and `_process_job` |
| `WorkerCrash`, `WorkerRestart` | death and restart; also a database error inside `_mark_job_failed`, which leaves the job as a crash would |
| `GoOverdue`, `SweepSelect`, `SweepCommit`, `SweeperCrash` | time and `sweep_stuck_jobs` |

Choices worth knowing:

- **Row locks.** An uncommitted `UPDATE` or `DELETE` of a row makes other
  writers of that row wait (`RowFree`, `JobFree`, `LinkFree`, `AssetFree` in
  their guards); readers never wait. A transaction whose statements all write at
  its end is one action. The endpoints are coroutines with a synchronous
  session, so in one web process they interleave only where they await; several
  web processes interleave at every statement, and the model allows that.
- **The unit of work.** `OrmWrite` writes only the columns that differ from what
  the session loaded. That is what makes stale handlers dangerous in some orders
  and harmless in others.
- **Merged statements.** The autoflush and the `SELECT` for an active job; the
  sweeper's two `SELECT`s; dispatch and download (nothing but the job's own
  progress is written between them); `Publish`'s load and commit (while the
  worker's own job is active no trigger can write the archive; a late load only
  widens what `OrmWrite` could leave alone); `DeleteObjects`' MinIO delete, the
  `DELETE` of the link and the `SELECT` for orphans. The `DELETE` of an orphan is a
  step of its own (`DropAsset`): content registered since the `SELECT` makes its
  foreign key abort the call, after the object is gone. Writing `manifest.json` is part of `Publish`, which may
  therefore fail after its commit.
- **Abstractions.** Three artifact roles are one candidate file. One tenant. Real
  mode only: `QUOTA_PARSE_MOCK` replaces queue and worker by a stand-in, which
  alone writes the status `parsed`. A job's `attempt` counter is written and
  never read, and left out.

### OcrSections

`parse_chunked` from the first section to the last, with the tasks of the MinerU
service as it sees them. `task[section, attempt]` is what the service knows;
`results` is `result_paths`. The clock ticks once for each poll: `elapsed` is
measured from the first poll of a task, `silent` from the job's last heartbeat,
which `on_chunk_done` writes when a section ends. Both counters stop at the
value beyond which nothing changes. `Submit`, `PollStatus`, `Poll404`,
`PollError` and `Fetch` are the client; `Finish`, `ServiceRestart`, `GoAway` and
`ComeBack` the service. `EndSection` is the `finally` block, part of every action
that ends a section. Cutting the PDF and rendering HTML are left out, except
that a failure while rendering comes after the result was recorded.

While the worker of `ParseQueue` is at `"ocr"` or `"stuck"` it is inside this
call. `Heartbeat`, `OcrStalls` and `RunPipeline` are what `ParseQueue` sees of
it, and the two findings about time below say why `OcrStalls` must be there.

### CrawlQueue

One action is one transaction on `collection_task` and `data_source`.

| Variable | Code |
|---|---|
| `task[t]` | a row: status, source, kind, lease, `worker_id`, `attempt`; ids are in the order of `created_at` |
| `source[s]` | `active`, or `manual_recovery` for every status that stops a source |
| `pc[w]`, `subject[w]` | where a crawler process is: idle, about to insert a scheduled task, in a batch, or about to count the failures of a source |
| `held[w]` | what is left of its batch |
| `astray` | history: see below |
| `copy[w]`, `stopped[w]` | what its session remembers: sessions keep their rows over a commit (`expire_on_commit=False`, `database.py:67`), so `attempt` is counted from the value loaded with the lease, and a source already stopped in this batch is not written again |

| Actions | Code |
|---|---|
| `CheckDue`, `InsertIncremental` | `run_scheduler`: the check and the insert of `create_task_if_not_exists` |
| `CreateTask` | coverage backfills, campaigns, `POST /api/collection-tasks` |
| `Lease` | `_lease_pending_tasks`: `SELECT … FOR UPDATE SKIP LOCKED`, `UPDATE`, commit, for a batch |
| `Complete`, `Retry`, `DeadLetter`, `CountFailures` | the ends of a task in `run_worker` |
| `SetActive` | the operator's `set-active` |
| `Expire`, `Crash`, `Restart` | time and death; a database error that ends the run is a crash |

A lease may end at any moment, also while its holder is at work (`Expire`). The code
does not exclude it: `run_loop_once` passes one `now` to up to 20 batches of 20
tasks, the four hours of a lease are counted from it, and nobody renews a lease.
The history variable `astray` has the tasks to which this has happened, as long as
somebody works on them. What a lease promises holds of all others; for these only
`AttemptBudget` and `TasksSettle` do. `TaskLedger` says the same with `Stray` and
`Return`: nothing is promised of a task whose holder is too slow, but that it comes
back within its attempts when nobody works on it.

What is due and in which order it comes is left open; what a run downloads takes
place between `Lease` and the end of the task.

### ArchiveIngest

One action is what a session does between two points at which another one can
come in between: a commit, or a query from whose answer it writes later.

| Variable | Code |
|---|---|
| `archive[a]` | an `archive` row: whether it exists, its business key (with tenant, domain and version 1), `is_withdrawn` |
| `files[a]`, `primary[a]` | its `archive_file` rows that have a file, and those with `is_primary`; of a deleted archive, what they were last |
| `pending[a]` | its `archive_file` rows with `file_id` NULL and `PENDING_FETCH` |
| `call[c]` | what session `c` is in the middle of: the key or id it works with, the attachments still to come, the uncommitted link with the flags it will set (`up`) and clear (`down`) |

| Actions | Code |
|---|---|
| `BeginIngest`, `Lookup`, `Refuse` | one attachment of an issue, notice or ingest event: download and `register_asset`, which commits, then the query by business key |
| `Create` | `create_archive`: a second query, the insert, the commit – before the archive has a file |
| `Fold`, `Attach`, `CommitAttach` | the branch for a key that has its archive, and `attach_file` with `_apply_representation_roles` (`Lead`, `InsertLink`) |
| `Advance` (part of these) | the loop over attachments: by key again for `cost_info`, by id for `trading`, whose off-peak attachments follow |
| `AttachPending`, `BeginFetch`, `CommitFetch` | `attach_pending_file` and `fetch_pending_trading_archive_file` |
| `AttachByHand`, `CreateByHand`, `BeginRename`, `CommitRename`, `Withdraw`, `Delete` | the writing endpoints of `/api/archives` |
| `EndCall` | the session ends, with its call or with its process |

- **Database.** READ COMMITTED, with the guards the schema has and no others:
  `uq_archive_business_version`, `uq_archive_file_role` (a second insert of a
  link waits for the first, `LinkHeld`) and the foreign key of `archive_file` (an
  uncommitted link holds the archive, `Inserting`). A delete that meets a link
  committed meanwhile fails and changes nothing, so it is no action.
- **Places.** A file is the number its place (`sort_order`, `added_at`) gives it
  among an archive's files; `LateAssumption` says what `trading_registry.py`
  makes sure of, that off-peak attachments come after the fetched ones. A fetch
  writes `file_id` whatever the link has by then (`trading_registry.py:378`): two
  fetches of one link are assumed to get the same file, which they do unless the
  site changes it in between.
- **Empty attachments.** Adapters pass over an attachment that comes empty and go
  on with the others (`static_list_detail_package.py:64`,
  `beijing_cost_info.py:249`). `Attachments[k]` is the set of lists that may be left;
  none is empty, because then the adapter gives up.
- **Left out.** Status, titles and metadata, lineage, events, audit and outbox
  rows: they are written in the same transactions and read by nothing modelled.
  One file under two roles in one archive.

### CampaignRun

`CampaignRun` EXTENDS `ArchiveIngest`: a crawler is one of its sessions, the
others are calls of the web API and the job that fetches pending files off peak.
The task is a `TaskLedger` with one task (`Queue`), which each task of `CrawlQueue`
by itself implements (`EachTaskIsALedger`). The ledger's `Stray` is not used: that a
task's lease runs out under its crawler, so that two sessions run one campaign at
once, is left out of this module.

| Variable | Code |
|---|---|
| `phase`, `failures`, `holder` | the campaign's `collection_task` row, as `TaskLedger` has it |
| `source` | `data_source.status`: `active`, or `manual_recovery` for every status that keeps its tasks from being leased |
| `campaign`, `item[k]` | the status columns of `crawl_campaign` and `crawl_item`, as committed |
| `run[w]` | a crawler inside `_run_one_task` or its failure handling: the issues still to be looked at, the one being ingested with what was downloaded of it (`given`), and the two statuses as its session has written and not committed them |
| `got`, `overruled`, `died` | history: what was downloaded of an issue, and what the statements below make exceptions for |

| Actions | Code |
|---|---|
| `Lease` | `_lease_pending_tasks`, for sources that are active |
| `Discover` | `record_discovered_items`: any part of the issues is listed, any ended item may have changed attachments (`Inventory`) |
| `Duplicate`, `Download`, `EndItem` | the loop of `_run_one_task`: `_archive_exists`, the marks, the download without the attachments that come empty, what is done with an exception |
| `Register`, `IngestStep`, `DownloadFails` | the adapter's ingest; `Register` is `Lookup` with the commit of the draft |
| `Finish` | `refresh_campaign` and `_complete_task`, one commit |
| `ListFails`, `RunFails` | `_handle_task_failure` (`FailTask`): the task is given back or buried, and this is committed |
| `MarkFailed`, `ReadCampaign`, `MarkRunning` | `mark_campaign_task_failure`, a later transaction: a terminal failure is written at once; otherwise the campaign is read, and what was `pending` becomes `running` in a later statement |
| `BreakDown`, `Crash` | an `IntegrityError` inside an ingest, which the handlers do not roll back; the death of the process. Both leave the task running until its lease expires |
| `StopSource`, `SetActive` | other tasks' failures or an operator stop the source; `set-active` |

- `completed` and `completed_with_errors` are one status.
- A retry may be leased as soon as the task is given back. Its delay is no guard: it
  is counted from the `started_at` of the run that failed (`cost_info_worker.py:436`
  and 567), and may be over before that run has ended.
- A session reads the campaign from the row, unless it has written to it: nothing
  holds the unmodified object between the end of `record_discovered_items` and
  `cost_info_worker.py:273`, and the identity map of SQLAlchemy refers to it weakly.
- The adapter's key and the one the ingest computes from title and period agree:
  both are the same function of the same issue.

## Runs

| Run | Bounds | Question |
|---|---|---|
| `pq_queue` | 1 archive, 2 jobs, 2 workers, 2 calls at a time, 1 crash; busy workers may be late | Do triggers, reviews, deletes, workers and the sweeper keep jobs exclusive (`AtMostOneActiveJob`), claimed once (`OneWorkerPerJob`), and `parsing` backed by a job (`ParsingHasActiveJob`)? Can one of the calls in flight always move (`NoLockDeadlock`)? Is the invariant used in the proofs true (`QueueInv`)? Does the queue implement `ParseBoard`? |
| `pq_objects` | 2 archives with equal content, 2 jobs, 1 worker, 2 calls | When archives share an asset, and calls wait for links and asset rows too, do API calls wait for each other's rows in a circle (`NoWaitCycle`), or stop each other in any other way (`NoLockDeadlock`, here between triggers and full deletes, in `pq_queue` between triggers, reviews and both kinds of delete)? |
| `pq_live` | 1 archive, 2 jobs, 1 worker, 1 call, 1 crash | Does every parse end (`ParseEnds`) and every job settle (`JobsSettle`), with a worker that dies or hangs and never returns? |
| `pq_deleted`, `pq_review`, `pq_shared` | the smallest instance for each | see the next section |
| `oc_sections` | 3 sections, 2 retries, 2 404 answers, 2 ticks, outages | Is a complete merge aligned (`MergeAligned`)? Is a section never given out twice (`NoDuplicateTask`)? How many tasks can be at work when timed-out ones go on (`OneTaskPerSection`)? Does the client implement `SectionList`? Does every answered call bring it nearer to its return (`EveryAnswerCounts`), and does it return (`Returns`)? |
| `oc_timeout`, `oc_sweep` | 1 section | see the next section |
| `cq_lease` | 2 tasks, 1 source, 2 crawlers, batches of 2, 2 attempts, 2 crashes; leases may end during the work | Has a task one holder (`OneHolder`), who alone ends a live lease (`LeaseHonoured`), unless its lease ran out at work? Does it get the attempts of its policy and no more (`AttemptBudget`)? Does every write to a task bring it nearer to its end (`EveryWriteCounts`), and is every task settled although crawlers die or are late (`TasksSettle`)? Does the queue implement `TaskLedger`? |
| `cq_overrun` | 1 task, 2 crawlers, no crash | see the next section |
| `ai_campaign` | 3 archives, 3 keys, 2 files, 2 crawlers and 1 other session, 2 issues, 2 attempts, 1 disturbance: a crawler dies, the source is stopped, or a caller writes; the off-peak fetch is unbounded | Is what was downloaded of a done item stored (`DoneIsStored`)? Do item, campaign and task rows agree (`CampaignClosed`, `FailedTogether`), is an outcome ever taken back (`OutcomeStands`), and does the campaign end (`CampaignSettles`)? Does every archive with files show one (`HasPrimary`)? Are the invariants of the proofs true (`IngestInv`, `CampaignInv`)? Do the archives implement `Catalog`? |

**Why the bounds are enough.** The queue's conflicts are between archives only
through shared content, and otherwise between two parties for one archive: two
calls at a time cover each pair of endpoints, two workers the claim, two jobs an
old parse that meets its successor, one crash each single point of death. Two
archives with a single content force sharing. A job id runs out after `MaxJobs`
parses; `SpareJob` is the bound's only guard and keeps a trigger from starting
without an id. For OCR, three sections show a first, a middle and a last one;
counters stay at two where the code has 3, 30 minutes and 35, and
`TimeoutAssumption` keeps the order of the limits, which is all that the code's
comparisons tell apart. Two crawl tasks are a batch and a batch that is split; two attempts
show a retry and a dead letter; the source is stopped after its first dead task, so
that a second one of the same batch meets a source already stopped, and it is only
through its stop that tasks of one source meet. Two crashes let a task be
taken over twice. In a campaign, three archives are what the issues, a call by hand and the
re-creation of a deleted one can need; one issue has two attachments, of which
the second is a table, so that roles change, and of which the first may come empty
in one run and not in another; the third key is a notice with an
attachment fetched off peak; a second session is enough for each race, since roles
are computed by two views at a time; two crawlers let one take the retry before the
other has written its failure; two attempts show every end of
a task, of a run and of a campaign. There is one disturbance at a time: a death, a
stop or a call meets the retries, but no two of them each other. The safety
properties of the table are also proved
without any of these bounds, with the exceptions named under [Proofs](#proofs).

Symmetry (over calls and over workers) is used in `pq_queue` and `pq_objects` only.
`CHECK_DEADLOCK FALSE` is set throughout: after its last job the queue is
allowed to rest, and `parse_chunked` returns.

**Fairness.** `ParseQueue`: a call the web server has accepted goes on
(`RequestStep`), a worker that is up goes on (`WorkerStep`; its loop polls for
ever), time passes (`GoOverdue`), the sweeper's loop goes round (`Sweeper`;
`DEPLOY.md` runs it as a service). Nobody has to call, crash, restart a dead
worker, or bring the OCR call back. `OcrSections`: the client is strongly fair
because it polls repeatedly and only needs to meet a service that is up from
time to time; that the service keeps coming back (`ComeBack`) is assumed in
`ReachableSpec` only, and the service never has to end a task. `CrawlQueue`: a run goes on,
because its downloads have time limits; a dead crawler is started again (the
deployment runs it as a service or from a scheduler); time passes; and a task
that can be leased again and again is leased at last (strong fairness:
`ORDER BY priority, scheduled_at`, and a retry moves a task to the end). Crashes
are bounded: a task that kills its crawler each time would be taken over for
ever, as a takeover does not count as an attempt. `CampaignRun`: a crawler's run
and a call of the web API go on, and a crawler is there to take the task again
(`Lease` is part of `CrawlerStep`). No issue has to be listed, no download to
succeed, nobody has to call, and nobody has to put a stopped source back:
`TasksSettle` and `CampaignSettles` name a stopped source as an outcome.

## What the code does not keep

Six statements of the repository's own comments and docstrings that a run
refutes. Each run checks one property and prints the shortest trace.

1. **A full delete cancels the job, and the parse comes back** (`pq_deleted`,
   `DeletedStaysDeleted`). `service.py:703` promises "回到只剩原件 PDF". The worker
   whose job was cancelled goes on, and its publishing transaction writes
   `candidate_ready` (or a failure writes `failed_user`) into the archive.
2. **A fresh parse with an old review** (`pq_review`, `FreshParseUnreviewed`).
   `service.py:143` clears the old final workbook when a parse is triggered again.
   What is cleared is what the trigger's session has loaded: if a review commits
   after that read and before the trigger's `UPDATE`, the final key was empty when
   it was loaded, `None` is no change, and SQLAlchemy leaves the column alone. The
   archive is `parsing` and has the final of the earlier parse. The handler does
   not await in between, so that it takes two web processes.
3. **A shared object is deleted** (`pq_shared`, `SharedObjectKept`). The
   reference check of `service.py:641` protects the row; the object that the row
   names was already removed from MinIO.
4. **`poll_task` does not give up while the service is away** (`oc_timeout`,
   `PollGivesUp`). The total time (`parse_chunked.py:182`) is compared only
   after a 200 answer.
5. **The sweeper can come first** (`oc_sweep`, `SweeperComesLast`). The worker's
   comment (`worker:76`) orders the two limits; a section that is lost and
   submitted again starts a new 30 minutes without a heartbeat.

6. **A late crawler ends another's lease** (`cq_overrun`, `LeaseRespected`).
   `crawler_loop.py:5` calls leasing "the concurrency boundary" between nodes.
   Nothing in `_complete_task` or `_handle_task_failure` looks at the lease: a
   crawler whose lease ran out sets the task that another is running to `done`,
   `pending` or `failed`, and clears the other's lease. `LeaseHonoured` is the part
   that holds and is proved: it happens to no task but those whose lease ran out on
   a crawler that is still at work.

Modelling the campaigns showed these, which no document denies and which have no
run of their own; the properties are stated so that they are allowed:

- An archive is committed before its first file is attached
  (`archive_service.py:636`). After a crash in between it has no file, and every
  later crawl of its issue finds the archive and counts a duplicate.
- An issue whose archive is renamed while its attachments are being ingested is
  split: the next attachment finds no archive under the key and creates one.
- A retry that finds every item ended completes the campaign in
  `record_discovered_items`, before the run has looked at one issue; it shows
  `completed` while its task may still be retried.
- A crawler that has given the task back reads the campaign (`crawl_campaign.py:400`)
  and writes what was `pending` to `running` at a later commit
  (`cost_info_worker.py:569`). Its retry may be due already, since the backoff is counted
  from the start of the run: when another crawler runs it to its end in between, a
  campaign that has completed or failed is `running` again, and stays so (`overruled`
  in `OutcomeStands`, `CampaignClosed`, `FailedTogether` and `CampaignSettles`).
- A campaign whose source is stopped, by its other tasks or an operator, waits with
  its retry until somebody puts the source back (`CampaignSettles`).
- A crash between `_handle_task_failure` and `mark_campaign_task_failure` leaves the
  campaign `running` for ever; so does an item that was open and is no longer on
  the source's list (`CampaignSettles` names both).
- An item whose attachments have changed is marked `changed`, "deliberately
  surfaced, not automatically re-ingested" (`crawl_campaign.py:349`). The same run
  then finds the archive of the issue and marks it `duplicate`, or, if the archive
  was deleted, ingests it again.
- `patch_archive` checks the status transition against the row it has loaded; a
  quarantine that commits before its own commit is overwritten.

Some differences between documents and code are about wording rather than
behaviour and have no run: the worker's header (`worker:18`) says 30 and 15 minutes
where the constants are 35 and 35; `quota/web-frontend/SPEC.md` §5.8 answers 409 to a
delete during a parse, which the code cancels instead; a delete leaves
`final.xlsx` in MinIO; `poll_task`'s `wait_until_idle` is not used by
`parse_chunked`.

One concern raised in `quota/PARSE_PIPELINE_AUDIT_20260803.md` (F3) does *not*
occur under PostgreSQL: two concurrent triggers never leave two active jobs, because of the row lock that
the autoflush takes. `FlushWithoutLock` shows what happens without it.

## Proofs

`ParseQueueProofs`, `OcrSectionsProofs`, `CrawlQueueProofs`,
`ArchiveIngestProofs` and `CampaignRunProofs` hold for all values of the constants
that satisfy the named assumptions (`MaxJobsAssumption`, `ShasAssumption`,
`NoneAssumption`, `SwitchAssumption`; `SectionsAssumption`,
`RetriesAssumption`, `TimeoutAssumption`, `OutagesAssumption`; `TaskNumbers`,
`LimitNumbers`, `NobodyAssumption`; `KeyAssumption`,
`FileAssumption`, `AttachmentsAssumption`, `LateAssumption`, `CrawlerAssumption`,
`IssueAssumption`, `AttemptAssumption`, `BoundAssumption`): any number of archives,
jobs, workers, concurrent calls, contents, crashes, sections, retries, tasks,
crawlers, keys, files and issues.

| Theorem | States |
|---|---|
| `QueueInvariant` | `Spec => []QueueInv`, with the types |
| `OneActiveJob`, `NoOrphanedParsing`, `JobsAreClaimedOnce` | the three safety properties of `pq_queue` |
| `WaitsEnd` | `Spec => []NoWaitCycle` |
| `WaitersWait` | a call that `WaitsFor` another takes no step |
| `SomeCallMoves` | `Spec => []SomeCallCanMove`, the first half of `NoLockDeadlock` |
| `Refinement` | `Spec => ImplementsBoard` |
| `TypeCorrect` | types of `OcrSections` |
| `Alignment` | `Spec => []MergeAligned` |
| `NoDuplicates` | `Spec => []NoDuplicateTask` |
| `SectionsAreEnough` | `Spec => []OneTaskPerSection` |
| `ListImplemented` | `Spec => ImplementsSectionList` |
| `AnswersAreCounted` | `Spec => EveryAnswerCounts` |
| `MergedInOrder` | the results are strictly increasing and of sections left |
| `SilenceIsBounded` | without outages, `silent <= attempt * (PollMax + Max404)` |
| `BudgetKept` | `Spec => []AttemptBudget` |
| `LeasesCorrect`, `OneHolderKept`, `LeaseHonouredKept` | the lease invariant and properties of `cq_lease` |
| `LedgerImplemented` | `Spec => ImplementsLedger` |
| `EachTaskIsALedger` | each task alone implements a one-task `TaskLedger` |
| `WritesAreCounted` | `Spec => EveryWriteCounts` |
| `IngestInvariant` | `Spec => []IngestInv` of `ArchiveIngest`, with the types |
| `PrimaryShown` | `Spec => []HasPrimary` |
| `ArchiveImplementsCatalog` | `Spec => ImplementsCatalog` |
| `CampaignUsesArchives` | `CampaignSpec => Spec`: the three theorems above hold in a campaign |
| `CampaignUsesLedger` | every step of a campaign is a step of `TaskLedger` or leaves the task alone |
| `CampaignInvariant` | `CampaignSpec => []CampaignInv`, with the types |
| `DoneItemsAreStored`, `CampaignIsClosed`, `CampaignFailsWithTask` | the three safety properties of `ai_campaign` about campaigns |
| `OutcomeIsFinal` | `CampaignSpec => OutcomeStands` |

**The queue's invariant.** None of the three properties is inductive.
`ParsingHasActiveJob` survives a worker's `MarkDone` only because the archive was
published before (`PublishedBeforeDone`), and that survives only because no
trigger can write `parsing` while the worker's job is active. It survives the
late commit of a delete or a review only because of what those handlers read
before (`SeenByHandler`): their write either leaves the status column alone or
sets it to something other than `parsing`. `AtMostOneActiveJob` needs
`InsertExclusive`: between the autoflush and the commit of a trigger the archive
has no active job and no other trigger holds its row. `HeldJobs` says that the
job rows that a handler, a worker or the sweeper remembers stay jobs of the same
archive. `QueueInv` is the conjunction of these with `TypeOK`.

The proof has a lemma for each variable that collects the actions that write it
(`JobWriters`, `ArchiveWriters`, …), a type lemma for each variable
(`JobType`, …), and two lemmas about what a step may do to a row: `JobStep` (a
job is opened, claimed, closed or touched) and `ArchiveStep`. The step lemma of
each conjunct (`HeldJobsStep`, `InsertExclusiveStep`, …) rests on these rather
than on all actions, and `QueueInvStep` puts them together.

**Waits.** That `NoWaitCycle` holds for any number of calls follows from an order
in which calls take rows: job rows, link, asset, archive row. A call that waits holds only
what comes earlier than the row it waits for, and waits for a call that has come
further (`LockRank`, `WaitsUpwards`); of any set of calls the one that has come
furthest waits for none of them. `LocksHeld` is the
invariant behind it: job rows are held only from the cancel of a delete to its
commit, a link only after its objects are gone. `WaitersWait` ties the formula to
the actions: what `WaitsFor` calls a wait does stop the call.

`SomeCallMoves` turns this into progress. `CanMove` names what a call needs for
its next statement. Take all the calls in flight: `NoWaitCycle` has one that waits
for none of them. Rows are held by calls in flight only, so it finds its rows
free, and `SpareInv` (at least as many ids are unused as triggers are in flight) gives a trigger its job id. What is left of
`NoLockDeadlock` is that a call that can move has its step enabled; TLC checks
that.

`DELETE /archives/{id}` is not among the calls: `DeleteArchive` takes all its rows in one step and waits
while one of them is held. In the code it locks the archive row before the cascade
reaches the jobs (`models.py:595`), the opposite order to a delete of the parse
results, and PostgreSQL may have to abort one of the two. The theorem does not
exclude that; it is listed among the hazards without a property.

**The refinement** maps `unused`, `queued`, `running` and all ended states to
`new`, `waiting`, `taken` and `closed`. `BoardStep` shows that each step of the
queue is `Start`, `Take`, `Close` of a set, or a stutter: in particular no late
write of a worker or of the sweeper reopens a job. `Start`'s condition is
`InsertExclusive`.

**OCR.** `MergeAligned` follows from `AlignedInv`: there are never more results
than sections left, and as long as there are as many, each stands at its own
place. `NoDuplicateTask` follows from: every task of the current section but the
last attempt's is gone, and later attempts and sections have none.

`SectionList` knows the section at work, how often it was given out, and the list
merged so far; polls, the clock, the service and its outages are stutters of it.
The refinement maps `returned` to the section after the last and counts the
attempt as given out once `Submit` has been answered (`ListStep`). `MergedInOrder`
is then proved from the steps of `SectionList` and the types alone.

A task that times out is not cancelled, and MinerU may be left with several at
work, although the sections are meant to be done one after the other.
`OneTaskPerSection` is how far that can go: as only a lost task is submitted again
(`TaskInv`, the invariant of `NoDuplicateTask`), tasks at work are of different
sections, and of none that has not begun.

`EveryAnswerCounts` is what makes the call return. `StepsLeft` counts the attempts
and sections to come, each with all its polls, and what is left of this
attempt. A poll of a task at work uses up a tick of the total time, an answer 404
one of `Max404`, and a task that is lost moves from the first count to the second; a
service that is away costs nothing and gives nothing back. `CountersInv` is the
fact about the code behind it: 404 answers are counted only for a task that is gone
for good, and each attempt starts with fresh counters. The client therefore
makes a bounded number of answered calls, whatever the service does; only calls
that are never answered (`oc_timeout`) keep it from returning.

**Silence.** `oc_sweep` shows that the sweeper can fail a client that is at work;
`SilenceIsBounded` says by how much the limits are short.
When every call is answered, an attempt goes without a heartbeat for at most
`PollMax + 1` polls of a task at work and then fewer than `Max404` answers 404, and
only the end of a section writes one. `QuietInv` is the inductive form:
what has passed is at most the whole attempts before plus the part of this one,
and a task that was missing once is gone for good, so that the two parts follow
each other in this order only. The 35 minutes of the sweeper are more
than the 30 of one attempt; the bound shows that they would have to be
more than the three attempts of a lost section, each with its 404 answers.

**The crawl queue.** `AttemptBudget` is not inductive: a late crawler counts
from its copy. `CopyBudget` adds that whatever a session remembers still had an
attempt left, and `RowShape` that a row's lease fits its status; together
(`RowInv`) they hold of every task. `LeaseInv` adds, for the tasks that are not
`astray`, `HolderHasLease`: such a task in a batch is running, under a live lease of
that crawler, with the attempt its session remembers. Then a task that can be leased
and is not astray is in no batch, so `Lease` keeps `OneHolder`, and the end of a task
touches no other batch. Late crawlers are inside the model, without an assumption
that leases last: the exception of each property is the set `astray`, which
`Expire` fills and the end of the work empties; `cq_overrun` shows that it cannot be
dropped. The refinement reads the holder off the batches (`HolderRead`) and maps
`Lease` to `Take`, the ends of a task to `Finish` and `Fail`, `Expire` under a
crawler at work to `Stray`, the end of the last work on such a task to `Return`, and
`Crash` to `Abandon` or, if tasks come back with it, to `Return`.
The batches are read task by task in `EachTaskIsALedger`: a lease or a crash that
concerns several tasks is one step for each of them or a stutter.

`EveryWriteCounts` is the argument why a task comes to its end: a round of lease,
crash, expiry and takeover costs a crash, a round of lease and retry costs an
attempt. `WritesLeft` allows three writes for each attempt and crash to come and adds
what the round under way can still write (`Stage`). It needs `LeaseInv`: the attempt a
crawler counts from is the row's, unless the task is astray. As
a takeover after a crash is not an attempt, the number of crashes is part of
the bound; `MaxCrashes` is any number in the theorem.

**Archives.** That an archive has a primary file is not inductive: a session may
be about to clear the flag of the only one. `HasLead` strengthens it: some primary
file is a table or the first file. A commit then keeps it because of what the
session's view implies (`RolesOK`): it clears no table, and either it sets one (or
one is set already), or it clears only files that some other file precedes and
sets its own unless another file precedes it. The first file of the final set is
therefore primary: if it was, it is not cleared, and if it is new, it is set. The
fetch of a pending file does not compute roles, which is harmless only because
another file precedes it: `PendingAfter`, and `LateOK` for the calls under way,
from `LateAssumption`. `RolesOK` of one session survives the commit of another
one because files are only added and first files only come earlier.

The refinement follows from the same invariant: `Create` and `CommitRename` write a
key only when no other row has it, a commit of a link finds its archive because
the link holds the row (`ShapeOK`), and deletes and withdrawals are final.

**Campaigns.** Every step of `CampaignRun` is a step of `ArchiveIngest` or leaves
the archives alone, hence `CampaignUsesArchives`. `DoneIsStored` needs the list of an
ingest under way: `StoredSoFar` says that the attachments no longer on it are
stored, whatever archive they went to; files only accumulate (`FilesGrow`), so
that other sessions cannot break it. `RunShape` says that the crawler at work
holds the task; there is one at most, so that drafts do not race. Any number of others
may still be about to write what their failed runs mean for the campaign: one that
buries it has counted the task's last failure, so that no run is left, and one that
gave it back has counted some failure, so that what is said of the first run is not
about it. `CampaignClosed` and `FailedTogether` need `FirstRun` (before the first
failure an unfinished campaign has an open item once it has any, which the draft
keeps until its last issue), and that no run starts, or commits, on a failed
campaign, since a campaign fails only with its task (`SeenFacts`).

`OutcomeStands` is about steps, and what could break it is a draft: a crawler
commits the statuses its session has had since `Discover`. `DraftFollows` says that
the draft of a crawler at work is never behind the rows (if the campaign has
completed, the draft does not say that it runs; an item the table has, the draft
has). No other crawler commits a draft meanwhile, by `RunShape`, and the late writes
of crawlers whose runs have failed do not touch the items. What such a write may do
to the campaign is the exception that `OutcomeStands` names, and each crawler can do
it once for each time it has read `pending`. `CampaignUsesLedger` says that the other
half of the composition is used as it is specified: each step is one of
`TaskLedger`'s or leaves the task alone.

**Only model-checked:** the second half of `NoLockDeadlock`, which uses `ENABLED`
(a call that `CanMove` is enabled; the first half is `SomeCallMoves`), and the
liveness properties `ParseEnds`, `JobsSettle`, `Returns`, `TasksSettle` and
`CampaignSettles`, which need fairness. Both lie outside what the prover handles.
Of `Returns` and `TasksSettle` it is proved that the client's answered calls and the
writes to a task are bounded in number (`AnswersAreCounted`, `WritesAreCounted`);
that the next one comes is left to fairness, and to TLC. The six properties that
the code does not keep have no theorem; `LeaseHonoured` and `SilenceIsBounded` are
the parts of two of them that are proved.

## What is left out

- The mock runner; upload and publication-set endpoints; reads.
- The extraction that follows OCR: it succeeds or fails (`RunPipeline`).
- Contents: a file is one of `Shas`, and it is not recorded which parse wrote it.
- The sweeper's limit for queued jobs and the one for running jobs are one flag.
- Adapters, extractors, rendering, offline pipelines: no shared state.
- In `CrawlQueue`: crawl cursors, backoff times, dry runs.
- In `CampaignRun`: periods, counters, dry runs, the choice of sources when
  campaigns are created for all of them, and two sessions that run one campaign at
  once after its lease has run out at work.
- The older Chongqing runner (`chongqing_cost_info.py:322`), which claims tasks
  without a lease: nothing but its tests calls it.
- The trading loop's own queue: its lease, retry and completion are those of
  `CrawlQueue` without the stop of a source; what it writes into archives is in
  `ArchiveIngest`.
- The host rate limiter: one lock around one timestamp for each host, inside one
  process.
- The quota lake prototype: one process, not deployed with the service.

## Plan

Done, in this order:

1. `ParseBoard`, `ParseQueue` with `ParseQueueProofs`: the component with the most
   actors, and the one where a stuck state is visible to users.
2. `SectionList`, `OcrSections` with `OcrSectionsProofs`: what the worker's long call does.
3. `TaskLedger`, `CrawlQueue` with `CrawlQueueProofs`: leases across nodes.
4. `Catalog`, `ArchiveIngest` with `ArchiveIngestProofs`: archives under concurrent
   sessions.
5. `CampaignRun` with `CampaignRunProofs`: the composition of 3 and 4.

What would come next: statuses and the outbox in `ArchiveIngest` (every status
change has its event); the verification runs that put a trading source into
service; the contents of parse results, to relate an object to the parse that
wrote it.
