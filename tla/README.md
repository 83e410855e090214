# AnyDatas: a TLA+ verification development

AnyDatas is a single-server data workbench: a Rust server (SQLite for facts, DuckDB for queries,
plain files for everything large), a Vue user interface and an Electron desktop application that
collects local files. These modules model the server's stateful core, the agent that runs in it and
the collector that feeds it, and what can go wrong there: actors that interleave, timeouts, crashes,
lost answers, and files that live beside the rows that name them.

## 1. Inventory

| Component | State it keeps | Operations | Hard behaviour | What makes it correct |
|---|---|---|---|---|
| Background job queue (`workers.rs`, `api/jobs.rs`) | rows of `jobs`, `QueryControl` (active, canceled, worker_jobs) | enqueue, claim, run, commit, cancel, retry, delete, recover | cancel or delete at any await; errors after the claim; restart | final statuses are final; every job settles; no job is stranded |
| Query execution and permits (`execution.rs`, `resource_control.rs`, `query_engine.rs`) | `query_semaphore`, blocking threads | acquire, register, attach, run, post-process, time out | an abandoned thread runs on and writes files later | the permit follows the thread |
| Result artifacts (`job_results.rs`, `query_engine.rs`, `maintenance.rs`) | `job-results/<id>.duckdb`, `result_*` columns | write, rewrite, page, expire, delete, sweep | row and file change in separate steps | an offered result exists; a file without a row is cleared |
| Source revisions (`source_refresh.rs`, `maintenance.rs`) | `source_revisions`, `current_revision_id`, `source_refresh_runs`, revision files | refresh, replay, retain, clean up, retry | two refreshes; lost answers; retention against retries | compare-and-set publication; one receipt per key; pinned inputs stay |
| Sources and imports (`api/data_sources.rs`) | `data_sources`, `staged_imports`, staging files | stage, commit, cancel, delete | cascades over other components' rows and files | nothing in use is deleted |
| Spreadsheet conversion (`spreadsheet.rs`, `query_engine.rs`) | none | read a range, count rows, infer types, convert cells | two readers and two sets of parsers written apart | the build takes the rows that were counted, and the types that were inferred |
| Table caches (`query_engine.rs`, `api/source_tables.rs`) | `source_tables.cache_*`, `table-cache/` | build, persist, invalidate, collect | build beside edit; collection beside use | a cache belongs to its configuration version; an answer is of the row it resolved |
| Schedules (`workers.rs`, `api/schedules.rs`) | `schedules.enabled`, `next_run_at` | tick, edit, toggle, run now, delete | advance and enqueue are not one transaction | one run per occurrence, none for a disabled schedule |
| Agent runtime (`services/agent.rs`) | `ai_runs`, `ai_run_steps`, run controls, events | start, step, ask, answer, resume, cancel, recover | user, model and restart race; two answers to one question | one active run per conversation; one loop per run; an answer exactly for a completed run |
| Startup and maintenance (`main.rs`, `db.rs`, `maintenance.rs`) | phase of the process, storage lock | recover, verify, clean, serve | order of the startup steps | clean-up never removes what a row names |
| Desktop collector and scheduler (`desktop/src`) | JSON store: file sources, attempts, run history; staged snapshots | snapshot, upload, recover, tick | crash between two steps; lost answers and late requests; edits during a run | what is recorded as delivered was; an old file never comes back |
| Desktop backend runtime | mode, generation, child process | start, connect, disconnect | overlapping requests | the last request wins |

Calls and shared state: schedules, refreshes, retries and the API all enqueue through one
transaction (`enqueue_job_in_transaction`); the worker executes through the query semaphore that
interactive queries and result pages share; maintenance, refresh and source deletion exclude each
other with `storage_maintenance_lock` and keep away from running work by looking at `worker_jobs`;
rows cascade over foreign keys; the desktop talks to the server over HTTP with idempotency keys.

## 2. Modules, state and actions

| Module | What it is |
|---|---|
| `JobQueue` | jobs, the worker, query threads and permits, result files, cancel, delete, read, expiry, source deletion, kill and restart |
| `JobPromise` | what a user of the job API is promised; `JobQueue!PromiseKept` says the queue implements it |
| `SourceRevisions` | revisions of one source: refresh under an idempotency key, replace, receipts, retention, clean-up, retries, source deletion, kill and restart |
| `RefreshPromise` | an idempotent refresh; `SourceRevisions!RefreshPromiseKept` says the server implements it |
| `Schedules` | the cron tick and the handlers that write schedules |
| `AgentRuns` | conversations, runs and their steps, the supervisor tasks, requests, cancellations, event streams, restart |
| `AgentPromise` | turns of a conversation as its user sees them; `AgentRuns!TurnsKept` says the runtime implements it |
| `TableCaches` | the cache files of one logical table: queries, jobs, edits, a refresh, two clean-ups, restart |
| `Columns` | pure operators: the rows of a range, inferred types and the conversion of cells |
| `Imports` | staged and direct uploads becoming sources, expiry, clean-up and the first build; extends `Columns` |
| `Collector` | the desktop's file sources, attempts, snapshots and uploads, and the server as they see it |
| `JobQueue_proofs`, `SourceRevisions_proofs`, `Schedules_proofs`, `AgentRuns_proofs`, `TableCaches_proofs`, `Columns_proofs`, `Imports_proofs`, `Collector_proofs` | theorems about the module of that name |
| `MCJobQueue`, `MCSourceRevisions`, `MCSchedules`, `MCAgentRuns`, `MCTableCaches`, `MCImports`, `MCCollector` | symmetry sets and constant values for TLC |

Where components meet, each module holds the side of the other it depends on: the source's deletion
and the worker's guard are in `JobQueue`; retries and jobs that pin revisions in `SourceRevisions`;
the candidate of a refresh in `TableCaches`; the receipts of a refresh in `Collector` (by what
`SourceRevisions` shows of them: one per key, a different file under the same key is refused).

Conventions. One action is the code between two points another actor can observe: two awaits on the
database, two file calls, a lock. A transaction is one action. Variables named *history* in a module
are read by properties only. An operator `X_Y` is `X` with the plausible mistake `Y`; no action uses
it, it exists to show that a property notices. Every bound (`MaxCrashes`, `MaxFaults`, ...) is a
constant in a guard. `Traffic` selects the kinds of requests an instance meets; a theorem holds for
every choice.

### JobQueue

| State | Code |
|---|---|
| `status`, `hasKey`, `created` | `jobs.status`, `result_artifact_key IS NOT NULL`, the order of `created_at` |
| `artifact` | `job-results/<id>.duckdb`: absent, complete, or an empty database made by an open that found nothing |
| `wpc`, `wjob` | the await at which `claim_and_run_job` / `run_claimed_job` stands |
| `thread` | the blocking thread of `execute_job_to_artifact`, which survives the worker's timeout |
| `canceled`, `free` | `QueryControl.canceled`, permits of `query_semaphore` |
| `cpc`, `dpc`, `reader`, `exp`, `source`, `skeys` | the awaits inside cancel, delete, get_result, expiry and source deletion |

| Actions | Code |
|---|---|
| `WorkerSelect`, `WorkerClaim(Miss)`, `WorkerRegister` | workers.rs `claim_and_run_job`: SELECT, guarded UPDATE, guard |
| `WorkerPrepare` ... `WorkerRelease` | `run_claimed_job`: permit, join or timeout, persist caches, commit, and on each failure the discard, the failed mark, the last resort and the guard's drop |
| `WorkerFault` | `?` at any database call of the worker |
| `ThreadRegister` ... `ThreadScriptFails` | query_engine.rs `execute_query_to_artifact`, the read-back and rewrite of post-processing |
| `CancelRead`, `CancelUpdate`, `CancelMiss`, `CancelMark` | api/jobs.rs `cancel`: row read, guarded UPDATE, mark and interrupt |
| `DeleteRead`, `DeleteFile`, `DeleteRow` | `delete_one`: file before row |
| `ReadStart`, `ReadPermit`, `ReadPage`, `ReadGivesUp` | `get_result` and `load_page` |
| `ExpiryBegin`, `ExpiryFile`, `ExpiryClear`, `ExpiryFault` | maintenance.rs `cleanup_expired_job_results`: file before row |
| `SourceScan`, `SourceFiles`, `SourceCascade` | data_sources.rs `delete_one`: keys, files, the cascading DELETE |
| `Crash`, `Recover`, `Sweep` | kill, `recover_interrupted_jobs`, `cleanup_startup_storage` |

Abstracted: the job log and the progress column; SQL, rows and sizes; table caches (an import is a
stage of the thread); registering a query's connection and attaching it are one step; the
interrupt of a connection may come too late, so an interrupted thread may fail or finish; removing a
file does not fail here (its failure is logged and the file is left, which `SourceRevisions`
models for revisions).

### SourceRevisions

| State | Code |
|---|---|
| `current`, `rows`, `retained` | `data_sources.current_revision_id`, `source_revisions`, `retained_until` |
| `files`, `young`, `content` | files under `uploads/`, changed within the hour, their bytes |
| `receipts` | `source_refresh_runs`, unique per source and idempotency key |
| `query`, `config` | versions of the saved query and of the source's tables (`config_version`) |
| `status`, `pinned`, `path`, `wjob`, `wreg` | jobs and their `job_input_tables`; the worker and its entry in `worker_jobs` |
| `dlv`, `clean`, `del`, `lock` | requests that refresh, `cleanup_source_revisions`, `delete_one`, `storage_maintenance_lock` |

| Actions | Code |
|---|---|
| `Deliver`, `LookUpFound`, `LookUpMisses`, `ReadState` | `refresh_source`: validate, find a receipt, read the state outside the lock |
| `Confirm`, `ConfirmMisses` | `publish_unchanged_receipt`: a receipt and no new revision |
| `Lock`, `Prepare`, `PrepareFails` | the lock; `prepare_candidate` renames the candidate into `uploads/` |
| `Publish`, `PublishMisses`, `PublishFault` | `publish_refresh`: one transaction with its compare-and-set conditions, or one of its errors |
| `Discard`, `Recheck`, `Reply`, `Dropped` | removing a candidate, the second look for a receipt, the answer, a dropped request |
| `Enqueue`, `Retry`, `CancelJob`, `Claim`, `Register`, `Finish`, `Release` | snapshot of inputs, retry of a finished job, and the worker |
| `CleanBegin`, `CleanLock`, `CleanRow`, `CleanFile`, `CleanScan`, `CleanOrphans`, `CleanFails` | `cleanup_source_revisions`: row before file, then files no row names |
| `DeleteLock`, `DeleteRow`, `DeleteFiles`, `DeletionDropped` | deletion of the source: cascade before files |
| `Edit`, `HourPasses`, `RetentionEnds`, `Crash`, `Start` | users, time, kill; a start refuses a missing current file |

Abstracted: the validation of a file and the schema it yields (success or failure), the caches a
candidate brings, staging, revisions without a digest. A candidate's id is made up when the lock is
taken. The final statuses of a job are one, `done`. Deleting a job is left out (a file of a job's
input never depends on it). Reads that follow each other with nothing in between that another actor
changes are merged.

### Schedules

| State | Code |
|---|---|
| `row` | `schedules`: expression, `enabled`, `next_run_at`, and one version for the SQL and its tables |
| `now`, `tick` | the clock; `enqueue_due_schedules`: the `now` it took and the rows of its SELECT still to do |
| `write` | create, update, toggle and run_now, between their read and their write |
| `mixed`, `last` | history |

| Actions | Code |
|---|---|
| `TickSelect`, `TickSkip`, `TickClaim`, `TickMiss`, `TickEnqueue`, `TickEnqueueFails`, `TickFault` | workers.rs `enqueue_due_schedules`: SELECT, parse, guarded UPDATE, load bindings and enqueue; an error ends the batch |
| `CreateRequest`, `UpdateRequest`, `ToggleRequest`, then `WriteCommit` or `WriteAbandoned` | the next occurrence is computed before the transaction that stores it |
| `RunRequest`, `RunEnqueue`, `Delete` | `run_now`, `delete_one` (or the cascade of the source) |
| `TimePasses`, `Crash` | the clock, a kill followed by a restart |

Abstracted: a cron expression is the set of its times (a time zone only shapes that set); whether the
enqueued job can run is `JobQueue`'s question. A table whose source is deleted also disappears from
the bindings of a schedule; that is not counted as an edit.

### AgentRuns

| State | Code |
|---|---|
| `conv`, `live` | `ai_conversations`: active, `context_signature`; the signatures that the tables of today still give |
| `msgs`, `run`, `born`, `steps` | `ai_messages` by sequence, `ai_runs`, their order of creation, `ai_run_steps.status` by ordinal |
| `req` | the requests, where they are and what they have read |
| `task`, `controls` | the spawned supervisors; `agent_control`: the task a cancellation reaches |
| `stream` | SSE connections and their receivers of `agent_events` |

| Actions | Code (services/agent.rs) |
|---|---|
| `CheckStart`, `CheckRegenerate`, `CheckRetry`, `InsertRun`, `InsertConflict`, `Launch` | `start_run`, `regenerate_run`, `retry_run`: reads, the transaction with its own check of active runs, `launch_run` |
| `CheckAnswer`, `AnswerStep`, `AnswerConflict`, `AnswerResume` | `answer_run`: read the waiting step, complete it, set the run running, launch |
| `CheckCancel`, `CancelSignal`, `CancelMark`, `CancelSteps` | `cancel_run`: the signal, the guarded UPDATE, the steps |
| `CheckArchive`, `Archive`, `CheckRebind`, `Rebind`, `EditTable` | archive, new tables of a conversation; an edit of a table makes its signature stale |
| `TaskStart`, `TaskPrepare`, `TaskBegin`, `TaskStream`, `TaskTurn`, `TaskError`, `TaskStopped`, `TaskCall`, `TaskObserve`, `TaskAsk`, `TaskWait` | `supervise_run` and the rounds of `execute_agent_loop` |
| `TaskCommit`, `TaskFail`, `TaskFailSteps`, `TaskCancel`, `TaskCancelSteps`, `TaskTimeout`, `TaskFault`, `TaskLeave` | every way out of a supervisor |
| `StreamOpen`, `StreamSubscribe`, `StreamReread`, `StreamPush`, `StreamLast` | `stream_run` |
| `Abandon`, `Restart` | a dropped request; a kill with `recover_interrupted_agent_runs` |

Abstracted: one conversation; what the model says, reduced to the calls of a turn; the tools, which
only read; step titles, prompts, skills, the history summary and the provider's wire format.

### TableCaches

| State | Code |
|---|---|
| `table` | the row of `source_tables` with its source's `current_revision_id`: range, columns, `config_version`, cache key |
| `cache`, `aged` | files under `table-cache/`, by key, with what they hold; those over an hour old |
| `reader` | query threads with the tasks that wait for them, of requests and of jobs |
| `editor`, `refresh`, `lock`, `keep` | edits (with the revision whose file they validate) and deletions, `refresh_source`, `storage_maintenance_lock`, what a running clean-up found in use |
| `strayed` | history: versions of which another range was queried before anybody knew the columns |

| Actions | Code |
|---|---|
| `Resolve`, `Enqueue`, `Claim` | execution.rs `resolve_query_sources`, jobs.rs `snapshot_job_inputs`, `resolve_job_query_sources` |
| `Hit`, `Build`, `Finish`, `Attach`, `Miss`, `Fail`, `Cancel`, `GiveUp` | query_engine.rs `prepare_source_cache` under the build lock of a key, `attach_cached_sources`; a cancel; a task that stops waiting |
| `Persist`, `Discard` | `persist_cache_updates` with its guards; an answer nobody waits for |
| `EditRead`, `DeleteRead`, `EditWrite`, `DeleteWrite`, `EditStops` | source_tables.rs `update`, `delete_one`, data_sources.rs `update_config` |
| `CountKept`, `CountNone`, `Unlink` | maintenance.rs `remove_cache_keys_if_unreferenced` |
| `RefreshLoad`, `RefreshLock`, `RefreshBuild`, `RefreshPublish`, `RefreshUndo`, `RefreshDrop`, `RefreshDropAtCommit` | source_refresh.rs: the caches of a candidate and their guard |
| `CleanBegin`, `CleanSweep`, `Hour`, `Restart` | `cleanup_orphaned_cache_files`, the age of a file, a kill and `cleanup_startup_storage` |

A build infers columns from the cells it reads: `Inferred` gives a list of typed columns for each
revision and each range, and `Names` the names in a list. Columns a snapshot knows win over the
inferred ones, and `Fits` says when (`apply_field_overrides`: the same names in the same order); a
build fails otherwise. A user may choose only what `Valid` allows, the names of the range in the file
that was read.

Abstracted: a key is what it hashes; permits (`JobQueue`), the files of revisions
(`SourceRevisions`); one logical table.

### Columns and Imports

`Columns` translates spreadsheet.rs and the cell conversions of query_engine.rs as operators. A cell
is its class (a truth value, the number one, a date, a moment at midnight, ...), the classes being
those the two sets of parsers tell apart. A sheet is a sequence of rows of any lengths.

| State of `Imports` | Code |
|---|---|
| `row`, `staged`, `age`, `sheet` | `staged_imports`, files in the staging directory, the age of a file, what it holds |
| `finals`, `table` | files under `uploads/`, the source with its table and the outcome of its first build |
| `insp`, `req`, `up`, `clean`, `lock` | inspections, requests on a token, direct uploads, the clean-up, `storage_maintenance_lock` |

| Actions | Code (api/data_sources.rs) |
|---|---|
| `ListExpired`, `SweepRow`, `SweepFile`, `Store`, `StoreRefused`, `InspectFile`, `InsertRow`, `InsertFails` | `inspect_upload`, which first sweeps expired uploads |
| `AskMissing`, `AskDiscard`, `AskCommit`, `Check`, `Lock`, `MoveFile`, `MoveMissing`, `Record`, `RecordFails`, `MoveBack`, `DropRow`, `DropFile` | `commit_import`, `discard_import` |
| `UploadLock`, `UploadStore`, `UploadRecord`, `UploadFails` | `upload` |
| `CleanStart`, `CleanRemove`, `Query` | `cleanup_source_revisions` on files no row names; the build of the table's cache |
| `Ages`, `CutOff`, `Crash`, `Startup` | time, a dropped request, a kill and `cleanup_startup_storage` |

Abstracted: several sheets of a workbook, the letters of a cell reference, size limits, the free
space check (an upload they stop ends as an unreadable one).

### Collector

| State | Code (desktop/src) |
|---|---|
| `store`, `enabled` | file-sources.json: configuration, attempt, `lastAppliedHash`, `lastRun` |
| `staged` | snapshots under automation-staging, by attempt and content |
| `run`, `queue` | `#active`: where a run stands and which records it holds; `#targetQueues` |
| `disk`, `written` | the newest matching file of each directory; versions ever written |
| `held`, `receipts`, `late` | the server: the file of each target, its receipts, requests still under way whose sender gave up |
| `refusing` | what the server refuses for good: files its tables do not fit, keys whose receipt is older than its query, queries that read no table of the target, deleted queries and targets |
| `given` | history |

| Actions | Code |
|---|---|
| `Launch`, `Execute`, `Resume`, `Restage`, `Scan`, `ScanFails` | `runNow`, `#execute`: reads, the attempt it resumes or takes up |
| `NoteCopying`, `Copy`, `CopyWaits`, `CopyFails`, `NoteWaiting`, `NoteStaged`, `Skip` | `#snapshot`, `createStableFileSnapshot`; an unchanged file |
| `Identify`, `NotePublishing`, `OpenSnapshot`, `Answered`, `Refused`, `Unanswered`, `ArrivesLate`, `Trigger` | the upload by receipt or by replacement, the answer it gets, the triggers of the older recipe |
| `Remove`, `Record`, `KeepAttempt` | the removal of the snapshot, `appendRun`, an attempt that stays for the next run |
| `ReviseQuery`, `DeleteQuery`, `DeleteTarget` | on the server: `saved_queries.rs`, `data_sources.rs` `delete_one` |
| `Create`, `Edit`, `Delete`, `Toggle`, `Write`, `Crash` | the user, the writer of the files (the version may be one the tables do not fit), a kill followed by `recover` |

`Barred` is what `refresh_source` and `replace` refuse whenever the request comes. A key that has a
receipt is answered from it, or with 409 if file or query are not those of the receipt, or if the
query was changed since (`Conflicts`); a deleted query is not compared. Without a receipt a deleted
query or target, a query that reads other tables by now and a file that does not fit are refused. A
refusal that somebody else puts right (a role, a full disk) happens once, as one of the mishaps.

Abstracted: a file is the number of its version, a hash tells versions apart; a matching file is the
newest of its directory; run histories and window events; the cron arithmetic, the retry set and the
catch-up window (a run may be launched at any time instead, which is what they decide). `Init` is an
empty store: the conversion of a store of schema version 1, which fills `lastAppliedHash` from the
last recorded run, is left out, and nothing here is said of the sources it yields. What a failed run
of the older recipe has copied stays under automation-staging for ever; `Record` forgets it, since
no attempt names it.

## 3. What the runs show

| Run | Properties | Shows |
|---|---|---|
| `JobQueueOneJob` | `ResultAvailable`, `NoUntrackedResult`, `RunningIsOwned`, `PromiseKept` | one job against every actor at once, two database errors, two kills |
| `JobQueueSettles` | `TypeOK`, `KeyOnlyWhenSucceeded`, `PermitsConserved`, `JobsSettle` | two jobs and one permit: an abandoned thread runs beside the next job, and every job settles whatever its thread does |
| `JobQueueStaleCancel` | `CancelReachesQuery` (violated) | a cancel that read `queued` never reaches the query (below) |
| `SourceRefresh` | `TypeOK`, `AnswersAgree`, `RefreshPromiseKept` | two deliveries with one key beside a replace, edits and dropped requests |
| `SourceRetention` | `CurrentUsable`, `PinnedInputKept` | retention and clean-up against retries, a failing step, a kill and the deletion of the source |
| `SourceOrphans` | `OrphansGo` | stray files are removed in the end |
| `SchedulesRun` | `TypeOK`, `OccurrencesAscend`, `ClaimsAreDue`, `DueIsClaimed` | ticks beside users, an unreadable schedule, errors and kills |
| `AgentRunsRace` | `OneActiveRun`, `AnswerIffCompleted`, `TurnsKept` | two runs of a conversation: messages, regenerations and retries against a cancel, an archive or a rebinding, edited tables, a dropped request, a database error |
| `AgentRunsSettle` | `TypeOK`, `OneLoopPerRun`, `NoRunningStepLeft`, `LaunchedRunSettles`, `StreamsEnd` | one run that asks questions, two answers, a cancel, a stream and a restart |
| `TableCaches` | `TypeOK`, `AnswersMatch`, `RowKeyCurrent`, `ColumnsKept` | two query threads, of which one may be a job's, beside an editor, a refresh, both clean-ups and a restart; ranges that are overridden, with other types and other names |
| `Imports` | `TypeOK`, `OneSourcePerUpload`, `SourceHasFile`, `TokenKeepsFile`, `RowsAsCounted`, `InferredTypesConvert` | two requests on one upload beside a direct upload, an expiry sweep, the clean-up and one mishap at any step |
| `Collector` | `TypeOK`, `AppliedWasGiven`, `NeverBackwards`, `ChangesArrive` | one source, two versions of its file, and any two of an edit, a kill and the twelve mishaps, late requests and what the server refuses for good included |

Three configurations beside these pass and are run by hand: `JobQueueTwoJobs` (two jobs, two permits,
a reader and the source's deletion), `CollectorShared` (two sources, of either recipe, serve one
target: `TypeOK`, `AppliedWasGiven`, `OneUploadPerTarget`; 1.2 million states), and any of the above
with larger bounds.

Bounds. In `JobQueue` each hazard involves at most one job that is interfered with and one that
interferes, so one or two jobs suffice; the third job of `SourceRetention` is the retry of one of
another source's jobs. Two kills let a kill meet a restart, two database errors meet the
last resort of the worker (one error is not enough to reach it). Two deliveries and two keys give a
duplicate, a race of different requests and a replace; three revisions a candidate for each. Three
clock times give a schedule a second occurrence while the first is in flight, and a batch of two
holds a good and an unreadable schedule. Two writes let an edit undo another.
`AgentRuns`: two requests that create runs are what races for a conversation, and the second run may
hide the answer of the first; one round with a tool call after a question reaches every stage of the
loop, and two answers are what races for one question. `TableCaches`: a thread that has resolved
and one that comes after an edit; one more version than the first, since every guard only compares
versions for equality; two ranges and revisions; three column lists, of which two type the same names (so
that ranges differ in their types only, or in their names too). `Imports`: two requests per upload, a
second upload whose inspection only sweeps, one mishap (a second one meets nothing but what the
first left, which the proofs cover for any number); sheets whose columns are every kind of cell, the
pairs that only text can hold, a row behind the sample and rows of several lengths. `Collector`: two
versions of a file are one that was staged and one that came after; the four configurations are the
trusted recipe, the older one for the same target and for another, and the trusted one with another
directory and query, so that an edit changes each of the four; `MaxTroubles` allows any two of an
edit, a kill and a mishap, which are those that give a key a receipt its request does not fit, or
leave a snapshot that is refused; six attempt ids are never all in use (1.1 million states, under two
minutes with two workers). Symmetry is used only in runs without liveness.

Fairness. `JobQueue!FairSpec` assumes what the code's own loops guarantee: the worker loop is driven
by a timer and each of its waits ends in a timeout; startup runs to its end; an expiry pass that has
begun finishes. Nothing is assumed of a query thread (it may run for ever), of users or of time.
`SourceRevisions!FairSpec` adds that a handler that is running goes on, that an hour passes and that
a killed server is started; the storage lock is a tokio mutex, which is FIFO, so the cleaner that
waits for it infinitely often gets it (strong fairness of `CleanLock` only).
`Schedules!FairSpec` assumes only that the tick loop goes on; time need not pass.
`AgentRuns!FairSpec`: the runtime polls every spawned future, and a wait of a task for the model or a
tool ends in the total timeout, so a task or a request that is at work goes on. No message, answer or
cancellation is owed. `Collector!FairSpec`: a run that is under way goes on (each request has a
timeout), and a source that is enabled is launched again, because its cron expression falls due
again; a paused source owes nothing, which is why `ChangesArrive` asks that it stay enabled.

Some properties carry an exception, and each exception is a place where the code gives no more:
`LaunchedRunSettles`, `NoRunningStepLeft` and `StreamsEnd` allow for a failed database write, since
the error of the last write of a run's outcome is logged or dropped; `InferredTypesConvert` leaves out
columns that mix dates with moments or hold a number that is not finite, and tables with rows behind
the sample; `NeverBackwards` and half of `AppliedWasGiven` are about sources nobody edited.

- `ChangesArrive` leaves out a source as long as it is `Stuck`: the snapshot of its attempt (in the
  older recipe, the file it finds again) is one the server refuses whenever it is sent, so every run ends in the same refusal and no newer file is
  looked for. This is what the code does (collector.ts:348-362), whatever the reason; what is claimed
  is that nothing else keeps a change from arriving. It assumes that a login, a wrong workspace and a
  refusal that is not for good are put right.
- `AnswersMatch` and `ColumnsKept` leave out the column types, not the rows and the names, of a version
  in `strayed` (below).
- `NoUntrackedResult` leaves out the jobs in `excused`: one whose thread outlived the timeout, a
  database error or a deleted row before the commit, a page that opened a removed result and so left
  an empty file, a result that was committed while its source was being deleted. Their files do stay
  until the next start.
- `ResultAvailable` leaves out results whose removal has been decided (`retired`): a page asked for
  between the file's removal and the row's is not found.
- `PinnedInputKept` leaves out a job retried while its input is being removed (`frail`); that job fails.
- `DueIsClaimed` is about batches that hold all schedules. With as many unreadable expressions as a
  batch takes (20), they stay at the head of every batch and nothing else is claimed.

### Disagreements between the code and what is written about it

Each has a configuration that reproduces it: `tlc -config <name>.cfg <module>`, the module being
`MCJobQueue`, `MCSourceRevisions`, `MCSchedules`, `MCAgentRuns`, `MCTableCaches`, `MCImports` or
`MCCollector`.
`JobQueueStaleCancel` is among the runs; the others are kept beside them.

| Configuration | Property | What it finds |
|---|---|---|
| `JobQueueStaleCancel` | `CancelReachesQuery` | docs/15:147 says a cancel marks and interrupts the query; a cancel that read `queued` just before the claim cancels the row and lets the query run to its end |
| `JobQueueCanceledOrphan` | `CanceledLeavesNothing` | workers.rs:179-180 says an artifact of a canceled job is removed; a thread that outlived its timeout writes it after the removal, and it stays until the next start |
| `JobQueueSecondFault` | `EveryErrorSettles` | workers.rs:159-161 says any error after the claim ends in a final status; the error of the last resort UPDATE itself is dropped |
| `SourceQueuedInput` | `QueuedInputKept` | maintenance.rs:191-192 says inputs of queued jobs win over retention; a retry between the removal of a revision's row and of its file is enqueued and loses its input |
| `SchedulesTorn` | `JobsAreWhole` | query_bindings.rs:89 says SQL and aliases are never half updated; the tick and `run_now` read the two apart, so an edit in between gives a job the old SQL with the new tables |
| `AgentUnanswerable` | `WaitingIsAnswerable` | docs/17-ai-agent-runtime.md:77 and db.rs:46 keep a waiting run answerable over a restart; a kill between the answer's two statements leaves it waiting with no step that waits, so every answer is refused |
| `ImportUnconvertible` | `UnconvertibleBecomesNull` | docs/16-import-charts-ai.md:40 says a cell that does not convert becomes NULL; query_engine.rs:1011-1014 fails the build |
| `TableCachesStray` | `AnswersDescribed` | query_engine.rs:565-568 says a key tells configurations apart, so that no query reads another's cache; a query whose range is overridden (execution.rs:400-408) writes the columns inferred from it to a row without columns, at the same version. The next query of another range finds a file of its own range whose columns are not those of the row, or must build one and cannot, since the names differ, until the table is edited |
| `CollectorSpentKey` | `OneFilePerKey` | collector.test.ts:184 retries with the same bytes under the same key; after a kill between the removal of the snapshot and the record of the run, the next run stages a newer file under the old key, and the server refuses it from then on |
| `CollectorReplacedTwice` | `ReplacedOnce` | docs/18-electron-local-collector.md:48 says that after a failed trigger the file is not replaced again; a failed scan in between overwrites the `lastRun` this is decided by |
| `CollectorStuck` | `NewestArrives` | no doc promises otherwise (docs/18-electron-local-collector.md:170 only names a stage "需要处理", needs attention): a snapshot refused with 400, 403, 404 or 409 stays staged with its attempt (collector.ts:348-362), every later run sends it again, and a corrected file is never looked for until the user edits the source |
| `CollectorEdited` | `SentAsConfigured` | no doc promises otherwise: a source edited during its run sends the file of the old directory to the new target |

Seen while modelling `Collector`, and neither promised nor forbidden: a source that is given another
target keeps its `lastAppliedHash`, so an unchanged file is not sent to the new target; the older
replace has no key, so a request that arrives late can bring an old file back; a kill between two
steps, or a failure of the older recipe, can leave a snapshot under automation-staging.

## 4. What is proved

For every set of jobs, number of permits, kind of traffic and bound on kills and errors
(`JobQueue_proofs`, from the assumptions named in `JobQueue`):

| Theorem | Statement | Invariant behind it |
|---|---|---|
| `TypeCorrect` | `[]TypeOK` | itself |
| `TerminalIsStable` | `TerminalStable` | `TypeOK`: every write of a status is guarded by the statuses it may replace |
| `KeyCorrect` | `[]KeyOnlyWhenSucceeded` | itself with `TypeOK` |
| `OneFaultIsSurvived` | `[]RunningIsOwned` | `OwnershipInv` |
| `ResultIsAvailable` | `[]ResultAvailable` | `KeyOnlyWhenSucceeded`, `OwnershipInv`, `LaunchInv`, `RemovalInv` |
| `NothingUntracked` | `[]NoUntrackedResult` | `TrackingInv` on top of those |
| `PermitsAreConserved` | `[]PermitsConserved` | itself with the above: each step moves at most one permit between the pool, the threads and the readers |
| `PromiseIsKept` | `PromiseKept` (the refinement of `JobPromise`) | all of the above: the result a user sees is an offered and complete one |

The argument for `ResultIsAvailable`: a result is offered by the worker's commit, so the file must be
complete at that moment and nobody may touch it later. `LaunchInv` says a job's thread is launched
once, from the one place that takes a permit, so no second thread writes the file; `RemovalInv` says
that while the worker is between launch and commit the row is not succeeded, so expiry, deletion and
the source, which act on succeeded rows, are not at work on the job, and that each of them has put
the job into `retired` before it removes a file. `ResultAvailable` alone is not inductive: the file
of a job about to commit is constrained by no conjunct of it. `OwnershipInv` is needed because the
last resort is reached from any await after the claim, with a first error already behind it.

`TrackingInv` is the other half: a file no row names. It says of each actor in the middle of its
work that either the file is gone already, or the row still names it, or the job is in one of the
counted cases (`excused`): a thread is live only for the job the worker waits for or for an
excused one, and deletion, expiry and the source's cascade reach the step that drops a row or a
key only after the file. `NoUntrackedResult` speaks of the rows between the steps only, so it
cannot be carried over a step by itself. The refinement then needs no invariant of its own: every
step of a worker, thread, request or restart is one of `JobPromise` or leaves what the user sees.

For every set of revisions, contents, keys, requests and jobs, any traffic and every bound
(`SourceRevisions_proofs`):

| Theorem | Statement | Invariant behind it |
|---|---|---|
| `RevisionsTypeCorrect` | `[]TypeOK` | `CarriesInv`: what a request carries is set before a step uses it |
| `CurrentIsUsable` | `[]CurrentUsable` | `HolderInv`, `StorageInv` |
| `PinnedInputIsKept` | `[]PinnedInputKept` | `HolderInv`, `StorageInv` |
| `AnswersDoAgree` | `[]AnswersAgree` | receipts are written once |
| `RefreshPromiseIsKept` | `RefreshPromiseKept` (the refinement of `RefreshPromise`) | `CompareInv` |

`HolderInv` says that whoever is between taking and giving back the storage lock is its holder, so
at most one of a refresh, the clean-up and the deletion is there. `StorageInv` says every row has its
file and that what the holder is about to remove has no row: the clean-up removes a row before its
file, a refresh discards a candidate that never had a row, the list of orphans was taken under the
lock. `CurrentUsable` follows; alone it would allow a clean-up in flight to be about to remove the
current file. A request compares its bytes with a revision it read before it had the lock;
`CompareInv` says that what it learned stays true as long as that revision is current, and that a
superseded one is stamped and never taken again, which is what the compare-and-set conditions of
`publish_refresh` rest on.

For every set of schedules, set of expressions, batch size and number of users
(`Schedules_proofs`, from the assumptions named in `Schedules`):

| Theorem | Statement | Invariant behind it |
|---|---|---|
| `SchedulesTypeCorrect` | `[]TypeOK` | itself |
| `NoOccurrenceTwice` | `[]OccurrencesAscend` | `ClaimInv` |
| `OnlyDueIsClaimed` | `ClaimsAreDue` | `ClaimInv` |

`ClaimInv` adds that a tick's own `now` is never ahead of the clock, so what it claims is due, and
that a next occurrence is stored only in enabled rows: the guarded UPDATE does not look at `enabled`
and is right only because disabling clears `next_run_at`.

For every set of runs, answers, cancellations, edits and streams, every behaviour of the model and
every bound (`AgentRuns_proofs`):

| Theorem | Statement | Invariant behind it |
|---|---|---|
| `AgentTypeCorrect` | `[]TypeOK` | `Typed`, `Aimed`: a task in a turn has a call left, whoever has chosen a run has one |
| `OneRunAtATime`, `AnswersAreCompletions` | `[]OneActiveRun`, `[]AnswerIffCompleted` | `TurnInv` |
| `TurnsAreKept` | `TurnsKept` (the refinement of `AgentPromise`) | `TurnInv` |
| `OneLoopForever` | `[]OneLoopPerRun` | `LoopInv` |
| `NoStepKeepsRunning` | `[]NoRunningStepLeft` | `StepsAreOwned` with `TurnInv` and `LoopInv` |

`TurnInv` adds only that a request that is still to insert a run has not done so: the check inside
the inserting transaction is enough, whatever was read before. `LoopInv` is about who *holds* a run:
a task in its loop, or an answer between its UPDATE and its launch. At most one launch holds a run; a
run that waits is held by nobody but an answer about to wake it; a run has one open question, and
what an answer read of that step stays true until the step is closed. None of the three statements
of an answer is a transaction with the others, and `OneLoopPerRun` alone says nothing of an answer
between two of them. `StepsAreOwned` says that,
without a database error, a step shown as running is the one some launch is waiting for the model or
a tool in: a task leaves there by settling its step, a timeout, a cancel and a restart close the steps
of the run. So once nobody works on a run none is left running.

For every set of revisions, ranges, column lists, readers and editors, every traffic and bound
(`TableCaches_proofs`):

| Theorem | Statement | Invariant behind it |
|---|---|---|
| `CachesTypeCorrect` | `[]TypeOK` | with `VersionLeft` |
| `QueriesAnswerMatch`, `RowKeyIsCurrent` | `[]AnswersMatch`, `[]RowKeyCurrent` | `CachesInv` |
| `ColumnsAreKept` | `ColumnsKept` | `CachesInv` |

`CachesInv` is about the snapshots that may still decide what a file or the row will hold (the row's
own, those of live readers, the candidate's): two of the same revision and version have the same
columns (`Agree`), every file of that version holds them (`FilesFit`), no revision is used before it
exists, none is newer than the row, and nobody but a refresh knows its candidate. `Agree` and the
columns of `FilesFit` exempt the versions in `strayed`; that a file holds the rows and the names of
the revision and range in its key needs no exemption. The key of a file hashes no columns, so
`AnswersMatch` rests on `Agree`. Nothing is assumed of `Inferred`: the theorems hold whatever is
inferred from which revision and range. Outside strayed versions a snapshot without columns has the
range of its row, which is why the columns it yields are the only ones that version can get.

For every set of uploads, requests, sheets and ranges and every number of mishaps (`Imports_proofs`,
on `Columns_proofs`):

| Theorem | Statement |
|---|---|
| `ImportTypeCorrect`, `OneCommitWins`, `FilesStay`, `TokensStay` | `[]TypeOK`, `[]OneSourcePerUpload`, `[]SourceHasFile`, `[]TokenKeepsFile` |
| `RowsAgree`, `InferredTypesFit` | `[]RowsAsCounted`, `[]InferredTypesConvert` |
| `StreamedAsCounted`, `InferredTypeTakes`, `SampledRowsBuild` | the same of any sheet and range, as facts about operators |

The invariant `ImportInv` says that a token's file is at one place (in staging, or with the one
request that took it), that between taking and giving back the lock nobody else is, and that the
clean-up, while it holds the lock, knows every source there is; so the rename decides which of two
commits wins.

For every set of sources and configurations and every bound (`Collector_proofs`):

| Theorem | Statement |
|---|---|
| `CollectorTypeCorrect`, `OnlyDeliveredIsApplied` | `[]TypeOK`, `[]AppliedWasGiven` |
| `UploadsTakeTurns` | `[]OneUploadPerTarget` (checked by `CollectorShared`) |
| `NeverGoesBack` | `NeverBackwards` |

`CollectorInv` follows a source's belief: a record says a file was delivered (`Sound`) in the store,
in the copy a run goes by and in the outcome a run is about to record, and each stage that leads to
one of these knows it (`Believed`). A run holds records it read long ago, so both copies are needed.
That a source stands once in the line of its target, and that only the first works (`Lined`), gives
the turns.

`NewerInv` is behind `NeverGoesBack`. While nobody edits, the snapshot staged in the record of a
trusted source is at least as new as the target, as long as its key has no receipt; and every
request to that target whose sender gave up and whose key has no receipt (`Loose`) carries just that
snapshot under just that key (`Newest`). So a late request either repeats the present attempt or is
answered from its receipt. To keep this over the life of a run it takes: what the run holds at each
stage (`InStep`: a new scan begins only with nothing staged, the snapshot is removed only once its
key has a receipt or its file is the one applied last), that a run goes by the record in the store
(`Reread`), that no two sources share a key (`Apart`), and that nothing is under way to a target no
source serves (`Owned`), since a source may be created for it later. A run killed between the removal
of its snapshot and its record keeps its key; its key has a receipt then, which is why nothing
is loose. What the server refuses for good makes `Receives` leave the target alone, and only grows
except for a query that is bound again; the theorems hold for every such history (`RefusesMoreKeeps`,
`RefusesMoreNewer`).

Every safety property, action property and refinement the runs check is proved. Only model-checked:
liveness (`JobsSettle`, `OrphansGo`, `DueIsClaimed`, `LaunchedRunSettles`, `StreamsEnd`,
`ChangesArrive`), which needs fairness and ENABLED and is out of the prover's reach. The operators of
`Columns` use no recursion, so their theorems hold for sheets of every size. The theorems carry the
exceptions of the properties they state: those named in section 3, and `excused` in
`NoUntrackedResult`.

## 5. What is not modelled

SQL validation and the script sandbox are sequential; reading cells out of CSV and Excel files is
the work of libraries (`Columns` begins where they end); login, settings and saved queries are
single-row operations; the web front end and the desktop shell hold no authority; the Python
prototype shares no state with the server; the operations scripts run outside it. Interactive queries
share the permits, which `PermitsConserved` covers from the side of jobs and result pages, and the
caches, which `TableCaches` covers for both. The desktop's backend runtime (the child process and the
generations of its connections) is not modelled: every operation goes through one promise queue and
closes the old connection first, so no two of them overlap. The conversion of a version 1 store of
the collector is left out (section 2). Of the desktop's scheduler the cron arithmetic and the
retry set are left out, of the agent its tools and the provider's protocol. PROJECT.json gives the
status of each part.

## 6. Plan

Done: all modules of section 2 and the proofs of section 4.

1. Sources of a converted store as further initial states of `Collector`.
2. The scheduler of the desktop with its minute marks, catch-up window and retry set, beside
   `Collector`.
3. Proofs: what the steps of liveness arguments rest on and is safety (a job that is claimed is
   settled by the statement after its last await, a launched run has a task or a final status), and
   the lemmas of `Columns` for further types.
