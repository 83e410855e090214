------------------------------ MODULE JobQueue ------------------------------
(***************************************************************************)
(* The background job queue of the AnyDatas server.                        *)
(*                                                                         *)
(* A job is a row of the SQLite table jobs; one worker loop claims the     *)
(* oldest queued row, launches a blocking query thread under a permit of   *)
(* the shared query semaphore, waits for it with a timeout and writes the  *)
(* final status; the thread leaves the full result in                      *)
(* job-results/<job id>.duckdb.  HTTP handlers cancel, read and delete     *)
(* jobs at any point in between, the maintenance worker expires results,   *)
(* a source may be deleted with every job that uses it, and the process    *)
(* may be killed and restarted.                                            *)
(*                                                                         *)
(* One action stands for the code between two awaits (or two file system   *)
(* calls) whose order another actor can observe.  Left out: the job log,   *)
(* the progress column, sizes, rows and messages.  The map from actions to *)
(* code is in README.md.                                                   *)
(***************************************************************************)
EXTENDS Integers, Sequences, FiniteSets

CONSTANTS
    Jobs,            \* the job ids (fresh UUIDs) that may be enqueued
    NoJob,           \* the worker holds no job
    Permits,         \* QUERY_MAX_CONCURRENCY, the size of query_semaphore
    MaxFaults,       \* bound: database errors the worker or maintenance meets
    MaxCrashes,      \* bound: times the process is killed
    Traffic          \* which of Kinds happen besides enqueueing and executing

ASSUME NoJobAssumption == NoJob \notin Jobs
ASSUME JobsAssumption == IsFiniteSet(Jobs)
ASSUME PermitsAssumption == Permits \in Nat \ {0}
ASSUME BoundsAssumption == MaxFaults \in Nat /\ MaxCrashes \in Nat

\* Requests to cancel, delete and read a job, expiry of results, the deletion
\* of the source, and requests dropped between two awaits.
Kinds == {"cancel", "delete", "read", "expiry", "source", "drop"}
ASSUME TrafficAssumption == Traffic \subseteq Kinds

VARIABLES
    status,     \* jobs.status; "none" before the INSERT, "deleted" after the DELETE
    hasKey,     \* jobs.result_artifact_key IS NOT NULL
    created,    \* the ids in the order of created_at
    artifact,   \* the file job-results/<id>.duckdb: "none", "full" or "blank"
    wpc, wjob,  \* where the job worker is, and with which job
    thread,     \* the stage of the blocking query thread of a job
    canceled,   \* QueryControl.canceled
    free,       \* permits left in query_semaphore
    reader,     \* a request reading a page of the result
    cpc,        \* a request canceling the job
    dpc,        \* a request deleting the job
    exp,        \* the pass that expires results
    source,     \* the request deleting the source of the jobs
    skeys,      \* the artifact keys that request has read
    phase,      \* "up", "down" (killed) or "recovered" (starting)
    crashes, faults,
    retired,    \* history: results whose removal was decided (expiry, deletion)
    excused     \* history: results lost track of since the last start

dbVars == <<status, hasKey, created>>
workerVars == <<wpc, wjob>>
requestVars == <<reader, cpc, dpc, exp, source, skeys>>
boundVars == <<phase, crashes, faults>>
historyVars == <<retired, excused>>
vars == <<dbVars, artifact, workerVars, thread, canceled, free, requestVars,
          boundVars, historyVars>>

Active == {"queued", "running"}
Terminal == {"succeeded", "failed", "canceled"}
Status == {"none", "deleted"} \cup Active \cup Terminal
Live == {"start", "import", "sql", "post", "script"}
Guarded == {"prepare", "permit", "waiting", "persist", "onok", "commit",
            "finallog", "discard", "onerror", "markfailed", "fallback", "release"}
WorkerPc == {"idle", "selected", "claimed"} \cup Guarded

RowExists(j) == status[j] \notin {"none", "deleted"}
\* QueryControl.worker_jobs and QueryControl.active are functions of the state.
WorkerJobs == IF wpc \in Guarded THEN {wjob} ELSE {}
ActiveQueries == {j \in Jobs : thread[j] = "sql"}
Owns(j) == wjob = j /\ wpc \in Guarded \cup {"claimed"}

Init ==
    /\ status = [j \in Jobs |-> "none"]
    /\ hasKey = [j \in Jobs |-> FALSE]
    /\ created = <<>>
    /\ artifact = [j \in Jobs |-> "none"]
    /\ wpc = "idle" /\ wjob = NoJob
    /\ thread = [j \in Jobs |-> "none"]
    /\ canceled = {}
    /\ free = Permits
    /\ reader = [j \in Jobs |-> "idle"]
    /\ cpc = [j \in Jobs |-> "idle"]
    /\ dpc = [j \in Jobs |-> "idle"]
    /\ exp = [j \in Jobs |-> "idle"]
    /\ source = "present" /\ skeys = {}
    /\ phase = "up" /\ crashes = 0 /\ faults = 0
    /\ retired = {} /\ excused = {}

-----------------------------------------------------------------------------
(* Operators named X_Y are mutants: what X would be with the plausible     *)
(* mistake Y.  No action uses them; the mutant runs of PROJECT.json put    *)
(* one in the place of X to show that a property notices.                  *)

-----------------------------------------------------------------------------
(* enqueue_job: every creator (API, retry, schedule, refresh) ends in this  *)
(* one transaction; the foreign key fails once the source is gone.         *)
Enqueue(j) ==
    /\ phase = "up" /\ source # "gone"
    /\ status[j] = "none"
    /\ status' = [status EXCEPT ![j] = "queued"]
    /\ created' = Append(created, j)
    /\ UNCHANGED <<hasKey, artifact, workerVars, thread, canceled, free,
                   requestVars, boundVars, historyVars>>

-----------------------------------------------------------------------------
(* The job worker.                                                         *)

OldestQueued(j) ==
    \E i \in DOMAIN created :
        /\ created[i] = j /\ status[j] = "queued"
        /\ \A k \in 1..(i - 1) : status[created[k]] # "queued"

WorkerMoves(from, to) == phase = "up" /\ wpc = from /\ wpc' = to

WorkerSelect ==
    /\ WorkerMoves("idle", "selected")
    /\ \E j \in Jobs : OldestQueued(j) /\ wjob' = j
    /\ UNCHANGED <<dbVars, artifact, thread, canceled, free, requestVars,
                   boundVars, historyVars>>

WorkerClaim ==
    /\ WorkerMoves("selected", "claimed")
    /\ status[wjob] = "queued"
    /\ status' = [status EXCEPT ![wjob] = "running"]
    /\ UNCHANGED <<hasKey, created, artifact, wjob, thread, canceled, free,
                   requestVars, boundVars, historyVars>>

\* The row was canceled or deleted between the SELECT and the UPDATE.
WorkerClaimMiss ==
    /\ WorkerMoves("selected", "idle")
    /\ status[wjob] # "queued"
    /\ wjob' = NoJob
    /\ UNCHANGED <<dbVars, artifact, thread, canceled, free, requestVars,
                   boundVars, historyVars>>

\* WorkerJobGuard::register: from here wjob is in WorkerJobs.
WorkerRegister ==
    /\ WorkerMoves("claimed", "prepare")
    /\ UNCHANGED <<dbVars, artifact, wjob, thread, canceled, free, requestVars,
                   boundVars, historyVars>>

\* append_log, required_job, progress, load_bindings; all need the row.
WorkerPrepare ==
    /\ WorkerMoves("prepare", IF RowExists(wjob) THEN "permit" ELSE "fallback")
    /\ UNCHANGED <<dbVars, artifact, wjob, thread, canceled, free, requestVars,
                   boundVars, historyVars>>

WorkerLaunch_WithoutPermit ==
    /\ WorkerMoves("permit", "waiting")
    /\ free' = free - 1
    /\ thread' = [thread EXCEPT ![wjob] = "start"]
    /\ UNCHANGED <<dbVars, artifact, wjob, canceled, requestVars, boundVars,
                   historyVars>>

WorkerLaunch ==
    /\ WorkerMoves("permit", "waiting")
    /\ free > 0
    /\ free' = free - 1
    /\ thread' = [thread EXCEPT ![wjob] = "start"]
    /\ UNCHANGED <<dbVars, artifact, wjob, canceled, requestVars, boundVars,
                   historyVars>>

\* The inputs do not resolve, or no permit comes free within the wait limit.
WorkerNotLaunched ==
    /\ WorkerMoves("permit", "onerror")
    /\ UNCHANGED <<dbVars, artifact, wjob, thread, canceled, free, requestVars,
                   boundVars, historyVars>>

AfterJoin_IgnoresError(outcome) == "persist"

AfterJoin(outcome) == IF outcome = "ok" THEN "persist" ELSE "onerror"

WorkerJoin ==
    /\ WorkerMoves("waiting", AfterJoin(thread[wjob]))
    /\ thread[wjob] \in {"ok", "err"}
    /\ thread' = [thread EXCEPT ![wjob] = "none"]
    /\ UNCHANGED <<dbVars, artifact, wjob, canceled, free, requestVars,
                   boundVars, historyVars>>

\* The permit goes back with the waiting task, not with the query thread.
WorkerTimeout_ReleasesPermit ==
    /\ WorkerMoves("waiting", "onerror")
    /\ thread[wjob] \in Live
    /\ canceled' = canceled \cup {wjob}
    /\ excused' = excused \cup {wjob}
    /\ free' = free + 1
    /\ UNCHANGED <<dbVars, artifact, wjob, thread, requestVars, boundVars, retired>>

\* background_query_timeout: cancel_execution, and the thread runs on alone.
WorkerTimeout ==
    /\ WorkerMoves("waiting", "onerror")
    /\ thread[wjob] \in Live
    /\ canceled' = canceled \cup {wjob}
    /\ excused' = excused \cup {wjob}
    /\ UNCHANGED <<dbVars, artifact, wjob, thread, free, requestVars,
                   boundVars, retired>>

\* persist_cache_updates touches source_tables only.
WorkerPersist ==
    /\ WorkerMoves("persist", "onok")
    /\ UNCHANGED <<dbVars, artifact, wjob, thread, canceled, free, requestVars,
                   boundVars, historyVars>>

\* The success log comes before the commit; without the row it fails, and the
\* early return skips every removal of the artifact.
WorkerLogResult ==
    /\ WorkerMoves("onok", IF RowExists(wjob) THEN "commit" ELSE "fallback")
    /\ excused' = IF RowExists(wjob) THEN excused ELSE excused \cup {wjob}
    /\ UNCHANGED <<dbVars, artifact, wjob, thread, canceled, free, requestVars,
                   boundVars, retired>>

WorkerCommit ==
    /\ WorkerMoves("commit", "finallog")
    /\ status[wjob] = "running"
    /\ status' = [status EXCEPT ![wjob] = "succeeded"]
    /\ hasKey' = [hasKey EXCEPT ![wjob] = TRUE]
    /\ UNCHANGED <<created, artifact, wjob, thread, canceled, free, requestVars,
                   boundVars, historyVars>>

WorkerCommitMiss_KeepsFile ==
    /\ WorkerMoves("commit", "release")
    /\ status[wjob] # "running"
    /\ UNCHANGED <<dbVars, artifact, wjob, thread, canceled, free, requestVars,
                   boundVars, historyVars>>

\* The guard `status = 'running'` matches no row: canceled or deleted meanwhile.
WorkerCommitMiss ==
    /\ WorkerMoves("commit", "discard")
    /\ status[wjob] # "running"
    /\ UNCHANGED <<dbVars, artifact, wjob, thread, canceled, free, requestVars,
                   boundVars, historyVars>>

\* remove_artifact_file, after a missed commit or before recording a failure.
WorkerRemoveArtifact ==
    /\ \/ WorkerMoves("discard", "release")
       \/ WorkerMoves("onerror", "markfailed")
    /\ artifact' = [artifact EXCEPT ![wjob] = "none"]
    /\ UNCHANGED <<dbVars, wjob, thread, canceled, free, requestVars,
                   boundVars, historyVars>>

FailIfRunning_Unguarded(j) ==
    status' = [status EXCEPT ![j] = IF RowExists(j) THEN "failed" ELSE @]

FailIfRunning(j) ==
    status' = [status EXCEPT ![j] = IF @ = "running" THEN "failed" ELSE @]

WorkerMarkFailed ==
    /\ WorkerMoves("markfailed",
                   IF status[wjob] = "running" THEN "finallog" ELSE "release")
    /\ FailIfRunning(wjob)
    /\ UNCHANGED <<hasKey, created, artifact, wjob, thread, canceled, free,
                   requestVars, boundVars, historyVars>>

WorkerFinalLog ==
    /\ WorkerMoves("finallog", IF RowExists(wjob) THEN "release" ELSE "fallback")
    /\ UNCHANGED <<dbVars, artifact, wjob, thread, canceled, free, requestVars,
                   boundVars, historyVars>>

WorkerFallback ==
    /\ WorkerMoves("fallback", "release")
    /\ FailIfRunning(wjob)
    /\ UNCHANGED <<hasKey, created, artifact, wjob, thread, canceled, free,
                   requestVars, boundVars, historyVars>>

\* The guard is dropped and the loop waits for its next tick.
WorkerRelease ==
    /\ WorkerMoves("release", "idle")
    /\ wjob' = NoJob
    /\ UNCHANGED <<dbVars, artifact, thread, canceled, free, requestVars,
                   boundVars, historyVars>>

AfterFault_NoLastResort(pc) ==
    CASE pc = "selected" -> "idle"
      [] pc = "persist" -> "onerror"
      [] OTHER -> "release"

\* Where an error of the database takes the worker.  The result of the last
\* resort UPDATE itself is discarded (`let _ =`).
AfterFault(pc) ==
    CASE pc = "selected" -> "idle"
      [] pc = "persist" -> "onerror"
      [] pc = "fallback" -> "release"
      [] OTHER -> "fallback"

WorkerFault ==
    /\ faults < MaxFaults
    /\ wpc \in {"selected", "prepare", "persist", "onok", "commit", "finallog",
                "markfailed", "fallback"}
    /\ WorkerMoves(wpc, AfterFault(wpc))
    /\ wjob' = IF wpc = "selected" THEN NoJob ELSE wjob
    /\ faults' = faults + 1
    /\ excused' = IF wpc \in {"onok", "commit"} THEN excused \cup {wjob}
                                                ELSE excused
    /\ UNCHANGED <<dbVars, artifact, thread, canceled, free, requestVars,
                   phase, crashes, retired>>

Worker ==
    \/ WorkerSelect \/ WorkerClaim \/ WorkerClaimMiss \/ WorkerRegister
    \/ WorkerPrepare \/ WorkerLaunch \/ WorkerNotLaunched
    \/ WorkerJoin \/ WorkerTimeout \/ WorkerPersist \/ WorkerLogResult
    \/ WorkerCommit \/ WorkerCommitMiss \/ WorkerRemoveArtifact
    \/ WorkerMarkFailed \/ WorkerFinalLog \/ WorkerFallback \/ WorkerRelease
    \/ WorkerFault

-----------------------------------------------------------------------------
(* The blocking query thread.  It owns its permit until it returns, whether *)
(* or not the worker still waits for it; nobody reads an abandoned result.  *)

ThreadMoves(j, from, to) ==
    /\ phase = "up"
    /\ thread[j] = from
    /\ thread' = [thread EXCEPT ![j] = to]

ThreadReturns(j, from, outcome) ==
    /\ ThreadMoves(j, from, IF wjob = j /\ wpc = "waiting" THEN outcome ELSE "none")
    /\ free' = free + 1

ThreadRegister(j) ==
    /\ ThreadMoves(j, "start", "import")
    /\ j \notin canceled
    /\ UNCHANGED <<dbVars, artifact, workerVars, canceled, free, requestVars,
                   boundVars, historyVars>>

\* Invalid request, or the cancel mark is already there: no guard is created,
\* so the mark stays.
ThreadRefused(j) ==
    /\ ThreadReturns(j, "start", "err")
    /\ UNCHANGED <<dbVars, artifact, workerVars, canceled, requestVars,
                   boundVars, historyVars>>

\* Caches are ready; attach publishes the interrupt handle, then
\* ensure_running looks at the mark once more.
ThreadAttach(j) ==
    /\ ThreadMoves(j, "import", "sql")
    /\ j \notin canceled
    /\ UNCHANGED <<dbVars, artifact, workerVars, canceled, free, requestVars,
                   boundVars, historyVars>>

\* A cache cannot be built, the query fails or is interrupted, a limit is hit,
\* or the mark is seen; the temporary file goes and the guard is dropped.
ThreadFails(j) ==
    /\ \/ ThreadReturns(j, "import", "err")
       \/ ThreadReturns(j, "sql", "err")
    /\ canceled' = canceled \ {j}
    /\ UNCHANGED <<dbVars, artifact, workerVars, requestVars, boundVars,
                   historyVars>>

\* The result is renamed into place and the guard is dropped; a job with a
\* post-processing script goes on, outside the guard.
ThreadMaterialize(j) ==
    /\ \/ ThreadReturns(j, "sql", "ok")
       \/ ThreadMoves(j, "sql", "post") /\ UNCHANGED free
    /\ artifact' = [artifact EXCEPT ![j] = "full"]
    /\ canceled' = canceled \ {j}
    /\ UNCHANGED <<dbVars, workerVars, requestVars, boundVars, historyVars>>

\* Connection::open creates a file that is missing.
Opened(file) == IF file = "none" THEN "blank" ELSE file

ThreadReadBack(j) ==
    /\ ThreadMoves(j, "post", "script")
    /\ artifact[j] = "full"
    /\ UNCHANGED <<dbVars, artifact, workerVars, canceled, free, requestVars,
                   boundVars, historyVars>>

ThreadReadBackFails(j) ==
    /\ ThreadReturns(j, "post", "err")
    /\ artifact' = [artifact EXCEPT ![j] = Opened(@)]
    /\ UNCHANGED <<dbVars, workerVars, canceled, requestVars, boundVars,
                   historyVars>>

ThreadRewrite(j) ==
    /\ ThreadReturns(j, "script", "ok")
    /\ artifact' = [artifact EXCEPT ![j] = "full"]
    /\ UNCHANGED <<dbVars, workerVars, canceled, requestVars, boundVars,
                   historyVars>>

ThreadScriptFails(j) ==
    /\ ThreadReturns(j, "script", "err")
    /\ UNCHANGED <<dbVars, artifact, workerVars, canceled, requestVars,
                   boundVars, historyVars>>

Thread(j) ==
    \/ ThreadRegister(j) \/ ThreadRefused(j) \/ ThreadAttach(j) \/ ThreadFails(j)
    \/ ThreadMaterialize(j) \/ ThreadReadBack(j) \/ ThreadReadBackFails(j)
    \/ ThreadRewrite(j) \/ ThreadScriptFails(j)

-----------------------------------------------------------------------------
(* cancel: read the row, guarded UPDATE, then mark and interrupt.  Whether  *)
(* the mark is set depends on the status that was READ.                    *)

CancelRead(j) ==
    /\ "cancel" \in Traffic /\ phase = "up" /\ cpc[j] = "idle"
    /\ status[j] \in Active
    /\ cpc' = [cpc EXCEPT ![j] = IF status[j] = "running" THEN "sawRunning"
                                                         ELSE "sawQueued"]
    /\ UNCHANGED <<dbVars, artifact, workerVars, thread, canceled, free, reader,
                   dpc, exp, source, skeys, boundVars, historyVars>>

MayCancel_AnyRow(j) == RowExists(j)

\* WHERE status IN ('queued', 'running')
MayCancel(j) == status[j] \in Active

CancelUpdate(j) ==
    /\ phase = "up" /\ cpc[j] \in {"sawQueued", "sawRunning"}
    /\ MayCancel(j)
    /\ status' = [status EXCEPT ![j] = "canceled"]
    /\ cpc' = [cpc EXCEPT ![j] = IF @ = "sawRunning" THEN "mark" ELSE "interrupt"]
    /\ UNCHANGED <<hasKey, created, artifact, workerVars, thread, canceled, free,
                   reader, dpc, exp, source, skeys, boundVars, historyVars>>

CancelMiss(j) ==
    /\ phase = "up" /\ cpc[j] \in {"sawQueued", "sawRunning"}
    /\ ~MayCancel(j)
    /\ cpc' = [cpc EXCEPT ![j] = "idle"]
    /\ UNCHANGED <<dbVars, artifact, workerVars, thread, canceled, free, reader,
                   dpc, exp, source, skeys, boundVars, historyVars>>

\* One critical section of query_control; the interrupt reaches the thread iff
\* it is in ActiveQueries, and there at most makes the SQL fail.
CancelMark(j) ==
    /\ phase = "up" /\ cpc[j] \in {"mark", "interrupt"}
    /\ canceled' = IF cpc[j] = "mark" THEN canceled \cup {j} ELSE canceled
    /\ cpc' = [cpc EXCEPT ![j] = "idle"]
    /\ UNCHANGED <<dbVars, artifact, workerVars, thread, free, reader, dpc, exp,
                   source, skeys, boundVars, historyVars>>

Cancel(j) == CancelRead(j) \/ CancelUpdate(j) \/ CancelMiss(j) \/ CancelMark(j)

-----------------------------------------------------------------------------
(* delete_one of a job: read, remove the file named by the key, delete.     *)

DeleteRead(j) ==
    /\ "delete" \in Traffic /\ phase = "up" /\ dpc[j] = "idle"
    /\ status[j] \in Terminal
    /\ dpc' = [dpc EXCEPT ![j] = IF hasKey[j] THEN "file" ELSE "row"]
    /\ retired' = retired \cup {j}
    /\ UNCHANGED <<dbVars, artifact, workerVars, thread, canceled, free, reader,
                   cpc, exp, source, skeys, boundVars, excused>>

DeleteFile(j) ==
    /\ phase = "up" /\ dpc[j] = "file"
    /\ artifact' = [artifact EXCEPT ![j] = "none"]
    /\ dpc' = [dpc EXCEPT ![j] = "row"]
    /\ UNCHANGED <<dbVars, workerVars, thread, canceled, free, reader, cpc, exp,
                   source, skeys, boundVars, historyVars>>

DeleteRow(j) ==
    /\ phase = "up" /\ dpc[j] = "row"
    /\ status' = [status EXCEPT ![j] = "deleted"]
    /\ hasKey' = [hasKey EXCEPT ![j] = FALSE]
    /\ dpc' = [dpc EXCEPT ![j] = "idle"]
    /\ UNCHANGED <<created, artifact, workerVars, thread, canceled, free, reader,
                   cpc, exp, source, skeys, boundVars, historyVars>>

Delete(j) == DeleteRead(j) \/ DeleteFile(j) \/ DeleteRow(j)

-----------------------------------------------------------------------------
(* get_result: the key and the file are checked first, the file is opened   *)
(* after the wait for a permit.                                            *)

ReadStart(j) ==
    /\ "read" \in Traffic /\ phase = "up" /\ reader[j] = "idle"
    /\ hasKey[j] /\ artifact[j] # "none"
    /\ reader' = [reader EXCEPT ![j] = "waiting"]
    /\ UNCHANGED <<dbVars, artifact, workerVars, thread, canceled, free, cpc, dpc,
                   exp, source, skeys, boundVars, historyVars>>

ReadPermit(j) ==
    /\ phase = "up" /\ reader[j] = "waiting"
    /\ free > 0
    /\ free' = free - 1
    /\ reader' = [reader EXCEPT ![j] = "reading"]
    /\ UNCHANGED <<dbVars, artifact, workerVars, thread, canceled, cpc, dpc, exp,
                   source, skeys, boundVars, historyVars>>

ReadGivesUp(j) ==
    /\ phase = "up" /\ reader[j] = "waiting"
    /\ reader' = [reader EXCEPT ![j] = "idle"]
    /\ UNCHANGED <<dbVars, artifact, workerVars, thread, canceled, free, cpc, dpc,
                   exp, source, skeys, boundVars, historyVars>>

ReadPage(j) ==
    /\ phase = "up" /\ reader[j] = "reading"
    /\ artifact' = [artifact EXCEPT ![j] = Opened(@)]
    /\ excused' = IF artifact[j] = "none" THEN excused \cup {j} ELSE excused
    /\ free' = free + 1
    /\ reader' = [reader EXCEPT ![j] = "idle"]
    /\ UNCHANGED <<dbVars, workerVars, thread, canceled, cpc, dpc, exp, source,
                   skeys, boundVars, retired>>

Read(j) == ReadStart(j) \/ ReadPermit(j) \/ ReadGivesUp(j) \/ ReadPage(j)

-----------------------------------------------------------------------------
(* A request that fails at an await, or whose client has gone, stops there. *)

RequestDropped(j) ==
    /\ "drop" \in Traffic /\ phase = "up"
    /\ \/ /\ cpc[j] # "idle"
          /\ cpc' = [cpc EXCEPT ![j] = "idle"]
          /\ UNCHANGED dpc
       \/ /\ dpc[j] # "idle"
          /\ dpc' = [dpc EXCEPT ![j] = "idle"]
          /\ UNCHANGED cpc
    /\ UNCHANGED <<dbVars, artifact, workerVars, thread, canceled, free, reader,
                   exp, source, skeys, boundVars, historyVars>>

-----------------------------------------------------------------------------
(* cleanup_expired_job_results, hourly and at startup: SELECT the expired   *)
(* rows, then per row remove the file and clear the columns.  Time is not   *)
(* modelled: any set of results may have expired.                          *)

ExpiryBegin(S) ==
    /\ "expiry" \in Traffic
    /\ phase \in {"up", "recovered"}
    /\ \A j \in Jobs : exp[j] = "idle"
    /\ \A j \in S : hasKey[j]
    /\ exp' = [j \in Jobs |-> IF j \in S THEN "listed" ELSE "idle"]
    /\ retired' = retired \cup S
    /\ UNCHANGED <<dbVars, artifact, workerVars, thread, canceled, free, reader,
                   cpc, dpc, source, skeys, boundVars, excused>>

ExpiryFile(j) ==
    /\ phase \in {"up", "recovered"}
    /\ exp[j] = "listed"
    /\ \A k \in Jobs : exp[k] # "removed"
    /\ artifact' = [artifact EXCEPT ![j] = "none"]
    /\ exp' = [exp EXCEPT ![j] = "removed"]
    /\ UNCHANGED <<dbVars, workerVars, thread, canceled, free, reader, cpc, dpc,
                   source, skeys, boundVars, historyVars>>

ExpiryClear(j) ==
    /\ phase \in {"up", "recovered"}
    /\ exp[j] = "removed"
    /\ hasKey' = [hasKey EXCEPT ![j] = FALSE]
    /\ exp' = [exp EXCEPT ![j] = "idle"]
    /\ UNCHANGED <<status, created, artifact, workerVars, thread, canceled, free,
                   reader, cpc, dpc, source, skeys, boundVars, historyVars>>

\* An error ends the whole pass; the hourly worker only logs it.
ExpiryFault ==
    /\ faults < MaxFaults /\ phase = "up"
    /\ \E j \in Jobs : exp[j] # "idle"
    /\ exp' = [j \in Jobs |-> "idle"]
    /\ faults' = faults + 1
    /\ UNCHANGED <<dbVars, artifact, workerVars, thread, canceled, free, reader,
                   cpc, dpc, source, skeys, phase, crashes, historyVars>>

Expiry ==
    \/ \E S \in SUBSET Jobs \ {{}} : ExpiryBegin(S)
    \/ \E j \in Jobs : ExpiryFile(j) \/ ExpiryClear(j)
    \/ ExpiryFault

-----------------------------------------------------------------------------
(* delete_one of the data source: read the keys of its jobs, remove those   *)
(* files, then DELETE the source; the foreign key deletes every job row,    *)
(* whatever its status.                                                    *)

SourceScan ==
    /\ "source" \in Traffic /\ phase = "up" /\ source = "present"
    /\ source' = "scanned"
    /\ skeys' = {j \in Jobs : hasKey[j]}
    /\ retired' = retired \cup skeys'
    /\ UNCHANGED <<dbVars, artifact, workerVars, thread, canceled, free, reader,
                   cpc, dpc, exp, boundVars, excused>>

SourceRemoves_Nothing(j) == FALSE

SourceRemoves_EveryJob(j) == TRUE

SourceRemoves(j) == j \in skeys

SourceFiles ==
    /\ phase = "up" /\ source = "scanned"
    /\ source' = "removed"
    /\ artifact' = [j \in Jobs |-> IF SourceRemoves(j) THEN "none" ELSE artifact[j]]
    /\ UNCHANGED <<dbVars, workerVars, thread, canceled, free, reader, cpc, dpc,
                   exp, skeys, boundVars, historyVars>>

SourceCascade ==
    /\ phase = "up" /\ source = "removed"
    /\ source' = "gone"
    /\ status' = [j \in Jobs |-> IF RowExists(j) THEN "deleted" ELSE status[j]]
    /\ hasKey' = [j \in Jobs |-> FALSE]
    /\ excused' = excused \cup {j \in Jobs : hasKey[j] /\ j \notin skeys}
    /\ UNCHANGED <<created, artifact, workerVars, thread, canceled, free, reader,
                   cpc, dpc, exp, skeys, boundVars, retired>>

SourceDelete == SourceScan \/ SourceFiles \/ SourceCascade

-----------------------------------------------------------------------------
(* Kill and restart.                                                       *)

Crash ==
    /\ crashes < MaxCrashes
    /\ phase' = "down"
    /\ crashes' = crashes + 1
    /\ wpc' = "idle" /\ wjob' = NoJob
    /\ thread' = [j \in Jobs |-> "none"]
    /\ canceled' = {}
    /\ free' = Permits
    /\ reader' = [j \in Jobs |-> "idle"]
    /\ cpc' = [j \in Jobs |-> "idle"]
    /\ dpc' = [j \in Jobs |-> "idle"]
    /\ exp' = [j \in Jobs |-> "idle"]
    /\ source' = IF source = "gone" THEN "gone" ELSE "present"
    /\ skeys' = {}
    /\ UNCHANGED <<dbVars, artifact, faults, historyVars>>

Recovered_Resumed(s) == IF s = "running" THEN "queued" ELSE s

Recovered_Untouched(s) == s

Recovered(s) == IF s = "running" THEN "failed" ELSE s

\* recover_interrupted_jobs
Recover ==
    /\ phase = "down"
    /\ phase' = "recovered"
    /\ status' = [j \in Jobs |-> Recovered(status[j])]
    /\ UNCHANGED <<hasKey, created, artifact, workerVars, thread, canceled, free,
                   requestVars, crashes, faults, historyVars>>

SweepKeeps_ActiveJobs(j) == status[j] \in Active

SweepKeeps(j) == hasKey[j]

\* The last part of cleanup_startup_storage, once startup expiry is over:
\* remove every result file no row names, then start the workers and listen.
Sweep ==
    /\ phase = "recovered"
    /\ \A j \in Jobs : exp[j] = "idle"
    /\ phase' = "up"
    /\ artifact' = [j \in Jobs |-> IF SweepKeeps(j) THEN artifact[j] ELSE "none"]
    /\ excused' = {}
    /\ UNCHANGED <<dbVars, workerVars, thread, canceled, free, requestVars,
                   crashes, faults, retired>>

-----------------------------------------------------------------------------
Next ==
    \/ \E j \in Jobs : \/ Enqueue(j) \/ Thread(j) \/ Cancel(j) \/ Delete(j)
                       \/ Read(j) \/ RequestDropped(j)
    \/ Worker
    \/ Expiry
    \/ SourceDelete
    \/ Crash \/ Recover \/ Sweep

Spec == Init /\ [][Next]_vars

\* What the code itself guarantees to keep moving: the worker loop (its waits
\* for a permit and for the thread end in a timeout), startup and a pass of
\* expiry that has begun.  Nothing is assumed of query threads, users or time.
Fairness ==
    /\ WF_vars(Worker)
    /\ WF_vars(Recover)
    /\ WF_vars(Sweep)
    /\ WF_vars(\E j \in Jobs : ExpiryFile(j) \/ ExpiryClear(j))

FairSpec == Spec /\ Fairness

-----------------------------------------------------------------------------
(* Properties.                                                             *)

\* Every variable has its type.
TypeOK ==
    /\ status \in [Jobs -> Status]
    /\ hasKey \in [Jobs -> BOOLEAN]
    /\ created \in Seq(Jobs)
    /\ artifact \in [Jobs -> {"none", "full", "blank"}]
    /\ wpc \in WorkerPc
    /\ wjob \in Jobs \cup {NoJob}
    /\ wpc # "idle" => wjob \in Jobs
    /\ thread \in [Jobs -> {"none", "ok", "err"} \cup Live]
    /\ canceled \subseteq Jobs
    /\ free \in Nat
    /\ reader \in [Jobs -> {"idle", "waiting", "reading"}]
    /\ cpc \in [Jobs -> {"idle", "sawQueued", "sawRunning", "mark", "interrupt"}]
    /\ dpc \in [Jobs -> {"idle", "file", "row"}]
    /\ exp \in [Jobs -> {"idle", "listed", "removed"}]
    /\ source \in {"present", "scanned", "removed", "gone"}
    /\ skeys \subseteq Jobs
    /\ phase \in {"up", "down", "recovered"}
    /\ crashes \in 0..MaxCrashes
    /\ faults \in 0..MaxFaults
    /\ retired \subseteq Jobs
    /\ excused \subseteq Jobs

\* A final status is final: whatever the worker, a cancel, a recovery or a late
\* query thread does, succeeded, failed and canceled only give way to a DELETE.
TerminalKept ==
    \A j \in Jobs : status[j] \in Terminal => status'[j] \in {status[j], "deleted"}

TerminalStable == [][TerminalKept]_vars

\* A job offers a result only if it succeeded: a cancel that wins the race
\* against the commit leaves no result columns behind.
KeyOnlyWhenSucceeded == \A j \in Jobs : hasKey[j] => status[j] = "succeeded"

\* The result a succeeded job offers is there, complete, until someone decides
\* to remove it: no discard, sweep, late thread or restart touches it.
ResultAvailable ==
    \A j \in Jobs : hasKey[j] /\ j \notin retired => artifact[j] = "full"

\* A result file no row names exists only while its job is being worked on, or
\* in the cases counted in excused: the thread was abandoned at a timeout, the
\* database failed or the row went after the query succeeded, a reader
\* re-created the file, or the source was deleted beside the commit.  Startup
\* clears them all.
NoUntrackedResult ==
    phase = "up" =>
        \A j \in Jobs :
            artifact[j] # "none" /\ ~hasKey[j] /\ ~Owns(j) /\ thread[j] \notin Live
                => j \in excused

\* A running row belongs to the worker, so one database error never strands a
\* job as running; it takes a second error, in the last resort UPDATE.
RunningIsOwned ==
    phase = "up" =>
        \A j \in Jobs : status[j] = "running" => Owns(j) \/ faults >= 2

\* A permit is held by the thread that uses it: abandoning a query or a read at
\* its timeout never lets more than Permits of them run.
PermitsConserved ==
    free + Cardinality({j \in Jobs : thread[j] \in Live})
         + Cardinality({j \in Jobs : reader[j] = "reading"}) = Permits

\* Every job leaves the queue and the running state, across crashes, whatever
\* its query thread does (with at most one database error).
JobsSettle ==
    \A j \in Jobs : status[j] \in Active ~> status[j] \notin Active

-----------------------------------------------------------------------------
(* What makes the safety properties inductive (used by the proofs).        *)

Starting == {"selected", "claimed", "prepare", "permit"}
Finishing == {"persist", "onok", "commit"}

\* The worker lets go of a running row only after two database errors, and a
\* starting server has no running row.
OwnershipInv ==
    /\ RunningIsOwned
    /\ phase = "recovered" => \A j \in Jobs : status[j] # "running"
    /\ phase = "down" => wpc = "idle"
    /\ phase = "recovered" => wpc = "idle"
    /\ wpc = "fallback" => status[wjob] # "running" \/ faults >= 1
    /\ wpc \in {"finallog", "discard", "release"} =>
           status[wjob] # "running" \/ faults >= 2

\* A job is launched at most once, from the one place that takes a permit.
LaunchInv ==
    /\ \A j \in Jobs : status[j] \in {"none", "queued"} => thread[j] = "none"
    /\ wpc \in Starting \cup Finishing => thread[wjob] = "none"
    /\ wpc \in Guarded \cup {"claimed"} => status[wjob] \notin {"none", "queued"}
    /\ wpc = "selected" => status[wjob] # "none"

\* Until the commit the file is touched by nobody but the worker and its
\* thread; every other remover acts on a result whose removal was decided.
RemovalInv ==
    /\ \A j \in Jobs : dpc[j] = "file" \/ exp[j] # "idle" \/ j \in skeys =>
           j \in retired /\ status[j] \in {"succeeded", "deleted"}
    /\ wpc \in (Guarded \cup {"claimed"}) \ {"finallog", "fallback", "release"} =>
           status[wjob] # "succeeded"
    /\ wpc = "waiting" /\ thread[wjob] = "ok" /\ status[wjob] = "running" =>
           artifact[wjob] = "full"
    /\ wpc \in Finishing /\ status[wjob] = "running" => artifact[wjob] = "full"
    /\ \A j \in Jobs : thread[j] = "ok" => wjob = j /\ wpc = "waiting"

\* A file without a key is either excused or about to be dealt with by the worker
\* or the thread that owns it; every remover of a key has removed the file first.
Excusable(j) == artifact[j] # "none" /\ ~hasKey[j] => j \in excused

TrackingInv ==
    /\ NoUntrackedResult
    /\ wpc \in {"claimed", "prepare", "permit", "markfailed", "finallog", "fallback",
               "release"} => Excusable(wjob)
    /\ \A j \in Jobs :
           /\ thread[j] \in Live => status[j] # "succeeded"
           /\ thread[j] \in Live => j \in excused \/ (wjob = j /\ wpc = "waiting")
           /\ dpc[j] # "idle" => j \in retired /\ status[j] \in Terminal \cup {"deleted"}
           /\ (dpc[j] = "row" \/ exp[j] = "removed" \/ (source = "removed" /\ j \in skeys))
                  => artifact[j] = "none" \/ ~hasKey[j] \/ j \in excused
    /\ phase # "up" =>
           /\ \A j \in Jobs : thread[j] = "none" /\ dpc[j] = "idle"
           /\ source \in {"present", "gone"}

-----------------------------------------------------------------------------
(* What the comments and documents say, and the code does not always do.   *)

\* Doc comment of run_claimed_job (workers.rs:179-180): an artifact produced for
\* a job that was canceled meanwhile is cleaned up.
CanceledLeavesNothing ==
    phase = "up" =>
        \A j \in Jobs :
            status[j] = "canceled" /\ ~Owns(j) /\ thread[j] \notin Live
                => artifact[j] = "none"

\* Comment of claim_and_run_job (workers.rs:159-161): an error at any step after
\* the claim must end in a final status, or the job is stuck as running.
EveryErrorSettles ==
    phase = "up" => \A j \in Jobs : status[j] = "running" => Owns(j)

\* docs/15-cross-file-sheet-analysis.md:147: canceling a job sets the cancel mark
\* and interrupts the query, also while its caches are being imported.
CancelReachesQuery ==
    \A j \in Jobs :
        status[j] = "canceled" /\ cpc[j] = "idle" /\ thread[j] \in {"start", "import"}
            => j \in canceled

\* What a user of the API sees: a result is available when the file is complete
\* and the row names it.
VisibleResult ==
    [j \in Jobs |->
        IF status[j] # "succeeded" THEN "none"
        ELSE IF hasKey[j] /\ artifact[j] = "full" THEN "available"
        ELSE "withdrawn"]

Promise == INSTANCE JobPromise
           WITH state <- status, result <- VisibleResult, doomed <- retired

\* The queue implements JobPromise: every step of the worker, the threads, the
\* requests and a restart is a step of the promised life of a job, or none.
PromiseKept == Promise!Spec

=============================================================================
