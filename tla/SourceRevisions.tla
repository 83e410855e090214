--------------------------- MODULE SourceRevisions ---------------------------
(***************************************************************************)
(* Immutable revisions of one data source: refreshes that publish them by  *)
(* compare-and-set under an idempotency key, jobs that pin them, retries   *)
(* that pin them again, the hourly and startup clean-up that removes them, *)
(* and the deletion of the source.                                         *)
(*                                                                         *)
(* A revision is a row of source_revisions and a file of the same name     *)
(* under uploads/.  Rows change in SQLite transactions, files in separate  *)
(* calls; the storage lock keeps refresh, clean-up and deletion apart, but *)
(* not jobs and retries.  Left out: the bytes and the validation of a      *)
(* file, the caches of a candidate, staging, and legacy revisions without  *)
(* a digest.                                                               *)
(***************************************************************************)
EXTENDS Integers, FiniteSets

CONSTANTS
    Revs, Initial, NoRev,     \* revision ids; the one the import registered
    Contents, ContentOfInitial, Gone,
    Keys, ReplaceKeys,        \* idempotency keys; those made up for a replace
    NoKey, NoReceipt,
    Deliveries,               \* concurrent requests that refresh the source
    Jobs, Foreign, NoJob,     \* jobs; those that belong to another source
    Cleaner, Deleter, Nobody, \* holders of the storage lock besides deliveries
    MaxEdits,                 \* bound: edits of the saved query and the tables
    MaxFaults,                \* bound: errors of a transaction or a file call
    MaxCrashes,               \* bound: times the process is killed
    Traffic                   \* which of Kinds happen besides refreshes

ASSUME RevsAssumption == Initial \in Revs /\ NoRev \notin Revs
ASSUME ContentsAssumption == ContentOfInitial \in Contents /\ Gone \notin Contents
ASSUME JobsAssumption == Foreign \subseteq Jobs /\ NoJob \notin Jobs
ASSUME KeysAssumption == ReplaceKeys \subseteq Keys /\ NoKey \notin Keys
ASSUME HoldersAssumption ==
    /\ Cleaner # Deleter /\ Cleaner # Nobody /\ Deleter # Nobody
    /\ {Cleaner, Deleter, Nobody} \cap Deliveries = {}
ASSUME BoundsAssumption ==
    MaxEdits \in Nat /\ MaxFaults \in Nat /\ MaxCrashes \in Nat

\* A saved query that was deleted, or that a replace does without.
Absent == -1

\* A row of source_refresh_runs.
ReceiptType ==
    [content : Contents, query : {Absent} \cup Nat, rev : Revs,
     job : Jobs \cup {NoJob}, changed : BOOLEAN]
ASSUME ReceiptAssumption == NoReceipt \notin ReceiptType

\* Edits of the query and tables, jobs of users and schedules, retries, the hourly
\* clean-up, source deletion, dropped requests.
Kinds == {"edit", "enqueue", "retry", "clean", "delete", "drop"}
ASSUME TrafficAssumption == Traffic \subseteq Kinds

VARIABLES
    current,   \* data_sources.current_revision_id; NoRev once the source is gone
    rows,      \* ids in source_revisions
    files,     \* files under uploads/
    young,     \* files changed within the last hour
    content,   \* the bytes of each revision
    retained,  \* retained_until: "null", "future" or "past"
    receipts,  \* source_refresh_runs by key
    query,     \* saved_queries.updated_at as a version, or Absent
    config,    \* source_tables.config_version
    status, pinned, path,  \* jobs, and job_input_tables: a non-NULL revision, the path
    wjob, wreg,            \* the job the worker runs; is it in worker_jobs
    dlv,       \* the requests that refresh the source
    lock,      \* who holds storage_maintenance_lock
    clean,     \* cleanup_source_revisions
    del,       \* delete_one of the source
    phase, crashes, faults, edits,
    frail,     \* history: jobs enqueued with a NULL revision
    submitted  \* history: jobs enqueued per key

revisionVars == <<current, rows, files, young, content, retained>>
tableVars == <<query, config>>
jobVars == <<status, pinned, path, wjob, wreg, frail>>
boundVars == <<phase, crashes, faults, edits>>
vars == <<revisionVars, receipts, tableVars, jobVars, dlv, lock, clean, del,
          boundVars, submitted>>

Active == {"queued", "running"}
NoDelivery == [pc |-> "idle", key |-> NoKey, content |-> Gone, query |-> Absent,
               base |-> NoRev, config |-> 0, rev |-> NoRev, job |-> NoJob,
               answer |-> NoReceipt]
NoCleaning == [pc |-> "idle", todo |-> {}, at |-> NoRev, keep |-> {}]
NoDeletion == [pc |-> "idle", paths |-> {}]

SourceThere == current # NoRev
StorageBusy == wreg                      \* has_active_storage_users

Init ==
    /\ current = Initial /\ rows = {Initial} /\ files = {Initial}
    /\ young = {}
    /\ content = [r \in Revs |-> ContentOfInitial]
    /\ retained = [r \in Revs |-> "null"]
    /\ receipts = [k \in Keys |-> NoReceipt]
    /\ query = 0 /\ config = 0
    /\ status = [j \in Jobs |-> "none"]
    /\ pinned = {} /\ path = [j \in Jobs |-> NoRev]
    /\ wjob = NoJob /\ wreg = FALSE
    /\ dlv = [d \in Deliveries |-> NoDelivery]
    /\ lock = Nobody /\ clean = NoCleaning /\ del = NoDeletion
    /\ phase = "up" /\ crashes = 0 /\ faults = 0 /\ edits = 0
    /\ frail = {} /\ submitted = [k \in Keys |-> 0]

-----------------------------------------------------------------------------
(* Operators named X_Y are mutants: X with the plausible mistake Y.  No     *)
(* action uses them.                                                       *)

-----------------------------------------------------------------------------
(* refresh_source: one request, from the upload to its answer.             *)

At(d, pc) == phase = "up" /\ dlv[d].pc = pc

Answered(d, receipt) ==
    dlv' = [dlv EXCEPT ![d] =
               [NoDelivery EXCEPT !.key = dlv[d].key, !.content = dlv[d].content,
                                  !.answer = receipt]]

\* The client sends a file, for the first time or again after a lost answer; a
\* replace makes up a key of its own.
Deliver(d) ==
    /\ At(d, "idle") /\ SourceThere
    /\ \E k \in Keys, c \in Contents :
        /\ k \in ReplaceKeys => /\ receipts[k] = NoReceipt
                                /\ \A e \in Deliveries : dlv[e].key # k
        /\ dlv' = [dlv EXCEPT ![d] = [NoDelivery EXCEPT !.pc = "received",
                                                        !.key = k, !.content = c]]
    /\ UNCHANGED <<revisionVars, receipts, tableVars, jobVars, lock, clean, del,
                   boundVars, submitted>>

\* The version of the saved query a request with this key would load now.
QueryFor(k) == IF k \in ReplaceKeys THEN Absent ELSE query

\* A receipt exists: replay it, unless the file or the query is another one.  A
\* query deleted since does not matter.
LookUpFound(d) ==
    LET k == dlv[d].key  found == receipts[k]
    IN  /\ At(d, "received") /\ found # NoReceipt
        /\ IF found.content = dlv[d].content
              /\ (QueryFor(k) # Absent => found.query = QueryFor(k))
           THEN Answered(d, found)
           ELSE Answered(d, NoReceipt)
        /\ UNCHANGED <<revisionVars, receipts, tableVars, jobVars, lock, clean, del,
                       boundVars, submitted>>

LookUpMisses(d) ==
    /\ At(d, "received") /\ receipts[dlv[d].key] = NoReceipt
    /\ dlv' = [dlv EXCEPT ![d].pc = "new"]
    /\ UNCHANGED <<revisionVars, receipts, tableVars, jobVars, lock, clean, del,
                   boundVars, submitted>>

\* load_saved_query, load_source_state and load_existing_tables.
ReadState(d) ==
    LET q == QueryFor(dlv[d].key)
    IN  /\ At(d, "new")
        /\ IF ~SourceThere \/ (q = Absent /\ dlv[d].key \notin ReplaceKeys)
           THEN Answered(d, NoReceipt)
           ELSE dlv' = [dlv EXCEPT ![d].query = q, ![d].base = current,
                            ![d].config = config,
                            ![d].pc = IF content[current] = dlv[d].content
                                      THEN "unchanged" ELSE "waiting"]
        /\ UNCHANGED <<revisionVars, receipts, tableVars, jobVars, lock, clean, del,
                       boundVars, submitted>>

Receipt(d, rev, job, changed) ==
    [content |-> dlv[d].content, query |-> dlv[d].query, rev |-> rev, job |-> job,
     changed |-> changed]

MayConfirm_AnyRevision(d) ==
    /\ SourceThere
    /\ query = dlv[d].query \/ dlv[d].key \in ReplaceKeys
    /\ receipts[dlv[d].key] = NoReceipt

\* The revision it compared with is still current, the query is the one it read
\* and no other delivery has used the key.
MayConfirm(d) ==
    /\ current = dlv[d].base
    /\ query = dlv[d].query \/ dlv[d].key \in ReplaceKeys
    /\ receipts[dlv[d].key] = NoReceipt

\* publish_unchanged_receipt: one transaction, outside the storage lock.
Confirm(d) ==
    LET receipt == Receipt(d, dlv[d].base, NoJob, FALSE)
    IN  /\ At(d, "unchanged") /\ MayConfirm(d)
        /\ receipts' = [receipts EXCEPT ![dlv[d].key] = receipt]
        /\ dlv' = [dlv EXCEPT ![d].pc = "committed", ![d].answer = receipt]
        /\ UNCHANGED <<revisionVars, tableVars, jobVars, lock, clean, del, boundVars,
                       submitted>>

ConfirmMisses(d) ==
    /\ At(d, "unchanged") /\ ~MayConfirm(d)
    /\ dlv' = [dlv EXCEPT ![d].pc = "recheck"]
    /\ UNCHANGED <<revisionVars, receipts, tableVars, jobVars, lock, clean, del,
                   boundVars, submitted>>

\* The lock is taken; ids are made up here or later, which nobody can tell.
Lock(d) ==
    /\ At(d, "waiting") /\ lock = Nobody
    /\ \E r \in Revs, j \in (Jobs \ Foreign) \cup {NoJob} :
        /\ r \notin rows \cup files \cup {path[i] : i \in Jobs}
        /\ retained[r] = "null"
        /\ \A k \in Keys : receipts[k] # NoReceipt => receipts[k].rev # r
        /\ IF dlv[d].key \in ReplaceKeys THEN j = NoJob
                                       ELSE j # NoJob /\ status[j] = "none"
        /\ dlv' = [dlv EXCEPT ![d].pc = "prepare", ![d].rev = r, ![d].job = j]
        /\ content' = [content EXCEPT ![r] = dlv[d].content]
    /\ lock' = d
    /\ UNCHANGED <<current, rows, files, young, retained, receipts, tableVars, jobVars,
                   clean, del, boundVars, submitted>>

\* The whole file is validated and cached, then renamed into uploads/.
Prepare(d) ==
    /\ At(d, "prepare")
    /\ files' = files \cup {dlv[d].rev}
    /\ young' = young \cup {dlv[d].rev}
    /\ dlv' = [dlv EXCEPT ![d].pc = "publish"]
    /\ UNCHANGED <<current, rows, content, retained, receipts, tableVars, jobVars,
                   lock, clean, del, boundVars, submitted>>

\* The file is refused, or no permit or thread finishes in time.
PrepareFails(d) ==
    /\ At(d, "prepare")
    /\ Answered(d, NoReceipt)
    /\ lock' = Nobody
    /\ UNCHANGED <<revisionVars, receipts, tableVars, jobVars, clean, del, boundVars,
                   submitted>>

MayPublish(d) ==
    /\ receipts[dlv[d].key] = NoReceipt
    /\ SourceThere /\ current = dlv[d].base
    /\ config = dlv[d].config
    /\ query = dlv[d].query \/ dlv[d].key \in ReplaceKeys

\* publish_refresh: the revision, the current pointer, the stamp on the previous
\* revision, the tables, the job with its pinned input and the receipt commit in
\* one transaction.
Publish(d) ==
    LET k == dlv[d].key  r == dlv[d].rev  job == dlv[d].job
        receipt == Receipt(d, r, job, TRUE)
    IN  /\ At(d, "publish") /\ MayPublish(d)
        /\ rows' = rows \cup {r}
        /\ current' = r
        /\ retained' = [retained EXCEPT ![current] = IF @ = "null" THEN "future" ELSE @]
        /\ config' = config + 1
        /\ receipts' = [receipts EXCEPT ![k] = receipt]
        /\ IF job = NoJob
           THEN UNCHANGED <<status, pinned, path, submitted>>
           ELSE /\ status' = [status EXCEPT ![job] = "queued"]
                /\ pinned' = pinned \cup {job}
                /\ path' = [path EXCEPT ![job] = r]
                /\ submitted' = [submitted EXCEPT ![k] = @ + 1]
        /\ dlv' = [dlv EXCEPT ![d].pc = "committed", ![d].answer = receipt]
        /\ UNCHANGED <<files, young, content, query, wjob, wreg, frail, lock, clean,
                       del, boundVars>>

PublishMisses(d) ==
    /\ At(d, "publish") /\ ~MayPublish(d)
    /\ dlv' = [dlv EXCEPT ![d].pc = "discard"]
    /\ UNCHANGED <<revisionVars, receipts, tableVars, jobVars, lock, clean, del,
                   boundVars, submitted>>

PublishFault(d) ==
    /\ faults < MaxFaults
    /\ \/ At(d, "publish") /\ dlv' = [dlv EXCEPT ![d].pc = "discard"]
       \/ At(d, "unchanged") /\ dlv' = [dlv EXCEPT ![d].pc = "recheck"]
    /\ faults' = faults + 1
    /\ UNCHANGED <<revisionVars, receipts, tableVars, jobVars, lock, clean, del, phase,
                   crashes, edits, submitted>>

\* The candidate that did not commit is removed.
Discard(d) ==
    /\ At(d, "discard")
    /\ files' = files \ {dlv[d].rev}
    /\ dlv' = [dlv EXCEPT ![d].pc = "recheck"]
    /\ UNCHANGED <<current, rows, young, content, retained, receipts, tableVars,
                   jobVars, lock, clean, del, boundVars, submitted>>

Unlocked(d) == IF lock = d THEN Nobody ELSE lock

Replayable_AnyRequest(d, found) == found # NoReceipt

\* validate_existing_receipt
Replayable(d, found) ==
    found # NoReceipt /\ found.content = dlv[d].content /\ found.query = dlv[d].query

\* Somebody else may have committed this key meanwhile: then that is the answer.
Recheck(d) ==
    LET found == receipts[dlv[d].key]
    IN  /\ At(d, "recheck")
        /\ Answered(d, IF Replayable(d, found) THEN found ELSE NoReceipt)
        /\ lock' = Unlocked(d)
        /\ UNCHANGED <<revisionVars, receipts, tableVars, jobVars, clean, del,
                       boundVars, submitted>>

Reply(d) ==
    /\ At(d, "committed")
    /\ Answered(d, dlv[d].answer)
    /\ lock' = Unlocked(d)
    /\ UNCHANGED <<revisionVars, receipts, tableVars, jobVars, clean, del, boundVars,
                   submitted>>

\* The client goes away: the request stops where it is and its lock is released.
Dropped(d) ==
    /\ "drop" \in Traffic /\ phase = "up" /\ dlv[d].pc # "idle"
    /\ dlv' = [dlv EXCEPT ![d] = NoDelivery]
    /\ lock' = Unlocked(d)
    /\ UNCHANGED <<revisionVars, receipts, tableVars, jobVars, clean, del, boundVars,
                   submitted>>

\* Every step of a request is bounded by a timeout of its own.
Refresh(d) ==
    \/ LookUpFound(d) \/ LookUpMisses(d) \/ ReadState(d) \/ Confirm(d)
    \/ ConfirmMisses(d) \/ Lock(d) \/ Prepare(d) \/ PrepareFails(d) \/ Publish(d)
    \/ PublishMisses(d) \/ Discard(d) \/ Recheck(d) \/ Reply(d)

-----------------------------------------------------------------------------
(* Jobs: they pin the revision that is current when they are enqueued, wait  *)
(* in the queue and are run one at a time.                                 *)

Reserved == {dlv[d].job : d \in Deliveries}

\* snapshot_job_inputs, for a job a user or a schedule enqueues.
Enqueue(j) ==
    /\ "enqueue" \in Traffic /\ phase = "up" /\ SourceThere
    /\ status[j] = "none" /\ j \notin Reserved
    /\ status' = [status EXCEPT ![j] = "queued"]
    /\ pinned' = pinned \cup {j}
    /\ path' = [path EXCEPT ![j] = current]
    /\ UNCHANGED <<revisionVars, receipts, tableVars, wjob, wreg, frail, dlv, lock,
                   clean, del, boundVars, submitted>>

\* retry: one transaction; only a revision that is not NULL must have its row (and
\* is stamped anew, even one that is still current), and the file must exist.
Retry(i, j) ==
    LET r == path[i]
    IN  /\ "retry" \in Traffic /\ phase = "up"
        /\ status[i] = "done" /\ status[j] = "none" /\ j \notin Reserved
        /\ i \in Foreign <=> j \in Foreign
        /\ i \in pinned => r \in rows
        /\ r \in files
        /\ retained' = IF i \in pinned
                       THEN [retained EXCEPT ![r] = "future"] ELSE retained
        /\ status' = [status EXCEPT ![j] = "queued"]
        /\ path' = [path EXCEPT ![j] = r]
        /\ pinned' = IF i \in pinned THEN pinned \cup {j} ELSE pinned
        /\ frail' = IF i \in pinned THEN frail ELSE frail \cup {j}
        /\ UNCHANGED <<current, rows, files, young, content, receipts, tableVars, wjob,
                       wreg, dlv, lock, clean, del, boundVars, submitted>>

CancelJob(j) ==
    /\ phase = "up" /\ status[j] \in Active
    /\ status' = [status EXCEPT ![j] = "done"]
    /\ UNCHANGED <<revisionVars, receipts, tableVars, pinned, path, wjob, wreg, frail,
                   dlv, lock, clean, del, boundVars, submitted>>

Claim(j) ==
    /\ phase = "up" /\ wjob = NoJob /\ status[j] = "queued"
    /\ wjob' = j
    /\ status' = [status EXCEPT ![j] = "running"]
    /\ UNCHANGED <<revisionVars, receipts, tableVars, pinned, path, wreg, frail, dlv,
                   lock, clean, del, boundVars, submitted>>

Register ==
    /\ phase = "up" /\ wjob # NoJob /\ ~wreg
    /\ wreg' = TRUE
    /\ UNCHANGED <<revisionVars, receipts, tableVars, status, pinned, path, wjob,
                   frail, dlv, lock, clean, del, boundVars, submitted>>

Finish ==
    /\ phase = "up" /\ wjob # NoJob /\ wreg
    /\ status[wjob] = "running"
    /\ status' = [status EXCEPT ![wjob] = "done"]
    /\ UNCHANGED <<revisionVars, receipts, tableVars, pinned, path, wjob, wreg, frail,
                   dlv, lock, clean, del, boundVars, submitted>>

Release_KeepsGuard ==
    /\ phase = "up" /\ wjob # NoJob /\ wreg
    /\ status[wjob] # "running"
    /\ wjob' = NoJob
    /\ UNCHANGED <<revisionVars, receipts, tableVars, status, pinned, path, wreg,
                   frail, dlv, lock, clean, del, boundVars, submitted>>

Release ==
    /\ phase = "up" /\ wjob # NoJob /\ wreg
    /\ status[wjob] # "running"
    /\ wjob' = NoJob /\ wreg' = FALSE
    /\ UNCHANGED <<revisionVars, receipts, tableVars, status, pinned, path, frail, dlv,
                   lock, clean, del, boundVars, submitted>>

Worker == Register \/ Finish \/ Release \/ \E j \in Jobs : Claim(j)

-----------------------------------------------------------------------------
(* cleanup_source_revisions, hourly and at startup.                        *)

CleanerAt(pc) == phase \in {"up", "starting"} /\ clean.pc = pc

MayRemove_NeededByJob(r) == retained[r] = "past" /\ r # current

MayRemove_Current(r) ==
    /\ retained[r] = "past"
    /\ ~\E j \in pinned : path[j] = r /\ status[j] \in Active

\* Retention is over, the revision is not current and no active job needs it.
MayRemove(r) ==
    /\ retained[r] = "past"
    /\ r # current
    /\ ~\E j \in pinned : path[j] = r /\ status[j] \in Active

CleanBegin ==
    /\ "clean" \in Traffic /\ CleanerAt("idle") /\ phase = "up" /\ ~StorageBusy
    /\ clean' = [clean EXCEPT !.pc = "waiting"]
    /\ UNCHANGED <<revisionVars, receipts, tableVars, jobVars, dlv, lock, del,
                   boundVars, submitted>>

\* The lock is taken; if a job has started meanwhile the pass is skipped.
CleanLock ==
    /\ CleanerAt("waiting") /\ lock = Nobody
    /\ IF StorageBusy
       THEN clean' = NoCleaning /\ UNCHANGED lock
       ELSE /\ clean' = [clean EXCEPT !.pc = "rows",
                                      !.todo = {r \in rows : MayRemove(r)}]
            /\ lock' = Cleaner
    /\ UNCHANGED <<revisionVars, receipts, tableVars, jobVars, dlv, del, boundVars,
                   submitted>>

\* DELETE with the same guards; the foreign key sets pins on the row to NULL.
CleanRow(r) ==
    /\ CleanerAt("rows") /\ r \in clean.todo
    /\ IF MayRemove(r)
       THEN /\ rows' = rows \ {r}
            /\ pinned' = {j \in pinned : path[j] # r}
            /\ clean' = [clean EXCEPT !.pc = "file", !.todo = @ \ {r}, !.at = r]
       ELSE /\ clean' = [clean EXCEPT !.todo = @ \ {r}]
            /\ UNCHANGED <<rows, pinned>>
    /\ UNCHANGED <<current, files, young, content, retained, receipts, tableVars,
                   status, path, wjob, wreg, frail, dlv, lock, del, boundVars,
                   submitted>>

CleanFile ==
    /\ CleanerAt("file")
    /\ files' = files \ {clean.at}
    /\ clean' = [clean EXCEPT !.pc = "rows", !.at = NoRev]
    /\ UNCHANGED <<current, rows, young, content, retained, receipts, tableVars,
                   jobVars, dlv, lock, del, boundVars, submitted>>

CleanScan ==
    /\ CleanerAt("rows") /\ clean.todo = {}
    /\ clean' = [clean EXCEPT !.pc = "listed", !.keep = rows]
    /\ UNCHANGED <<revisionVars, receipts, tableVars, jobVars, dlv, lock, del,
                   boundVars, submitted>>

\* No row names the file and nobody has written it for an hour.
Orphaned(r) == r \notin clean.keep /\ r \notin young

CleanOrphans ==
    /\ CleanerAt("listed")
    /\ files' = {r \in files : ~Orphaned(r)}
    /\ clean' = NoCleaning
    /\ lock' = Nobody
    /\ phase' = "up"
    /\ UNCHANGED <<current, rows, young, content, retained, receipts, tableVars,
                   jobVars, dlv, del, crashes, faults, edits, submitted>>

\* A statement or a removal fails: the pass ends, at startup the server with it.
CleanFails ==
    /\ faults < MaxFaults
    /\ CleanerAt("rows") \/ CleanerAt("file") \/ CleanerAt("listed")
    /\ clean' = NoCleaning
    /\ lock' = Nobody
    /\ phase' = IF phase = "starting" THEN "down" ELSE phase
    /\ faults' = faults + 1
    /\ UNCHANGED <<revisionVars, receipts, tableVars, jobVars, dlv, del, crashes,
                   edits, submitted>>

Clean ==
    \/ CleanBegin \/ CleanFile \/ CleanScan \/ CleanOrphans
    \/ \E r \in Revs : CleanRow(r)

-----------------------------------------------------------------------------
(* delete_one of the data source.                                          *)

DeletionAt(pc) == phase = "up" /\ del.pc = pc

DeleteLock ==
    /\ "delete" \in Traffic /\ DeletionAt("idle") /\ SourceThere
    /\ lock = Nobody
    /\ lock' = Deleter
    /\ del' = [pc |-> "locked", paths |-> rows]
    /\ UNCHANGED <<revisionVars, receipts, tableVars, jobVars, dlv, clean, boundVars,
                   submitted>>

\* Revisions, receipts, tables and the source's own jobs go with the row; the
\* inputs of other sources' jobs lose their revision.
DeleteRow ==
    /\ DeletionAt("locked")
    /\ rows' = {} /\ current' = NoRev
    /\ receipts' = [k \in Keys |-> NoReceipt]
    /\ query' = Absent
    /\ status' = [j \in Jobs |-> IF j \in Foreign \/ status[j] = "none"
                                 THEN status[j] ELSE "deleted"]
    /\ pinned' = {}
    /\ path' = [j \in Jobs |-> IF j \in Foreign THEN path[j] ELSE NoRev]
    /\ del' = [del EXCEPT !.pc = "files"]
    /\ UNCHANGED <<files, young, content, retained, config, wjob, wreg, frail, dlv,
                   lock, clean, boundVars, submitted>>

DeleteFiles ==
    /\ DeletionAt("files")
    /\ files' = files \ del.paths
    /\ del' = NoDeletion
    /\ lock' = Nobody
    /\ UNCHANGED <<current, rows, young, content, retained, receipts, tableVars,
                   jobVars, dlv, clean, boundVars, submitted>>

DeletionDropped ==
    /\ "drop" \in Traffic /\ phase = "up" /\ del.pc # "idle"
    /\ del' = NoDeletion
    /\ lock' = Nobody
    /\ UNCHANGED <<revisionVars, receipts, tableVars, jobVars, dlv, clean, boundVars,
                   submitted>>

-----------------------------------------------------------------------------
(* Edits, time, kill and restart.                                          *)

Edit ==
    /\ "edit" \in Traffic /\ phase = "up" /\ SourceThere
    /\ edits < MaxEdits
    /\ edits' = edits + 1
    /\ \/ query # Absent /\ query' \in {query + 1, Absent} /\ UNCHANGED config
       \/ config' = config + 1 /\ UNCHANGED query
    /\ UNCHANGED <<revisionVars, receipts, jobVars, dlv, lock, clean, del, phase,
                   crashes, faults, submitted>>

HourPasses ==
    /\ young # {}
    /\ young' = {}
    /\ UNCHANGED <<current, rows, files, content, retained, receipts, tableVars,
                   jobVars, dlv, lock, clean, del, boundVars, submitted>>

RetentionEnds(r) ==
    /\ retained[r] = "future"
    /\ retained' = [retained EXCEPT ![r] = "past"]
    /\ UNCHANGED <<current, rows, files, young, content, receipts, tableVars, jobVars,
                   dlv, lock, clean, del, boundVars, submitted>>

Crash ==
    /\ crashes < MaxCrashes
    /\ phase' = "down"
    /\ crashes' = crashes + 1
    /\ dlv' = [d \in Deliveries |-> NoDelivery]
    /\ lock' = Nobody /\ clean' = NoCleaning /\ del' = NoDeletion
    /\ wjob' = NoJob /\ wreg' = FALSE
    /\ UNCHANGED <<revisionVars, receipts, tableVars, status, pinned, path, frail,
                   faults, edits, submitted>>

\* Running jobs fail, the current revision is verified, then clean-up begins.
Start ==
    /\ phase = "down"
    /\ SourceThere => current \in rows \cap files
    /\ phase' = "starting"
    /\ status' = [j \in Jobs |-> IF status[j] = "running" THEN "done" ELSE status[j]]
    /\ clean' = [clean EXCEPT !.pc = "waiting"]
    /\ UNCHANGED <<revisionVars, receipts, tableVars, pinned, path, wjob, wreg, frail,
                   dlv, lock, del, crashes, faults, edits, submitted>>

-----------------------------------------------------------------------------
Next ==
    \/ \E d \in Deliveries : Deliver(d) \/ Refresh(d) \/ PublishFault(d) \/ Dropped(d)
    \/ \E j \in Jobs : Enqueue(j) \/ CancelJob(j) \/ \E i \in Jobs : Retry(i, j)
    \/ Worker
    \/ Clean \/ CleanLock \/ CleanFails
    \/ DeleteLock \/ DeleteRow \/ DeleteFiles \/ DeletionDropped
    \/ Edit \/ HourPasses \/ \E r \in Revs : RetentionEnds(r)
    \/ Crash \/ Start

Spec == Init /\ [][Next]_vars

\* Handlers and workers keep moving, time passes, a killed server is started
\* again, and the storage lock, a FIFO mutex, does not pass the cleaner over.
Fairness ==
    /\ \A d \in Deliveries : WF_vars(Refresh(d))
    /\ WF_vars(Worker)
    /\ WF_vars(Clean) /\ SF_vars(CleanLock)
    /\ WF_vars(DeleteRow \/ DeleteFiles)
    /\ WF_vars(HourPasses)
    /\ WF_vars(Start)

FairSpec == Spec /\ Fairness

-----------------------------------------------------------------------------
(* Properties.                                                             *)

\* Every variable has its type.
TypeOK ==
    /\ current \in Revs \cup {NoRev}
    /\ rows \subseteq Revs /\ files \subseteq Revs /\ young \subseteq Revs
    /\ content \in [Revs -> Contents]
    /\ retained \in [Revs -> {"null", "future", "past"}]
    /\ receipts \in [Keys -> ReceiptType \cup {NoReceipt}]
    /\ query \in {Absent} \cup Nat /\ config \in Nat
    /\ status \in [Jobs -> {"none", "done", "deleted"} \cup Active]
    /\ pinned \subseteq Jobs /\ frail \subseteq Jobs
    /\ path \in [Jobs -> Revs \cup {NoRev}]
    /\ wjob \in Jobs \cup {NoJob} /\ wreg \in BOOLEAN
    /\ wreg => wjob \in Jobs
    /\ dlv \in [Deliveries ->
          [pc : {"idle", "received", "new", "unchanged", "waiting", "prepare",
                 "publish", "committed", "discard", "recheck"},
           key : Keys \cup {NoKey}, content : Contents \cup {Gone},
           query : {Absent} \cup Nat, base : Revs \cup {NoRev}, config : Nat,
           rev : Revs \cup {NoRev}, job : Jobs \cup {NoJob},
           answer : ReceiptType \cup {NoReceipt}]]
    /\ lock \in Deliveries \cup {Cleaner, Deleter, Nobody}
    /\ clean \in [pc : {"idle", "waiting", "rows", "file", "listed"},
                  todo : SUBSET Revs, at : Revs \cup {NoRev}, keep : SUBSET Revs]
    /\ del \in [pc : {"idle", "locked", "files"}, paths : SUBSET Revs]
    /\ phase \in {"up", "down", "starting"}
    /\ crashes \in 0..MaxCrashes /\ faults \in 0..MaxFaults /\ edits \in 0..MaxEdits
    /\ submitted \in [Keys -> Nat]

\* The source can always be read, and the server can always start: no refresh
\* that fails, is dropped or killed half way, no clean-up and no retry ever takes
\* the row or the file of the current revision.
CurrentUsable == SourceThere => current \in rows /\ current \in files

\* A queued or running job that pinned a revision when it was enqueued keeps the
\* row and the file until it ends or the source is deleted, however many
\* refreshes, clean-ups and restarts it waits through.
PinnedInputKept ==
    SourceThere =>
        \A j \in Jobs : status[j] \in Active /\ j \notin frail =>
            j \in pinned /\ path[j] \in rows /\ path[j] \in files

\* An answer is the receipt on record, for the file the client sent: a delivery
\* that lost a race to another one with its key is answered by that one's
\* receipt or not at all.
AnswersAgree ==
    \A d \in Deliveries :
        LET a == dlv[d].answer
        IN  SourceThere /\ a # NoReceipt =>
                a = receipts[dlv[d].key] /\ a.content = dlv[d].content

\* A file no row names goes away, whoever left it.
OrphansGo ==
    \A r \in Revs : r \in files \ rows ~> r \notin files \ rows

\* Doc comment of cleanup_source_revisions (maintenance.rs:191-192): inputs
\* needed by queued and running jobs win over retention.
QueuedInputKept ==
    \A j \in Jobs : status[j] \in Active => path[j] \in files

-----------------------------------------------------------------------------
(* What makes the safety properties inductive (used by the proofs).        *)

Holding == {"prepare", "publish", "discard"}
Comparing == {"unchanged", "waiting", "prepare", "publish"}

\* What a request carries is set by the time a step uses it.
CarriesInv ==
    \A d \in Deliveries :
        /\ dlv[d].pc # "idle" \/ dlv[d].answer # NoReceipt =>
               dlv[d].key \in Keys /\ dlv[d].content \in Contents
        /\ dlv[d].pc \in Comparing => dlv[d].base \in Revs
        /\ dlv[d].pc \in Holding => dlv[d].rev \in Revs

\* Whoever is between taking the storage lock and giving it back holds it.
HolderInv ==
    /\ \A d \in Deliveries : dlv[d].pc \in Holding => lock = d
    /\ clean.pc \in {"rows", "file", "listed"} => lock = Cleaner
    /\ del.pc # "idle" => lock = Deleter

\* Every row has its file, and what the holder of the lock is about to remove
\* has no row.
StorageInv ==
    /\ rows \subseteq files
    /\ IF SourceThere THEN current \in rows ELSE rows = {}
    /\ \A d \in Deliveries :
           /\ dlv[d].pc \in Holding => dlv[d].rev \notin rows
           /\ dlv[d].pc = "publish" => dlv[d].rev \in files
    /\ clean.pc = "file" => clean.at \notin rows
    /\ clean.pc = "listed" => rows \subseteq clean.keep
    /\ del.pc = "files" => ~SourceThere

\* What a request learned of the revision it compared its file with stays true
\* while that is current; a revision once superseded is stamped and is never
\* taken for a new one, so a stale comparison is noticed.
CompareInv ==
    SourceThere =>
        /\ \A d \in Deliveries :
               /\ dlv[d].pc \in Holding => retained[dlv[d].rev] = "null"
               /\ dlv[d].pc \in {"prepare", "publish"} =>
                      content[dlv[d].rev] = dlv[d].content
               /\ dlv[d].pc \in Comparing =>
                      IF dlv[d].base = current
                      THEN dlv[d].pc = "unchanged" <=> content[current] = dlv[d].content
                      ELSE retained[dlv[d].base] # "null"
        /\ \A k \in Keys : receipts[k] = NoReceipt => submitted[k] = 0

-----------------------------------------------------------------------------
Promise == INSTANCE RefreshPromise
           WITH InitialContent <- ContentOfInitial,
                data <- IF SourceThere THEN content[current] ELSE Gone,
                promised <- [k \in Keys |->
                    IF receipts[k] = NoReceipt THEN NoReceipt
                    ELSE [content |-> receipts[k].content,
                          changed |-> receipts[k].changed]],
                submitted <- submitted

\* Publishing implements RefreshPromise: one effect and one job per key, and a
\* receipt that says "unchanged" only of the bytes the source then offered.
RefreshPromiseKept == Promise!Spec

=============================================================================
