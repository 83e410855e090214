----------------------------- MODULE Collector -----------------------------
(***************************************************************************)
(* The desktop collector: it watches local files and publishes them to the *)
(* server, by refresh receipts ("saved_query") or by the older replace and *)
(* trigger ("legacy_schedule").                                            *)
(*                                                                         *)
(* A file source is a record of file-sources.json; every mutation of the   *)
(* store is one atomic step (a queue, then a rename).  A run reads the     *)
(* record, resumes the staged snapshot of its attempt or scans and copies  *)
(* the newest file, and uploads it.  Runs of one source coalesce, runs     *)
(* for one target queue.  Between two awaits of a run the user may edit,   *)
(* pause or delete the source, the file may be written again, and the      *)
(* process may be killed; a request whose answer was lost may still reach  *)
(* the server later.                                                       *)
(*                                                                         *)
(* A file is a number: the how-manieth version anyone wrote.  The server   *)
(* is what the collector knows of it: the file each target holds, and the  *)
(* receipts by idempotency key (SourceRevisions models its inside), and    *)
(* what it refuses for good: a file its tables do not fit, a key spent on  *)
(* another file or query or on the query before its author changed it, a   *)
(* query that reads other tables by now, and what was deleted.  Left out:  *)
(* the store of an older version (Init has none to convert), run           *)
(* histories, events for the window, and the time arithmetic of cron.  The *)
(* map from actions to code is in README.md.                               *)
(***************************************************************************)
EXTENDS Naturals, Sequences

CONSTANTS
    Sources,     \* file sources of the desktop
    Configs,     \* what the user may configure a source to be
    Keys,        \* attempt ids, used as idempotency keys
    NoKey, NoConfig,
    Mishaps,     \* what may go wrong (see MishapKinds)
    MaxWrites,   \* bound: versions ever written
    MaxEdits,    \* bound: edits and deletions
    MaxCrashes,  \* bound: times the desktop is killed
    MaxMishaps,  \* bound: mishaps
    MaxTroubles  \* bound: edits, deletions, crashes and mishaps together

MishapKinds == {"scan", "copy", "vanish", "network", "late", "login",
                "workspace", "refuse", "trigger", "unfit", "revise", "delete"}
Modes == {"saved_query", "legacy_schedule"}
Directories == {c.directory : c \in Configs}
Targets == {c.target : c \in Configs}
Queries == {c.query : c \in Configs}

ASSUME ConfigsAssumption ==
    /\ NoConfig \notin Configs
    /\ \A c \in Configs : /\ DOMAIN c = {"mode", "directory", "target", "query"}
                          /\ c.mode \in Modes
ASSUME KeysAssumption == NoKey \notin Keys
ASSUME MishapsAssumption == Mishaps \subseteq MishapKinds
ASSUME BoundsAssumption == 
    {MaxWrites, MaxEdits, MaxCrashes, MaxMishaps, MaxTroubles} \subseteq Nat

VARIABLES
    disk,      \* the newest matching file of each directory, 0: none
    store,     \* file-sources.json
    enabled,   \* its sources that are not paused
    staged,    \* snapshots a run may still read, by attempt and content
    run,       \* Collector#active: the run of each source
    queue,     \* Collector#targetQueues: sources in line for each target
    held,      \* the file each target holds
    receipts,  \* the server's refresh receipts
    given,     \* history: the files each target has been given
    late,      \* requests whose sender gave up
    refusing,  \* what it refuses for good (see RefusingType)
    written, edits, crashes, mishaps

localVars == <<store, enabled, staged, run, queue>>
serverVars == <<held, receipts, given, late, refusing>>
boundVars == <<written, edits, crashes, mishaps>>
vars == <<disk, localVars, serverVars, boundVars>>

Files == 0..MaxWrites
Phases == {"copying", "waiting", "uploading", "publishing", "needs_login",
           "needs_attention"}
RunPc == {"idle", "queued", "checking", "scanning", "copying", "snapshot",
          "waiting", "staged", "skipping", "identify", "publishing", "open",
          "sending", "trigger", "removing", "record",
          "uploading", "needs_login", "needs_attention"}

\* No attempt: one without a key.  staged is the content its snapshot holds, 0
\* when there is none.
AttemptType == [key : Keys \cup {NoKey}, staged : Files, phase : Phases]
NoAttempt == [key |-> NoKey, staged |-> 0, phase |-> "copying"]
\* A recorded outcome: the file it was about and whether rows were imported.
OutcomeType == [status : {"none", "success", "skipped", "failed"}, file : Files,
                imported : BOOLEAN]
NoOutcome == [status |-> "none", file |-> 0, imported |-> FALSE]
SourceType == [config : Configs \cup {NoConfig}, attempt : AttemptType,
               applied : Files, last : OutcomeType]
Deleted == [config |-> NoConfig, attempt |-> NoAttempt, applied |-> 0,
            last |-> NoOutcome]

\* source and current are the records the run holds: what it read first, and
\* what its last mutation returned.
NoRun == [pc |-> "idle", target |-> NoConfig, source |-> Deleted, current |-> Deleted,
          key |-> NoKey, file |-> 0, outcome |-> NoOutcome]

ReceiptType == [target : Targets, key : Keys, query : Queries, file : Files,
                job : BOOLEAN]

\* Files the tables of no target fit; targets and keys whose receipt is older
\* than its query; queries that read no table of a target; deleted queries and
\* targets.
RefusingType == [files : SUBSET Files, keys : SUBSET (Targets \X Keys),
                 unbound : SUBSET Queries, queries : SUBSET Queries,
                 targets : SUBSET Targets]
Welcome == [files |-> {}, keys |-> {}, unbound |-> {}, queries |-> {}, targets |-> {}]

Init ==
    /\ disk = [d \in Directories |-> 0]
    /\ store = [s \in Sources |-> Deleted] /\ enabled = {}
    /\ staged = {}
    /\ run = [s \in Sources |-> NoRun]
    /\ queue = [t \in Targets |-> <<>>]
    /\ held = [t \in Targets |-> 0] /\ receipts = {} /\ given = {} /\ late = {}
    /\ refusing = Welcome
    /\ written = 0 /\ edits = 0 /\ crashes = 0 /\ mishaps = 0

At(s, pc) == run[s].pc = pc
Saved(s) == run[s].source.config.mode = "saved_query"
Snapshot(s) == <<run[s].key, run[s].file>>

Goes(s, pc) == run' = [run EXCEPT ![s].pc = pc]
\* The promise of the run settles: the next in line for the target may start.
Ends(s) ==
    /\ run' = [run EXCEPT ![s] = NoRun]
    /\ queue' = [queue EXCEPT ![run[s].target] = Tail(@)]

\* One mutation of the store by a run.  It throws when the source is gone, and
\* the mutation that would note the error throws as well.
Saves(s, record, pc) ==
    IF store[s].config = NoConfig THEN Ends(s) /\ UNCHANGED store
    ELSE /\ store' = [store EXCEPT ![s] = record]
         /\ run' = [run EXCEPT ![s].current = record, ![s].pc = pc]
         /\ UNCHANGED queue
SavesLast(s, record) ==
    /\ store' = IF store[s].config = NoConfig THEN store
                ELSE [store EXCEPT ![s] = record]
    /\ Ends(s)
Attempt_UnknownPhase(s, file, phase) ==
    [store[s] EXCEPT !.attempt = [key |-> run[s].key, staged |-> file, phase |-> run[s].pc]]
Attempt(s, file, phase) ==
    [store[s] EXCEPT !.attempt = [key |-> run[s].key, staged |-> file, phase |-> phase]]

InBounds == edits + crashes + mishaps < MaxTroubles
Strikes(kind) ==
    /\ kind \in Mishaps /\ mishaps < MaxMishaps /\ InBounds
    /\ mishaps' = mishaps + 1
Mishap(kind) == Strikes(kind) /\ UNCHANGED <<written, edits, crashes>>

----------------------------------------------------------------------------
\* Reaching the file

\* runNow, by the user, a tick of the scheduler, or recover at startup: a run
\* under way is shared.
Launch(s) ==
    /\ At(s, "idle") /\ store[s].config # NoConfig
    /\ LET t == store[s].config.target
       IN  /\ run' = [run EXCEPT ![s].pc = "queued", ![s].target = t]
           /\ queue' = [queue EXCEPT ![t] = Append(@, s)]
    /\ UNCHANGED <<disk, store, enabled, staged, serverVars, boundVars>>

Reads(s, record, pc) ==
    run' = [run EXCEPT ![s].pc = pc, ![s].source = record, ![s].current = record]

Execute(s) ==
    /\ At(s, "queued") /\ Head(queue[run[s].target]) = s
    /\ IF store[s].config = NoConfig THEN Ends(s)
       ELSE /\ Reads(s, store[s],
                     IF store[s].attempt.staged = 0 THEN "scanning" ELSE "checking")
            /\ UNCHANGED queue
    /\ UNCHANGED <<disk, store, enabled, staged, serverVars, boundVars>>

\* What a run does with a snapshot, by the record it holds: skip the file that
\* was last applied; publish it; or, when the older recipe replaced the file
\* and failed to trigger the schedules, trigger them only.
Plan(source, current, file) ==
    LET done == current.last.status \in {"success", "skipped"}
        saved == source.config.mode = "saved_query"
        replaced == /\ current.last.status = "failed" /\ current.last.file = file
                    /\ current.last.imported
    IN  IF current.applied = file /\ (saved \/ done) THEN "skipping"
        ELSE IF saved THEN "identify"
        ELSE IF replaced THEN "publishing" ELSE "open"

\* The run holds the snapshot of file under key, and goes by record r.
Holds(s, key, file, r) ==
    LET next == Plan(run[s].source, r, file)
    IN  run' = [run EXCEPT ![s] = [@ EXCEPT
            !.pc = next, !.current = r, !.key = key, !.file = file,
            !.outcome.imported = next = "publishing"]]

\* The staged snapshot of the attempt is there, or it is lost: the attempt
\* keeps its key and scans again.
Resume(s) ==
    LET a == run[s].current.attempt
    IN  /\ At(s, "checking") /\ <<a.key, a.staged>> \in staged
        /\ Holds(s, a.key, a.staged, run[s].current)
        /\ UNCHANGED <<disk, store, enabled, staged, queue, serverVars, boundVars>>

Restage_Throws(s) ==
    LET a == run[s].current.attempt
    IN  /\ At(s, "checking") /\ <<a.key, a.staged>> \notin staged
        /\ Ends(s)
        /\ UNCHANGED <<disk, store, enabled, staged, serverVars, boundVars>>

Restage(s) ==
    LET a == run[s].current.attempt
        record == [store[s] EXCEPT !.attempt = [a EXCEPT !.staged = 0, !.phase = "copying"]]
    IN  /\ At(s, "checking") /\ <<a.key, a.staged>> \notin staged
        /\ IF store[s].config = NoConfig THEN Ends(s) /\ UNCHANGED store
           ELSE /\ store' = [store EXCEPT ![s] = record]
                /\ Reads(s, record, "scanning") /\ UNCHANGED queue
        /\ UNCHANGED <<disk, enabled, staged, serverVars, boundVars>>

\* A fresh UUID: one that no record, file or request mentions.
Fresh(k) ==
    /\ \A s \in Sources : store[s].attempt.key # k /\ run[s].key # k
    /\ \A snap \in staged : snap[1] # k
    /\ \A r \in receipts \cup late : r.key # k

Scan(s) ==
    LET kept == run[s].source.attempt.key
        key == IF kept # NoKey THEN kept ELSE CHOOSE k \in Keys : Fresh(k)
    IN  /\ At(s, "scanning") /\ disk[run[s].source.config.directory] # 0
        /\ kept = NoKey => \E k \in Keys : Fresh(k)
        /\ run' = [run EXCEPT ![s].pc = "copying", ![s].key = key]
        /\ UNCHANGED <<disk, store, enabled, staged, queue, serverVars, boundVars>>

Fails(s, file, imported) ==
    run' = [run EXCEPT ![s].pc = "record",
                ![s].outcome = [status |-> "failed", file |-> file, imported |-> imported]]

ScanFails(s) ==
    /\ At(s, "scanning")
    /\ \/ disk[run[s].source.config.directory] = 0 /\ UNCHANGED boundVars
       \/ Mishap("scan")
    /\ Fails(s, run[s].source.applied, FALSE)
    /\ UNCHANGED <<disk, store, enabled, staged, queue, serverVars>>

NoteCopying(s) ==
    /\ At(s, "copying") /\ Saves(s, Attempt(s, 0, "copying"), "snapshot")
    /\ UNCHANGED <<disk, enabled, staged, serverVars, boundVars>>

\* createStableFileSnapshot: the file has settled and is copied; it is too
\* recent, changes or is busy; or it is gone, which ends the run.
Copy(s) ==
    LET file == disk[run[s].source.config.directory]
    IN  /\ At(s, "snapshot")
        /\ run' = [run EXCEPT ![s].pc = "staged", ![s].file = file]
        /\ staged' = staged \cup {<<run[s].key, file>>}
        /\ UNCHANGED <<disk, store, enabled, queue, serverVars, boundVars>>
CopyWaits(s) ==
    /\ At(s, "snapshot") /\ Mishap("copy") /\ Goes(s, "waiting")
    /\ UNCHANGED <<disk, store, enabled, staged, queue, serverVars>>
CopyFails(s) ==
    /\ At(s, "snapshot") /\ Mishap("vanish") /\ Ends(s)
    /\ UNCHANGED <<disk, store, enabled, staged, serverVars>>

\* The attempt the run started from never had a snapshot.
NoteWaiting(s) ==
    /\ At(s, "waiting") /\ SavesLast(s, Attempt(s, 0, "waiting"))
    /\ UNCHANGED <<disk, enabled, staged, serverVars, boundVars>>

NoteStaged(s) ==
    LET record == Attempt(s, run[s].file, "uploading")
    IN  /\ At(s, "staged")
        /\ IF store[s].config = NoConfig THEN Ends(s) /\ UNCHANGED store
           ELSE /\ store' = [store EXCEPT ![s] = record]
                /\ Holds(s, run[s].key, run[s].file, record) /\ UNCHANGED queue
        /\ UNCHANGED <<disk, enabled, staged, serverVars, boundVars>>

----------------------------------------------------------------------------
\* Publishing it

\* An unchanged file: its snapshot is removed; one that is gone throws.
Skip(s) ==
    /\ At(s, "skipping")
    /\ IF Snapshot(s) \in staged
       THEN /\ run' = [run EXCEPT ![s].pc = "record",
                           ![s].outcome = [status |-> "skipped", file |-> run[s].file,
                                           imported |-> FALSE]]
            /\ UNCHANGED queue
       ELSE Ends(s)
    /\ staged' = staged \ {Snapshot(s)}
    /\ UNCHANGED <<disk, store, enabled, serverVars, boundVars>>

\* getIdentity: the workspace is the one the source is bound to, or it is not,
\* or the session has expired, or nobody answers.
Identify(s) ==
    /\ At(s, "identify")
    /\ \/ Goes(s, "publishing") /\ UNCHANGED boundVars
       \/ Mishap("workspace") /\ Goes(s, "needs_attention")
       \/ Mishap("login") /\ Goes(s, "needs_login")
       \/ Mishap("network") /\ Goes(s, "uploading")
    /\ UNCHANGED <<disk, store, enabled, staged, queue, serverVars>>

\* Before the upload of a saved query; in the older recipe before the triggers.
NotePublishing(s) ==
    /\ At(s, "publishing")
    /\ Saves(s, Attempt(s, run[s].file, "publishing"),
             IF Saved(s) THEN "open" ELSE "trigger")
    /\ UNCHANGED <<disk, enabled, staged, serverVars, boundVars>>

\* An error of the upload: a saved query keeps its attempt in the phase that
\* tells why; the older recipe records a failed run.
GivesUp(s, phase) ==
    IF Saved(s) THEN Goes(s, phase)
    ELSE Fails(s, run[s].file, run[s].outcome.imported)

OpenSnapshot(s) ==
    /\ At(s, "open")
    /\ IF Snapshot(s) \in staged THEN Goes(s, "sending") ELSE GivesUp(s, "uploading")
    /\ UNCHANGED <<disk, store, enabled, staged, queue, serverVars, boundVars>>

\* The request of a run: the target of the record the run holds now, the query
\* of the record it started from.  Without a key it is a replace.
Request(s) ==
    [target |-> run[s].current.config.target, query |-> run[s].source.config.query,
     file |-> run[s].file, key |-> IF Saved(s) THEN run[s].key ELSE NoKey]

\* The server.  A key it has a receipt for is answered from the receipt.  It
\* conflicts when it comes with another file or query, or when the query was
\* changed since; a query that was deleted is not compared.
ReceiptsFor(q) == {r \in receipts : r.target = q.target /\ r.key = q.key}
Conflicts(q) == \E r \in ReceiptsFor(q) :
    \/ r.file # q.file \/ r.query # q.query
    \/ <<r.target, r.key>> \in refusing.keys /\ q.query \notin refusing.queries
\* Refused whenever it comes.  A file the target holds is not looked into.
Barred(q) ==
    LET asks(queries) == q.key # NoKey /\ q.query \in queries
    IN  \/ q.target \in refusing.targets
        \/ IF ReceiptsFor(q) # {} THEN Conflicts(q)
           ELSE \/ asks(refusing.queries)
                \/ /\ held[q.target] # q.file
                   /\ q.file \in refusing.files \/ asks(refusing.unbound)
Receives(q) ==
    IF ReceiptsFor(q) # {} \/ Barred(q) THEN UNCHANGED <<held, receipts, given>>
    ELSE /\ held' = [held EXCEPT ![q.target] = q.file]
         /\ given' = given \cup {<<q.target, q.file>>}
         /\ receipts' = IF q.key = NoKey THEN receipts
                        ELSE receipts \cup {[target |-> q.target, key |-> q.key,
                                             query |-> q.query, file |-> q.file,
                                             job |-> held[q.target] # q.file]}

\* The receipt carries the digest of the bytes sent, so that its comparison
\* with the digest of the snapshot holds.
Answered(s) ==
    /\ At(s, "sending") /\ ~Barred(Request(s))
    /\ Receives(Request(s))
    /\ IF Saved(s) THEN Goes(s, "removing")
       ELSE run' = [run EXCEPT ![s].pc = "publishing", ![s].outcome.imported = TRUE]
    /\ UNCHANGED <<disk, store, enabled, staged, queue, late, refusing, boundVars>>

\* Refused: 400, 404 or 409 for good, as often as it is sent; once, for a
\* reason that somebody puts right; or 401.
Refused(s) ==
    /\ At(s, "sending")
    /\ \/ Barred(Request(s)) /\ GivesUp(s, "needs_attention") /\ UNCHANGED boundVars
       \/ Mishap("refuse") /\ GivesUp(s, "needs_attention")
       \/ Mishap("login") /\ GivesUp(s, "needs_login")
    /\ UNCHANGED <<disk, store, enabled, staged, queue, serverVars>>

\* No answer: the request never arrives, or arrives after the sender gave up.
Unanswered(s) ==
    /\ At(s, "sending") /\ GivesUp(s, "uploading")
    /\ \/ Mishap("network") /\ UNCHANGED late
       \/ Mishap("late") /\ late' = late \cup {Request(s)}
    /\ UNCHANGED <<disk, store, enabled, staged, queue, held, receipts, given, refusing>>

ArrivesLate(q) ==
    /\ late' = late \ {q} /\ Receives(q)
    /\ UNCHANGED <<disk, localVars, refusing, boundVars>>

\* triggerSchedules: every schedule is tried; the run fails if one of them did.
Trigger(s) ==
    /\ At(s, "trigger")
    /\ \/ Goes(s, "removing") /\ UNCHANGED boundVars
       \/ Mishap("trigger") /\ GivesUp(s, "uploading")
    /\ UNCHANGED <<disk, store, enabled, staged, queue, serverVars>>

Remove(s) ==
    /\ At(s, "removing")
    /\ IF Snapshot(s) \in staged
       THEN run' = [run EXCEPT ![s].pc = "record",
                ![s].outcome = [@ EXCEPT !.status = "success", !.file = run[s].file]]
       ELSE GivesUp(s, "uploading")
    /\ staged' = staged \ {Snapshot(s)}
    /\ UNCHANGED <<disk, store, enabled, queue, serverVars, boundVars>>

\* The hash moves with a failed run as well.
Record_AppliesFailure(s) ==
    LET o == run[s].outcome
        record == [store[s] EXCEPT !.applied = o.file, !.attempt = NoAttempt, !.last = o]
    IN  /\ At(s, "record") /\ SavesLast(s, record)
        /\ staged' = staged \ {Snapshot(s)}
        /\ UNCHANGED <<disk, enabled, serverVars, boundVars>>

\* appendRun: a completed run moves lastAppliedHash; every run ends the attempt.
\* What a failed run of the older recipe copied stays on the disk for ever; it is
\* forgotten here, since no attempt names it any more.
Record(s) ==
    LET o == run[s].outcome
        record == [store[s] EXCEPT
            !.applied = IF o.status = "failed" THEN @ ELSE o.file,
            !.attempt = NoAttempt, !.last = o]
    IN  /\ At(s, "record") /\ SavesLast(s, record)
        /\ staged' = staged \ {Snapshot(s)}
        /\ UNCHANGED <<disk, enabled, serverVars, boundVars>>

\* The next run begins a new attempt.
KeepAttempt_Forgets(s) ==
    /\ run[s].pc \in {"uploading", "needs_login", "needs_attention"}
    /\ SavesLast(s, [store[s] EXCEPT !.attempt = NoAttempt])
    /\ UNCHANGED <<disk, enabled, staged, serverVars, boundVars>>

\* The attempt is kept for the next run.
KeepAttempt(s) ==
    /\ run[s].pc \in {"uploading", "needs_login", "needs_attention"}
    /\ SavesLast(s, Attempt(s, run[s].file, run[s].pc))
    /\ UNCHANGED <<disk, enabled, staged, serverVars, boundVars>>

----------------------------------------------------------------------------
\* The user, the disk and the process

\* A version of a file; the tables of its target may not be found in it.
Write(d) ==
    /\ written < MaxWrites /\ written' = written + 1
    /\ disk' = [disk EXCEPT ![d] = written']
    /\ \/ UNCHANGED <<refusing, mishaps>>
       \/ /\ Strikes("unfit")
          /\ refusing' = [refusing EXCEPT !.files = @ \cup {written'}]
    /\ UNCHANGED <<localVars, held, receipts, given, late, edits, crashes>>

\* The author of a saved query changes it, the tables it reads included, or
\* deletes it; the data source of a target is deleted.
ReviseQuery(u) ==
    /\ u \notin refusing.queries /\ Mishap("revise")
    /\ \E unbound \in {refusing.unbound \cup {u}, refusing.unbound \ {u}} :
           refusing' = [refusing EXCEPT !.unbound = unbound,
               !.keys = @ \cup {<<r.target, r.key>> : r \in {r \in receipts : r.query = u}}]
    /\ UNCHANGED <<disk, localVars, held, receipts, given, late>>
DeleteQuery(u) ==
    /\ u \notin refusing.queries /\ Mishap("delete")
    /\ refusing' = [refusing EXCEPT !.queries = @ \cup {u}]
    /\ UNCHANGED <<disk, localVars, held, receipts, given, late>>
DeleteTarget(t) ==
    /\ t \notin refusing.targets /\ Mishap("delete")
    /\ refusing' = [refusing EXCEPT !.targets = @ \cup {t}]
    /\ UNCHANGED <<disk, localVars, held, receipts, given, late>>

Create(s, c) ==
    /\ store[s] = Deleted /\ At(s, "idle")
    /\ store' = [store EXCEPT ![s].config = c]
    /\ enabled' = enabled \cup {s}
    /\ UNCHANGED <<disk, staged, run, queue, serverVars, boundVars>>

\* An edit that changes what the source is drops its attempt, and first
\* removes the snapshot; it throws, and nothing changes, when that is gone.
SnapshotOf(r) == {<<r.attempt.key, r.attempt.staged>> : n \in {r.attempt.staged} \ {0}}

Edit(s, c) ==
    /\ edits < MaxEdits /\ InBounds /\ edits' = edits + 1
    /\ store[s].config \notin {NoConfig, c} /\ SnapshotOf(store[s]) \subseteq staged
    /\ store' = [store EXCEPT ![s].config = c, ![s].attempt = NoAttempt]
    /\ staged' = staged \ SnapshotOf(store[s])
    /\ UNCHANGED <<disk, enabled, run, queue, serverVars, written, crashes, mishaps>>

Delete(s) ==
    /\ edits < MaxEdits /\ InBounds /\ edits' = edits + 1
    /\ store[s].config # NoConfig /\ SnapshotOf(store[s]) \subseteq staged
    /\ store' = [store EXCEPT ![s] = Deleted] /\ enabled' = enabled \ {s}
    /\ staged' = staged \ SnapshotOf(store[s])
    /\ UNCHANGED <<disk, run, queue, serverVars, written, crashes, mishaps>>

Toggle(s) ==
    /\ store[s].config # NoConfig
    /\ enabled' = IF s \in enabled THEN enabled \ {s} ELSE enabled \cup {s}
    /\ UNCHANGED <<disk, store, staged, run, queue, serverVars, boundVars>>

\* Killed: the file store, the snapshots and the requests on their way stay.
Crash ==
    /\ crashes < MaxCrashes /\ InBounds /\ crashes' = crashes + 1
    /\ run' = [s \in Sources |-> NoRun] /\ queue' = [t \in Targets |-> <<>>]
    /\ late' = late \cup {Request(s) : s \in {s \in Sources : At(s, "sending")}}
    /\ UNCHANGED <<disk, store, enabled, staged, held, receipts, given, refusing,
                   written, edits, mishaps>>

Step(s) ==
    \/ Execute(s) \/ Resume(s) \/ Restage(s) \/ Scan(s) \/ ScanFails(s)
    \/ NoteCopying(s) \/ Copy(s) \/ CopyWaits(s) \/ CopyFails(s)
    \/ NoteWaiting(s) \/ NoteStaged(s) \/ Skip(s) \/ Identify(s)
    \/ NotePublishing(s) \/ OpenSnapshot(s) \/ Answered(s) \/ Refused(s)
    \/ Unanswered(s) \/ Trigger(s) \/ Remove(s) \/ Record(s) \/ KeepAttempt(s)

User(s) ==
    Delete(s) \/ Toggle(s) \/ \E c \in Configs : Create(s, c) \/ Edit(s, c)

Next ==
    \/ \E s \in Sources : Launch(s) \/ Step(s) \/ User(s)
    \/ \E d \in Directories : Write(d)
    \/ \E u \in Queries : ReviseQuery(u) \/ DeleteQuery(u)
    \/ \E t \in Targets : DeleteTarget(t)
    \/ \E q \in late : ArrivesLate(q)
    \/ Crash

Spec == Init /\ [][Next]_vars

\* A run goes on; an enabled source falls due again, by its cron expression.
Fairness == \A s \in Sources :
    WF_vars(Step(s)) /\ WF_vars(s \in enabled /\ Launch(s))
FairSpec == Spec /\ Fairness

----------------------------------------------------------------------------
\* Properties

\* Store, runs, lines and receipts hold what the code can put there.
TypeOK ==
    /\ disk \in [Directories -> Files]
    /\ store \in [Sources -> SourceType]
    /\ enabled \subseteq Sources /\ staged \subseteq Keys \X Files
    /\ run \in [Sources -> [pc : RunPc, target : Targets \cup {NoConfig},
                            source : SourceType, current : SourceType,
                            key : Keys \cup {NoKey}, file : Files,
                            outcome : OutcomeType]]
    /\ queue \in [Targets -> Seq(Sources)]
    /\ held \in [Targets -> Files]
    /\ receipts \subseteq ReceiptType
    /\ given \subseteq Targets \X Files
    /\ refusing \in RefusingType

\* What a source records as applied has been given to a target, and as long as
\* nobody edited a source, to the target it is configured for: neither a lost
\* answer, nor a refusal, nor a crash between upload and record lets a file be
\* skipped that never arrived.
AppliedWasGiven ==
    \A s \in Sources : store[s].applied # 0 =>
        /\ \E t \in Targets : <<t, store[s].applied>> \in given
        /\ edits = 0 => <<store[s].config.target, store[s].applied>> \in given

\* No source was edited, and one source, of the newer recipe, serves t.
Trusted(t) ==
    /\ edits = 0
    /\ \E s \in Sources :
        /\ store[s].config \in {c \in Configs : c.mode = "saved_query" /\ c.target = t}
        /\ \A r \in Sources \ {s} :
               store[r].config \notin {c \in Configs : c.target = t}

\* Trusted refresh never brings an older file back, not even when a request
\* arrives long after its sender gave up.  So one change of the file makes one
\* revision and one job, however often its upload is repeated.
NeverBackwards == [][\A t \in Targets : Trusted(t) => held'[t] >= held[t]]_vars

\* Uploads to one target take turns, also those of several sources
\* (Collector#runForTarget); an edit may move a run that has taken its line.
OneUploadPerTarget ==
    \A s, r \in Sources :
        /\ At(s, "sending") /\ At(r, "sending") /\ edits = 0
        /\ Request(s).target = Request(r).target
        => s = r

Arrived(s) ==
    \/ store[s].config = NoConfig
    \/ LET file == disk[store[s].config.directory]
       IN  file = 0 \/ /\ store[s].applied = file
                       /\ Trusted(store[s].config.target) =>
                              held[store[s].config.target] = file
\* What the next run of a source sends with the snapshot of its attempt.
Pending(s) ==
    LET c == store[s].config
        a == store[s].attempt
    IN  [target |-> c.target, query |-> c.query, file |-> a.staged, key |-> a.key]
\* Every run of the source ends in a refusal: it keeps its attempt and sends the
\* same snapshot again; the older recipe scans anew, and finds no other file.
Stuck(s) ==
    LET c == store[s].config
    IN  \/ /\ c.mode = "saved_query" /\ store[s].attempt.staged # 0
           /\ Barred(Pending(s))
        \/ /\ c.mode = "legacy_schedule"
           /\ disk[c.directory] \in refusing.files \/ c.target \in refusing.targets

\* The last version of a file arrives at its target and is recorded, unless the
\* source is paused or stuck: what the server refuses for good stays staged,
\* and no newer file is looked for until the source is edited.
ChangesArrive ==
    \A s \in Sources : <>[](s \in enabled) => <>[](Arrived(s) \/ Stuck(s))

----------------------------------------------------------------------------
\* What the code does not keep (README.md)

\* Without the exception for a source that is stuck.
NewestArrives == \A s \in Sources : <>[](s \in enabled) => <>[]Arrived(s)

\* A retry carries the same staged bytes under the same key
\* (collector.test.ts:184).
OneFilePerKey ==
    \A s \in Sources : \A q \in receipts \cup late :
        /\ At(s, "sending") /\ q.target = Request(s).target /\ q.key = Request(s).key
        => q.file = run[s].file

\* When only the triggers failed, the next run of the same file does not replace
\* it again (docs/18-electron-local-collector.md:48).
ReplacedOnce ==
    [][\A s \in Sources :
        At(s, "open") /\ run'[s].pc = "sending" /\ ~Saved(s) =>
            <<Request(s).target, Request(s).file>> \notin given]_vars

\* A file goes to the target configured with the directory it came from.
SentAsConfigured ==
    \A s \in Sources :
        At(s, "sending") => run[s].current.config = run[s].source.config

=============================================================================
