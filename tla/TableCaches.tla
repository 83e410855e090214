----------------------------- MODULE TableCaches -----------------------------
(***************************************************************************)
(* The cache files of one logical table: queries and jobs that build and   *)
(* attach them, edits and a refresh that make them obsolete, and the       *)
(* clean-ups that remove them.                                             *)
(*                                                                         *)
(* A cache is a DuckDB file named by a hash of everything a build reads    *)
(* but the columns; those are tied to the configuration version, which     *)
(* each edit and each refresh raises.  No file is locked while in use: a   *)
(* query resolves the row, a thread prepares the file under a lock of its  *)
(* key, and attaches it later.  Left out: permits and results (JobQueue),  *)
(* revision files (SourceRevisions), rows and SQL; .tmp files, which only  *)
(* outlive their build in a kill and are removed by the next start.        *)
(***************************************************************************)
EXTENDS Integers, FiniteSets

CONSTANTS
    Revs, FirstRev,      \* revisions of the source; its current one at first
    Ranges, FirstRange,  \* sheet, cells and header flag of a table; those it has at first
    Types, Names,        \* lists of typed columns, and the names in each
    Inferred,            \* what a build infers from a revision and a range
    Unknown,             \* schema_json "[]": a table of an upload nobody queried
    FirstSchemas,        \* what the columns of the row may be at first
    Settings,            \* the ranges with columns users may choose
    NoKey, NoFile,
    Readers,             \* query threads: of requests and of background jobs
    Editors,             \* requests that edit or delete the table
    Refresher, Cleaner, Nobody,
    MaxVersion,          \* bound: configuration versions
    MaxStarts,           \* bound: queries and jobs
    MaxCrashes,          \* bound: times the process is killed
    Traffic              \* which of Kinds happen besides queries

ASSUME RevsAssumption == FirstRev \in Revs /\ FirstRange \in Ranges
ASSUME TypesAssumption ==
    /\ Inferred \in [Revs -> [Ranges -> Types]] /\ Unknown \notin Types
    /\ FirstSchemas \subseteq Types \cup {Unknown}
    /\ Settings \subseteq [range : Ranges, columns : Types]
ASSUME PeopleAssumption ==
    /\ Refresher \notin Editors
    /\ Refresher # Cleaner /\ Refresher # Nobody /\ Cleaner # Nobody
ASSUME BoundsAssumption ==
    MaxVersion \in Nat /\ MaxStarts \in Nat /\ MaxCrashes \in Nat

\* Sheet and range overrides of the old query interface, jobs, edits, deletion,
\* refreshes, dropped requests.
Kinds == {"override", "job", "edit", "delete", "refresh", "drop"}
ASSUME TrafficAssumption == Traffic \subseteq Kinds

Versions == 0..MaxVersion
Keys == [rev : Revs, range : Ranges, ver : Versions]
Contents == [rev : Revs, range : Ranges, columns : Types]
Schemas == Types \cup {Unknown}
ASSUME MarkersAssumption == NoKey \notin Keys /\ NoFile \notin Contents

VARIABLES
    table,   \* the row of source_tables, with its source's current revision
    cache,   \* files under table-cache/
    aged,    \* those last written over an hour ago
    reader,  \* query threads and the tasks that wait for them
    editor,  \* update, update_config, delete_one; the last steps of a refresh
    refresh, \* refresh_source
    lock,    \* who holds storage_maintenance_lock
    keep,    \* the keys a running clean-up has found in use
    spent,   \* history: revisions that exist or existed
    strayed, \* history: versions of which another range was queried before anybody
             \* knew the columns
    starts, crashes

boundVars == <<starts, crashes>>
vars == <<table, cache, aged, reader, editor, refresh, lock, keep, spent, strayed,
          boundVars>>

NoReader == [pc |-> "idle", kind |-> "query",
             snap |-> [rev |-> FirstRev, range |-> FirstRange, ver |-> 0,
                       columns |-> Unknown],
             pinned |-> NoKey, active |-> FALSE, waited |-> FALSE, got |-> NoFile]
NoEditor == [pc |-> "idle", prev |-> NoKey, rev |-> FirstRev]
NoRefresh == [pc |-> "idle", held |-> FALSE, rev |-> FirstRev, base |-> NoReader.snap,
              prev |-> NoKey]

Init ==
    /\ \E t \in FirstSchemas :
        table = [there |-> TRUE, rev |-> FirstRev, range |-> FirstRange, ver |-> 0,
                 columns |-> t, key |-> NoKey]
    /\ cache = [k \in Keys |-> NoFile] /\ aged = {}
    /\ reader = [q \in Readers |-> NoReader]
    /\ editor = [e \in Editors \cup {Refresher} |-> NoEditor]
    /\ refresh = NoRefresh
    /\ lock = Nobody /\ keep = {} /\ spent = {FirstRev} /\ strayed = {}
    /\ starts = 0 /\ crashes = 0

-----------------------------------------------------------------------------
(* Operators named X_Y are mutants: X with the plausible mistake Y.  No     *)
(* action uses them.                                                       *)

-----------------------------------------------------------------------------
(* Keys and contents.                                                      *)

KeyOf_NoVersion(s) == [rev |-> s.rev, range |-> s.range, ver |-> 0]

\* source_cache_key: all that a build reads, with the version for the columns.
KeyOf(s) == [rev |-> s.rev, range |-> s.range, ver |-> s.ver]

\* What build_source_cache infers from the cells that the snapshot names.
InferredOf(s) == Inferred[s.rev][s.range]

\* apply_field_overrides: the columns a snapshot knows win over the inferred ones, ...
ColumnsOf(s) == IF s.columns = Unknown THEN InferredOf(s) ELSE s.columns

\* ... if they have the same names in the same order; a build fails otherwise.
Fits(s) == Names[ColumnsOf(s)] = Names[InferredOf(s)]

Built_AsAsked(s) == [rev |-> s.rev, range |-> s.range, columns |-> s.columns]

\* What a build for this snapshot puts into its file.
Built(s) == [rev |-> s.rev, range |-> s.range, columns |-> ColumnsOf(s)]

\* What the row says, as a query or a job resolves it.
RowSnap == [rev |-> table.rev, range |-> table.range, ver |-> table.ver,
            columns |-> table.columns]

\* The keys a row or a queued or running job names.
InUse ==
    {table.key} \cup {reader[q].pinned : q \in {p \in Readers : reader[p].active}}

Without(k) == [cache EXCEPT ![k] = NoFile]

-----------------------------------------------------------------------------
(* Queries and jobs.                                                       *)

At(q, pc) == reader[q].pc = pc
Key(q) == KeyOf(reader[q].snap)
Building(k) == \E q \in Readers : At(q, "building") /\ Key(q) = k

\* The thread is done; a job has its final status.
Ends(q) == reader' = [reader EXCEPT ![q] = NoReader]

\* A query request reads the row; the old interface may name another range.
Resolve(q) ==
    /\ At(q, "idle") /\ table.there /\ starts < MaxStarts
    /\ \E g \in {table.range} \cup (IF "override" \in Traffic THEN Ranges ELSE {}) :
        /\ reader' = [reader EXCEPT ![q] =
                         [NoReader EXCEPT !.pc = "resolved", !.waited = TRUE,
                                          !.snap = [RowSnap EXCEPT !.range = g]]]
        /\ strayed' = IF g # table.range /\ table.columns = Unknown
                      THEN strayed \cup {table.ver} ELSE strayed
    /\ starts' = starts + 1
    /\ UNCHANGED <<table, cache, aged, editor, refresh, lock, keep, spent, crashes>>

\* A job pins the row, and the key of its cache if there is one already.
Enqueue(q) ==
    /\ "job" \in Traffic /\ At(q, "idle") /\ table.there /\ starts < MaxStarts
    /\ reader' = [reader EXCEPT ![q] =
                     [NoReader EXCEPT !.pc = "queued", !.kind = "job", !.snap = RowSnap,
                                      !.pinned = table.key, !.active = TRUE]]
    /\ starts' = starts + 1
    /\ UNCHANGED <<table, cache, aged, editor, refresh, lock, keep, spent, strayed, crashes>>

\* Jobs whose worker waits for them: the one loop takes the next when none is left.
Working == {q \in Readers : reader[q].kind = "job" /\ reader[q].waited
                            /\ reader[q].pc \notin {"idle", "queued"}}

Claim(q) ==
    /\ At(q, "queued") /\ Working = {}
    /\ reader' = [reader EXCEPT ![q].pc = "resolved", ![q].waited = TRUE]
    /\ UNCHANGED <<table, cache, aged, editor, refresh, lock, keep, spent, strayed, boundVars>>

\* A queued job ends at once, a running one when its thread notices.
Cancel(q) ==
    /\ reader[q].kind = "job" /\ reader[q].active
    /\ IF At(q, "queued") THEN Ends(q)
       ELSE reader' = [reader EXCEPT ![q].active = FALSE]
    /\ UNCHANGED <<table, cache, aged, editor, refresh, lock, keep, spent, strayed, boundVars>>

\* The timeout, or the client is gone: nobody waits for the thread, which goes on.
GiveUp(q) ==
    /\ reader[q].waited /\ reader[q].pc \in {"resolved", "building", "prepared"}
    /\ reader' = [reader EXCEPT ![q].waited = FALSE, ![q].active = FALSE]
    /\ UNCHANGED <<table, cache, aged, editor, refresh, lock, keep, spent, strayed, boundVars>>

\* Under the lock of the key: the file is there and its columns are known.
Hit(q) ==
    /\ At(q, "resolved") /\ ~Building(Key(q))
    /\ cache[Key(q)] # NoFile /\ reader[q].snap.columns # Unknown
    /\ reader' = [reader EXCEPT ![q].pc = "prepared"]
    /\ UNCHANGED <<table, cache, aged, editor, refresh, lock, keep, spent, strayed, boundVars>>

\* Otherwise the file is removed, if it is there, and built again under the lock.
Build(q) ==
    /\ At(q, "resolved") /\ ~Building(Key(q))
    /\ cache[Key(q)] = NoFile \/ reader[q].snap.columns = Unknown
    /\ reader' = [reader EXCEPT ![q].pc = "building"]
    /\ cache' = Without(Key(q)) /\ aged' = aged \ {Key(q)}
    /\ UNCHANGED <<table, editor, refresh, lock, keep, spent, strayed, boundVars>>

\* The temporary file gets its name.
Finish(q) ==
    /\ At(q, "building") /\ Fits(reader[q].snap)
    /\ reader' = [reader EXCEPT ![q].pc = "prepared"]
    /\ cache' = [cache EXCEPT ![Key(q)] = Built(reader[q].snap)]
    /\ aged' = aged \ {Key(q)}
    /\ UNCHANGED <<table, editor, refresh, lock, keep, spent, strayed, boundVars>>

\* An attached file stays readable though its name be removed.
Attach(q) ==
    /\ At(q, "prepared") /\ cache[Key(q)] # NoFile
    /\ reader' = [reader EXCEPT ![q].pc = "answered", ![q].got = cache[Key(q)]]
    /\ UNCHANGED <<table, cache, aged, editor, refresh, lock, keep, spent, strayed, boundVars>>

\* The file was removed after it was prepared: the query fails.
Miss(q) ==
    /\ At(q, "prepared") /\ cache[Key(q)] = NoFile
    /\ Ends(q)
    /\ UNCHANGED <<table, cache, aged, editor, refresh, lock, keep, spent, strayed, boundVars>>

\* No permit, no space, columns that do not fit, a value that does not convert, an SQL
\* error, an interrupt.
Fail(q) ==
    /\ reader[q].pc \in {"resolved", "building", "prepared"}
    /\ Ends(q)
    /\ UNCHANGED <<table, cache, aged, editor, refresh, lock, keep, spent, strayed, boundVars>>

Persist_AnyVersion(q) ==
    /\ At(q, "answered") /\ reader[q].waited
    /\ table' = [table EXCEPT !.key = Key(q), !.columns = ColumnsOf(reader[q].snap)]
    /\ Ends(q)
    /\ UNCHANGED <<cache, aged, editor, refresh, lock, keep, spent, strayed, boundVars>>

\* persist_cache_updates: the row takes the key and the columns if its version is
\* still that of the snapshot.
Persist(q) ==
    /\ At(q, "answered") /\ reader[q].waited
    /\ IF table.there /\ table.ver = reader[q].snap.ver
       THEN table' = [table EXCEPT !.key = Key(q), !.columns = ColumnsOf(reader[q].snap)]
       ELSE UNCHANGED table
    /\ Ends(q)
    /\ UNCHANGED <<cache, aged, editor, refresh, lock, keep, spent, strayed, boundVars>>

\* The answer of an abandoned thread is dropped with its updates.
Discard(q) ==
    /\ At(q, "answered") /\ ~reader[q].waited
    /\ Ends(q)
    /\ UNCHANGED <<table, cache, aged, editor, refresh, lock, keep, spent, strayed, boundVars>>

-----------------------------------------------------------------------------
(* Edits and deletion.                                                     *)

\* update and update_config read the key and the revision whose file they validate.
EditRead(e) ==
    /\ "edit" \in Traffic /\ editor[e].pc = "idle" /\ table.there
    /\ editor' = [editor EXCEPT ![e] = [pc |-> "validating", prev |-> table.key,
                                            rev |-> table.rev]]
    /\ UNCHANGED <<table, cache, aged, reader, refresh, lock, keep, spent, strayed, boundVars>>

DeleteRead(e) ==
    /\ "delete" \in Traffic /\ editor[e].pc = "idle" /\ table.there
    /\ editor' = [editor EXCEPT ![e] = [NoEditor EXCEPT !.pc = "deleting", !.prev = table.key]]
    /\ UNCHANGED <<table, cache, aged, reader, refresh, lock, keep, spent, strayed, boundVars>>

\* remove_cache_keys_if_unreferenced comes next, if there was a key.
Counts(e) ==
    editor' = [editor EXCEPT ![e] = IF @.prev = NoKey THEN NoEditor
                                    ELSE [@ EXCEPT !.pc = "counting"]]

\* What a user may choose: a range of the file that was read, with its names.
Valid(e) == {s \in Settings : Names[s.columns] = Names[Inferred[editor[e].rev][s.range]]}

EditWrite_KeepsKey(e) ==
    /\ editor[e].pc = "validating" /\ table.there /\ table.ver < MaxVersion
    /\ \E s \in Valid(e) :
        table' = [table EXCEPT !.range = s.range, !.columns = s.columns, !.ver = @ + 1]
    /\ Counts(e)
    /\ UNCHANGED <<cache, aged, reader, refresh, lock, keep, spent, strayed, boundVars>>

EditWrite(e) ==
    /\ editor[e].pc = "validating" /\ table.there /\ table.ver < MaxVersion
    /\ \E s \in Valid(e) :
        table' = [table EXCEPT !.range = s.range, !.columns = s.columns, !.ver = @ + 1, !.key = NoKey]
    /\ Counts(e)
    /\ UNCHANGED <<cache, aged, reader, refresh, lock, keep, spent, strayed, boundVars>>

DeleteWrite(e) ==
    /\ editor[e].pc = "deleting"
    /\ table' = [table EXCEPT !.there = FALSE, !.key = NoKey]
    /\ Counts(e)
    /\ UNCHANGED <<cache, aged, reader, refresh, lock, keep, spent, strayed, boundVars>>

\* The range is refused, the table is gone, or the request is dropped at an await.
EditStops(e) ==
    /\ \/ editor[e].pc = "validating"
       \/ editor[e].pc \in {"deleting", "counting", "unlinking"} /\ "drop" \in Traffic
    /\ editor' = [editor EXCEPT ![e] = NoEditor]
    /\ UNCHANGED <<table, cache, aged, reader, refresh, lock, keep, spent, strayed, boundVars>>

\* The refresh that had this to do is over, and lets go of the storage lock.
Released(e) == lock' = IF e = Refresher THEN Nobody ELSE lock

\* The references are counted first, the file is removed after.
CountKept(e) ==
    /\ editor[e].pc = "counting" /\ editor[e].prev \in InUse
    /\ editor' = [editor EXCEPT ![e] = NoEditor] /\ Released(e)
    /\ UNCHANGED <<table, cache, aged, reader, refresh, keep, spent, strayed, boundVars>>

CountNone(e) ==
    /\ editor[e].pc = "counting" /\ editor[e].prev \notin InUse
    /\ editor' = [editor EXCEPT ![e].pc = "unlinking"]
    /\ UNCHANGED <<table, cache, aged, reader, refresh, lock, keep, spent, strayed, boundVars>>

Unlink(e) ==
    /\ editor[e].pc = "unlinking"
    /\ cache' = Without(editor[e].prev) /\ aged' = aged \ {editor[e].prev}
    /\ editor' = [editor EXCEPT ![e] = NoEditor] /\ Released(e)
    /\ UNCHANGED <<table, reader, refresh, keep, spent, strayed, boundVars>>

-----------------------------------------------------------------------------
(* A refresh: a candidate cache of the next version, published by           *)
(* compare-and-set or removed.                                             *)

RefreshAt(pc) == refresh.pc = pc
Refreshing == ~RefreshAt("idle") \/ editor[Refresher].pc # "idle"

\* The candidate: the row as it was read, with the new revision and the next version.
Candidate == [refresh.base EXCEPT !.rev = refresh.rev, !.ver = @ + 1]

\* The tables are loaded before the storage lock is taken.
RefreshLoad ==
    /\ "refresh" \in Traffic /\ ~Refreshing /\ table.there /\ table.ver < MaxVersion
    /\ \E r \in Revs \ spent :
        /\ refresh' = [pc |-> "loaded", held |-> TRUE, rev |-> r, base |-> RowSnap,
                       prev |-> table.key]
        /\ spent' = spent \cup {r}
    /\ UNCHANGED <<table, cache, aged, reader, editor, lock, keep, strayed, boundVars>>

RefreshLock ==
    /\ RefreshAt("loaded") /\ lock = Nobody
    /\ lock' = Refresher
    /\ refresh' = [refresh EXCEPT !.pc = "preparing"]
    /\ UNCHANGED <<table, cache, aged, reader, editor, keep, spent, strayed, boundVars>>

RefreshBuild ==
    /\ RefreshAt("preparing") /\ Fits(Candidate)
    /\ cache' = [cache EXCEPT ![KeyOf(Candidate)] = Built(Candidate)]
    /\ refresh' = [refresh EXCEPT !.pc = "prepared"]
    /\ UNCHANGED <<table, aged, reader, editor, lock, keep, spent, strayed, boundVars>>

\* The row and the revision are still those that were read.
Unmoved == table.there /\ table.ver = refresh.base.ver /\ table.rev = refresh.base.rev

Published ==
    table' = [table EXCEPT !.rev = refresh.rev, !.ver = Candidate.ver,
                           !.columns = ColumnsOf(Candidate), !.key = KeyOf(Candidate)]

\* The old cache is removed, if there was one, before the lock is let go.
RefreshPublish ==
    /\ RefreshAt("prepared") /\ refresh.held /\ Unmoved
    /\ Published
    /\ refresh' = NoRefresh
    /\ IF refresh.prev = NoKey
       THEN lock' = Nobody /\ UNCHANGED editor
       ELSE editor' = [editor EXCEPT ![Refresher] =
                                  [NoEditor EXCEPT !.pc = "counting", !.prev = refresh.prev]]
            /\ UNCHANGED lock
    /\ UNCHANGED <<cache, aged, reader, keep, spent, strayed, boundVars>>

\* A file that does not fit, a lost race or a dropped request: the guard removes the
\* candidate whoever names it.
RefreshUndo ==
    /\ \/ RefreshAt("preparing") \/ RefreshAt("prepared")
    /\ cache' = Without(KeyOf(Candidate)) /\ aged' = aged \ {KeyOf(Candidate)}
    /\ refresh' = NoRefresh
    /\ lock' = IF refresh.held THEN Nobody ELSE lock
    /\ UNCHANGED <<table, reader, editor, keep, spent, strayed, boundVars>>

\* The client goes away: before the lock, or while the thread prepares; the thread
\* goes on without the lock, and its result is dropped.
RefreshDrop ==
    /\ "drop" \in Traffic /\ refresh.held
    /\ \/ RefreshAt("loaded") /\ refresh' = NoRefresh /\ UNCHANGED lock
       \/ RefreshAt("preparing") /\ refresh' = [refresh EXCEPT !.held = FALSE]
                                 /\ lock' = Nobody
    /\ UNCHANGED <<table, cache, aged, reader, editor, keep, spent, strayed, boundVars>>

\* It goes away in the commit: the transaction takes effect all the same, and the
\* guard is still armed, so that RefreshUndo comes next and removes what the row names.
RefreshDropAtCommit ==
    /\ "drop" \in Traffic /\ RefreshAt("prepared") /\ refresh.held /\ Unmoved
    /\ Published
    /\ UNCHANGED <<cache, aged, reader, editor, refresh, lock, keep, spent, strayed, boundVars>>

-----------------------------------------------------------------------------
(* Clean-up.                                                               *)

Hour ==
    /\ aged # {k \in Keys : cache[k] # NoFile}
    /\ aged' = {k \in Keys : cache[k] # NoFile}
    /\ UNCHANGED <<table, cache, reader, editor, refresh, lock, keep, spent, strayed, boundVars>>

\* has_active_storage_users.
StorageBusy == Working # {} \/ (Refreshing /\ ~RefreshAt("loaded"))

\* Only a pass that finds something is of interest.
CleanBegin ==
    /\ lock = Nobody /\ ~StorageBusy /\ ~(aged \subseteq InUse)
    /\ lock' = Cleaner /\ keep' = InUse
    /\ UNCHANGED <<table, cache, aged, reader, editor, refresh, spent, strayed, boundVars>>

CleanSweep ==
    /\ lock = Cleaner
    /\ cache' = [k \in Keys |-> IF k \in aged \ keep THEN NoFile ELSE cache[k]]
    /\ aged' = aged \cap keep
    /\ lock' = Nobody /\ keep' = {}
    /\ UNCHANGED <<table, reader, editor, refresh, spent, strayed, boundVars>>

\* A kill and the next start: only caches that rows name stay, running jobs have
\* failed, queued ones are kept.
Restart ==
    /\ crashes < MaxCrashes /\ crashes' = crashes + 1
    /\ cache' = [k \in Keys |-> IF k = table.key THEN cache[k] ELSE NoFile]
    /\ aged' = aged \cap {table.key}
    /\ reader' = [q \in Readers |-> IF At(q, "queued") THEN reader[q] ELSE NoReader]
    /\ editor' = [e \in DOMAIN editor |-> NoEditor]
    /\ refresh' = NoRefresh /\ lock' = Nobody /\ keep' = {}
    /\ UNCHANGED <<table, spent, strayed, starts>>

-----------------------------------------------------------------------------
Thread(q) ==
    Claim(q) \/ Hit(q) \/ Build(q) \/ Finish(q) \/ Attach(q) \/ Miss(q) \/ Fail(q)
    \/ Persist(q) \/ Discard(q)

Edit(e) == EditWrite(e) \/ DeleteWrite(e) \/ EditStops(e)

Remove(e) == CountKept(e) \/ CountNone(e) \/ Unlink(e)

RefreshStep == RefreshLock \/ RefreshBuild \/ RefreshPublish \/ RefreshUndo

Clean == CleanBegin \/ CleanSweep

Next ==
    \/ \E q \in Readers : Resolve(q) \/ Enqueue(q) \/ Cancel(q) \/ GiveUp(q) \/ Thread(q)
    \/ \E e \in Editors : EditRead(e) \/ DeleteRead(e) \/ Edit(e)
    \/ \E e \in Editors \cup {Refresher} : Remove(e)
    \/ RefreshLoad \/ RefreshStep \/ RefreshDrop \/ RefreshDropAtCommit
    \/ Hour \/ Clean \/ Restart

Spec == Init /\ [][Next]_vars

-----------------------------------------------------------------------------
(* Properties.                                                             *)

\* Rows, files and the places of readers, editors, refresh and clean-up stay within
\* what the code can store; the storage lock has a holder that is at work.
TypeOK ==
    /\ table \in [there : BOOLEAN, rev : Revs, range : Ranges, ver : Versions,
                  columns : Schemas, key : Keys \cup {NoKey}]
    /\ cache \in [Keys -> Contents \cup {NoFile}] /\ aged \subseteq Keys
    /\ reader \in [Readers ->
          [pc : {"idle", "queued", "resolved", "building", "prepared", "answered"},
           kind : {"query", "job"},
           snap : [rev : Revs, range : Ranges, ver : Versions, columns : Schemas],
           pinned : Keys \cup {NoKey}, active : BOOLEAN, waited : BOOLEAN,
           got : Contents \cup {NoFile}]]
    /\ editor \in [Editors \cup {Refresher} ->
          [pc : {"idle", "validating", "deleting", "counting", "unlinking"},
           prev : Keys \cup {NoKey}, rev : Revs]]
    /\ refresh \in [pc : {"idle", "loaded", "preparing", "prepared"}, held : BOOLEAN,
                    rev : Revs,
                    base : [rev : Revs, range : Ranges, ver : Versions, columns : Schemas],
                    prev : Keys \cup {NoKey}]
    /\ lock \in {Refresher, Cleaner, Nobody}
    /\ keep \subseteq Keys \cup {NoKey}
    /\ spent \subseteq Revs /\ strayed \subseteq Versions
    /\ starts \in 0..MaxStarts /\ crashes \in 0..MaxCrashes

Matches(got, snap) ==
    /\ got.rev = snap.rev /\ got.range = snap.range
    /\ Names[got.columns] = Names[InferredOf(snap)]
    /\ snap.ver \notin strayed => got.columns = ColumnsOf(snap)

\* A query answers from the data of the revision and the range it was resolved with,
\* under the names of that range, whatever was built, edited, published or removed
\* since (query_engine.rs:565: an old query never reads a dirty cache); and with the
\* columns its row described, unless that version has strayed: the first version of an
\* upload, queried for another range before anybody knew the columns.
AnswersMatch ==
    \A q \in Readers : At(q, "answered") => Matches(reader[q].got, reader[q].snap)

\* The same with no version excused.  It does not hold: columns inferred from an
\* overridden range reach the row, and no key tells a file of its own range that was
\* built with other columns.
AnswersDescribed ==
    \A q \in Readers :
        At(q, "answered") => reader[q].got = Built(reader[q].snap)

\* The cache a row names is one of its own revision and version: no slow query puts
\* back a key that an edit or a refresh has cleared.
RowKeyCurrent ==
    table.key # NoKey => table.key.rev = table.rev /\ table.key.ver = table.ver

\* The columns somebody chose change only with the version, and so do those a build
\* has filled in, unless the version has strayed.
ColumnsKept ==
    [][table'.ver = table.ver /\ table.columns # Unknown /\ table.ver \notin strayed
       => table'.columns = table.columns]_vars

=============================================================================
