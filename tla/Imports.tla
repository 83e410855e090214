------------------------------ MODULE Imports ------------------------------
(* How an uploaded file becomes a data source (api/data_sources.rs).  An      *)
(* inspected upload waits in the staging directory under a token until a      *)
(* request commits or discards it, or it expires; a direct upload goes        *)
(* straight to its final place.  Every database and file operation is a step  *)
(* of its own.  A request may be cut off at any of its steps (the client went  *)
(* away and the server dropped the handler), the process may crash, and the    *)
(* hourly clean-up of the uploads directory runs beside them.                  *)
(*                                                                          *)
(* A file is named by who put it there: a token in staging, the request or     *)
(* direct upload that creates its source in the uploads directory.  Left out:  *)
(* several sheets per file, the size and free-space limits (an upload they     *)
(* stop ends as one that cannot be read), deletion of sources (JobQueue) and    *)
(* their later revisions (SourceRevisions).                                    *)
EXTENDS Columns

CONSTANTS
    Tokens,        \* inspected uploads
    Requests,      \* requests that commit, preview or discard a token
    Uploads,       \* direct uploads
    Cleaner, Nobody, NoSheet, NoTable, NoToken,
    Sheets,        \* what a file may hold: [Tokens \cup Uploads -> SUBSET sheets]
    Ranges, Whole, \* the ranges a request may ask for; Whole is A1 with a header
    SampleRows,    \* how many rows an inspection samples
    MaxMishaps     \* failed statements, cut-off requests and crashes, together

ASSUME RangesAssumption ==
    /\ Ranges \subseteq CellRanges /\ Whole \in Ranges
    /\ Whole.top = 1 /\ Whole.left = 1 /\ Whole.header
    /\ Whole.bottom = Open /\ Whole.right = Open
    /\ \A r \in Ranges : RangeValid(r)

ASSUME SheetsAssumption ==
    /\ \A f \in Tokens \cup Uploads : Sheets[f] \subseteq CellSheets /\ NoSheet \notin Sheets[f]
    /\ SampleRows \in Nat \ {0}

ASSUME NamesAssumption ==
    /\ Requests \cap Uploads = {} /\ Tokens \cap Uploads = {}
    /\ Cleaner \notin Requests \cup Uploads
    /\ Nobody \notin Requests \cup Uploads \cup {Cleaner}

\* The outcome of a table's build: its number of rows, or one of these.
Unbuilt == -2
Failed  == -1

Files   == Tokens \cup Uploads
Sources == Requests \cup Uploads

VARIABLES
    row,      \* staged_imports
    staged,   \* the tokens whose file is in the staging directory
    age,      \* of a file: "Fresh", "Old" (over an hour), "Expired" (over a day)
    sheet,    \* what the file holds
    finals,   \* the sources whose file is in the uploads directory
    table,    \* the source and its table
    insp, req, up, lock, clean, phase, mishaps

fileVars  == <<row, staged, age, sheet, finals>>
actorVars == <<insp, req, up, lock, clean>>
boundVars == <<phase, mishaps>>
vars == <<fileVars, table, actorVars, boundVars>>

Init ==
    /\ row = [t \in Tokens |-> "None"]
    /\ staged = {}
    /\ age = [f \in Files |-> "Fresh"]
    /\ sheet = [f \in Files |-> NoSheet]
    /\ finals = {}
    /\ table = [s \in Sources |-> NoTable]
    /\ insp = [t \in Tokens |-> [pc |-> "idle", todo |-> {}, now |-> NoToken]]
    /\ req = [q \in Requests |-> [pc |-> "idle", token |-> NoToken, range |-> Whole,
                                  names |-> <<>>, types |-> <<>>]]
    /\ up = [u \in Uploads |-> "idle"]
    /\ lock = Nobody
    /\ clean = [pc |-> "idle", seen |-> {}]
    /\ phase = "up"
    /\ mishaps = 0

Unlocked(h) == IF lock = h THEN Nobody ELSE lock

ContentOf(s) == IF s \in Uploads THEN s ELSE req[s].token

-----------------------------------------------------------------------------
(* inspect_upload: the expired imports go first, then the file is stored,     *)
(* read and given a row.                                                      *)

InspectAt(t, pc) == phase = "up" /\ insp[t].pc = pc
Inspected(t, pc) == insp' = [insp EXCEPT ![t].pc = pc]

\* cleanup_expired_imports reads the list of expired imports once.
ListExpired(t) ==
    /\ InspectAt(t, "idle")
    /\ insp' = [insp EXCEPT ![t].pc = "sweep", ![t].todo =
                   {x \in Tokens : row[x] = "Live" /\ age[x] = "Expired"}]
    /\ UNCHANGED <<fileVars, table, req, up, lock, clean, boundVars>>

\* Then each row is deleted, and after it the file.
SweepRow(t) ==
    /\ InspectAt(t, "sweep")
    /\ \E x \in insp[t].todo :
        /\ row' = [row EXCEPT ![x] = "Gone"]
        /\ insp' = [insp EXCEPT ![t].pc = "unlink", ![t].now = x]
    /\ UNCHANGED <<staged, age, sheet, finals, table, req, up, lock, clean, boundVars>>

SweepFile(t) ==
    /\ InspectAt(t, "unlink")
    /\ staged' = staged \ {insp[t].now}
    /\ insp' = [insp EXCEPT ![t].pc = "sweep", ![t].todo = @ \ {insp[t].now},
                            ![t].now = NoToken]
    /\ UNCHANGED <<row, age, sheet, finals, table, req, up, lock, clean, boundVars>>

\* store_multipart_file
Store(t) ==
    /\ InspectAt(t, "sweep") /\ insp[t].todo = {}
    /\ \E content \in Sheets[t] : sheet' = [sheet EXCEPT ![t] = content]
    /\ staged' = staged \cup {t}
    /\ Inspected(t, "read")
    /\ UNCHANGED <<row, age, finals, table, req, up, lock, clean, boundVars>>

\* A form without a file, a file of another kind, one that is too large
StoreRefused(t) ==
    /\ InspectAt(t, "sweep") /\ insp[t].todo = {}
    /\ Inspected(t, "done")
    /\ UNCHANGED <<fileVars, table, req, up, lock, clean, boundVars>>

Readable(content, range) == Width(content, range) > 0

InspectFile(t) ==
    /\ InspectAt(t, "read") /\ t \in staged
    /\ \/ Readable(sheet[t], Whole) /\ Inspected(t, "insert") /\ UNCHANGED staged
       \/ ~Readable(sheet[t], Whole) /\ Inspected(t, "done") /\ staged' = staged \ {t}
    /\ UNCHANGED <<row, age, sheet, finals, table, req, up, lock, clean, boundVars>>

InsertRow(t) ==
    /\ InspectAt(t, "insert")
    /\ row' = [row EXCEPT ![t] = "Live"]
    /\ Inspected(t, "done")
    /\ UNCHANGED <<staged, age, sheet, finals, table, req, up, lock, clean, boundVars>>

InsertFails(t) ==
    /\ InspectAt(t, "insert") /\ mishaps < MaxMishaps
    /\ mishaps' = mishaps + 1
    /\ staged' = staged \ {t}
    /\ Inspected(t, "done")
    /\ UNCHANGED <<row, age, sheet, finals, table, req, up, lock, clean, phase>>

-----------------------------------------------------------------------------
(* commit_import, preview_import, discard_import                              *)

At(q, pc) == phase = "up" /\ req[q].pc = pc
Goes(q, pc) == req' = [req EXCEPT ![q].pc = pc]

\* A request reads the row of its token; one whose row is gone is answered 404,
\* or 204 if it came to discard.
AskMissing(q) ==
    /\ At(q, "idle")
    /\ \E t \in Tokens :
        /\ row[t] = "Gone"
        /\ req' = [req EXCEPT ![q].pc = "done", ![q].token = t]
    /\ UNCHANGED <<fileVars, table, insp, up, lock, clean, boundVars>>

\* A discard, and any request that finds the token expired, removes it.
AskDiscard(q) ==
    /\ At(q, "idle")
    /\ \E t \in Tokens :
        /\ row[t] = "Live"
        /\ req' = [req EXCEPT ![q].pc = "delete", ![q].token = t]
    /\ UNCHANGED <<fileVars, table, insp, up, lock, clean, boundVars>>

\* The fields the client sends are those a preview showed it, of this range or
\* of another, with the inferred types or types of its own.
Shown(content, range) ==
    {[names |-> Names(content, range), types |-> types] :
        types \in {InferTypes(content, range, SampleRows),
                   [j \in 1..Width(content, range) |-> "Text"]}}

AskCommit(q) ==
    /\ At(q, "idle")
    /\ \E t \in Tokens, range \in Ranges, seen \in Ranges :
        /\ row[t] = "Live" /\ age[t] # "Expired"
        /\ Readable(sheet[t], seen)
        /\ \E fields \in Shown(sheet[t], seen) :
            req' = [req EXCEPT ![q] = [pc |-> "check", token |-> t, range |-> range,
                                       names |-> fields.names, types |-> fields.types]]
    /\ UNCHANGED <<fileVars, table, insp, up, lock, clean, boundVars>>

\* preview_import changes nothing, prepare_import_tables compares the names of
\* the columns (apply_field_overrides) and takes the types as they come.
Prepared(q) ==
    LET content == sheet[req[q].token]
    IN  /\ req[q].token \in staged
        /\ Readable(content, req[q].range)
        /\ Names(content, req[q].range) = req[q].names

Check(q) ==
    /\ At(q, "check")
    /\ req' = IF Prepared(q)
              THEN [req EXCEPT ![q].pc = "lock", ![q].names = <<>>]
              ELSE [req EXCEPT ![q].pc = "done", ![q].range = Whole,
                               ![q].names = <<>>, ![q].types = <<>>]
    /\ UNCHANGED <<fileVars, table, insp, up, lock, clean, boundVars>>

Lock_NotTaken(q) ==
    /\ At(q, "lock")
    /\ Goes(q, "move")
    /\ UNCHANGED <<fileVars, table, insp, up, lock, clean, boundVars>>

\* The storage lock is held from here to the answer.
Lock(q) ==
    /\ At(q, "lock") /\ lock = Nobody
    /\ lock' = q
    /\ Goes(q, "move")
    /\ UNCHANGED <<fileVars, table, insp, up, clean, boundVars>>

MoveFile_Copies(q) ==
    /\ At(q, "move") /\ req[q].token \in staged
    /\ finals' = finals \cup {q}
    /\ Goes(q, "record")
    /\ UNCHANGED <<row, staged, age, sheet, table, insp, up, lock, clean, boundVars>>

\* The rename keeps the file's age.
MoveFile(q) ==
    /\ At(q, "move") /\ req[q].token \in staged
    /\ staged' = staged \ {req[q].token}
    /\ finals' = finals \cup {q}
    /\ Goes(q, "record")
    /\ UNCHANGED <<row, age, sheet, table, insp, up, lock, clean, boundVars>>

MoveMissing(q) ==
    /\ At(q, "move") /\ req[q].token \notin staged
    /\ Goes(q, "done")
    /\ lock' = Unlocked(q)
    /\ UNCHANGED <<fileVars, table, insp, up, clean, boundVars>>

TableOf(content, range, types) ==
    [range |-> range, types |-> types, rows |-> RowCount(content, range),
     built |-> Unbuilt]

\* One transaction: the source, its revision, its table, and the token's row,
\* whether or not it is still there.
Record(q) ==
    /\ At(q, "record")
    /\ table' = [table EXCEPT ![q] =
                    TableOf(sheet[req[q].token], req[q].range, req[q].types)]
    /\ row' = [row EXCEPT ![req[q].token] = "Gone"]
    /\ Goes(q, "done")
    /\ lock' = Unlocked(q)
    /\ UNCHANGED <<staged, age, sheet, finals, insp, up, clean, boundVars>>

RecordFails(q) ==
    /\ At(q, "record") /\ mishaps < MaxMishaps
    /\ mishaps' = mishaps + 1
    /\ Goes(q, "back")
    /\ UNCHANGED <<fileVars, table, insp, up, lock, clean, phase>>

MoveBack_Forgotten(q) ==
    /\ At(q, "back")
    /\ Goes(q, "done")
    /\ lock' = Unlocked(q)
    /\ UNCHANGED <<fileVars, table, insp, up, clean, boundVars>>

MoveBack(q) ==
    /\ At(q, "back")
    /\ finals' = finals \ {q}
    /\ staged' = IF q \in finals THEN staged \cup {req[q].token} ELSE staged
    /\ Goes(q, "done")
    /\ lock' = Unlocked(q)
    /\ UNCHANGED <<row, age, sheet, table, insp, up, clean, boundVars>>

\* discard_staged_file: the row first, so that a repeated discard finds nothing.
DropRow(q) ==
    /\ At(q, "delete")
    /\ row' = [row EXCEPT ![req[q].token] = "Gone"]
    /\ Goes(q, "unlink")
    /\ UNCHANGED <<staged, age, sheet, finals, table, insp, up, lock, clean, boundVars>>

DropFile(q) ==
    /\ At(q, "unlink")
    /\ staged' = staged \ {req[q].token}
    /\ Goes(q, "done")
    /\ UNCHANGED <<row, age, sheet, finals, table, insp, up, lock, clean, boundVars>>

-----------------------------------------------------------------------------
(* upload: a file that becomes a source at once                               *)

UploadAt(u, pc) == phase = "up" /\ up[u] = pc

UploadLock(u) ==
    /\ UploadAt(u, "idle") /\ lock = Nobody
    /\ lock' = u
    /\ up' = [up EXCEPT ![u] = "store"]
    /\ UNCHANGED <<fileVars, table, insp, req, clean, boundVars>>

UploadStore(u) ==
    /\ UploadAt(u, "store")
    /\ \E content \in Sheets[u] : sheet' = [sheet EXCEPT ![u] = content]
    /\ finals' = finals \cup {u}
    /\ up' = [up EXCEPT ![u] = "record"]
    /\ UNCHANGED <<row, staged, age, table, insp, req, lock, clean, boundVars>>

\* The table is the whole sheet below its header, typed by its first data row.
UploadRecord(u) ==
    /\ UploadAt(u, "record")
    /\ table' = [table EXCEPT ![u] =
                    TableOf(sheet[u], Whole, InferTypes(sheet[u], Whole, 1))]
    /\ up' = [up EXCEPT ![u] = "done"]
    /\ lock' = Unlocked(u)
    /\ UNCHANGED <<fileVars, insp, req, clean, boundVars>>

\* A file that cannot be read and a failed insert remove the file, the later
\* statements of the transaction leave it.
UploadFails(u) ==
    /\ UploadAt(u, "record") /\ mishaps < MaxMishaps
    /\ mishaps' = mishaps + 1
    /\ finals' \in {finals, finals \ {u}}
    /\ up' = [up EXCEPT ![u] = "done"]
    /\ lock' = Unlocked(u)
    /\ UNCHANGED <<row, staged, age, sheet, table, insp, req, clean, phase>>

-----------------------------------------------------------------------------
(* The hourly clean-up of the uploads directory, and the first query          *)

Recorded == {s \in Sources : table[s] # NoTable}

Orphans(seen) == {s \in finals : s \notin seen /\ age[ContentOf(s)] # "Fresh"}

CleanStart ==
    /\ phase = "up" /\ clean.pc = "idle" /\ lock = Nobody
    /\ lock' = Cleaner
    /\ clean' = [pc |-> "remove", seen |-> Recorded]
    /\ UNCHANGED <<fileVars, table, insp, req, up, boundVars>>

CleanRemove ==
    /\ phase = "up" /\ clean.pc = "remove"
    /\ finals' = finals \ Orphans(clean.seen)
    /\ clean' = [pc |-> "idle", seen |-> {}]
    /\ lock' = Unlocked(Cleaner)
    /\ UNCHANGED <<row, staged, age, sheet, table, insp, req, up, boundVars>>

\* What the build of a table's cache makes of its rows: how many it takes, or
\* the failure at the first cell that does not convert.  A table with no stored
\* columns takes those the build infers.
BuildOf(s) ==
    LET content == sheet[ContentOf(s)]
        range   == table[s].range
        types   == IF table[s].types = <<>>
                   THEN InferTypes(content, range, SampleRows)
                   ELSE table[s].types
    IN  IF s \in finals /\ types # <<>> /\ Builds(content, range, types)
        THEN Len(StreamedRows(content, range, Len(types)))
        ELSE Failed

Query(s) ==
    /\ phase = "up"
    /\ table[s] # NoTable /\ table[s].built = Unbuilt
    /\ table' = [table EXCEPT ![s].built = BuildOf(s)]
    /\ UNCHANGED <<fileVars, actorVars, boundVars>>

-----------------------------------------------------------------------------
(* Time, cut-off requests, crashes                                            *)

Ages(f) ==
    /\ phase = "up" /\ sheet[f] # NoSheet
    /\ \/ age[f] = "Fresh" /\ age' = [age EXCEPT ![f] = "Old"]
       \/ age[f] = "Old" /\ f \in Tokens /\ age' = [age EXCEPT ![f] = "Expired"]
    /\ UNCHANGED <<row, staged, sheet, finals, table, actorVars, boundVars>>

Stopped(pc) == IF pc = "idle" THEN "idle" ELSE "done"

\* Where a request that ends here leaves its token: between the move and the
\* transaction (or the move back) the file is at neither place it belongs.
Ended(pc) == IF pc \in {"record", "back", "torn"} THEN "torn" ELSE Stopped(pc)

\* The server drops the handler of a client that went away; its lock goes too.
CutOff ==
    /\ phase = "up" /\ mishaps < MaxMishaps
    /\ mishaps' = mishaps + 1
    /\ \/ \E q \in Requests :
            /\ req[q].pc \notin {"idle", "done", "torn"}
            /\ Goes(q, Ended(req[q].pc))
            /\ lock' = Unlocked(q)
            /\ UNCHANGED <<insp, up>>
       \/ \E t \in Tokens :
            /\ insp[t].pc \notin {"idle", "done"}
            /\ insp' = [insp EXCEPT ![t] = [pc |-> "done", todo |-> {}, now |-> NoToken]]
            /\ UNCHANGED <<req, up, lock>>
       \/ \E u \in Uploads :
            /\ up[u] \notin {"idle", "done"}
            /\ up' = [up EXCEPT ![u] = "done"]
            /\ lock' = Unlocked(u)
            /\ UNCHANGED <<insp, req>>
    /\ UNCHANGED <<fileVars, table, clean, phase>>

Crash ==
    /\ phase = "up" /\ mishaps < MaxMishaps
    /\ mishaps' = mishaps + 1
    /\ phase' = "down"
    /\ req' = [q \in Requests |-> [req[q] EXCEPT !.pc = Ended(@)]]
    /\ insp' = [t \in Tokens |->
                  [pc |-> Stopped(insp[t].pc), todo |-> {}, now |-> NoToken]]
    /\ up' = [u \in Uploads |-> Stopped(up[u])]
    /\ clean' = [pc |-> "idle", seen |-> {}]
    /\ lock' = Nobody
    /\ UNCHANGED <<fileVars, table>>

\* cleanup_startup_storage, before the first request: orphaned uploads, expired
\* imports, and staged files without a row.
Startup ==
    LET expired == {t \in Tokens : row[t] = "Live" /\ age[t] = "Expired"}
        kept == {t \in Tokens : row[t] = "Live"} \ expired
    IN  /\ phase = "down"
        /\ phase' = "up"
        /\ finals' = finals \ Orphans(Recorded)
        /\ row' = [t \in Tokens |-> IF t \in expired THEN "Gone" ELSE row[t]]
        /\ staged' = staged \cap kept
        /\ UNCHANGED <<age, sheet, table, actorVars, mishaps>>

-----------------------------------------------------------------------------

Inspect(t) ==
    \/ ListExpired(t) \/ SweepRow(t) \/ SweepFile(t) \/ Store(t) \/ StoreRefused(t)
    \/ InspectFile(t) \/ InsertRow(t) \/ InsertFails(t)

Request(q) ==
    \/ AskMissing(q) \/ AskDiscard(q) \/ AskCommit(q) \/ Check(q) \/ Lock(q)
    \/ MoveFile(q) \/ MoveMissing(q) \/ Record(q) \/ RecordFails(q) \/ MoveBack(q)
    \/ DropRow(q) \/ DropFile(q)

Upload(u) == UploadLock(u) \/ UploadStore(u) \/ UploadRecord(u) \/ UploadFails(u)

Next ==
    \/ \E t \in Tokens : Inspect(t)
    \/ \E q \in Requests : Request(q)
    \/ \E u \in Uploads : Upload(u)
    \/ \E s \in Sources : Query(s)
    \/ \E f \in Files : Ages(f)
    \/ CleanStart \/ CleanRemove \/ CutOff \/ Crash \/ Startup

Spec == Init /\ [][Next]_vars

-----------------------------------------------------------------------------
(* Properties                                                                *)

\* Types of the state; the lock is held by exactly the actor between taking and
\* giving it back, and nobody else is between the two.
Holding(h) ==
    CASE h \in Requests -> req[h].pc \in {"move", "record", "back"}
      [] h \in Uploads  -> up[h] \in {"store", "record"}
      [] h = Cleaner    -> clean.pc = "remove"
      [] OTHER          -> FALSE

TypeOK ==
    /\ row \in [Tokens -> {"None", "Live", "Gone"}]
    /\ staged \subseteq Tokens
    /\ age \in [Files -> {"Fresh", "Old", "Expired"}]
    /\ finals \subseteq Sources
    /\ \A t \in Tokens :
        /\ insp[t].pc \in {"idle", "sweep", "unlink", "read", "insert", "done"}
        /\ insp[t].todo \subseteq Tokens
        /\ t \in staged => sheet[t] # NoSheet
    /\ \A q \in Requests :
        /\ req[q].pc \in {"idle", "check", "lock", "move", "record", "back", "delete",
                          "unlink", "done", "torn"}
        /\ req[q].pc # "idle" => req[q].token \in Tokens
    /\ \A u \in Uploads : up[u] \in {"idle", "store", "record", "done"}
    /\ phase \in {"up", "down"}
    /\ \A h \in Sources \cup {Cleaner} : Holding(h) <=> lock = h
    /\ lock \in Sources \cup {Cleaner, Nobody}

\* An upload becomes at most one source, however many requests commit it at
\* once: what decides is the rename, not the row (commit_import).
OneSourcePerUpload ==
    \A p, q \in Requests :
        table[p] # NoTable /\ table[q] # NoTable /\ req[p].token = req[q].token => p = q

\* A source has its file: the clean-up, which goes by the file's age (a staged
\* file brings its own along) and by a list read earlier, takes no file a
\* commit is about to record (commit_import, cleanup_source_revisions).
SourceHasFile == \A s \in Sources : table[s] # NoTable => s \in finals

\* A token that can still be committed keeps its file, through failed commits,
\* discards and sweeps; only a commit between its move and its transaction,
\* or one that was cut off right there, holds it elsewhere.
TokenKeepsFile ==
    \A t \in Tokens :
        row[t] = "Live" =>
            \/ t \in staged
            \/ \E q \in Requests :
                   req[q].token = t /\ req[q].pc \in {"record", "back", "torn"}

\* The build takes the rows the import counted, although each finds the bounds
\* of the range on its own (read_csv, stream_csv_rows and the two for Excel).
RowsAsCounted ==
    \A s \in Sources :
        table[s] # NoTable /\ table[s].built \in Nat => table[s].built = table[s].rows

\* What the sample cannot promise: a column that mixes dates with moments, or
\* holds a number that is not finite.
Doubtful(content, range, rows) ==
    \E j \in 1..Width(content, range) :
        LET seen == {rows[i][j] : i \in DOMAIN rows}
        IN  {"Day", "Moment"} \subseteq seen \/ "NaN" \in seen

\* The types an import infers fit: a table imported with them, all of whose rows
\* were sampled, builds, a doubtful column apart.  The inference and the
\* conversions are two separate sets of parsers (infer_fields, json_to_duck).
InferredTypesConvert ==
    \A s \in Sources :
        LET content == sheet[ContentOf(s)]
            range   == table[s].range
            most    == IF s \in Uploads THEN 1 ELSE SampleRows
        IN  table[s] # NoTable /\ table[s].built = Failed =>
                \/ ~Readable(content, range)
                \/ RowCount(content, range) > most
                \/ table[s].types # InferTypes(content, range, most)
                \/ Doubtful(content, range, Sample(content, range, most))

\* The build writes a cell that does not convert as NULL, so that no cell fails
\* it (docs/16-import-charts-ai.md, the table of types).
UnconvertibleBecomesNull ==
    \A s \in Sources :
        table[s] # NoTable /\ Readable(sheet[ContentOf(s)], table[s].range)
            => table[s].built # Failed
=============================================================================
