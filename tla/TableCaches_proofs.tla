------------------------- MODULE TableCaches_proofs -------------------------
(***************************************************************************)
(* Theorems about TableCaches, for every set of revisions, ranges, column  *)
(* lists, readers and editors, every kind of traffic and every bound.      *)
(***************************************************************************)
EXTENDS TableCaches, TLAPS

-----------------------------------------------------------------------------
(* Type correctness.                                                       *)

\* A candidate's version is one a row may have.
VersionLeft == refresh.pc # "idle" => refresh.base.ver < MaxVersion

Typed == TypeOK /\ VersionLeft

Snap == [rev : Revs, range : Ranges, ver : Versions, columns : Schemas]

LEMMA Constants ==
  /\ 0 \in Versions /\ Versions \subseteq Nat /\ FirstRev \in Revs /\ FirstRange \in Ranges
  /\ Unknown \in Schemas /\ Types \subseteq Schemas /\ Unknown \notin Types
  /\ \A s \in Snap : InferredOf(s) \in Types
  /\ NoReader.snap \in Snap
BY RevsAssumption, TypesAssumption, BoundsAssumption DEF Versions, Schemas, NoReader, Snap, InferredOf

\* What a build puts into its file, and the key of the file, are well formed.
LEMMA BuiltTyped ==
  ASSUME NEW s \in Snap
  PROVE  /\ ColumnsOf(s) \in Types /\ Built(s) \in Contents
         /\ KeyOf(s) \in Keys /\ Built(s) # NoFile
         /\ ColumnsOf([s EXCEPT !.columns = ColumnsOf(s)]) = ColumnsOf(s)
<1>1. ColumnsOf(s) \in Types
  BY Constants DEF Snap, ColumnsOf, Schemas
<1>2. Built(s) \in Contents
  BY <1>1 DEF Built, Contents, Snap
<1>3. KeyOf(s) \in Keys
  BY DEF KeyOf, Keys, Snap
<1>4. ColumnsOf([s EXCEPT !.columns = ColumnsOf(s)]) = ColumnsOf(s)
  BY <1>1, Constants DEF ColumnsOf, Snap
<1> QED BY <1>1, <1>2, <1>3, <1>4, MarkersAssumption

LEMMA RowTyped ==
  ASSUME TypeOK
  PROVE  RowSnap \in Snap /\ \A q \in Readers : reader[q].snap \in Snap /\ Key(q) \in Keys
BY DEF TypeOK, RowSnap, Snap, Key, KeyOf, Keys

LEMMA CandidateTyped ==
  ASSUME Typed, refresh.pc # "idle"
  PROVE  Candidate \in Snap /\ Candidate.ver = refresh.base.ver + 1
         /\ Candidate.rev = refresh.rev /\ Candidate.columns = refresh.base.columns
<1>1. refresh.base \in Snap /\ refresh.rev \in Revs
  BY DEF Typed, TypeOK, Snap
<1>2. refresh.base.ver + 1 \in Versions
  BY <1>1, BoundsAssumption DEF Typed, VersionLeft, Versions, Snap
<1> QED BY <1>1, <1>2 DEF Candidate, Snap

LEMMA TypeInit == Init => Typed
<1>1. SUFFICES ASSUME Init PROVE Typed
  OBVIOUS
<1>2. table \in [there : BOOLEAN, rev : Revs, range : Ranges, ver : Versions,
                 columns : Schemas, key : Keys \cup {NoKey}]
  BY <1>1, Constants, TypesAssumption DEF Init, Schemas
<1>3. VersionLeft
  BY <1>1 DEF Init, NoRefresh, VersionLeft
<1> QED BY <1>1, <1>2, <1>3, Constants, BoundsAssumption
       DEF Init, Typed, TypeOK, NoReader, NoEditor, NoRefresh, Snap

ReaderActions(q) == Resolve(q) \/ Enqueue(q) \/ Cancel(q) \/ GiveUp(q) \/ Thread(q)

ReaderRec ==
  [pc : {"idle", "queued", "resolved", "building", "prepared", "answered"},
   kind : {"query", "job"}, snap : Snap, pinned : Keys \cup {NoKey},
   active : BOOLEAN, waited : BOOLEAN, got : Contents \cup {NoFile}]

\* A step that changes readers, files and the row within their types.
LEMMA TypeByParts ==
  ASSUME Typed,
         reader' \in [Readers -> ReaderRec], strayed' \subseteq Versions,
         cache' \in [Keys -> Contents \cup {NoFile}] /\ aged' \subseteq Keys,
         table' \in [there : BOOLEAN, rev : Revs, range : Ranges, ver : Versions,
                     columns : Schemas, key : Keys \cup {NoKey}],
         starts' \in 0..MaxStarts,
         UNCHANGED <<editor, refresh, lock, keep, spent, crashes>>
  PROVE  Typed'
BY DEF Typed, TypeOK, VersionLeft, ReaderRec, Snap

LEMMA TypeReader ==
  ASSUME Typed, NEW q \in Readers, ReaderActions(q)
  PROVE  Typed'
<1> USE DEF Ends, At
<1>0. /\ reader \in [Readers -> ReaderRec]
      /\ cache \in [Keys -> Contents \cup {NoFile}] /\ aged \subseteq Keys
      /\ table \in [there : BOOLEAN, rev : Revs, range : Ranges, ver : Versions,
                    columns : Schemas, key : Keys \cup {NoKey}]
      /\ starts \in 0..MaxStarts /\ strayed \subseteq Versions
  BY DEF Typed, TypeOK, ReaderRec, Snap
<1>k. reader[q].snap \in Snap /\ Key(q) \in Keys /\ RowSnap \in Snap
  BY RowTyped DEF Typed
<1>i. NoReader \in ReaderRec /\ reader[q] \in ReaderRec
  BY <1>0, Constants DEF NoReader, ReaderRec
<1>r. ASSUME NEW rec \in ReaderRec, reader' = [reader EXCEPT ![q] = rec]
      PROVE  reader' \in [Readers -> ReaderRec]
  BY <1>0, <1>r
<1>p. \A pc \in {"resolved", "building", "prepared"} :
          [reader[q] EXCEPT !.pc = pc] \in ReaderRec
  BY <1>0 DEF ReaderRec
<1>c. MaxStarts \in Nat /\ (starts < MaxStarts => starts + 1 \in 0..MaxStarts)
  BY <1>0, BoundsAssumption
<1>1. CASE Resolve(q)
  <2>1. PICK g \in {table.range} \cup (IF "override" \in Traffic THEN Ranges ELSE {}) :
        /\ reader' = [reader EXCEPT ![q] =
                         [NoReader EXCEPT !.pc = "resolved", !.waited = TRUE,
                                          !.snap = [RowSnap EXCEPT !.range = g]]]
        /\ strayed' = IF g # table.range /\ table.columns = Unknown
                      THEN strayed \cup {table.ver} ELSE strayed
    BY <1>1 DEF Resolve
  <2>2. [RowSnap EXCEPT !.range = g] \in Snap
    BY <1>0, <1>k DEF Snap
  <2>3. [NoReader EXCEPT !.pc = "resolved", !.waited = TRUE,
                         !.snap = [RowSnap EXCEPT !.range = g]] \in ReaderRec
    BY <1>i, <2>2 DEF ReaderRec
  <2>4. strayed' \subseteq Versions
    BY <1>0, <2>1
  <2> QED BY <1>1, <2>1, <2>3, <2>4, <1>0, <1>r, <1>c, TypeByParts DEF Resolve
<1>2. CASE Enqueue(q)
  <2>1. [NoReader EXCEPT !.pc = "queued", !.kind = "job", !.snap = RowSnap,
                         !.pinned = table.key, !.active = TRUE] \in ReaderRec
    BY <1>i, <1>k, <1>0 DEF ReaderRec
  <2> QED BY <1>2, <2>1, <1>0, <1>r, <1>c, TypeByParts DEF Enqueue
<1>3. CASE Cancel(q)
  <2>1. [reader[q] EXCEPT !.active = FALSE] \in ReaderRec
    BY <1>i DEF ReaderRec
  <2>2. reader' \in [Readers -> ReaderRec]
    BY <1>3, <2>1, <1>i, <1>r DEF Cancel
  <2> QED BY <1>3, <2>2, <1>0, TypeByParts DEF Cancel, boundVars
<1>4. CASE GiveUp(q)
  <2>1. [reader[q] EXCEPT !.waited = FALSE, !.active = FALSE] \in ReaderRec
    BY <1>i DEF ReaderRec
  <2>2. reader' = [reader EXCEPT ![q] = [reader[q] EXCEPT !.waited = FALSE, !.active = FALSE]]
    BY <1>4 DEF GiveUp
  <2> QED BY <1>4, <2>1, <2>2, <1>r, <1>0, TypeByParts DEF GiveUp, boundVars
<1>5. CASE Claim(q)
  <2>1. [reader[q] EXCEPT !.pc = "resolved", !.waited = TRUE] \in ReaderRec
    BY <1>i DEF ReaderRec
  <2>2. reader' = [reader EXCEPT ![q] = [reader[q] EXCEPT !.pc = "resolved", !.waited = TRUE]]
    BY <1>5 DEF Claim
  <2> QED BY <1>5, <2>1, <2>2, <1>r, <1>0, TypeByParts DEF Claim, boundVars
<1>6. CASE Hit(q)
  <2>1. reader' \in [Readers -> ReaderRec]
    BY <1>6, <1>p, <1>r DEF Hit
  <2> QED BY <1>6, <2>1, <1>0, TypeByParts DEF Hit, boundVars
<1>7. CASE Build(q)
  <2>1. reader' \in [Readers -> ReaderRec]
    BY <1>7, <1>p, <1>r DEF Build
  <2>2. cache' \in [Keys -> Contents \cup {NoFile}] /\ aged' \subseteq Keys
    BY <1>7, <1>0 DEF Build, Without
  <2> QED BY <1>7, <2>1, <2>2, <1>0, TypeByParts DEF Build, boundVars
<1>8. CASE Finish(q)
  <2>1. reader' \in [Readers -> ReaderRec]
    BY <1>8, <1>p, <1>r DEF Finish
  <2>2. Built(reader[q].snap) \in Contents
    BY <1>k, BuiltTyped
  <2>3. cache' \in [Keys -> Contents \cup {NoFile}] /\ aged' \subseteq Keys
    BY <1>8, <2>2, <1>0 DEF Finish
  <2> QED BY <1>8, <2>1, <2>3, <1>0, TypeByParts DEF Finish, boundVars
<1>9. CASE Attach(q)
  <2>1. cache[Key(q)] \in Contents
    BY <1>9, <1>0, <1>k DEF Attach
  <2>2. [reader[q] EXCEPT !.pc = "answered", !.got = cache[Key(q)]] \in ReaderRec
    BY <2>1, <1>i DEF ReaderRec
  <2>3. reader' = [reader EXCEPT ![q] =
                     [reader[q] EXCEPT !.pc = "answered", !.got = cache[Key(q)]]]
    BY <1>9 DEF Attach
  <2> QED BY <1>9, <2>2, <2>3, <1>r, <1>0, TypeByParts DEF Attach, boundVars
<1>10. CASE Miss(q) \/ Fail(q) \/ Discard(q)
  BY <1>10, <1>i, <1>r, <1>0, TypeByParts DEF Miss, Fail, Discard, boundVars
<1>11. CASE Persist(q)
  <2>1. ColumnsOf(reader[q].snap) \in Schemas /\ Key(q) \in Keys
    BY <1>k, BuiltTyped, Constants
  <2>2. table' \in [there : BOOLEAN, rev : Revs, range : Ranges, ver : Versions,
                    columns : Schemas, key : Keys \cup {NoKey}]
    BY <1>11, <2>1, <1>0 DEF Persist
  <2> QED BY <1>11, <2>2, <1>i, <1>r, <1>0, TypeByParts DEF Persist, boundVars
<1> QED BY <1>1, <1>2, <1>3, <1>4, <1>5, <1>6, <1>7, <1>8, <1>9, <1>10, <1>11
        DEF ReaderActions, Thread

EditorRec ==
  [pc : {"idle", "validating", "deleting", "counting", "unlinking"},
   prev : Keys \cup {NoKey}, rev : Revs]

EditorActions(e) ==
  EditRead(e) \/ DeleteRead(e) \/ Edit(e)

LEMMA TypeEditor ==
  ASSUME Typed, NEW e \in Editors \cup {Refresher},
         EditorActions(e) \/ Remove(e)
  PROVE  Typed'
<1> USE DEF TypeOK
<1>0. NoEditor \in EditorRec /\ editor \in [Editors \cup {Refresher} -> EditorRec]
      /\ table.rev \in Revs /\ table.key \in Keys \cup {NoKey}
  BY RevsAssumption DEF NoEditor, EditorRec, Typed
<1>w. ASSUME editor' \in [Editors \cup {Refresher} -> EditorRec],
             cache' \in [Keys -> Contents \cup {NoFile}] /\ aged' \subseteq Keys,
             table' \in [there : BOOLEAN, rev : Revs, range : Ranges, ver : Versions,
                         columns : Schemas, key : Keys \cup {NoKey}],
             lock' \in {Refresher, Cleaner, Nobody},
             UNCHANGED <<reader, refresh, keep, spent, strayed, boundVars>>
      PROVE  Typed'
  BY <1>w DEF Typed, VersionLeft, EditorRec, boundVars
<1>r. ASSUME NEW rec \in EditorRec, editor' = [editor EXCEPT ![e] = rec]
      PROVE  editor' \in [Editors \cup {Refresher} -> EditorRec]
  BY <1>0, <1>r
<1>s. /\ cache \in [Keys -> Contents \cup {NoFile}] /\ aged \subseteq Keys
      /\ table \in [there : BOOLEAN, rev : Revs, range : Ranges, ver : Versions,
                    columns : Schemas, key : Keys \cup {NoKey}]
      /\ lock \in {Refresher, Cleaner, Nobody}
  BY DEF Typed
<1>1. CASE EditRead(e) \/ DeleteRead(e) \/ EditStops(e)
  <2>1. \E rec \in EditorRec : editor' = [editor EXCEPT ![e] = rec]
    <3>1. [pc |-> "validating", prev |-> table.key, rev |-> table.rev] \in EditorRec
      BY <1>0 DEF EditorRec
    <3>2. [NoEditor EXCEPT !.pc = "deleting", !.prev = table.key] \in EditorRec
      BY <1>0 DEF EditorRec
    <3> QED BY <3>1, <3>2, <1>0, <1>1 DEF EditRead, DeleteRead, EditStops
  <2>2. UNCHANGED <<table, cache, aged, lock, reader, refresh, keep, spent, strayed, boundVars>>
    BY <1>1 DEF EditRead, DeleteRead, EditStops
  <2> QED BY <2>1, <2>2, <1>r, <1>s, <1>w
<1>c. ASSUME Counts(e) PROVE editor' \in [Editors \cup {Refresher} -> EditorRec]
  BY <1>c, <1>0 DEF Counts, EditorRec
<1>2. CASE EditWrite(e)
  <2>1. PICK s \in Settings :
        table' = [table EXCEPT !.range = s.range, !.columns = s.columns, !.ver = @ + 1, !.key = NoKey]
    BY <1>2 DEF EditWrite, Valid
  <2>2. s.range \in Ranges /\ s.columns \in Schemas
    BY TypesAssumption, Constants
  <2>3. table.ver + 1 \in Versions
    BY <1>2, BoundsAssumption DEF EditWrite, Versions, Typed
  <2>4. table' \in [there : BOOLEAN, rev : Revs, range : Ranges, ver : Versions,
                    columns : Schemas, key : Keys \cup {NoKey}]
    BY <2>1, <2>2, <2>3 DEF Typed
  <2> QED BY <1>2, <2>4, <1>c, <1>s, <1>w DEF EditWrite
<1>3. CASE DeleteWrite(e)
  <2>1. table' \in [there : BOOLEAN, rev : Revs, range : Ranges, ver : Versions,
                    columns : Schemas, key : Keys \cup {NoKey}]
    BY <1>3 DEF DeleteWrite, Typed
  <2> QED BY <1>3, <2>1, <1>c, <1>s, <1>w DEF DeleteWrite
<1>4. CASE Remove(e)
  <2>1. [editor[e] EXCEPT !.pc = "unlinking"] \in EditorRec
    BY <1>0 DEF EditorRec
  <2>2. editor' \in [Editors \cup {Refresher} -> EditorRec]
    BY <1>4, <2>1, <1>0, <1>r DEF Remove, CountKept, CountNone, Unlink
  <2>3. lock' \in {Refresher, Cleaner, Nobody}
    BY <1>4, <1>s DEF Remove, CountKept, CountNone, Unlink, Released
  <2>4. cache' \in [Keys -> Contents \cup {NoFile}] /\ aged' \subseteq Keys
    BY <1>4, <1>s DEF Remove, CountKept, CountNone, Unlink, Without
  <2> QED BY <1>4, <2>2, <2>3, <2>4, <1>s, <1>w DEF Remove, CountKept, CountNone, Unlink
<1> QED BY <1>1, <1>2, <1>3, <1>4 DEF EditorActions, Edit

RefreshActions == RefreshLoad \/ RefreshStep \/ RefreshDrop \/ RefreshDropAtCommit

LEMMA TypeRefresh ==
  ASSUME Typed, RefreshActions
  PROVE  Typed'
<1> USE DEF TypeOK, Typed, VersionLeft, RefreshAt, boundVars
<1>0. NoRefresh \in [pc : {"idle", "loaded", "preparing", "prepared"}, held : BOOLEAN,
                    rev : Revs, base : Snap, prev : Keys \cup {NoKey}]
      /\ NoRefresh.pc = "idle"
  BY Constants DEF NoRefresh
<1>1. CASE RefreshLoad
  <2>1. RowSnap \in Snap /\ RowSnap.ver = table.ver
    BY RowTyped DEF RowSnap
  <2> QED BY <1>1, <2>1 DEF RefreshLoad, Snap
<1>2. CASE RefreshLock
  BY <1>2 DEF RefreshLock
<1>3. CASE RefreshBuild
  <2>1. Built(Candidate) \in Contents
    BY <1>3, CandidateTyped, BuiltTyped DEF RefreshBuild
  <2> QED BY <1>3, <2>1 DEF RefreshBuild
<1>4. ASSUME refresh.pc = "prepared", Published
      PROVE  table' \in [there : BOOLEAN, rev : Revs, range : Ranges, ver : Versions,
                        columns : Schemas, key : Keys \cup {NoKey}]
  <2>1. Candidate \in Snap
    BY <1>4, CandidateTyped
  <2>2. Candidate.ver \in Versions /\ ColumnsOf(Candidate) \in Schemas
        /\ KeyOf(Candidate) \in Keys
    BY <2>1, BuiltTyped, Constants DEF Snap
  <2> QED BY <2>2, <1>4 DEF Published
<1>5. CASE RefreshPublish
  <2>1. NoEditor \in EditorRec /\ editor \in [Editors \cup {Refresher} -> EditorRec]
        /\ refresh.prev \in Keys \cup {NoKey}
    BY RevsAssumption DEF NoEditor, EditorRec
  <2>2. [NoEditor EXCEPT !.pc = "counting", !.prev = refresh.prev] \in EditorRec
    BY <2>1 DEF EditorRec
  <2>3. editor' \in [Editors \cup {Refresher} -> EditorRec]
    BY <1>5, <2>1, <2>2 DEF RefreshPublish
  <2> QED BY <1>5, <2>3, <1>4, <1>0 DEF RefreshPublish, EditorRec, Snap
<1>6. CASE RefreshUndo
  BY <1>6, <1>0 DEF RefreshUndo, Without, Snap
<1>7. CASE RefreshDrop
  BY <1>7, <1>0 DEF RefreshDrop, Snap
<1>8. CASE RefreshDropAtCommit
  BY <1>8, <1>4 DEF RefreshDropAtCommit
<1> QED BY <1>1, <1>2, <1>3, <1>5, <1>6, <1>7, <1>8 DEF RefreshActions, RefreshStep

LEMMA TypeClean ==
  ASSUME Typed, Hour \/ Clean \/ Restart
  PROVE  Typed'
<1> USE DEF TypeOK, Typed, VersionLeft, boundVars
<1>1. CASE Hour
  BY <1>1 DEF Hour
<1>2. CASE CleanBegin
  <2>1. InUse \subseteq Keys \cup {NoKey}
    BY DEF InUse
  <2> QED BY <1>2, <2>1 DEF CleanBegin
<1>3. CASE CleanSweep
  BY <1>3 DEF CleanSweep
<1>4. CASE Restart
  <2>1. NoReader \in ReaderRec
    BY Constants DEF NoReader, ReaderRec
  <2>2. reader \in [Readers -> ReaderRec]
    BY DEF ReaderRec, Snap
  <2>3. reader' \in [Readers -> ReaderRec]
    BY <1>4, <2>1, <2>2 DEF Restart
  <2>4. crashes' \in 0..MaxCrashes
    BY <1>4, BoundsAssumption DEF Restart
  <2>5. NoRefresh \in [pc : {"idle", "loaded", "preparing", "prepared"}, held : BOOLEAN,
                      rev : Revs, base : Snap, prev : Keys \cup {NoKey}]
        /\ NoRefresh.pc = "idle"
    BY Constants DEF NoRefresh
  <2>6. editor' \in [Editors \cup {Refresher} ->
          [pc : {"idle", "validating", "deleting", "counting", "unlinking"},
           prev : Keys \cup {NoKey}, rev : Revs]]
    BY <1>4, Constants DEF Restart, NoEditor
  <2> QED BY <1>4, <2>3, <2>4, <2>5, <2>6 DEF Restart, ReaderRec, Snap
<1> QED BY <1>1, <1>2, <1>3, <1>4 DEF Clean

LEMMA NextSplits ==
  ASSUME Next
  PROVE  \/ \E q \in Readers : ReaderActions(q)
         \/ \E e \in Editors \cup {Refresher} : EditorActions(e) \/ Remove(e)
         \/ RefreshActions
         \/ Hour \/ Clean \/ Restart
BY DEF Next, ReaderActions, EditorActions, RefreshActions

LEMMA TypeStep == Typed /\ [Next]_vars => Typed'
<1> SUFFICES ASSUME Typed, [Next]_vars PROVE Typed'
  OBVIOUS
<1>1. CASE Next
  BY <1>1, NextSplits, TypeReader, TypeEditor, TypeRefresh, TypeClean
<1>2. CASE UNCHANGED vars
  BY <1>2 DEF vars, boundVars, Typed, TypeOK, VersionLeft
<1> QED BY <1>1, <1>2

LEMMA AlwaysTyped == Spec => []Typed
BY TypeInit, TypeStep, PTL DEF Spec

\* The type invariant: rows, keys and files stay within what a build, an edit
\* or a refresh may store, whatever is interrupted.
THEOREM CachesTypeCorrect == Spec => []TypeOK
<1>1. Typed => TypeOK
  BY DEF Typed
<1> QED BY <1>1, AlwaysTyped, PTL

-----------------------------------------------------------------------------
(* Why an answer matches.  A file is named by revision, range and version,  *)
(* not by the columns its build uses, so the proof is that a version of a  *)
(* revision that has not strayed never has two lists of columns at once.   *)

Live(q) == reader[q].pc # "idle"

\* The snapshots that may still decide what a file or the row will hold.
Held ==
  {RowSnap} \cup {reader[q].snap : q \in {p \in Readers : Live(p)}}
            \cup (IF refresh.pc = "idle" THEN {} ELSE {Candidate})

Same(a, b) == a.rev = b.rev /\ a.ver = b.ver

\* A version of a revision has one list of columns unless it has strayed, ...
Agree == \A a, b \in Held : Same(a, b) /\ a.ver \notin strayed => ColumnsOf(a) = ColumnsOf(b)

\* ... which is in every file of that version; the names are those of the range, ...
FilesFit ==
  \A k \in Keys : cache[k] # NoFile =>
      /\ cache[k] = [rev |-> k.rev, range |-> k.range, columns |-> cache[k].columns]
      /\ Names[cache[k].columns] = Names[InferredOf(k)]
      /\ \A s \in Held : Same(k, s) /\ k.ver \notin strayed => cache[k].columns = ColumnsOf(s)

\* ... and no revision is used before it exists.
Known ==
  /\ \A s \in Held : s.rev \in spent
  /\ \A k \in Keys : cache[k] # NoFile => k.rev \in spent

\* The row has the highest version of its revision.
NoneNewer ==
  /\ \A q \in Readers : Live(q) =>
         /\ reader[q].snap.ver <= table.ver
         /\ reader[q].snap.ver = table.ver => reader[q].snap.rev = table.rev
  /\ refresh.pc # "idle" /\ table.rev = refresh.rev => Candidate.ver <= table.ver
  /\ \A k \in Keys : cache[k] # NoFile /\ k.rev = table.rev => k.ver <= table.ver

\* Until it is published, nobody but the refresh has its revision.
FreshCandidate ==
  refresh.pc # "idle" =>
      /\ refresh.base.rev # refresh.rev
      /\ table.rev = refresh.rev => refresh.pc = "prepared"
      /\ table.rev # refresh.rev =>
             /\ \A q \in Readers : Live(q) => reader[q].snap.rev # refresh.rev
             /\ \A k \in Keys : cache[k] # NoFile /\ k.rev = refresh.rev
                    => k.ver = Candidate.ver

CachesInv ==
  /\ Typed /\ Agree /\ FilesFit /\ Known /\ NoneNewer /\ FreshCandidate
  /\ RowKeyCurrent /\ AnswersMatch

LEMMA HeldTyped ==
  ASSUME Typed
  PROVE  /\ Held \subseteq Snap /\ RowSnap \in Held
         /\ \A q \in Readers : Live(q) => reader[q].snap \in Held
         /\ refresh.pc # "idle" => Candidate \in Held
<1>1. RowSnap \in Snap /\ \A q \in Readers : reader[q].snap \in Snap
  BY RowTyped DEF Typed
<1>2. refresh.pc # "idle" => Candidate \in Snap
  BY CandidateTyped
<1> QED BY <1>1, <1>2 DEF Held

\* A snapshot that will build what another one does, range apart, unless its version
\* has strayed after the step.
Copies(a, b) == Same(a, b) /\ (a.ver \notin strayed' => ColumnsOf(a) = ColumnsOf(b))

\* Every file is an old one or one built for a snapshot that was held.
FilesFollow ==
  \A k \in Keys : cache'[k] # NoFile =>
      \/ cache'[k] = cache[k]
      \/ \E s \in Held : k = KeyOf(s) /\ cache'[k] = Built(s) /\ Fits(s)

\* A step after which nothing is held but copies of what was held.
LEMMA CopiesAgree ==
  ASSUME CachesInv, Typed', FilesFollow, spent \subseteq spent', strayed \subseteq strayed',
         \A t \in Held' : \E s \in Held : Copies(t, s)
  PROVE  Agree' /\ FilesFit' /\ Known'
<1>1. Held \subseteq Snap /\ Agree /\ FilesFit /\ Known
  BY HeldTyped DEF CachesInv
<1>2. Agree'
  <2>1. SUFFICES ASSUME NEW a \in Held', NEW b \in Held', Same(a, b), a.ver \notin strayed'
                 PROVE  ColumnsOf(a) = ColumnsOf(b)
    BY DEF Agree
  <2>2. PICK c \in Held : Copies(a, c)
    OBVIOUS
  <2>3. PICK d \in Held : Copies(b, d)
    OBVIOUS
  <2>4. Same(c, d) /\ c.ver \notin strayed
    BY <2>1, <2>2, <2>3 DEF Copies, Same
  <2>5. b.ver \notin strayed'
    BY <2>1 DEF Same
  <2> QED BY <2>1, <2>2, <2>3, <2>4, <2>5, <1>1 DEF Agree, Copies
<1>3. FilesFit'
  <2>1. SUFFICES ASSUME NEW k \in Keys, cache'[k] # NoFile
                 PROVE  /\ cache'[k] = [rev |-> k.rev, range |-> k.range,
                                        columns |-> cache'[k].columns]
                        /\ Names[cache'[k].columns] = Names[InferredOf(k)]
                        /\ \A t \in Held' : Same(k, t) /\ k.ver \notin strayed'
                               => cache'[k].columns = ColumnsOf(t)
    BY DEF FilesFit
  <2>2. CASE cache'[k] = cache[k]
    <3>1. ASSUME NEW t \in Held', Same(k, t), k.ver \notin strayed'
          PROVE  cache'[k].columns = ColumnsOf(t)
      <4>1. PICK s \in Held : Copies(t, s)
        OBVIOUS
      <4>2. Same(k, s) /\ k.ver \notin strayed /\ t.ver \notin strayed'
        BY <3>1, <4>1 DEF Copies, Same
      <4>3. cache[k].columns = ColumnsOf(s)
        BY <4>2, <2>1, <2>2, <1>1 DEF FilesFit
      <4>4. ColumnsOf(t) = ColumnsOf(s)
        BY <4>1, <4>2 DEF Copies
      <4> QED BY <4>3, <4>4, <2>2
    <3> QED BY <3>1, <2>1, <2>2, <1>1 DEF FilesFit
  <2>3. CASE \E s \in Held : k = KeyOf(s) /\ cache'[k] = Built(s) /\ Fits(s)
    <3>1. PICK s \in Held : k = KeyOf(s) /\ cache'[k] = Built(s) /\ Fits(s)
      BY <2>3
    <3>2. ASSUME NEW t \in Held', Same(k, t), k.ver \notin strayed'
          PROVE  cache'[k].columns = ColumnsOf(t)
      <4>1. PICK u \in Held : Copies(t, u)
        OBVIOUS
      <4>2. Same(s, u) /\ s.ver \notin strayed /\ t.ver \notin strayed'
        BY <3>1, <3>2, <4>1 DEF Copies, Same, KeyOf
      <4> QED BY <3>1, <4>1, <4>2, <1>1 DEF Agree, Copies, Built
    <3>3. Names[cache'[k].columns] = Names[InferredOf(k)]
      BY <3>1 DEF Built, KeyOf, Fits, InferredOf
    <3> QED BY <3>1, <3>2, <3>3 DEF Built, KeyOf
  <2> QED BY <2>1, <2>2, <2>3 DEF FilesFollow
<1>4. Known'
  <2>1. \A t \in Held' : t.rev \in spent'
    BY <1>1 DEF Known, Copies, Same
  <2>2. \A k \in Keys : cache'[k] # NoFile => k.rev \in spent'
    BY <1>1 DEF Known, FilesFollow, KeyOf
  <2> QED BY <2>1, <2>2 DEF Known
<1> QED BY <1>2, <1>3, <1>4

\* The snapshots of readers after a step are those of the row and of the readers
\* before it.
ReadersFollow ==
  \A q \in Readers : Live(q)' =>
      \/ Copies(reader'[q].snap, RowSnap)
      \/ Live(q) /\ reader'[q].snap = reader[q].snap

\* The refresh goes on with what it has read, or ends.
RefreshFollows ==
  \/ refresh'.pc = "idle"
  \/ /\ refresh.pc # "idle" /\ refresh'.pc # "idle"
     /\ refresh'.rev = refresh.rev /\ refresh'.base = refresh.base
     /\ refresh.pc = "prepared" => refresh'.pc = "prepared"

\* Most steps leave the row at its revision, version and columns.
LEMMA SteadyStep ==
  ASSUME CachesInv, Typed', FilesFollow, ReadersFollow, RefreshFollows,
         spent' = spent, strayed \subseteq strayed', Copies(RowSnap', RowSnap),
         table'.rev = table.rev, table'.ver = table.ver
  PROVE  Agree' /\ FilesFit' /\ Known' /\ NoneNewer' /\ FreshCandidate'
<1>0. /\ Typed /\ Agree /\ FilesFit /\ Known /\ NoneNewer /\ FreshCandidate
      /\ table.ver \in Nat /\ Versions \subseteq Nat
      /\ RowSnap.ver = table.ver /\ RowSnap.rev = table.rev
  BY Constants DEF CachesInv, Typed, TypeOK, RowSnap
<1>c. refresh'.pc # "idle" => Candidate' = Candidate
  BY DEF RefreshFollows, Candidate
<1>1. ASSUME NEW t \in Held' PROVE \E s \in Held : Copies(t, s)
  <2>1. CASE t = RowSnap'
    BY <2>1, <1>0, HeldTyped
  <2>2. CASE \E q \in Readers : Live(q)' /\ t = reader'[q].snap
    BY <2>2, <1>0, HeldTyped DEF ReadersFollow, Copies, Same
  <2>3. CASE refresh'.pc # "idle" /\ t = Candidate'
    BY <2>3, <1>0, <1>c, HeldTyped DEF RefreshFollows, Copies, Same
  <2> QED BY <1>1, <2>1, <2>2, <2>3 DEF Held
<1>2. Agree' /\ FilesFit' /\ Known'
  BY <1>1, CopiesAgree
<1>3. ASSUME NEW q \in Readers, Live(q)'
      PROVE  /\ reader'[q].snap.ver <= table.ver
             /\ reader'[q].snap.ver = table.ver => reader'[q].snap.rev = table.rev
             /\ refresh.pc # "idle" /\ table.rev # refresh.rev
                    => reader'[q].snap.rev # refresh.rev
  <2>1. CASE Copies(reader'[q].snap, RowSnap)
    BY <2>1, <1>0 DEF Copies, Same
  <2>2. CASE Live(q) /\ reader'[q].snap = reader[q].snap
    BY <2>2, <1>0 DEF NoneNewer, FreshCandidate
  <2> QED BY <1>3, <2>1, <2>2 DEF ReadersFollow
<1>4. ASSUME NEW k \in Keys, cache'[k] # NoFile
      PROVE  /\ k.rev = table.rev => k.ver <= table.ver
             /\ refresh.pc # "idle" /\ table.rev # refresh.rev /\ k.rev = refresh.rev
                    => k.ver = Candidate.ver
  <2>1. CASE cache'[k] = cache[k]
    BY <2>1, <1>4, <1>0 DEF NoneNewer, FreshCandidate
  <2>2. CASE \E s \in Held : k = KeyOf(s)
    <3>1. PICK s \in Held : k = KeyOf(s)
      BY <2>2
    <3>2. k.rev = s.rev /\ k.ver = s.ver
      BY <3>1 DEF KeyOf
    <3>3. CASE s = RowSnap
      BY <3>2, <3>3, <1>0
    <3>4. CASE \E q \in Readers : Live(q) /\ s = reader[q].snap
      BY <3>2, <3>4, <1>0 DEF NoneNewer, FreshCandidate
    <3>5. CASE refresh.pc # "idle" /\ s = Candidate
      BY <3>2, <3>5, <1>0, CandidateTyped DEF NoneNewer
    <3> QED BY <3>1, <3>3, <3>4, <3>5 DEF Held
  <2> QED BY <1>4, <2>1, <2>2 DEF FilesFollow
<1>5. NoneNewer'
  <2>1. refresh'.pc # "idle" /\ table'.rev = refresh'.rev => Candidate'.ver <= table'.ver
    BY <1>0, <1>c DEF NoneNewer, RefreshFollows
  <2> QED BY <2>1, <1>3, <1>4 DEF NoneNewer
<1>6. FreshCandidate'
  <2>1. SUFFICES ASSUME refresh'.pc # "idle"
                 PROVE  /\ refresh'.base.rev # refresh'.rev
                        /\ table'.rev = refresh'.rev => refresh'.pc = "prepared"
                        /\ table'.rev # refresh'.rev =>
                             /\ \A q \in Readers : Live(q)' => reader'[q].snap.rev # refresh'.rev
                             /\ \A k \in Keys : cache'[k] # NoFile /\ k.rev = refresh'.rev
                                    => k.ver = Candidate'.ver
    BY DEF FreshCandidate
  <2>2. /\ refresh.pc # "idle" /\ refresh'.rev = refresh.rev /\ refresh'.base = refresh.base
        /\ refresh.pc = "prepared" => refresh'.pc = "prepared"
    BY <2>1 DEF RefreshFollows
  <2> QED BY <2>1, <2>2, <1>c, <1>3, <1>4, <1>0 DEF FreshCandidate
<1> QED BY <1>2, <1>5, <1>6
LEMMA InvInit == Init => CachesInv
<1>1. SUFFICES ASSUME Init PROVE CachesInv
  OBVIOUS
<1>2. Typed
  BY <1>1, TypeInit
<1>3. \A q \in Readers : reader[q].pc = "idle"
  BY <1>1 DEF Init, NoReader
<1>4. refresh.pc = "idle" /\ \A k \in Keys : cache[k] = NoFile
  BY <1>1 DEF Init, NoRefresh
<1>5. Held = {RowSnap} /\ RowSnap.rev = FirstRev /\ spent = {FirstRev} /\ table.key = NoKey
  BY <1>1, <1>3, <1>4 DEF Held, Live, RowSnap, Init
<1> QED BY <1>2, <1>3, <1>4, <1>5
       DEF CachesInv, Agree, FilesFit, Known, NoneNewer, FreshCandidate, Live,
           RowKeyCurrent, AnswersMatch, At

\* The columns of the row do not change when a reader writes back what it built for
\* the row's own version, unless nobody knew them or that version has strayed.
LEMMA PersistKeepsColumns ==
  ASSUME CachesInv, NEW q \in Readers, Live(q), table.ver = reader[q].snap.ver
  PROVE  /\ reader[q].snap.rev = table.rev
         /\ table.ver \notin strayed => ColumnsOf(reader[q].snap) = ColumnsOf(RowSnap)
         /\ table.ver \notin strayed /\ table.columns # Unknown
                => ColumnsOf(reader[q].snap) = table.columns
<1>1. reader[q].snap.rev = table.rev
  BY DEF CachesInv, NoneNewer
<1>2. table.ver \notin strayed => ColumnsOf(reader[q].snap) = ColumnsOf(RowSnap)
  BY <1>1, HeldTyped DEF CachesInv, Agree, Same, RowSnap
<1>3. table.columns # Unknown => ColumnsOf(RowSnap) = table.columns
  BY DEF ColumnsOf, RowSnap
<1> QED BY <1>1, <1>2, <1>3

LEMMA InvReader ==
  ASSUME CachesInv, NEW q \in Readers, ReaderActions(q)
  PROVE  CachesInv'
<1>0. /\ Typed /\ Typed' /\ reader \in [Readers -> ReaderRec]
      /\ reader[q].snap \in Snap /\ RowSnap \in Snap /\ Key(q) \in Keys
      /\ cache \in [Keys -> Contents \cup {NoFile}]
      /\ Key(q) = KeyOf(reader[q].snap)
      /\ RowKeyCurrent /\ AnswersMatch
  BY TypeReader, RowTyped DEF CachesInv, Typed, TypeOK, Key, ReaderRec, Snap
<1>1. /\ spent' = spent /\ refresh' = refresh /\ strayed \subseteq strayed'
      /\ ~Resolve(q) => strayed' = strayed
  BY DEF ReaderActions, Thread, Resolve, Enqueue, Cancel, GiveUp, Claim, Hit, Build,
         Finish, Attach, Miss, Fail, Persist, Discard
<1>2. RefreshFollows
  BY <1>1 DEF RefreshFollows
<1>3. \A p \in Readers \ {q} : reader'[p] = reader[p]
  BY <1>0 DEF ReaderActions, Thread, Resolve, Enqueue, Cancel, GiveUp, Claim, Hit, Build,
         Finish, Attach, Miss, Fail, Persist, Discard, Ends
<1>4. /\ ReadersFollow
      /\ reader'[q].pc = "answered" => Attach(q)
            \/ (reader[q].pc = "answered" /\ reader'[q].got = reader[q].got
                /\ reader'[q].snap = reader[q].snap)
  <2> USE DEF At, Live, Ends
  <2>i. NoReader.pc = "idle"
    BY DEF NoReader
  <2>1. \/ reader'[q].pc = "idle"
        \/ Copies(reader'[q].snap, RowSnap) /\ reader'[q].pc # "answered"
        \/ /\ Live(q) /\ reader'[q].snap = reader[q].snap
           /\ reader'[q].pc = "answered" => Attach(q)
                 \/ (reader[q].pc = "answered" /\ reader'[q].got = reader[q].got)
    <3>1. CASE Resolve(q)
      <4>1. PICK g \in {table.range} \cup (IF "override" \in Traffic THEN Ranges ELSE {}) :
            /\ reader' = [reader EXCEPT ![q] =
                             [NoReader EXCEPT !.pc = "resolved", !.waited = TRUE,
                                              !.snap = [RowSnap EXCEPT !.range = g]]]
            /\ strayed' = IF g # table.range /\ table.columns = Unknown
                          THEN strayed \cup {table.ver} ELSE strayed
        BY <3>1 DEF Resolve
      <4>2. reader'[q].snap = [RowSnap EXCEPT !.range = g] /\ reader'[q].pc = "resolved"
        BY <4>1, <1>0 DEF NoReader
      <4>3. table.ver \in strayed' \/ g = table.range \/ table.columns # Unknown
        BY <4>1
      <4> QED BY <4>2, <4>3 DEF Copies, Same, ColumnsOf, InferredOf, RowSnap
    <3>2. CASE Enqueue(q)
      <4>1. reader'[q].snap = RowSnap /\ reader'[q].pc = "queued"
        BY <3>2, <1>0 DEF Enqueue, NoReader
      <4> QED BY <4>1 DEF Copies, Same
    <3>3. CASE Cancel(q) \/ GiveUp(q)
      <4>1. \/ reader' = [reader EXCEPT ![q] = NoReader]
            \/ reader' = [reader EXCEPT ![q].active = FALSE] /\ reader[q].active
            \/ reader' = [reader EXCEPT ![q].waited = FALSE, ![q].active = FALSE]
        BY <3>3 DEF Cancel, GiveUp
      <4> QED BY <4>1, <2>i, <1>0 DEF ReaderRec
    <3>4. CASE Claim(q) \/ Hit(q) \/ Build(q) \/ Finish(q)
      BY <3>4, <1>0 DEF Claim, Hit, Build, Finish, ReaderRec
    <3>5. CASE Attach(q)
      BY <3>5, <1>0 DEF Attach, ReaderRec
    <3>6. CASE Miss(q) \/ Fail(q) \/ Persist(q) \/ Discard(q)
      BY <3>6, <1>0, <2>i DEF Miss, Fail, Persist, Discard
    <3> QED BY <3>1, <3>2, <3>3, <3>4, <3>5, <3>6 DEF ReaderActions, Thread
  <2>2. ReadersFollow
    BY <2>1, <1>3 DEF ReadersFollow
  <2> QED BY <2>1, <2>2 DEF Copies
<1>5. FilesFollow
  <2>1. CASE cache' = cache
    BY <2>1 DEF FilesFollow
  <2>2. CASE Build(q)
    BY <2>2, <1>0 DEF FilesFollow, Build, Without
  <2>3. CASE Finish(q)
    <3>1. reader[q].snap \in Held /\ Fits(reader[q].snap)
      BY <2>3, <1>0, HeldTyped DEF Finish, At, Live
    <3>2. cache' = [cache EXCEPT ![Key(q)] = Built(reader[q].snap)]
      BY <2>3 DEF Finish
    <3> QED BY <3>1, <3>2, <1>0 DEF FilesFollow
  <2> QED BY <2>1, <2>2, <2>3
          DEF ReaderActions, Thread, Resolve, Enqueue, Cancel, GiveUp, Claim, Hit,
              Attach, Miss, Fail, Persist, Discard
<1>6. /\ table'.rev = table.rev /\ table'.ver = table.ver /\ Copies(RowSnap', RowSnap)
      /\ RowKeyCurrent'
  <2>1. CASE table' = table
    BY <2>1, <1>0 DEF RowSnap, Copies, Same, RowKeyCurrent
  <2>2. CASE Persist(q) /\ table' # table
    <3>1. /\ Live(q) /\ table.ver = reader[q].snap.ver
          /\ table' = [table EXCEPT !.key = Key(q), !.columns = ColumnsOf(reader[q].snap)]
      BY <2>2 DEF Persist, At, Live
    <3>2. /\ reader[q].snap.rev = table.rev
          /\ table.ver \notin strayed => ColumnsOf(reader[q].snap) = ColumnsOf(RowSnap)
      BY <3>1, PersistKeepsColumns
    <3>3. /\ table'.rev = table.rev /\ table'.ver = table.ver /\ table'.key = Key(q)
          /\ table'.columns = ColumnsOf(reader[q].snap)
      BY <3>1, <3>2, <1>0 DEF Typed, TypeOK
    <3>4. ColumnsOf(reader[q].snap) \in Types
      BY <1>0, BuiltTyped
    <3>5. Copies(RowSnap', RowSnap)
      <4>1. ColumnsOf(RowSnap') = ColumnsOf(reader[q].snap)
        BY <3>3, <3>4, Constants DEF RowSnap, ColumnsOf
      <4>2. Same(RowSnap', RowSnap) /\ RowSnap'.ver = table.ver
        BY <3>3 DEF Same, RowSnap
      <4> QED BY <4>1, <4>2, <3>2, <1>1 DEF Copies
    <3> QED BY <3>1, <3>2, <3>3, <3>5, <1>0 DEF RowKeyCurrent, KeyOf
  <2> QED BY <2>1, <2>2
          DEF ReaderActions, Thread, Resolve, Enqueue, Cancel, GiveUp, Claim, Hit,
              Build, Finish, Attach, Miss, Fail, Discard
<1>7. AnswersMatch'
  <2>1. CASE Attach(q)
    <3>1. /\ Live(q) /\ cache[Key(q)] # NoFile /\ reader'[q].got = cache[Key(q)]
          /\ reader'[q].snap = reader[q].snap
      BY <2>1, <1>0 DEF Attach, At, Live, ReaderRec
    <3>2. Same(Key(q), reader[q].snap) /\ reader[q].snap \in Held
      BY <1>0, <3>1, HeldTyped DEF Same, KeyOf
    <3>3. /\ cache[Key(q)].rev = reader[q].snap.rev /\ cache[Key(q)].range = reader[q].snap.range
          /\ Names[cache[Key(q)].columns] = Names[InferredOf(reader[q].snap)]
          /\ reader[q].snap.ver \notin strayed
                => cache[Key(q)].columns = ColumnsOf(reader[q].snap)
      BY <3>1, <3>2, <1>0 DEF CachesInv, FilesFit, InferredOf, KeyOf
    <3>4. strayed' = strayed
      BY <2>1 DEF Attach
    <3> QED BY <3>1, <3>3, <3>4, <1>3, <1>0 DEF AnswersMatch, Matches, At
  <2>2. CASE ~Attach(q)
    BY <2>2, <1>1, <1>3, <1>4, <1>0 DEF AnswersMatch, Matches, At
  <2> QED BY <2>1, <2>2
<1> QED BY <1>0, <1>1, <1>2, <1>4, <1>5, <1>6, <1>7, SteadyStep DEF CachesInv
\* An edit gives the row a version nobody has seen.
LEMMA InvEditWrite ==
  ASSUME CachesInv, NEW e \in Editors \cup {Refresher}, EditWrite(e)
  PROVE  CachesInv'
<1>0. /\ Typed /\ Typed' /\ Agree /\ FilesFit /\ Known /\ NoneNewer /\ FreshCandidate
      /\ AnswersMatch /\ table.ver \in Nat /\ Versions \subseteq Nat
      /\ UNCHANGED <<cache, reader, refresh, spent, strayed>>
  BY TypeEditor, Constants
     DEF CachesInv, Typed, TypeOK, EditorActions, Edit, EditWrite
<1>1. table'.rev = table.rev /\ table'.ver = table.ver + 1 /\ table'.key = NoKey
  BY <1>0 DEF EditWrite, Typed, TypeOK
<1>2. /\ Candidate' = Candidate /\ \A q \in Readers : Live(q)' <=> Live(q)
      /\ RowSnap'.rev = table.rev /\ RowSnap'.ver = table.ver + 1
  BY <1>0, <1>1 DEF Candidate, Live, RowSnap
<1>3. \A t \in Held' : t = RowSnap' \/ (t \in Held /\ ~Same(t, RowSnap'))
  <2>1. SUFFICES ASSUME NEW t \in Held', t # RowSnap'
                 PROVE  t \in Held /\ ~Same(t, RowSnap')
    OBVIOUS
  <2>2. CASE \E q \in Readers : Live(q) /\ t = reader[q].snap
    <3>1. t \in Held /\ t \in Snap /\ t.ver <= table.ver
      BY <2>2, <1>0, HeldTyped DEF NoneNewer
    <3>2. t.ver \in Nat
      BY <3>1, <1>0 DEF Snap
    <3> QED BY <3>1, <3>2, <1>0, <1>2 DEF Same
  <2>3. CASE refresh.pc # "idle" /\ t = Candidate
    <3>1. t \in Held /\ t \in Snap /\ t.rev = refresh.rev
          /\ (table.rev = refresh.rev => t.ver <= table.ver)
      BY <2>3, <1>0, HeldTyped, CandidateTyped DEF NoneNewer
    <3>2. t.ver \in Nat
      BY <3>1, <1>0 DEF Snap
    <3> QED BY <3>1, <3>2, <1>0, <1>2 DEF Same
  <2> QED BY <2>1, <2>2, <2>3, <1>0, <1>2 DEF Held, Live
<1>4. Agree'
  <2>1. SUFFICES ASSUME NEW a \in Held', NEW b \in Held', Same(a, b), a.ver \notin strayed'
                 PROVE  ColumnsOf(a) = ColumnsOf(b)
    BY DEF Agree
  <2>2. CASE a = RowSnap' \/ b = RowSnap'
    <3>1. a = b
      BY <2>1, <2>2, <1>3 DEF Same
    <3> QED BY <3>1
  <2>3. CASE a \in Held /\ b \in Held
    BY <2>1, <2>3, <1>0 DEF Agree
  <2> QED BY <2>2, <2>3, <1>3
<1>5. FilesFit'
  <2>1. SUFFICES ASSUME NEW k \in Keys, cache[k] # NoFile, NEW t \in Held', Same(k, t),
                        k.ver \notin strayed
                 PROVE  cache[k].columns = ColumnsOf(t)
    BY <1>0 DEF FilesFit
  <2>2. t # RowSnap'
    <3>1. k.ver \in Nat /\ (k.rev = table.rev => k.ver <= table.ver)
      BY <2>1, <1>0 DEF NoneNewer, Keys
    <3> QED BY <3>1, <2>1, <1>0, <1>2 DEF Same
  <2> QED BY <2>1, <2>2, <1>0, <1>3 DEF FilesFit
<1>6. Known'
  BY <1>0, <1>2, <1>3, HeldTyped DEF Known, RowSnap
<1>7. NoneNewer'
  <2>1. ASSUME NEW q \in Readers, Live(q)
        PROVE  reader[q].snap.ver <= table.ver /\ reader[q].snap.ver \in Nat
    BY <2>1, <1>0, RowTyped DEF NoneNewer, Typed, Snap
  <2>2. ASSUME NEW k \in Keys, cache[k] # NoFile, k.rev = table.rev
        PROVE  k.ver <= table.ver + 1
    <3>1. k.ver \in Nat /\ k.ver <= table.ver
      BY <2>2, <1>0 DEF NoneNewer, Keys
    <3> QED BY <3>1, <1>0
  <2>3. refresh.pc # "idle" /\ table.rev = refresh.rev => Candidate.ver <= table.ver + 1
    <3>1. SUFFICES ASSUME refresh.pc # "idle", table.rev = refresh.rev
                   PROVE  Candidate.ver <= table.ver + 1
      OBVIOUS
    <3>2. Candidate.ver \in Nat /\ Candidate.ver <= table.ver
      BY <3>1, <1>0, CandidateTyped DEF NoneNewer, Snap
    <3> QED BY <3>2, <1>0
  <2> QED BY <2>1, <2>2, <2>3, <1>0, <1>1, <1>2 DEF NoneNewer
<1>8. FreshCandidate'
  BY <1>0, <1>1, <1>2 DEF FreshCandidate
<1>9. RowKeyCurrent' /\ AnswersMatch'
  BY <1>0, <1>1 DEF RowKeyCurrent, AnswersMatch, Matches, At
<1> QED BY <1>0, <1>4, <1>5, <1>6, <1>7, <1>8, <1>9 DEF CachesInv

\* The other steps leave readers and the row's revision, version and columns alone;
\* files disappear, or a candidate's file is built.
LEMMA QuietStep ==
  ASSUME CachesInv, Typed', FilesFollow, RefreshFollows, spent' = spent, strayed' = strayed,
         \A q \in Readers : reader'[q] = reader[q] \/ reader'[q].pc = "idle",
         table'.rev = table.rev, table'.ver = table.ver, table'.range = table.range,
         table'.columns = table.columns,
         table'.key = table.key \/ table'.key = NoKey
  PROVE  CachesInv'
<1>1. ReadersFollow
  BY DEF ReadersFollow, Live
<1>2. Copies(RowSnap', RowSnap)
  BY DEF Copies, Same, RowSnap
<1>3. RowKeyCurrent' /\ AnswersMatch'
  BY DEF CachesInv, RowKeyCurrent, AnswersMatch, Matches, At
<1> QED BY <1>1, <1>2, <1>3, SteadyStep DEF CachesInv

LEMMA InvEditor ==
  ASSUME CachesInv, NEW e \in Editors \cup {Refresher}, EditorActions(e) \/ Remove(e)
  PROVE  CachesInv'
<1>0. /\ Typed /\ Typed' /\ cache \in [Keys -> Contents \cup {NoFile}]
  BY TypeEditor DEF CachesInv, Typed, TypeOK
<1>1. CASE EditWrite(e)
  BY <1>1, InvEditWrite
<1>2. CASE ~EditWrite(e)
  <2>1. UNCHANGED <<reader, refresh, spent, strayed>>
    BY <1>2 DEF EditorActions, Edit, Remove, EditRead, DeleteRead, DeleteWrite, EditStops,
                CountKept, CountNone, Unlink
  <2>2. /\ table'.rev = table.rev /\ table'.ver = table.ver
        /\ table'.range = table.range /\ table'.columns = table.columns
        /\ table'.key = table.key \/ table'.key = NoKey
    <3>1. table' = table \/ table' = [table EXCEPT !.there = FALSE, !.key = NoKey]
      BY <1>2 DEF EditorActions, Edit, Remove, EditRead, DeleteRead, DeleteWrite,
                  EditStops, CountKept, CountNone, Unlink
    <3> QED BY <3>1, <1>0 DEF Typed, TypeOK
  <2>3. FilesFollow
    BY <1>2, <1>0 DEF EditorActions, Edit, Remove, EditRead, DeleteRead, DeleteWrite,
                EditStops, CountKept, CountNone, Unlink, Without, FilesFollow
  <2> QED BY <2>1, <2>2, <2>3, <1>0, QuietStep DEF RefreshFollows
<1> QED BY <1>1, <1>2

LEMMA InvClean ==
  ASSUME CachesInv, Hour \/ Clean \/ Restart
  PROVE  CachesInv'
<1>0. /\ Typed /\ Typed' /\ cache \in [Keys -> Contents \cup {NoFile}]
  BY TypeClean DEF CachesInv, Typed, TypeOK
<1>1. UNCHANGED <<table, spent, strayed>>
  BY DEF Hour, Clean, CleanBegin, CleanSweep, Restart
<1>2. FilesFollow
  BY <1>0 DEF Hour, Clean, CleanBegin, CleanSweep, Restart, FilesFollow
<1>3. \A q \in Readers : reader'[q] = reader[q] \/ reader'[q].pc = "idle"
  BY DEF Hour, Clean, CleanBegin, CleanSweep, Restart, NoReader
<1>4. RefreshFollows
  BY DEF Hour, Clean, CleanBegin, CleanSweep, Restart, NoRefresh, RefreshFollows
<1> QED BY <1>0, <1>1, <1>2, <1>3, <1>4, QuietStep
\* A refresh begins with a revision that was never used.
LEMMA InvLoad ==
  ASSUME CachesInv, RefreshLoad
  PROVE  CachesInv'
<1>0. /\ Typed /\ Typed' /\ Agree /\ FilesFit /\ Known /\ NoneNewer
      /\ RowKeyCurrent /\ AnswersMatch
      /\ UNCHANGED <<table, cache, reader, strayed>>
      /\ refresh.pc = "idle"
  BY TypeRefresh
     DEF CachesInv, RefreshActions, RefreshLoad, Refreshing, RefreshAt
<1>1. PICK r \in Revs \ spent :
        /\ refresh' = [pc |-> "loaded", held |-> TRUE, rev |-> r, base |-> RowSnap,
                       prev |-> table.key]
        /\ spent' = spent \cup {r}
  BY DEF RefreshLoad
<1>2. Candidate'.rev = r /\ RowSnap' = RowSnap /\ \A q \in Readers : Live(q)' <=> Live(q)
  BY <1>0, <1>1 DEF Candidate, RowSnap, Live
<1>3. Held' = Held \cup {Candidate'}
  BY <1>0, <1>1, <1>2 DEF Held
<1>4. \A s \in Held : s.rev \in spent /\ s.rev # r
  BY <1>0 DEF Known
<1>5. Agree'
  BY <1>0, <1>2, <1>3, <1>4 DEF Agree, Same
<1>6. FilesFit' /\ Known'
  BY <1>0, <1>1, <1>2, <1>3, <1>4 DEF FilesFit, Known, Same
<1>7. table.rev \in spent /\ table.rev # r
  BY <1>0, <1>4, HeldTyped DEF RowSnap
<1>8. \A q \in Readers : Live(q) => reader[q].snap.rev # r
  BY <1>0, <1>4, HeldTyped
<1>9. NoneNewer' /\ FreshCandidate'
  BY <1>0, <1>1, <1>2, <1>7, <1>8 DEF NoneNewer, FreshCandidate, RowSnap, Known
<1> QED BY <1>0, <1>5, <1>6, <1>9 DEF CachesInv, RowKeyCurrent, AnswersMatch, Matches, At

\* Publishing gives the row the candidate's version, which nobody else holds.
LEMMA InvPublished ==
  ASSUME CachesInv, Typed', refresh.pc = "prepared", Unmoved, Published,
         UNCHANGED <<cache, reader, spent, strayed>>,
         refresh' = refresh \/ refresh' = NoRefresh
  PROVE  CachesInv'
<1>0. /\ Typed /\ Agree /\ FilesFit /\ Known /\ NoneNewer /\ FreshCandidate
      /\ AnswersMatch /\ table.ver \in Nat /\ Versions \subseteq Nat
      /\ Candidate \in Snap /\ Candidate \in Held /\ Candidate.rev = refresh.rev
      /\ Candidate.ver = table.ver + 1
  BY Constants, HeldTyped, CandidateTyped DEF CachesInv, Typed, TypeOK, Unmoved
<1>1. /\ table'.rev = refresh.rev /\ table'.ver = Candidate.ver
      /\ table'.columns = ColumnsOf(Candidate) /\ table'.key = KeyOf(Candidate)
      /\ table.rev # refresh.rev
  BY <1>0 DEF Published, Typed, TypeOK, Unmoved, FreshCandidate
<1>2. Copies(RowSnap', Candidate)
  <2>1. ColumnsOf(Candidate) \in Types
    BY <1>0, BuiltTyped
  <2> QED BY <2>1, <1>0, <1>1, Constants DEF Copies, Same, RowSnap, ColumnsOf
<1>3. /\ \A q \in Readers : Live(q)' <=> Live(q)
      /\ refresh'.pc # "idle" => refresh' = refresh /\ Candidate' = Candidate
  <2>1. \A q \in Readers : Live(q)' <=> Live(q)
    BY DEF Live
  <2>2. refresh'.pc # "idle" => refresh' = refresh
    BY DEF NoRefresh
  <2>3. refresh' = refresh => Candidate' = Candidate
    BY DEF Candidate
  <2> QED BY <2>1, <2>2, <2>3
<1>4. ASSUME NEW t \in Held' PROVE \E s \in Held : Copies(t, s)
  BY <1>0, <1>2, <1>3, HeldTyped DEF Held, Copies, Same, Live
<1>5. Agree' /\ FilesFit' /\ Known'
  BY <1>4, CopiesAgree DEF FilesFollow
<1>6. \A q \in Readers : Live(q) =>
          reader[q].snap.ver \in Nat /\ reader[q].snap.ver < table'.ver
  <2>1. ASSUME NEW q \in Readers, Live(q)
        PROVE  reader[q].snap.ver \in Nat /\ reader[q].snap.ver <= table.ver
    BY <2>1, <1>0, RowTyped DEF NoneNewer, Typed, Snap
  <2> QED BY <2>1, <1>0, <1>1
<1>7. NoneNewer'
  <2>1. \A k \in Keys : cache[k] # NoFile /\ k.rev = table'.rev => k.ver <= table'.ver
    BY <1>0, <1>1 DEF FreshCandidate, Keys
  <2>2. \A q \in Readers : Live(q) => reader[q].snap.ver <= table'.ver
                                     /\ reader[q].snap.ver # table'.ver
    BY <1>6, <1>0, <1>1
  <2>3. refresh'.pc # "idle" => Candidate'.ver <= table'.ver
    BY <1>0, <1>1, <1>3 DEF Snap
  <2> QED BY <2>1, <2>2, <2>3, <1>3 DEF NoneNewer
<1>8. FreshCandidate'
  BY <1>0, <1>1, <1>3 DEF FreshCandidate
<1>9. RowKeyCurrent' /\ AnswersMatch'
  BY <1>0, <1>1 DEF RowKeyCurrent, AnswersMatch, Matches, KeyOf, At
<1> QED BY <1>5, <1>7, <1>8, <1>9 DEF CachesInv

LEMMA InvRefresh ==
  ASSUME CachesInv, RefreshActions
  PROVE  CachesInv'
<1>0. /\ Typed /\ Typed' /\ cache \in [Keys -> Contents \cup {NoFile}]
      /\ refresh.rev = refresh.rev
  BY TypeRefresh DEF CachesInv, Typed, TypeOK
<1>1. CASE RefreshLoad
  BY <1>1, InvLoad
<1>2. CASE RefreshPublish \/ RefreshDropAtCommit
  BY <1>2, <1>0, InvPublished
     DEF RefreshPublish, RefreshDropAtCommit, RefreshAt
<1>3. CASE RefreshLock \/ RefreshBuild \/ RefreshUndo \/ RefreshDrop
  <2>1. UNCHANGED <<table, reader, spent, strayed>>
    BY <1>3 DEF RefreshLock, RefreshBuild, RefreshUndo, RefreshDrop
  <2>2. FilesFollow
    <3>1. CASE RefreshBuild
      BY <3>1, <1>0, HeldTyped DEF RefreshBuild, RefreshAt, FilesFollow
    <3>2. CASE RefreshLock \/ RefreshUndo \/ RefreshDrop
      BY <3>2, <1>0 DEF RefreshLock, RefreshUndo, RefreshDrop, Without, FilesFollow
    <3> QED BY <1>3, <3>1, <3>2
  <2>3. RefreshFollows
    BY <1>3, <1>0 DEF RefreshLock, RefreshBuild, RefreshUndo, RefreshDrop, RefreshAt,
                      NoRefresh, RefreshFollows, Typed, TypeOK
  <2> QED BY <2>1, <2>2, <2>3, <1>0, QuietStep
<1> QED BY <1>1, <1>2, <1>3 DEF RefreshActions, RefreshStep

LEMMA InvStep == CachesInv /\ [Next]_vars => CachesInv'
<1> SUFFICES ASSUME CachesInv, [Next]_vars PROVE CachesInv'
  OBVIOUS
<1>1. CASE Next
  BY <1>1, NextSplits, InvReader, InvEditor, InvRefresh, InvClean
<1>2. CASE UNCHANGED vars
  <2>1. Typed'
    BY TypeStep DEF CachesInv
  <2> QED BY <1>2, <2>1, QuietStep DEF vars, boundVars, FilesFollow, RefreshFollows
<1> QED BY <1>1, <1>2

LEMMA AlwaysConsistent == Spec => []CachesInv
BY InvInit, InvStep, PTL DEF Spec

\* A query answers from the data and the names of the range it was resolved with, and
\* with the columns its row described if that version has not strayed, whatever a build
\* infers and however many readers, edits, refreshes, clean-ups and kills meet.
THEOREM QueriesAnswerMatch == Spec => []AnswersMatch
<1>1. CachesInv => AnswersMatch
  BY DEF CachesInv
<1> QED BY <1>1, AlwaysConsistent, PTL

\* The key of a row is of the row's revision and version.
THEOREM RowKeyIsCurrent == Spec => []RowKeyCurrent
<1>1. CachesInv => RowKeyCurrent
  BY DEF CachesInv
<1> QED BY <1>1, AlwaysConsistent, PTL

\* Known columns change only with the version of the row, unless it has strayed;
\* what a build infers differs from range to range and from revision to revision.
THEOREM ColumnsAreKept == Spec => ColumnsKept
<1>1. ASSUME CachesInv, [Next]_vars, table'.ver = table.ver, table.columns # Unknown,
             table.ver \notin strayed
      PROVE  table'.columns = table.columns
  <2>0. /\ Typed /\ table.ver \in Nat /\ table.ver + 1 # table.ver
        /\ table \in [there : BOOLEAN, rev : Revs, range : Ranges, ver : Versions,
                     columns : Schemas, key : Keys \cup {NoKey}]
    <3>1. Typed
      BY <1>1 DEF CachesInv
    <3>2. table \in [there : BOOLEAN, rev : Revs, range : Ranges, ver : Versions,
                     columns : Schemas, key : Keys \cup {NoKey}]
      BY <3>1 DEF Typed, TypeOK
    <3>3. table.ver \in Nat
      BY <3>2, Constants
    <3> QED BY <3>1, <3>2, <3>3
  <2>1. CASE \E q \in Readers : ReaderActions(q)
    <3>1. PICK q \in Readers : ReaderActions(q)
      BY <2>1
    <3>2. CASE Persist(q)
      <4>1. \/ table' = table
            \/ /\ Live(q) /\ table.ver = reader[q].snap.ver
               /\ table' = [table EXCEPT !.key = Key(q),
                                         !.columns = ColumnsOf(reader[q].snap)]
        BY <3>2 DEF Persist, At, Live
      <4>2. CASE Live(q) /\ table.ver = reader[q].snap.ver
        <5>1. ColumnsOf(reader[q].snap) = table.columns
          BY <4>2, <1>1, PersistKeepsColumns
        <5> QED BY <4>1, <5>1, <2>0
      <4> QED BY <4>1, <4>2
    <3>3. CASE ~Persist(q)
      BY <3>1, <3>3
         DEF ReaderActions, Thread, Resolve, Enqueue, Cancel, GiveUp, Claim, Hit, Build,
             Finish, Attach, Miss, Fail, Discard
    <3> QED BY <3>2, <3>3
  <2>2. CASE \E e \in Editors \cup {Refresher} : EditorActions(e) \/ Remove(e)
    <3>1. PICK e \in Editors \cup {Refresher} : EditorActions(e) \/ Remove(e)
      BY <2>2
    <3>2. ~EditWrite(e)
      <4>1. SUFFICES ASSUME EditWrite(e) PROVE FALSE
        OBVIOUS
      <4>2. PICK s \in Settings : table' =
                [table EXCEPT !.range = s.range, !.columns = s.columns, !.ver = @ + 1, !.key = NoKey]
        BY <4>1 DEF EditWrite, Valid
      <4>3. table'.ver = table.ver + 1
        BY <4>2, <2>0
      <4> QED BY <4>3, <1>1, <2>0
    <3>3. table' = table \/ table' = [table EXCEPT !.there = FALSE, !.key = NoKey]
      BY <3>1, <3>2 DEF EditorActions, Edit, Remove, EditRead, DeleteRead, DeleteWrite,
                        EditStops, CountKept, CountNone, Unlink
    <3> QED BY <3>3, <2>0 DEF Typed, TypeOK
  <2>3. CASE RefreshActions
    <3>1. ~(RefreshPublish \/ RefreshDropAtCommit)
      <4>1. SUFFICES ASSUME RefreshPublish \/ RefreshDropAtCommit PROVE FALSE
        OBVIOUS
      <4>2. Candidate.ver = table.ver + 1 /\ table' = [table EXCEPT !.rev = refresh.rev,
                !.ver = Candidate.ver, !.columns = ColumnsOf(Candidate),
                !.key = KeyOf(Candidate)]
        BY <4>1, <2>0, CandidateTyped
           DEF RefreshPublish, RefreshDropAtCommit, RefreshAt, Published, Unmoved
      <4> QED BY <4>2, <1>1, <2>0 DEF Typed, TypeOK
    <3> QED BY <2>3, <3>1 DEF RefreshActions, RefreshStep, RefreshLoad, RefreshLock,
                              RefreshBuild, RefreshUndo, RefreshDrop
  <2>4. CASE Hour \/ Clean \/ Restart \/ UNCHANGED vars
    BY <2>4 DEF Hour, Clean, CleanBegin, CleanSweep, Restart, vars
  <2> QED BY <1>1, <2>1, <2>2, <2>3, <2>4, NextSplits
<1>2. CachesInv /\ [Next]_vars =>
        [table'.ver = table.ver /\ table.columns # Unknown /\ table.ver \notin strayed
         => table'.columns = table.columns]_vars
  BY <1>1
<1> QED BY <1>2, AlwaysConsistent, PTL DEF Spec, ColumnsKept

=============================================================================
