--------------------------- MODULE Imports_proofs ---------------------------
(***************************************************************************)
(* Theorems about Imports, for every set of uploads, requests, sheets and  *)
(* ranges and every number of mishaps.                                     *)
(***************************************************************************)
EXTENDS Imports, Columns_proofs

-----------------------------------------------------------------------------
(* The inductive invariant                                                   *)

AllNames == {Names(content, range) : content \in CellSheets, range \in Ranges} \cup {<<>>}

TableSet == [range : Ranges, types : Seq(Types), rows : Nat, built : Int]

RequestSet ==
  [pc : {"idle", "check", "lock", "move", "record", "back", "delete", "unlink", "done", "torn"},
   token : Tokens \cup {NoToken}, range : Ranges, names : AllNames, types : Seq(Types)]

TokenSets == SUBSET Tokens

InspectionSet ==
  [pc : {"idle", "sweep", "unlink", "read", "insert", "done"},
   todo : TokenSets, now : Tokens \cup {NoToken}]

Typed ==
  /\ row \in [Tokens -> {"None", "Live", "Gone"}]
  /\ staged \subseteq Tokens
  /\ age \in [Files -> {"Fresh", "Old", "Expired"}]
  /\ sheet \in [Files -> CellSheets \cup {NoSheet}]
  /\ finals \subseteq Sources
  /\ table \in [Sources -> TableSet \cup {NoTable}]
  /\ insp \in [Tokens -> InspectionSet]
  /\ req \in [Requests -> RequestSet]
  /\ up \in [Uploads -> {"idle", "store", "record", "done"}]
  /\ lock \in Sources \cup {Cleaner, Nobody}
  /\ clean \in [pc : {"idle", "remove"}, seen : SUBSET Sources]
  /\ phase \in {"up", "down"}

\* A token has a row only once its inspection is over, and a content from the
\* moment it is stored; the sweeps remove files of rows that are gone.
Uploaded ==
  /\ \A t \in Tokens :
      /\ row[t] # "None" => insp[t].pc = "done"
      /\ insp[t].pc \in {"read", "insert"} => sheet[t] # NoSheet
      /\ row[t] # "None" \/ t \in staged => sheet[t] # NoSheet
      /\ insp[t].pc = "insert" => t \in staged
      /\ \A x \in insp[t].todo : row[x] # "None"
      /\ insp[t].pc = "unlink" => insp[t].now \in Tokens /\ row[insp[t].now] = "Gone"
  /\ phase = "down" => \A t \in Tokens : insp[t].pc \in {"idle", "done"}

\* The storage lock is exclusive: its holder alone is between taking it and
\* giving it back.
Locked ==
  /\ \A q \in Requests : req[q].pc \in {"move", "record", "back"} <=> lock = q
  /\ \A u \in Uploads : up[u] \in {"store", "record"} <=> lock = u
  /\ clean.pc = "remove" <=> lock = Cleaner
  /\ phase = "down" => lock = Nobody

\* A request that has the file of its token, or had it when it ended.
Took(q) == table[q] # NoTable \/ req[q].pc \in {"record", "back", "torn"}

\* A token's file is at one place: in staging, or with the one request that took
\* it.
Owned ==
  /\ \A q \in Requests :
      /\ req[q].pc # "idle" => req[q].token \in Tokens /\ row[req[q].token] # "None"
      /\ req[q].pc = "unlink" => row[req[q].token] = "Gone"
      /\ table[q] # NoTable => req[q].pc = "done"
      /\ Took(q) => req[q].token \notin staged
  /\ \A p, q \in Requests : Took(p) /\ Took(q) /\ req[p].token = req[q].token => p = q
  /\ TokenKeepsFile

\* A source has its file from the move on, and the clean-up knows every source
\* there is while it holds the lock.
Filed ==
  /\ \A s \in Sources : table[s] # NoTable => s \in finals
  /\ \A q \in Requests : req[q].pc \in {"record", "back"} => q \in finals
  /\ \A u \in Uploads :
      /\ table[u] # NoTable => up[u] = "done"
      /\ up[u] = "record" => u \in finals /\ sheet[u] # NoSheet
  /\ clean.pc = "remove" => Recorded \subseteq clean.seen

\* A commit past its check asks for a range that can be read.
Ready ==
  \A q \in Requests : req[q].pc \in {"lock", "move", "record"} =>
      Readable(sheet[req[q].token], req[q].range)

\* What is known of a table of this content whose import sampled so many rows.
WellBuilt(tab, content, most) ==
  /\ content \in CellSheets
  /\ tab.rows = RowCount(content, tab.range)
  /\ tab.types # <<>> => Readable(content, tab.range)
  /\ tab.built \in Nat => tab.built = tab.rows
  /\ tab.built = Failed =>
      \/ ~Readable(content, tab.range)
      \/ RowCount(content, tab.range) > most
      \/ tab.types # InferTypes(content, tab.range, most)
      \/ Doubtful(content, tab.range, Sample(content, tab.range, most))

MostOf(s) == IF s \in Uploads THEN 1 ELSE SampleRows

Counted ==
  \A s \in Sources : table[s] # NoTable => WellBuilt(table[s], sheet[ContentOf(s)], MostOf(s))

ImportInv == Typed /\ Uploaded /\ Locked /\ Owned /\ Filed /\ Ready /\ Counted

-----------------------------------------------------------------------------
(* Facts the steps share                                                     *)

LEMMA RangeFacts ==
  ASSUME NEW r \in Ranges
  PROVE  r \in CellRanges /\ RangeValid(r)
BY RangesAssumption

LEMMA InferTyped ==
  ASSUME NEW content \in CellSheets, NEW r \in Ranges, NEW most
  PROVE  /\ InferTypes(content, r, most) \in Seq(Types)
         /\ [j \in 1..Width(content, r) |-> "Text"] \in Seq(Types)
         /\ InferTypes(content, r, most) # <<>> => Readable(content, r)
         /\ Readable(content, r) => InferTypes(content, r, most) # <<>>
         /\ Len(InferTypes(content, r, most)) = Width(content, r)
         /\ RowCount(content, r) \in Nat
<1> DEFINE width == Width(content, r)
           rows == Sample(content, r, most)
           type(j) == InferType({rows[i][j] : i \in DOMAIN rows})
<1>1. width \in Nat /\ RowCount(content, r) \in Nat
  BY RangeFacts, WidthIsNatural, RowCountIsNatural
<1>2. \A j \in 1..width : type(j) \in Types
  <2>1. ASSUME NEW values PROVE InferType(values) \in Types
    BY DEF InferType, Types
  <2> QED BY <2>1
<1>3. InferTypes(content, r, most) = [j \in 1..width |-> type(j)]
  BY DEF InferTypes
<1>4. "Text" \in Types
  BY DEF Types
<1> HIDE DEF width, type
<1>5. [j \in 1..width |-> type(j)] \in Seq(Types) /\ [j \in 1..width |-> "Text"] \in Seq(Types)
  BY <1>1, <1>2, <1>4
<1>6. Len([j \in 1..width |-> type(j)]) = width
  BY <1>1
<1>7. [j \in 1..width |-> type(j)] # <<>> <=> width > 0
  BY <1>1, <1>5, <1>6
<1> QED BY <1>1, <1>3, <1>5, <1>6, <1>7 DEF Readable, width

LEMMA InitInv == Init => ImportInv
<1> SUFFICES ASSUME Init PROVE ImportInv
  OBVIOUS
<1>1. Typed
  BY RangesAssumption DEF Init, Typed, RequestSet, InspectionSet, TokenSets, AllNames
<1> QED BY <1>1, NamesAssumption DEF Init, ImportInv, Uploaded, Locked, Owned, Took, TokenKeepsFile,
        Filed, Recorded, Ready, Counted, Sources

\* A step that leaves the tables and the contents of the sources alone.
LEMMA CountedStays ==
  ASSUME ImportInv, table' = table,
         \A s \in Sources : table[s] # NoTable =>
            ContentOf(s)' = ContentOf(s) /\ sheet'[ContentOf(s)] = sheet[ContentOf(s)]
  PROVE  Counted'
BY DEF ImportInv, Counted, MostOf


LEMMA CountTyped ==
  ASSUME NEW content \in CellSheets, NEW r \in Ranges
  PROVE  RowCount(content, r) \in Nat
BY RangeFacts, RowCountIsNatural

\* A step of an inspection, of a request.
LEMMA InspectionTyped ==
  ASSUME Typed, NEW t \in Tokens, NEW rec \in InspectionSet, insp' = [insp EXCEPT ![t] = rec]
  PROVE  insp' \in [Tokens -> InspectionSet]
BY DEF Typed

LEMMA RequestTyped ==
  ASSUME Typed, NEW q \in Requests, NEW rec \in RequestSet, req' = [req EXCEPT ![q] = rec]
  PROVE  req' \in [Requests -> RequestSet]
BY DEF Typed

\* What the first query makes of a table, in its types and as it was counted.
LEMMA BuildFacts ==
  ASSUME ImportInv, NEW s \in Sources, table[s] # NoTable, table[s].built = Unbuilt
  PROVE  /\ BuildOf(s) \in Int
         /\ WellBuilt([table[s] EXCEPT !.built = BuildOf(s)], sheet[ContentOf(s)], MostOf(s))
<1> DEFINE content == sheet[ContentOf(s)]
           range == table[s].range
           stored == table[s].types
           types == IF stored = <<>> THEN InferTypes(content, range, SampleRows) ELSE stored
           builds == s \in finals /\ types # <<>> /\ Builds(content, range, types)
           new == [table[s] EXCEPT !.built = BuildOf(s)]
           most == MostOf(s)
<1>1. table[s] \in TableSet /\ WellBuilt(table[s], content, most)
  BY DEF ImportInv, Typed, Counted
<1>2. range \in Ranges /\ content \in CellSheets /\ stored \in Seq(Types)
      /\ range \in CellRanges /\ RangeValid(range)
  BY <1>1, RangeFacts DEF TableSet, WellBuilt
<1>3. /\ new.range = range /\ new.types = stored /\ new.rows = table[s].rows
      /\ new.built = BuildOf(s)
  BY <1>1 DEF TableSet
<1>4. BuildOf(s) = IF builds THEN Len(StreamedRows(content, range, Len(types))) ELSE Failed
  BY DEF BuildOf
<1>5. types # <<>> => Readable(content, range) /\ types \in Seq(Types)
  BY <1>1, <1>2, InferTyped DEF WellBuilt
<1>6. CASE builds
  <2>1. Readable(content, range) /\ Len(types) \in Nat
    BY <1>5, <1>6
  <2>2. BuildOf(s) = RowCount(content, range)
    BY <1>2, <1>4, <1>6, <2>1, StreamedAsCounted DEF Readable
  <2>3. BuildOf(s) \in Nat /\ BuildOf(s) # Failed
    BY <1>2, <2>2, RowCountIsNatural DEF Failed
  <2>4. /\ content \in CellSheets /\ new.rows = RowCount(content, new.range)
        /\ new.built = new.rows /\ new.built # Failed
        /\ Readable(content, new.range)
    BY <1>1, <1>3, <2>1, <2>2, <2>3 DEF WellBuilt
  <2> HIDE DEF new, content, most
  <2>5. WellBuilt(new, content, most)
    BY <2>4 DEF WellBuilt
  <2> QED BY <2>3, <2>5 DEF new, content, most
<1>7. CASE ~builds
  <2>1. BuildOf(s) = Failed /\ Failed \notin Nat /\ Failed \in Int
    BY <1>4, <1>7 DEF Failed
  <2>2. \/ ~Readable(content, range)
        \/ RowCount(content, range) > most
        \/ stored # InferTypes(content, range, most)
        \/ Doubtful(content, range, Sample(content, range, most))
    <3>1. SUFFICES ASSUME Readable(content, range), ~(RowCount(content, range) > most),
                          stored = InferTypes(content, range, most),
                          ~Doubtful(content, range, Sample(content, range, most))
                   PROVE  FALSE
      OBVIOUS
    <3>2. stored # <<>> /\ types = stored /\ s \in finals
      BY <1>2, <3>1, InferTyped DEF ImportInv, Filed
    <3>3. most \in Nat /\ RowCount(content, range) <= most /\ Width(content, range) > 0
      <4>1. most \in Nat
        BY SheetsAssumption DEF MostOf
      <4>2. RowCount(content, range) \in Nat
        BY <1>2, RowCountIsNatural
      <4> HIDE DEF content, range, most
      <4> QED BY <3>1, <4>1, <4>2 DEF Readable
    <3> HIDE DEF content, range, stored, most, types
    <3>4. \A j \in 1..Width(content, range) :
            LET rows == Sample(content, range, most)
                seen == {rows[i][j] : i \in DOMAIN rows}
            IN  "NaN" \notin seen /\ ~({"Day", "Moment"} \subseteq seen)
      BY <3>1 DEF Doubtful
    <3>5. Builds(content, range, InferTypes(content, range, most))
      BY <1>2, <3>3, <3>4, SampledRowsBuild
    <3> QED BY <1>7, <3>1, <3>2, <3>5
  <2>3. /\ content \in CellSheets /\ new.rows = RowCount(content, new.range)
        /\ new.built = Failed /\ new.types = stored /\ new.range = range
        /\ stored # <<>> => Readable(content, range)
    BY <1>1, <1>3, <2>1 DEF WellBuilt
  <2> HIDE DEF new, content, most, stored, range
  <2>4. WellBuilt(new, content, most)
    BY <2>1, <2>2, <2>3 DEF WellBuilt
  <2> QED BY <2>1, <2>4 DEF new, content, most
<1> QED BY <1>6, <1>7

LEMMA ListExpiredKeeps ==
  ASSUME NEW t \in Tokens, ImportInv, ListExpired(t)
  PROVE  ImportInv'
<1>1. UNCHANGED <<row, staged, age, sheet, finals, table, req, up, lock, clean, phase>>
  BY DEF ListExpired, fileVars, actorVars, boundVars
<1>2. Typed'
  <2> DEFINE gone == {x \in Tokens : row[x] = "Live" /\ age[x] = "Expired"}
             rec == [insp[t] EXCEPT !.pc = "sweep", !.todo = gone]
  <2>1. gone \in TokenSets
    BY DEF TokenSets
  <2>2. insp' = [insp EXCEPT ![t].pc = "sweep", ![t].todo = gone]
    BY DEF ListExpired
  <2> HIDE DEF gone
  <2>3. rec \in InspectionSet
    <3>1. insp[t] \in InspectionSet
      BY DEF ImportInv, Typed
    <3> QED BY <2>1, <3>1 DEF InspectionSet
  <2>4. insp' = [insp EXCEPT ![t] = rec]
    BY <2>2 DEF ImportInv, Typed, InspectionSet
  <2> HIDE DEF rec
  <2>5. insp' \in [Tokens -> InspectionSet]
    BY <2>3, <2>4, InspectionTyped DEF ImportInv
  <2> QED BY <1>1, <2>5 DEF ImportInv, Typed
<1>3. Uploaded'
  <2>1. \A x \in insp'[t].todo : row[x] = "Live"
    BY DEF ListExpired, ImportInv, Typed, InspectionSet
  <2>2. insp'[t].pc = "sweep" /\ insp[t].pc = "idle" /\ phase = "up"
    BY DEF ListExpired, InspectAt, ImportInv, Typed, InspectionSet
  <2>3. \A x \in Tokens : x # t => insp'[x] = insp[x]
    BY DEF ListExpired, ImportInv, Typed
  <2> QED BY <1>1, <2>1, <2>2, <2>3 DEF ImportInv, Uploaded
<1>4. Locked'
  BY <1>1 DEF ImportInv, Locked
<1>5. Owned'
  BY <1>1 DEF ImportInv, Owned, Took, TokenKeepsFile
<1>6. Filed'
  BY <1>1 DEF ImportInv, Filed, Recorded
<1>7. Ready'
  BY <1>1 DEF ImportInv, Ready
<1>8. Counted'
  BY <1>1, CountedStays DEF ContentOf
<1> QED BY <1>2, <1>3, <1>4, <1>5, <1>6, <1>7, <1>8 DEF ImportInv

LEMMA SweepRowKeeps ==
  ASSUME NEW t \in Tokens, ImportInv, SweepRow(t)
  PROVE  ImportInv'
<1>1. UNCHANGED <<staged, age, sheet, finals, table, req, up, lock, clean, phase>>
  BY DEF SweepRow, fileVars, actorVars, boundVars
<1>2. Typed'
  <2>1. PICK x \in insp[t].todo : row' = [row EXCEPT ![x] = "Gone"]
                                /\ insp' = [insp EXCEPT ![t].pc = "unlink", ![t].now = x]
    BY DEF SweepRow
  <2>2. insp[t].todo \in TokenSets
    BY DEF ImportInv, Typed, InspectionSet
  <2>3. x \in Tokens
    BY <2>1, <2>2 DEF TokenSets
  <2> DEFINE rec == [insp[t] EXCEPT !.pc = "unlink", !.now = x]
  <2>4. rec \in InspectionSet
    <3>1. insp[t] \in InspectionSet
      BY DEF ImportInv, Typed
    <3> QED BY <2>3, <3>1 DEF InspectionSet
  <2>5. insp' = [insp EXCEPT ![t] = rec]
    BY <2>1 DEF ImportInv, Typed, InspectionSet
  <2> HIDE DEF rec
  <2>6. insp' \in [Tokens -> InspectionSet]
    BY <2>4, <2>5, InspectionTyped DEF ImportInv
  <2> QED BY <1>1, <2>1, <2>3, <2>6 DEF ImportInv, Typed
<1>3. Uploaded'
  BY <1>1, <1>2 DEF SweepRow, InspectAt, ImportInv, Typed, Uploaded, Owned, InspectionSet, RequestSet
<1>4. Locked'
  BY <1>1 DEF ImportInv, Locked
<1>5. Owned'
  BY <1>1, <1>2 DEF SweepRow, InspectAt, ImportInv, Typed, Uploaded, Locked, Owned, Filed, Took, TokenKeepsFile, RequestSet, InspectionSet, Sources
<1>6. Filed'
  BY <1>1 DEF ImportInv, Filed, Recorded
<1>7. Ready'
  BY <1>1 DEF ImportInv, Ready
<1>8. Counted'
  BY <1>1, CountedStays DEF ContentOf
<1> QED BY <1>2, <1>3, <1>4, <1>5, <1>6, <1>7, <1>8 DEF ImportInv

LEMMA SweepFileKeeps ==
  ASSUME NEW t \in Tokens, ImportInv, SweepFile(t)
  PROVE  ImportInv'
<1>1. UNCHANGED <<row, age, sheet, finals, table, req, up, lock, clean, phase>>
  BY DEF SweepFile, fileVars, actorVars, boundVars
<1>2. Typed'
  <2> DEFINE left == insp[t].todo \ {insp[t].now}
             rec == [insp[t] EXCEPT !.pc = "sweep", !.todo = left, !.now = NoToken]
  <2>1. insp[t].todo \in TokenSets
    BY DEF ImportInv, Typed, InspectionSet
  <2>2. left \in TokenSets
    BY <2>1 DEF TokenSets
  <2>3. insp' = [insp EXCEPT ![t].pc = "sweep", ![t].todo = left, ![t].now = NoToken]
    BY DEF SweepFile
  <2>4. staged' = staged \ {insp[t].now}
    BY DEF SweepFile
  <2> HIDE DEF left
  <2>5. rec \in InspectionSet
    <3>1. insp[t] \in InspectionSet
      BY DEF ImportInv, Typed
    <3> QED BY <2>2, <3>1 DEF InspectionSet
  <2>6. insp' = [insp EXCEPT ![t] = rec]
    BY <2>3 DEF ImportInv, Typed, InspectionSet
  <2> HIDE DEF rec
  <2>7. insp' \in [Tokens -> InspectionSet]
    BY <2>5, <2>6, InspectionTyped DEF ImportInv
  <2> QED BY <1>1, <2>4, <2>7 DEF ImportInv, Typed
<1>3. Uploaded'
  BY <1>1, <1>2 DEF SweepFile, InspectAt, ImportInv, Typed, Uploaded, Owned, InspectionSet, RequestSet
<1>4. Locked'
  BY <1>1 DEF ImportInv, Locked
<1>5. Owned'
  BY <1>1, <1>2 DEF SweepFile, InspectAt, ImportInv, Typed, Uploaded, Locked, Owned, Filed, Took, TokenKeepsFile, RequestSet, InspectionSet, Sources
<1>6. Filed'
  BY <1>1 DEF ImportInv, Filed, Recorded
<1>7. Ready'
  BY <1>1 DEF ImportInv, Ready
<1>8. Counted'
  BY <1>1, CountedStays DEF ContentOf
<1> QED BY <1>2, <1>3, <1>4, <1>5, <1>6, <1>7, <1>8 DEF ImportInv

LEMMA StoreKeeps ==
  ASSUME NEW t \in Tokens, ImportInv, Store(t)
  PROVE  ImportInv'
<1>1. UNCHANGED <<row, age, finals, table, req, up, lock, clean, phase>>
  BY DEF Store, fileVars, actorVars, boundVars
<1>2. Typed'
  <2>1. PICK content \in Sheets[t] : sheet' = [sheet EXCEPT ![t] = content]
    BY DEF Store
  <2>2. content \in CellSheets /\ t \in Files
    BY SheetsAssumption DEF Files
  <2>3. staged' = staged \cup {t} /\ insp' = [insp EXCEPT ![t].pc = "read"]
    BY DEF Store, Inspected
  <2> QED BY <1>1, <2>1, <2>2, <2>3 DEF ImportInv, Typed, InspectionSet
<1>3. Uploaded'
  BY <1>1, <1>2, SheetsAssumption DEF Store, InspectAt, Inspected, ImportInv, Typed, Uploaded, Owned, InspectionSet, RequestSet
<1>4. Locked'
  BY <1>1 DEF ImportInv, Locked
<1>5. Owned'
  BY <1>1, <1>2, SheetsAssumption DEF Store, InspectAt, Inspected, ImportInv, Typed, Uploaded, Locked, Owned, Filed, Took, TokenKeepsFile, RequestSet, InspectionSet, Sources
<1>6. Filed'
  BY <1>1, <1>2, SheetsAssumption, NamesAssumption DEF Store, InspectAt, Inspected, ImportInv, Typed, Locked, Owned, Filed, Recorded, RequestSet, Sources
<1>7. Ready'
  BY <1>1, <1>2, SheetsAssumption DEF Store, InspectAt, Inspected, ImportInv, Typed, Uploaded, Owned, Ready, RequestSet, InspectionSet, Files
<1>8. Counted'
  <2>1. insp[t].pc = "sweep" /\ row[t] = "None"
    BY DEF Store, InspectAt, ImportInv, Uploaded
  <2>2. \A s \in Sources : table[s] # NoTable => ContentOf(s) # t
    <3>1. \A s \in Requests : table[s] # NoTable => req[s].token # t
      BY <2>1 DEF ImportInv, Owned
    <3> QED BY <3>1, NamesAssumption DEF ContentOf, Sources
  <2>3. \A f \in Files : f # t => sheet'[f] = sheet[f]
    BY DEF Store, ImportInv, Typed
  <2>4. \A s \in Sources : table[s] # NoTable => ContentOf(s) \in Files
    BY DEF ImportInv, Owned, ContentOf, Files, Sources
  <2>5. \A s \in Sources : ContentOf(s)' = ContentOf(s)
    BY <1>1 DEF ContentOf
  <2> QED BY <1>1, <2>2, <2>3, <2>4, <2>5, CountedStays
<1> QED BY <1>2, <1>3, <1>4, <1>5, <1>6, <1>7, <1>8 DEF ImportInv

LEMMA StoreRefusedKeeps ==
  ASSUME NEW t \in Tokens, ImportInv, StoreRefused(t)
  PROVE  ImportInv'
<1>1. UNCHANGED <<row, staged, age, sheet, finals, table, req, up, lock, clean, phase>>
  BY DEF StoreRefused, fileVars, actorVars, boundVars
<1>2. Typed'
  BY <1>1 DEF StoreRefused, InspectAt, Inspected, ImportInv, Typed, InspectionSet
<1>3. Uploaded'
  BY <1>1, <1>2 DEF StoreRefused, InspectAt, Inspected, ImportInv, Typed, Uploaded, Owned, InspectionSet, RequestSet
<1>4. Locked'
  BY <1>1 DEF ImportInv, Locked
<1>5. Owned'
  BY <1>1 DEF ImportInv, Owned, Took, TokenKeepsFile
<1>6. Filed'
  BY <1>1 DEF ImportInv, Filed, Recorded
<1>7. Ready'
  BY <1>1 DEF ImportInv, Ready
<1>8. Counted'
  BY <1>1, CountedStays DEF ContentOf
<1> QED BY <1>2, <1>3, <1>4, <1>5, <1>6, <1>7, <1>8 DEF ImportInv

LEMMA InspectFileKeeps ==
  ASSUME NEW t \in Tokens, ImportInv, InspectFile(t)
  PROVE  ImportInv'
<1>1. UNCHANGED <<row, age, sheet, finals, table, req, up, lock, clean, phase>>
  BY DEF InspectFile, fileVars, actorVars, boundVars
<1>2. Typed'
  BY <1>1 DEF InspectFile, InspectAt, Inspected, ImportInv, Typed, InspectionSet
<1>3. Uploaded'
  <2>1. insp' = [insp EXCEPT ![t].pc = insp'[t].pc] /\ insp[t].pc = "read"
        /\ insp'[t].pc \in {"insert", "done"}
    BY DEF InspectFile, InspectAt, Inspected, ImportInv, Typed, InspectionSet
  <2>2. insp'[t].pc = "insert" => t \in staged'
    BY DEF InspectFile, Inspected, ImportInv, Typed, InspectionSet
  <2>3. staged' \in {staged, staged \ {t}}
    BY DEF InspectFile
  <2>4. \A x \in Tokens : x # t => insp'[x] = insp[x]
    BY DEF InspectFile, Inspected, ImportInv, Typed
  <2>5. insp'[t].todo = insp[t].todo /\ phase = "up"
    BY DEF InspectFile, InspectAt, Inspected, ImportInv, Typed, InspectionSet
  <2> QED BY <1>1, <2>1, <2>2, <2>3, <2>4, <2>5 DEF ImportInv, Uploaded
<1>4. Locked'
  BY <1>1 DEF ImportInv, Locked
<1>5. Owned'
  BY <1>1, <1>2 DEF InspectFile, InspectAt, Inspected, ImportInv, Typed, Uploaded, Locked, Owned, Filed, Took, TokenKeepsFile, RequestSet, InspectionSet, Sources
<1>6. Filed'
  BY <1>1 DEF ImportInv, Filed, Recorded
<1>7. Ready'
  BY <1>1 DEF ImportInv, Ready
<1>8. Counted'
  BY <1>1, CountedStays DEF ContentOf
<1> QED BY <1>2, <1>3, <1>4, <1>5, <1>6, <1>7, <1>8 DEF ImportInv

LEMMA InsertRowKeeps ==
  ASSUME NEW t \in Tokens, ImportInv, InsertRow(t)
  PROVE  ImportInv'
<1>1. UNCHANGED <<staged, age, sheet, finals, table, req, up, lock, clean, phase>>
  BY DEF InsertRow, fileVars, actorVars, boundVars
<1>2. Typed'
  BY <1>1 DEF InsertRow, InspectAt, Inspected, ImportInv, Typed, InspectionSet
<1>3. Uploaded'
  BY <1>1, <1>2 DEF InsertRow, InspectAt, Inspected, ImportInv, Typed, Uploaded, Owned, InspectionSet, RequestSet
<1>4. Locked'
  BY <1>1 DEF ImportInv, Locked
<1>5. Owned'
  BY <1>1, <1>2 DEF InsertRow, InspectAt, Inspected, ImportInv, Typed, Uploaded, Locked, Owned, Filed, Took, TokenKeepsFile, RequestSet, InspectionSet, Sources
<1>6. Filed'
  BY <1>1 DEF ImportInv, Filed, Recorded
<1>7. Ready'
  BY <1>1 DEF ImportInv, Ready
<1>8. Counted'
  BY <1>1, CountedStays DEF ContentOf
<1> QED BY <1>2, <1>3, <1>4, <1>5, <1>6, <1>7, <1>8 DEF ImportInv

LEMMA InsertFailsKeeps ==
  ASSUME NEW t \in Tokens, ImportInv, InsertFails(t)
  PROVE  ImportInv'
<1>1. UNCHANGED <<row, age, sheet, finals, table, req, up, lock, clean, phase>>
  BY DEF InsertFails, fileVars, actorVars, boundVars
<1>2. Typed'
  BY <1>1 DEF InsertFails, InspectAt, Inspected, ImportInv, Typed, InspectionSet
<1>3. Uploaded'
  BY <1>1, <1>2 DEF InsertFails, InspectAt, Inspected, ImportInv, Typed, Uploaded, Owned, InspectionSet, RequestSet
<1>4. Locked'
  BY <1>1 DEF ImportInv, Locked
<1>5. Owned'
  BY <1>1, <1>2 DEF InsertFails, InspectAt, Inspected, ImportInv, Typed, Uploaded, Locked, Owned, Filed, Took, TokenKeepsFile, RequestSet, InspectionSet, Sources
<1>6. Filed'
  BY <1>1 DEF ImportInv, Filed, Recorded
<1>7. Ready'
  BY <1>1 DEF ImportInv, Ready
<1>8. Counted'
  BY <1>1, CountedStays DEF ContentOf
<1> QED BY <1>2, <1>3, <1>4, <1>5, <1>6, <1>7, <1>8 DEF ImportInv

LEMMA AskMissingKeeps ==
  ASSUME NEW q \in Requests, ImportInv, AskMissing(q)
  PROVE  ImportInv'
<1>1. UNCHANGED <<row, staged, age, sheet, finals, table, insp, up, lock, clean, phase>>
  BY DEF AskMissing, fileVars, actorVars, boundVars
<1>2. Typed'
  <2>1. PICK tok \in Tokens : req' = [req EXCEPT ![q].pc = "done", ![q].token = tok]
    BY DEF AskMissing
  <2> DEFINE rec == [req[q] EXCEPT !.pc = "done", !.token = tok]
  <2>2. rec \in RequestSet
    <3>1. req[q] \in RequestSet
      BY DEF ImportInv, Typed
    <3> QED BY <3>1 DEF RequestSet
  <2>3. req' = [req EXCEPT ![q] = rec]
    BY <2>1 DEF ImportInv, Typed, RequestSet
  <2> HIDE DEF rec
  <2>4. req' \in [Requests -> RequestSet]
    BY <2>2, <2>3, RequestTyped DEF ImportInv
  <2> QED BY <1>1, <2>4 DEF ImportInv, Typed
<1>3. Uploaded'
  BY <1>1 DEF ImportInv, Uploaded
<1>4. Locked'
  BY <1>1, <1>2, NamesAssumption DEF AskMissing, At, ImportInv, Typed, Locked, RequestSet, Sources
<1>5. Owned'
  <2>1. PICK tok \in Tokens : row[tok] = "Gone"
                              /\ req' = [req EXCEPT ![q].pc = "done", ![q].token = tok]
    BY DEF AskMissing
  <2>2. ~Took(q) /\ table[q] = NoTable
    BY DEF AskMissing, At, ImportInv, Owned, Took
  <2>3. req'[q].pc = "done" /\ req'[q].token = tok
    BY <2>1 DEF ImportInv, Typed, RequestSet
  <2>4. \A p \in Requests : p # q => req'[p] = req[p]
    BY <2>1 DEF ImportInv, Typed
  <2>5. \A p \in Requests : Took(p)' <=> Took(p)
    BY <1>1, <2>2, <2>3, <2>4 DEF Took
  <2>6. req[q].pc = "idle"
    BY DEF AskMissing, At
  <2>7. \A p \in Requests :
          /\ req'[p].pc # "idle" => req'[p].token \in Tokens /\ row[req'[p].token] # "None"
          /\ req'[p].pc = "unlink" => row[req'[p].token] = "Gone"
          /\ table[p] # NoTable => req'[p].pc = "done"
          /\ Took(p)' => req'[p].token \notin staged
    BY <2>1, <2>2, <2>3, <2>4, <2>5, ZenonT(40) DEF ImportInv, Owned
  <2>8. \A p, r \in Requests : Took(p)' /\ Took(r)' /\ req'[p].token = req'[r].token => p = r
    BY <2>2, <2>4, <2>5 DEF ImportInv, Owned
  <2>9. TokenKeepsFile'
    BY <1>1, <2>3, <2>4, <2>6 DEF ImportInv, Owned, TokenKeepsFile
  <2> QED BY <1>1, <2>7, <2>8, <2>9 DEF Owned
<1>6. Filed'
  BY <1>1, <1>2, NamesAssumption DEF AskMissing, At, ImportInv, Typed, Locked, Owned, Filed, Recorded, RequestSet, Sources
<1>7. Ready'
  BY <1>1, <1>2 DEF AskMissing, At, ImportInv, Typed, Uploaded, Owned, Ready, RequestSet, InspectionSet, Files
<1>8. Counted'
  BY <1>1, <1>2, CountedStays DEF AskMissing, At, ImportInv, Typed, Uploaded, Owned, ContentOf, RequestSet, Files, Sources
<1> QED BY <1>2, <1>3, <1>4, <1>5, <1>6, <1>7, <1>8 DEF ImportInv

LEMMA AskDiscardKeeps ==
  ASSUME NEW q \in Requests, ImportInv, AskDiscard(q)
  PROVE  ImportInv'
<1>1. UNCHANGED <<row, staged, age, sheet, finals, table, insp, up, lock, clean, phase>>
  BY DEF AskDiscard, fileVars, actorVars, boundVars
<1>2. Typed'
  <2>1. PICK tok \in Tokens : req' = [req EXCEPT ![q].pc = "delete", ![q].token = tok]
    BY DEF AskDiscard
  <2> DEFINE rec == [req[q] EXCEPT !.pc = "delete", !.token = tok]
  <2>2. rec \in RequestSet
    <3>1. req[q] \in RequestSet
      BY DEF ImportInv, Typed
    <3> QED BY <3>1 DEF RequestSet
  <2>3. req' = [req EXCEPT ![q] = rec]
    BY <2>1 DEF ImportInv, Typed, RequestSet
  <2> HIDE DEF rec
  <2>4. req' \in [Requests -> RequestSet]
    BY <2>2, <2>3, RequestTyped DEF ImportInv
  <2> QED BY <1>1, <2>4 DEF ImportInv, Typed
<1>3. Uploaded'
  BY <1>1 DEF ImportInv, Uploaded
<1>4. Locked'
  BY <1>1, <1>2, NamesAssumption DEF AskDiscard, At, ImportInv, Typed, Locked, RequestSet, Sources
<1>5. Owned'
  BY <1>1, <1>2 DEF AskDiscard, At, ImportInv, Typed, Uploaded, Locked, Owned, Filed, Took, TokenKeepsFile, RequestSet, InspectionSet, Sources
<1>6. Filed'
  BY <1>1, <1>2, NamesAssumption DEF AskDiscard, At, ImportInv, Typed, Locked, Owned, Filed, Recorded, RequestSet, Sources
<1>7. Ready'
  BY <1>1, <1>2 DEF AskDiscard, At, ImportInv, Typed, Uploaded, Owned, Ready, RequestSet, InspectionSet, Files
<1>8. Counted'
  BY <1>1, <1>2, CountedStays DEF AskDiscard, At, ImportInv, Typed, Uploaded, Owned, ContentOf, RequestSet, Files, Sources
<1> QED BY <1>2, <1>3, <1>4, <1>5, <1>6, <1>7, <1>8 DEF ImportInv

LEMMA AskCommitKeeps ==
  ASSUME NEW q \in Requests, ImportInv, AskCommit(q)
  PROVE  ImportInv'
<1>1. UNCHANGED <<row, staged, age, sheet, finals, table, insp, up, lock, clean, phase>>
  BY DEF AskCommit, fileVars, actorVars, boundVars
<1>2. Typed'
  <2>1. PICK tok \in Tokens, range \in Ranges, seen \in Ranges :
           /\ row[tok] = "Live" /\ Readable(sheet[tok], seen)
           /\ \E fields \in Shown(sheet[tok], seen) :
                req' = [req EXCEPT ![q] = [pc |-> "check", token |-> tok, range |-> range,
                                           names |-> fields.names, types |-> fields.types]]
    BY DEF AskCommit
  <2>2. PICK fields \in Shown(sheet[tok], seen) :
           req' = [req EXCEPT ![q] = [pc |-> "check", token |-> tok, range |-> range,
                                      names |-> fields.names, types |-> fields.types]]
    BY <2>1
  <2>3. sheet[tok] \in CellSheets
    BY <2>1 DEF ImportInv, Typed, Uploaded, Files
  <2>4. fields.names \in AllNames /\ fields.types \in Seq(Types)
    <3>1. fields.names = Names(sheet[tok], seen)
          /\ fields.types \in {InferTypes(sheet[tok], seen, SampleRows),
                              [j \in 1..Width(sheet[tok], seen) |-> "Text"]}
      BY DEF Shown
    <3>2. fields.names \in AllNames
      BY <2>3, <3>1 DEF AllNames
    <3>3. InferTypes(sheet[tok], seen, SampleRows) \in Seq(Types)
          /\ [j \in 1..Width(sheet[tok], seen) |-> "Text"] \in Seq(Types)
      BY <2>3, InferTyped
    <3> QED BY <3>1, <3>2, <3>3
  <2> QED BY <1>1, <2>2, <2>4 DEF ImportInv, Typed, RequestSet
<1>3. Uploaded'
  BY <1>1 DEF ImportInv, Uploaded
<1>4. Locked'
  BY <1>1, <1>2, NamesAssumption DEF AskCommit, At, ImportInv, Typed, Locked, RequestSet, Sources
<1>5. Owned'
  BY <1>1, <1>2 DEF AskCommit, At, ImportInv, Typed, Uploaded, Locked, Owned, Filed, Took, TokenKeepsFile, RequestSet, InspectionSet, Sources
<1>6. Filed'
  BY <1>1, <1>2, NamesAssumption DEF AskCommit, At, ImportInv, Typed, Locked, Owned, Filed, Recorded, RequestSet, Sources
<1>7. Ready'
  BY <1>1, <1>2 DEF AskCommit, At, ImportInv, Typed, Uploaded, Owned, Ready, RequestSet, InspectionSet, Files
<1>8. Counted'
  BY <1>1, <1>2, CountedStays DEF AskCommit, At, ImportInv, Typed, Uploaded, Owned, ContentOf, RequestSet, Files, Sources
<1> QED BY <1>2, <1>3, <1>4, <1>5, <1>6, <1>7, <1>8 DEF ImportInv

LEMMA CheckKeeps ==
  ASSUME NEW q \in Requests, ImportInv, Check(q)
  PROVE  ImportInv'
<1>1. UNCHANGED <<row, staged, age, sheet, finals, table, insp, up, lock, clean, phase>>
  BY DEF Check, fileVars, actorVars, boundVars
<1>2. Typed'
  <2>1. <<>> \in AllNames /\ <<>> \in Seq(Types) /\ Whole \in Ranges
    BY RangesAssumption DEF AllNames
  <2> DEFINE on == [req[q] EXCEPT !.pc = "lock", !.names = <<>>]
             off == [req[q] EXCEPT !.pc = "done", !.range = Whole, !.names = <<>>, !.types = <<>>]
  <2>2. on \in RequestSet
    <3>1. req[q] \in RequestSet
      BY DEF ImportInv, Typed
    <3> QED BY <2>1, <3>1 DEF RequestSet
  <2>3. off \in RequestSet
    <3>1. req[q] \in RequestSet
      BY DEF ImportInv, Typed
    <3> QED BY <2>1, <3>1 DEF RequestSet
  <2>4. req' = [req EXCEPT ![q] = on] \/ req' = [req EXCEPT ![q] = off]
    BY DEF Check, ImportInv, Typed, RequestSet
  <2> HIDE DEF on, off
  <2>5. req' \in [Requests -> RequestSet]
    BY <2>2, <2>3, <2>4 DEF ImportInv, Typed
  <2> QED BY <1>1, <2>5 DEF ImportInv, Typed
<1>3. Uploaded'
  BY <1>1 DEF ImportInv, Uploaded
<1>4. Locked'
  BY <1>1, <1>2, NamesAssumption DEF Check, At, ImportInv, Typed, Locked, RequestSet, Sources
<1>5. Owned'
  <2>1. /\ req[q].pc = "check" /\ req'[q].pc \in {"lock", "done"} /\ req'[q].token = req[q].token
        /\ \A p \in Requests : p # q => req'[p] = req[p]
    BY DEF Check, At, ImportInv, Typed, RequestSet
  <2>2. \A p \in Requests : Took(p)' <=> Took(p)
    BY <1>1, <2>1 DEF Took
  <2> QED BY <1>1, <2>1, <2>2 DEF ImportInv, Owned, TokenKeepsFile
<1>6. Filed'
  BY <1>1, <1>2, NamesAssumption DEF Check, At, ImportInv, Typed, Locked, Owned, Filed, Recorded, RequestSet, Sources
<1>7. Ready'
  <2>1. \A p \in Requests : p # q => req'[p] = req[p]
    BY DEF Check, ImportInv, Typed
  <2>2. req'[q].pc = "lock" =>
          /\ Prepared(q) /\ req'[q].token = req[q].token /\ req'[q].range = req[q].range
    BY DEF Check, At, ImportInv, Typed, RequestSet
  <2>3. req'[q].pc \in {"lock", "done"}
    BY DEF Check, ImportInv, Typed, RequestSet
  <2> QED BY <1>1, <2>1, <2>2, <2>3 DEF ImportInv, Ready, Prepared
<1>8. Counted'
  BY <1>1, <1>2, CountedStays DEF Check, At, ImportInv, Typed, Uploaded, Owned, ContentOf, RequestSet, Files, Sources
<1> QED BY <1>2, <1>3, <1>4, <1>5, <1>6, <1>7, <1>8 DEF ImportInv

LEMMA LockKeeps ==
  ASSUME NEW q \in Requests, ImportInv, Lock(q)
  PROVE  ImportInv'
<1>1. UNCHANGED <<row, staged, age, sheet, finals, table, insp, up, clean, phase>>
  BY DEF Lock, fileVars, actorVars, boundVars
<1>2. Typed'
  BY <1>1, ZenonT(40) DEF Lock, At, Goes, ImportInv, Typed, RequestSet, Sources
<1>3. Uploaded'
  BY <1>1 DEF ImportInv, Uploaded
<1>4. Locked'
  BY <1>1, <1>2, NamesAssumption DEF Lock, At, Goes, ImportInv, Typed, Locked, RequestSet, Sources
<1>5. Owned'
  BY <1>1, <1>2 DEF Lock, At, Goes, ImportInv, Typed, Uploaded, Locked, Owned, Filed, Took, TokenKeepsFile, RequestSet, InspectionSet, Sources
<1>6. Filed'
  BY <1>1, <1>2, NamesAssumption DEF Lock, At, Goes, ImportInv, Typed, Locked, Owned, Filed, Recorded, RequestSet, Sources
<1>7. Ready'
  BY <1>1, <1>2 DEF Lock, At, Goes, ImportInv, Typed, Uploaded, Owned, Ready, RequestSet, InspectionSet, Files
<1>8. Counted'
  BY <1>1, <1>2, CountedStays DEF Lock, At, Goes, ImportInv, Typed, Uploaded, Owned, ContentOf, RequestSet, Files, Sources
<1> QED BY <1>2, <1>3, <1>4, <1>5, <1>6, <1>7, <1>8 DEF ImportInv

LEMMA MoveFileKeeps ==
  ASSUME NEW q \in Requests, ImportInv, MoveFile(q)
  PROVE  ImportInv'
<1>1. UNCHANGED <<row, age, sheet, table, insp, up, lock, clean, phase>>
  BY DEF MoveFile, fileVars, actorVars, boundVars
<1>2. Typed'
  BY <1>1, ZenonT(40) DEF MoveFile, At, Goes, ImportInv, Typed, RequestSet, Sources
<1>3. Uploaded'
  BY <1>1, <1>2 DEF MoveFile, At, Goes, ImportInv, Typed, Uploaded, Owned, InspectionSet, RequestSet
<1>4. Locked'
  BY <1>1, <1>2, NamesAssumption DEF MoveFile, At, Goes, ImportInv, Typed, Locked, RequestSet, Sources
<1>5. Owned'
  BY <1>1, <1>2 DEF MoveFile, At, Goes, ImportInv, Typed, Uploaded, Locked, Owned, Filed, Took, TokenKeepsFile, RequestSet, InspectionSet, Sources
<1>6. Filed'
  BY <1>1, <1>2, NamesAssumption DEF MoveFile, At, Goes, ImportInv, Typed, Locked, Owned, Filed, Recorded, RequestSet, Sources
<1>7. Ready'
  BY <1>1, <1>2 DEF MoveFile, At, Goes, ImportInv, Typed, Uploaded, Owned, Ready, RequestSet, InspectionSet, Files
<1>8. Counted'
  BY <1>1, <1>2, CountedStays DEF MoveFile, At, Goes, ImportInv, Typed, Uploaded, Owned, ContentOf, RequestSet, Files, Sources
<1> QED BY <1>2, <1>3, <1>4, <1>5, <1>6, <1>7, <1>8 DEF ImportInv

LEMMA MoveMissingKeeps ==
  ASSUME NEW q \in Requests, ImportInv, MoveMissing(q)
  PROVE  ImportInv'
<1>1. UNCHANGED <<row, staged, age, sheet, finals, table, insp, up, clean, phase>>
  BY DEF MoveMissing, fileVars, actorVars, boundVars
<1>2. Typed'
  BY <1>1, ZenonT(40) DEF MoveMissing, At, Goes, Unlocked, ImportInv, Typed, RequestSet, Sources
<1>3. Uploaded'
  BY <1>1 DEF ImportInv, Uploaded
<1>4. Locked'
  BY <1>1, <1>2, NamesAssumption DEF MoveMissing, At, Goes, Unlocked, ImportInv, Typed, Locked, RequestSet, Sources
<1>5. Owned'
  BY <1>1, <1>2 DEF MoveMissing, At, Goes, Unlocked, ImportInv, Typed, Uploaded, Locked, Owned, Filed, Took, TokenKeepsFile, RequestSet, InspectionSet, Sources
<1>6. Filed'
  BY <1>1, <1>2, NamesAssumption DEF MoveMissing, At, Goes, Unlocked, ImportInv, Typed, Locked, Owned, Filed, Recorded, RequestSet, Sources
<1>7. Ready'
  BY <1>1, <1>2 DEF MoveMissing, At, Goes, Unlocked, ImportInv, Typed, Uploaded, Owned, Ready, RequestSet, InspectionSet, Files
<1>8. Counted'
  BY <1>1, <1>2, CountedStays DEF MoveMissing, At, Goes, Unlocked, ImportInv, Typed, Uploaded, Owned, ContentOf, RequestSet, Files, Sources
<1> QED BY <1>2, <1>3, <1>4, <1>5, <1>6, <1>7, <1>8 DEF ImportInv

LEMMA RecordKeeps ==
  ASSUME NEW q \in Requests, ImportInv, Record(q)
  PROVE  ImportInv'
<1>1. UNCHANGED <<staged, age, sheet, finals, insp, up, clean, phase>>
  BY DEF Record, fileVars, actorVars, boundVars
<1>2. Typed'
  <2> DEFINE new == TableOf(sheet[req[q].token], req[q].range, req[q].types)
  <2>1. req[q].pc = "record" /\ req[q].token \in Tokens /\ req[q].range \in Ranges
        /\ req[q].types \in Seq(Types)
    BY DEF Record, At, ImportInv, Typed, Owned, RequestSet
  <2>2. sheet[req[q].token] \in CellSheets
    BY <2>1 DEF ImportInv, Owned, Uploaded, Typed, Files
  <2>3. new \in TableSet
    BY <2>1, <2>2, CountTyped DEF TableOf, TableSet, Unbuilt
  <2>4. table' = [table EXCEPT ![q] = new] /\ row' = [row EXCEPT ![req[q].token] = "Gone"]
        /\ req' = [req EXCEPT ![q].pc = "done"] /\ lock' = Unlocked(q)
    BY DEF Record, Goes
  <2> HIDE DEF new
  <2> QED BY <1>1, <2>1, <2>3, <2>4, ZenonT(40) DEF ImportInv, Typed, RequestSet, Unlocked, Sources
<1>3. Uploaded'
  BY <1>1, <1>2 DEF Record, At, Goes, Unlocked, ImportInv, Typed, Uploaded, Owned, InspectionSet, RequestSet
<1>4. Locked'
  BY <1>1, <1>2, NamesAssumption DEF Record, At, Goes, Unlocked, ImportInv, Typed, Locked, RequestSet, Sources
<1>5. Owned'
  BY <1>1, <1>2 DEF Record, At, Goes, Unlocked, ImportInv, Typed, Uploaded, Locked, Owned, Filed, Took, TokenKeepsFile, RequestSet, InspectionSet, Sources
<1>6. Filed'
  BY <1>1, <1>2, NamesAssumption DEF Record, At, Goes, Unlocked, ImportInv, Typed, Locked, Owned, Filed, Recorded, RequestSet, Sources
<1>7. Ready'
  BY <1>1, <1>2 DEF Record, At, Goes, Unlocked, ImportInv, Typed, Uploaded, Owned, Ready, RequestSet, InspectionSet, Files
<1>8. Counted'
  <2> DEFINE new == TableOf(sheet[req[q].token], req[q].range, req[q].types)
  <2>1. req[q].pc = "record" /\ req[q].token \in Tokens /\ req[q].range \in Ranges
        /\ req[q].types \in Seq(Types)
    BY DEF Record, At, ImportInv, Typed, Owned, RequestSet
  <2>2. sheet[req[q].token] \in CellSheets
    BY <2>1 DEF ImportInv, Owned, Uploaded, Typed, Files
  <2>3. Readable(sheet[req[q].token], req[q].range)
    BY <2>1 DEF ImportInv, Ready
  <2>4. WellBuilt(new, sheet[req[q].token], MostOf(q))
    BY <2>2, <2>3 DEF WellBuilt, TableOf, Unbuilt, Failed
  <2>5. table' = [table EXCEPT ![q] = new] /\ req' = [req EXCEPT ![q].pc = "done"]
    BY DEF Record, Goes
  <2> HIDE DEF new
  <2>6. /\ table'[q] = new /\ ContentOf(q)' = req[q].token
        /\ \A s \in Sources : s # q => table'[s] = table[s] /\ ContentOf(s)' = ContentOf(s)
    BY <2>5, NamesAssumption DEF ImportInv, Typed, RequestSet, ContentOf, Sources
  <2> QED BY <1>1, <2>4, <2>6 DEF ImportInv, Counted, MostOf
<1> QED BY <1>2, <1>3, <1>4, <1>5, <1>6, <1>7, <1>8 DEF ImportInv

LEMMA RecordFailsKeeps ==
  ASSUME NEW q \in Requests, ImportInv, RecordFails(q)
  PROVE  ImportInv'
<1>1. UNCHANGED <<row, staged, age, sheet, finals, table, insp, up, lock, clean, phase>>
  BY DEF RecordFails, fileVars, actorVars, boundVars
<1>2. Typed'
  BY <1>1, ZenonT(40) DEF RecordFails, At, Goes, ImportInv, Typed, RequestSet
<1>3. Uploaded'
  BY <1>1 DEF ImportInv, Uploaded
<1>4. Locked'
  BY <1>1, <1>2, NamesAssumption DEF RecordFails, At, Goes, ImportInv, Typed, Locked, RequestSet, Sources
<1>5. Owned'
  BY <1>1, <1>2 DEF RecordFails, At, Goes, ImportInv, Typed, Uploaded, Locked, Owned, Filed, Took, TokenKeepsFile, RequestSet, InspectionSet, Sources
<1>6. Filed'
  BY <1>1, <1>2, NamesAssumption DEF RecordFails, At, Goes, ImportInv, Typed, Locked, Owned, Filed, Recorded, RequestSet, Sources
<1>7. Ready'
  BY <1>1, <1>2 DEF RecordFails, At, Goes, ImportInv, Typed, Uploaded, Owned, Ready, RequestSet, InspectionSet, Files
<1>8. Counted'
  BY <1>1, <1>2, CountedStays DEF RecordFails, At, Goes, ImportInv, Typed, Uploaded, Owned, ContentOf, RequestSet, Files, Sources
<1> QED BY <1>2, <1>3, <1>4, <1>5, <1>6, <1>7, <1>8 DEF ImportInv

LEMMA MoveBackKeeps ==
  ASSUME NEW q \in Requests, ImportInv, MoveBack(q)
  PROVE  ImportInv'
<1>1. UNCHANGED <<row, age, sheet, table, insp, up, clean, phase>>
  BY DEF MoveBack, fileVars, actorVars, boundVars
<1>2. Typed'
  <2>1. req[q].token \in Tokens
    BY DEF MoveBack, At, ImportInv, Owned
  <2>2. staged' \in {staged, staged \cup {req[q].token}} /\ finals' = finals \ {q}
    BY DEF MoveBack
  <2>3. lock' \in {lock, Nobody} /\ req' = [req EXCEPT ![q].pc = "done"]
    BY DEF MoveBack, Goes, Unlocked
  <2>4. req' \in [Requests -> RequestSet]
    <3>1. [req[q] EXCEPT !.pc = "done"] \in RequestSet
      <4>1. req[q] \in RequestSet
        BY DEF ImportInv, Typed
      <4> QED BY <4>1 DEF RequestSet
    <3>2. req' = [req EXCEPT ![q] = [req[q] EXCEPT !.pc = "done"]]
      BY <2>3
    <3>3. req \in [Requests -> RequestSet]
      BY DEF ImportInv, Typed
    <3> QED BY <3>1, <3>2, <3>3
  <2>5. lock' \in Sources \cup {Cleaner, Nobody} /\ staged' \subseteq Tokens /\ finals' \subseteq Sources
    BY <2>1, <2>2, <2>3 DEF ImportInv, Typed
  <2> QED BY <1>1, <2>4, <2>5 DEF ImportInv, Typed
<1>3. Uploaded'
  BY <1>1, <1>2 DEF MoveBack, At, Goes, Unlocked, ImportInv, Typed, Uploaded, Owned, InspectionSet, RequestSet
<1>4. Locked'
  BY <1>1, <1>2, NamesAssumption DEF MoveBack, At, Goes, Unlocked, ImportInv, Typed, Locked, RequestSet, Sources
<1>5. Owned'
  BY <1>1, <1>2 DEF MoveBack, At, Goes, Unlocked, ImportInv, Typed, Uploaded, Locked, Owned, Filed, Took, TokenKeepsFile, RequestSet, InspectionSet, Sources
<1>6. Filed'
  BY <1>1, <1>2, NamesAssumption DEF MoveBack, At, Goes, Unlocked, ImportInv, Typed, Locked, Owned, Filed, Recorded, RequestSet, Sources
<1>7. Ready'
  BY <1>1, <1>2 DEF MoveBack, At, Goes, Unlocked, ImportInv, Typed, Uploaded, Owned, Ready, RequestSet, InspectionSet, Files
<1>8. Counted'
  BY <1>1, <1>2, CountedStays DEF MoveBack, At, Goes, Unlocked, ImportInv, Typed, Uploaded, Owned, ContentOf, RequestSet, Files, Sources
<1> QED BY <1>2, <1>3, <1>4, <1>5, <1>6, <1>7, <1>8 DEF ImportInv

LEMMA DropRowKeeps ==
  ASSUME NEW q \in Requests, ImportInv, DropRow(q)
  PROVE  ImportInv'
<1>1. UNCHANGED <<staged, age, sheet, finals, table, insp, up, lock, clean, phase>>
  BY DEF DropRow, fileVars, actorVars, boundVars
<1>2. Typed'
  BY <1>1, ZenonT(40) DEF DropRow, At, Goes, ImportInv, Typed, RequestSet
<1>3. Uploaded'
  BY <1>1, <1>2 DEF DropRow, At, Goes, ImportInv, Typed, Uploaded, Owned, InspectionSet, RequestSet
<1>4. Locked'
  BY <1>1, <1>2, NamesAssumption DEF DropRow, At, Goes, ImportInv, Typed, Locked, RequestSet, Sources
<1>5. Owned'
  BY <1>1, <1>2 DEF DropRow, At, Goes, ImportInv, Typed, Uploaded, Locked, Owned, Filed, Took, TokenKeepsFile, RequestSet, InspectionSet, Sources
<1>6. Filed'
  BY <1>1, <1>2, NamesAssumption DEF DropRow, At, Goes, ImportInv, Typed, Locked, Owned, Filed, Recorded, RequestSet, Sources
<1>7. Ready'
  BY <1>1, <1>2 DEF DropRow, At, Goes, ImportInv, Typed, Uploaded, Owned, Ready, RequestSet, InspectionSet, Files
<1>8. Counted'
  BY <1>1, <1>2, CountedStays DEF DropRow, At, Goes, ImportInv, Typed, Uploaded, Owned, ContentOf, RequestSet, Files, Sources
<1> QED BY <1>2, <1>3, <1>4, <1>5, <1>6, <1>7, <1>8 DEF ImportInv

LEMMA DropFileKeeps ==
  ASSUME NEW q \in Requests, ImportInv, DropFile(q)
  PROVE  ImportInv'
<1>1. UNCHANGED <<row, age, sheet, finals, table, insp, up, lock, clean, phase>>
  BY DEF DropFile, fileVars, actorVars, boundVars
<1>2. Typed'
  BY <1>1, ZenonT(40) DEF DropFile, At, Goes, ImportInv, Typed, RequestSet
<1>3. Uploaded'
  BY <1>1, <1>2 DEF DropFile, At, Goes, ImportInv, Typed, Uploaded, Owned, InspectionSet, RequestSet
<1>4. Locked'
  BY <1>1, <1>2, NamesAssumption DEF DropFile, At, Goes, ImportInv, Typed, Locked, RequestSet, Sources
<1>5. Owned'
  BY <1>1, <1>2 DEF DropFile, At, Goes, ImportInv, Typed, Uploaded, Locked, Owned, Filed, Took, TokenKeepsFile, RequestSet, InspectionSet, Sources
<1>6. Filed'
  BY <1>1, <1>2, NamesAssumption DEF DropFile, At, Goes, ImportInv, Typed, Locked, Owned, Filed, Recorded, RequestSet, Sources
<1>7. Ready'
  BY <1>1, <1>2 DEF DropFile, At, Goes, ImportInv, Typed, Uploaded, Owned, Ready, RequestSet, InspectionSet, Files
<1>8. Counted'
  BY <1>1, <1>2, CountedStays DEF DropFile, At, Goes, ImportInv, Typed, Uploaded, Owned, ContentOf, RequestSet, Files, Sources
<1> QED BY <1>2, <1>3, <1>4, <1>5, <1>6, <1>7, <1>8 DEF ImportInv

LEMMA UploadLockKeeps ==
  ASSUME NEW u \in Uploads, ImportInv, UploadLock(u)
  PROVE  ImportInv'
<1>1. UNCHANGED <<row, staged, age, sheet, finals, table, insp, req, clean, phase>>
  BY DEF UploadLock, fileVars, actorVars, boundVars
<1>2. Typed'
  BY <1>1 DEF UploadLock, UploadAt, ImportInv, Typed, Sources
<1>3. Uploaded'
  BY <1>1 DEF ImportInv, Uploaded
<1>4. Locked'
  BY <1>1, <1>2, NamesAssumption DEF UploadLock, UploadAt, ImportInv, Typed, Locked, RequestSet, Sources
<1>5. Owned'
  BY <1>1 DEF ImportInv, Owned, Took, TokenKeepsFile
<1>6. Filed'
  BY <1>1, <1>2, NamesAssumption DEF UploadLock, UploadAt, ImportInv, Typed, Locked, Owned, Filed, Recorded, RequestSet, Sources
<1>7. Ready'
  BY <1>1 DEF ImportInv, Ready
<1>8. Counted'
  BY <1>1, CountedStays DEF ContentOf
<1> QED BY <1>2, <1>3, <1>4, <1>5, <1>6, <1>7, <1>8 DEF ImportInv

LEMMA UploadStoreKeeps ==
  ASSUME NEW u \in Uploads, ImportInv, UploadStore(u)
  PROVE  ImportInv'
<1>1. UNCHANGED <<row, staged, age, table, insp, req, lock, clean, phase>>
  BY DEF UploadStore, fileVars, actorVars, boundVars
<1>2. Typed'
  <2>1. PICK content \in Sheets[u] : sheet' = [sheet EXCEPT ![u] = content]
    BY DEF UploadStore
  <2>2. content \in CellSheets /\ u \in Files
    BY SheetsAssumption DEF Files
  <2>3. finals' = finals \cup {u} /\ up' = [up EXCEPT ![u] = "record"]
    BY DEF UploadStore
  <2> QED BY <1>1, <2>1, <2>2, <2>3 DEF ImportInv, Typed, Sources
<1>3. Uploaded'
  BY <1>1, <1>2, SheetsAssumption, NamesAssumption DEF UploadStore, UploadAt, ImportInv, Typed, Uploaded, Owned, InspectionSet, RequestSet
<1>4. Locked'
  BY <1>1, <1>2, SheetsAssumption, NamesAssumption DEF UploadStore, UploadAt, ImportInv, Typed, Locked, RequestSet, Sources
<1>5. Owned'
  BY <1>1 DEF ImportInv, Owned, Took, TokenKeepsFile
<1>6. Filed'
  BY <1>1, <1>2, SheetsAssumption, NamesAssumption DEF UploadStore, UploadAt, ImportInv, Typed, Locked, Owned, Filed, Recorded, RequestSet, Sources
<1>7. Ready'
  BY <1>1, <1>2, SheetsAssumption, NamesAssumption DEF UploadStore, UploadAt, ImportInv, Typed, Uploaded, Owned, Ready, RequestSet, InspectionSet, Files
<1>8. Counted'
  <2>1. table[u] = NoTable
    BY DEF UploadStore, UploadAt, ImportInv, Filed
  <2>2. \A s \in Sources : table[s] # NoTable => ContentOf(s) # u /\ ContentOf(s) \in Files
    BY <2>1, NamesAssumption DEF ImportInv, Owned, ContentOf, Sources, Files
  <2>3. \A f \in Files : f # u => sheet'[f] = sheet[f]
    BY DEF UploadStore, ImportInv, Typed
  <2>4. \A s \in Sources : ContentOf(s)' = ContentOf(s)
    BY <1>1 DEF ContentOf
  <2> QED BY <1>1, <2>2, <2>3, <2>4, CountedStays
<1> QED BY <1>2, <1>3, <1>4, <1>5, <1>6, <1>7, <1>8 DEF ImportInv

LEMMA UploadRecordKeeps ==
  ASSUME NEW u \in Uploads, ImportInv, UploadRecord(u)
  PROVE  ImportInv'
<1>1. UNCHANGED <<row, staged, age, sheet, finals, insp, req, clean, phase>>
  BY DEF UploadRecord, fileVars, actorVars, boundVars
<1>2. Typed'
  <2> DEFINE new == TableOf(sheet[u], Whole, InferTypes(sheet[u], Whole, 1))
  <2>1. sheet[u] \in CellSheets /\ u \in Sources /\ Whole \in Ranges
    BY RangesAssumption DEF UploadRecord, UploadAt, ImportInv, Filed, Typed, Files, Sources
  <2>2. new \in TableSet
    <3>1. InferTypes(sheet[u], Whole, 1) \in Seq(Types) /\ RowCount(sheet[u], Whole) \in Nat
      BY <2>1, InferTyped
    <3> QED BY <2>1, <3>1 DEF TableOf, TableSet, Unbuilt
  <2>3. table' = [table EXCEPT ![u] = new] /\ up' = [up EXCEPT ![u] = "done"]
        /\ lock' = Unlocked(u)
    BY DEF UploadRecord
  <2> HIDE DEF new
  <2> QED BY <1>1, <2>2, <2>3 DEF ImportInv, Typed, Unlocked
<1>3. Uploaded'
  BY <1>1 DEF ImportInv, Uploaded
<1>4. Locked'
  BY <1>1, <1>2, NamesAssumption DEF UploadRecord, UploadAt, Unlocked, ImportInv, Typed, Locked, RequestSet, Sources
<1>5. Owned'
  BY <1>1, <1>2, NamesAssumption DEF UploadRecord, UploadAt, Unlocked, ImportInv, Typed, Uploaded, Locked, Owned, Filed, Took, TokenKeepsFile, RequestSet, InspectionSet, Sources
<1>6. Filed'
  BY <1>1, <1>2, NamesAssumption DEF UploadRecord, UploadAt, Unlocked, ImportInv, Typed, Locked, Owned, Filed, Recorded, RequestSet, Sources
<1>7. Ready'
  BY <1>1 DEF ImportInv, Ready
<1>8. Counted'
  <2> DEFINE new == TableOf(sheet[u], Whole, InferTypes(sheet[u], Whole, 1))
  <2>1. sheet[u] \in CellSheets /\ u \in Sources /\ Whole \in Ranges
    BY RangesAssumption DEF UploadRecord, UploadAt, ImportInv, Filed, Typed, Files, Sources
  <2>2. WellBuilt(new, sheet[u], MostOf(u))
    <3>1. InferTypes(sheet[u], Whole, 1) # <<>> => Readable(sheet[u], Whole)
      BY <2>1, InferTyped
    <3> QED BY <2>1, <3>1 DEF WellBuilt, TableOf, Unbuilt, Failed
  <2>3. table' = [table EXCEPT ![u] = new]
    BY DEF UploadRecord
  <2> HIDE DEF new
  <2>4. /\ table'[u] = new /\ ContentOf(u)' = u
        /\ \A s \in Sources : s # u => table'[s] = table[s]
        /\ \A s \in Sources : ContentOf(s)' = ContentOf(s)
    BY <1>1, <2>1, <2>3 DEF ImportInv, Typed, ContentOf
  <2> QED BY <1>1, <2>2, <2>4 DEF ImportInv, Counted, MostOf
<1> QED BY <1>2, <1>3, <1>4, <1>5, <1>6, <1>7, <1>8 DEF ImportInv

LEMMA UploadFailsKeeps ==
  ASSUME NEW u \in Uploads, ImportInv, UploadFails(u)
  PROVE  ImportInv'
<1>1. UNCHANGED <<row, staged, age, sheet, table, insp, req, clean, phase>>
  BY DEF UploadFails, fileVars, actorVars, boundVars
<1>2. Typed'
  BY <1>1 DEF UploadFails, UploadAt, Unlocked, ImportInv, Typed, Sources
<1>3. Uploaded'
  BY <1>1 DEF ImportInv, Uploaded
<1>4. Locked'
  BY <1>1, <1>2, NamesAssumption DEF UploadFails, UploadAt, Unlocked, ImportInv, Typed, Locked, RequestSet, Sources
<1>5. Owned'
  BY <1>1 DEF ImportInv, Owned, Took, TokenKeepsFile
<1>6. Filed'
  BY <1>1, <1>2, NamesAssumption DEF UploadFails, UploadAt, Unlocked, ImportInv, Typed, Locked, Owned, Filed, Recorded, RequestSet, Sources
<1>7. Ready'
  BY <1>1 DEF ImportInv, Ready
<1>8. Counted'
  BY <1>1, CountedStays DEF ContentOf
<1> QED BY <1>2, <1>3, <1>4, <1>5, <1>6, <1>7, <1>8 DEF ImportInv

LEMMA QueryKeeps ==
  ASSUME NEW s \in Sources, ImportInv, Query(s)
  PROVE  ImportInv'
<1>1. UNCHANGED <<row, staged, age, sheet, finals, insp, req, up, lock, clean, phase>>
  BY DEF Query, fileVars, actorVars, boundVars
<1>2. Typed'
  <2>1. BuildOf(s) \in Int /\ table[s] \in TableSet
        /\ table' = [table EXCEPT ![s].built = BuildOf(s)]
    BY BuildFacts DEF Query, ImportInv, Typed
  <2> QED BY <1>1, <2>1 DEF ImportInv, Typed, TableSet
<1>3. Uploaded'
  BY <1>1 DEF ImportInv, Uploaded
<1>4. Locked'
  BY <1>1 DEF ImportInv, Locked
<1>5. Owned'
  BY <1>1, <1>2 DEF Query, ImportInv, Typed, Uploaded, Locked, Owned, Filed, Took, TokenKeepsFile, RequestSet, InspectionSet, Sources
<1>6. Filed'
  BY <1>1, <1>2, NamesAssumption DEF Query, ImportInv, Typed, Locked, Owned, Filed, Recorded, RequestSet, Sources
<1>7. Ready'
  BY <1>1 DEF ImportInv, Ready
<1>8. Counted'
  <2>1. WellBuilt([table[s] EXCEPT !.built = BuildOf(s)], sheet[ContentOf(s)], MostOf(s))
    BY BuildFacts DEF Query
  <2>2. table'[s] = [table[s] EXCEPT !.built = BuildOf(s)]
        /\ \A x \in Sources : x # s => table'[x] = table[x]
    BY DEF Query, ImportInv, Typed
  <2>3. \A x \in Sources : ContentOf(x)' = ContentOf(x)
    BY <1>1 DEF ContentOf
  <2> QED BY <1>1, <2>1, <2>2, <2>3 DEF ImportInv, Counted, MostOf
<1> QED BY <1>2, <1>3, <1>4, <1>5, <1>6, <1>7, <1>8 DEF ImportInv

LEMMA AgesKeeps ==
  ASSUME NEW f \in Files, ImportInv, Ages(f)
  PROVE  ImportInv'
<1>1. UNCHANGED <<row, staged, sheet, finals, table, insp, req, up, lock, clean, phase>>
  BY DEF Ages, fileVars, actorVars, boundVars
<1>2. Typed'
  BY <1>1 DEF Ages, ImportInv, Typed
<1>3. Uploaded'
  BY <1>1 DEF ImportInv, Uploaded
<1>4. Locked'
  BY <1>1 DEF ImportInv, Locked
<1>5. Owned'
  BY <1>1 DEF ImportInv, Owned, Took, TokenKeepsFile
<1>6. Filed'
  BY <1>1 DEF ImportInv, Filed, Recorded
<1>7. Ready'
  BY <1>1 DEF ImportInv, Ready
<1>8. Counted'
  BY <1>1, CountedStays DEF ContentOf
<1> QED BY <1>2, <1>3, <1>4, <1>5, <1>6, <1>7, <1>8 DEF ImportInv

LEMMA CleanStartKeeps ==
  ASSUME ImportInv, CleanStart
  PROVE  ImportInv'
<1>1. UNCHANGED <<row, staged, age, sheet, finals, table, insp, req, up, phase>>
  BY DEF CleanStart, fileVars, actorVars, boundVars
<1>2. Typed'
  <2>1. Recorded \in SUBSET Sources
    BY DEF Recorded
  <2> QED BY <1>1, <2>1 DEF CleanStart, ImportInv, Typed
<1>3. Uploaded'
  BY <1>1 DEF ImportInv, Uploaded
<1>4. Locked'
  BY <1>1, <1>2, NamesAssumption DEF CleanStart, ImportInv, Typed, Locked, RequestSet, Sources
<1>5. Owned'
  BY <1>1 DEF ImportInv, Owned, Took, TokenKeepsFile
<1>6. Filed'
  BY <1>1, <1>2, NamesAssumption DEF CleanStart, ImportInv, Typed, Locked, Owned, Filed, Recorded, RequestSet, Sources
<1>7. Ready'
  BY <1>1 DEF ImportInv, Ready
<1>8. Counted'
  BY <1>1, CountedStays DEF ContentOf
<1> QED BY <1>2, <1>3, <1>4, <1>5, <1>6, <1>7, <1>8 DEF ImportInv

LEMMA CleanRemoveKeeps ==
  ASSUME ImportInv, CleanRemove
  PROVE  ImportInv'
<1>1. UNCHANGED <<row, staged, age, sheet, table, insp, req, up, phase>>
  BY DEF CleanRemove, fileVars, actorVars, boundVars
<1>2. Typed'
  BY <1>1 DEF CleanRemove, Orphans, Unlocked, ImportInv, Typed, Sources
<1>3. Uploaded'
  BY <1>1 DEF ImportInv, Uploaded
<1>4. Locked'
  BY <1>1, <1>2, NamesAssumption DEF CleanRemove, Orphans, Unlocked, ImportInv, Typed, Locked, RequestSet, Sources
<1>5. Owned'
  BY <1>1 DEF ImportInv, Owned, Took, TokenKeepsFile
<1>6. Filed'
  BY <1>1, <1>2, NamesAssumption DEF CleanRemove, Orphans, Unlocked, ImportInv, Typed, Locked, Owned, Filed, Recorded, RequestSet, Sources
<1>7. Ready'
  BY <1>1 DEF ImportInv, Ready
<1>8. Counted'
  BY <1>1, CountedStays DEF ContentOf
<1> QED BY <1>2, <1>3, <1>4, <1>5, <1>6, <1>7, <1>8 DEF ImportInv

LEMMA CutOffKeeps ==
  ASSUME ImportInv, CutOff
  PROVE  ImportInv'
<1>1. UNCHANGED <<row, staged, age, sheet, finals, table, clean, phase>>
  BY DEF CutOff, fileVars, actorVars, boundVars
<1>2. Typed'
  <2>1. CASE \E q \in Requests : /\ req[q].pc \notin {"idle", "done", "torn"}
                                 /\ Goes(q, Ended(req[q].pc))
                                 /\ lock' = Unlocked(q)
                                 /\ UNCHANGED <<insp, up>>
    <3>1. PICK q \in Requests : /\ req' = [req EXCEPT ![q].pc = Ended(req[q].pc)]
                                /\ lock' \in {lock, Nobody}
                                /\ UNCHANGED <<insp, up>>
      BY <2>1 DEF Goes, Unlocked
    <3>2. Ended(req[q].pc) \in {"idle", "done", "torn"}
      BY DEF Ended, Stopped
    <3> QED BY <1>1, <3>1, <3>2, ZenonT(40) DEF ImportInv, Typed, RequestSet
  <2>2. CASE \E t \in Tokens :
               /\ insp[t].pc \notin {"idle", "done"}
               /\ insp' = [insp EXCEPT ![t] = [pc |-> "done", todo |-> {}, now |-> NoToken]]
               /\ UNCHANGED <<req, up, lock>>
    BY <1>1, <2>2 DEF ImportInv, Typed, InspectionSet, TokenSets
  <2>3. CASE \E u \in Uploads : /\ up[u] \notin {"idle", "done"}
                                /\ up' = [up EXCEPT ![u] = "done"]
                                /\ lock' = Unlocked(u)
                                /\ UNCHANGED <<insp, req>>
    BY <1>1, <2>3 DEF ImportInv, Typed, Unlocked
  <2> QED BY <2>1, <2>2, <2>3 DEF CutOff
<1>3. Uploaded'
  BY <1>1, <1>2, NamesAssumption DEF CutOff, Goes, Ended, Stopped, Unlocked, ImportInv, Typed, Uploaded, Owned, InspectionSet, RequestSet
<1>4. Locked'
  <2>1. CASE \E q \in Requests : /\ req[q].pc \notin {"idle", "done", "torn"}
                                 /\ Goes(q, Ended(req[q].pc))
                                 /\ lock' = Unlocked(q)
                                 /\ UNCHANGED <<insp, up>>
    BY <1>1, <2>1, <1>2, NamesAssumption DEF Goes, Ended, Stopped, Unlocked, ImportInv, Typed, Locked, RequestSet, Sources
  <2>2. CASE \E t \in Tokens :
               /\ insp[t].pc \notin {"idle", "done"}
               /\ insp' = [insp EXCEPT ![t] = [pc |-> "done", todo |-> {}, now |-> NoToken]]
               /\ UNCHANGED <<req, up, lock>>
    BY <1>1, <2>2, <1>2, NamesAssumption DEF Goes, Ended, Stopped, Unlocked, ImportInv, Typed, Locked, RequestSet, Sources
  <2>3. CASE \E u \in Uploads : /\ up[u] \notin {"idle", "done"}
                                /\ up' = [up EXCEPT ![u] = "done"]
                                /\ lock' = Unlocked(u)
                                /\ UNCHANGED <<insp, req>>
    BY <1>1, <2>3, <1>2, NamesAssumption DEF Goes, Ended, Stopped, Unlocked, ImportInv, Typed, Locked, RequestSet, Sources
  <2> QED BY <2>1, <2>2, <2>3 DEF CutOff
<1>5. Owned'
  <2>1. CASE \E q \in Requests : /\ req[q].pc \notin {"idle", "done", "torn"}
                                 /\ Goes(q, Ended(req[q].pc))
                                 /\ lock' = Unlocked(q)
                                 /\ UNCHANGED <<insp, up>>
    BY <1>1, <2>1, <1>2 DEF Goes, Ended, Stopped, Unlocked, ImportInv, Typed, Owned, Took, TokenKeepsFile, RequestSet
  <2>2. CASE \E t \in Tokens :
               /\ insp[t].pc \notin {"idle", "done"}
               /\ insp' = [insp EXCEPT ![t] = [pc |-> "done", todo |-> {}, now |-> NoToken]]
               /\ UNCHANGED <<req, up, lock>>
    BY <1>1, <2>2, <1>2 DEF Goes, Ended, Stopped, Unlocked, ImportInv, Typed, Owned, Took, TokenKeepsFile, RequestSet
  <2>3. CASE \E u \in Uploads : /\ up[u] \notin {"idle", "done"}
                                /\ up' = [up EXCEPT ![u] = "done"]
                                /\ lock' = Unlocked(u)
                                /\ UNCHANGED <<insp, req>>
    BY <1>1, <2>3, <1>2 DEF Goes, Ended, Stopped, Unlocked, ImportInv, Typed, Owned, Took, TokenKeepsFile, RequestSet
  <2> QED BY <2>1, <2>2, <2>3 DEF CutOff
<1>6. Filed'
  <2>1. CASE \E q \in Requests : /\ req[q].pc \notin {"idle", "done", "torn"}
                                 /\ Goes(q, Ended(req[q].pc))
                                 /\ lock' = Unlocked(q)
                                 /\ UNCHANGED <<insp, up>>
    BY <1>1, <2>1, <1>2 DEF Goes, Ended, Stopped, Unlocked, ImportInv, Typed, Filed, Recorded, RequestSet, Sources
  <2>2. CASE \E t \in Tokens :
               /\ insp[t].pc \notin {"idle", "done"}
               /\ insp' = [insp EXCEPT ![t] = [pc |-> "done", todo |-> {}, now |-> NoToken]]
               /\ UNCHANGED <<req, up, lock>>
    BY <1>1, <2>2, <1>2 DEF Goes, Ended, Stopped, Unlocked, ImportInv, Typed, Filed, Recorded, RequestSet, Sources
  <2>3. CASE \E u \in Uploads : /\ up[u] \notin {"idle", "done"}
                                /\ up' = [up EXCEPT ![u] = "done"]
                                /\ lock' = Unlocked(u)
                                /\ UNCHANGED <<insp, req>>
    BY <1>1, <2>3, <1>2 DEF Goes, Ended, Stopped, Unlocked, ImportInv, Typed, Filed, Recorded, RequestSet, Sources
  <2> QED BY <2>1, <2>2, <2>3 DEF CutOff
<1>7. Ready'
  BY <1>1, <1>2, NamesAssumption DEF CutOff, Goes, Ended, Stopped, Unlocked, ImportInv, Typed, Uploaded, Owned, Ready, RequestSet, InspectionSet, Files
<1>8. Counted'
  <2>1. req' = req \/ \E q \in Requests : req' = [req EXCEPT ![q].pc = Ended(req[q].pc)]
    BY DEF CutOff, Goes
  <2>2. \A q \in Requests : req'[q].token = req[q].token
    BY <2>1 DEF ImportInv, Typed, RequestSet
  <2>3. \A s \in Sources : ContentOf(s)' = ContentOf(s)
    BY <2>2 DEF ContentOf, Sources
  <2> QED BY <1>1, <2>3, CountedStays
<1> QED BY <1>2, <1>3, <1>4, <1>5, <1>6, <1>7, <1>8 DEF ImportInv

LEMMA CrashKeeps ==
  ASSUME ImportInv, Crash
  PROVE  ImportInv'
<1>1. UNCHANGED <<row, staged, age, sheet, finals, table>>
  BY DEF Crash, fileVars, actorVars, boundVars
<1>2. Typed'
  <2>1. \A q \in Requests : [req[q] EXCEPT !.pc = Ended(req[q].pc)] \in RequestSet
    <3>1. \A q \in Requests : Ended(req[q].pc) \in {"idle", "done", "torn"}
      BY DEF Ended, Stopped
    <3> QED BY <3>1, ZenonT(40) DEF ImportInv, Typed, RequestSet
  <2>2. \A t \in Tokens : [pc |-> Stopped(insp[t].pc), todo |-> {}, now |-> NoToken] \in InspectionSet
    BY DEF ImportInv, Typed, InspectionSet, TokenSets, Stopped
  <2>3. /\ req' = [q \in Requests |-> [req[q] EXCEPT !.pc = Ended(req[q].pc)]]
        /\ insp' = [t \in Tokens |-> [pc |-> Stopped(insp[t].pc), todo |-> {}, now |-> NoToken]]
    BY DEF Crash
  <2>4. req' \in [Requests -> RequestSet] /\ insp' \in [Tokens -> InspectionSet]
    BY <2>1, <2>2, <2>3
  <2> QED BY <1>1, <2>4 DEF Crash, Stopped, ImportInv, Typed
<1>3. Uploaded'
  BY <1>1, <1>2 DEF Crash, Ended, Stopped, ImportInv, Typed, Uploaded, Owned, InspectionSet, RequestSet
<1>4. Locked'
  BY <1>1, <1>2, NamesAssumption DEF Crash, Ended, Stopped, ImportInv, Typed, Locked, RequestSet, Sources
<1>5. Owned'
  <2>1. \A q \in Requests : /\ req'[q].pc = Ended(req[q].pc)
                            /\ req'[q].token = req[q].token
    BY DEF Crash, ImportInv, Typed, RequestSet
  <2>2. \A q \in Requests : Took(q)' <=> Took(q)
    BY <1>1, <2>1 DEF Took, Ended, Stopped, ImportInv, Typed, RequestSet
  <2>3. \A q \in Requests : /\ req'[q].pc # "idle" => req[q].pc # "idle"
                            /\ req[q].pc = "done" => req'[q].pc = "done"
                            /\ req'[q].pc # "unlink"
                            /\ req[q].pc \in {"record", "back", "torn"} => req'[q].pc = "torn"
    BY <2>1 DEF Ended, Stopped
  <2> QED BY <1>1, <2>1, <2>2, <2>3 DEF ImportInv, Owned, TokenKeepsFile
<1>6. Filed'
  BY <1>1, <1>2, NamesAssumption DEF Crash, Ended, Stopped, ImportInv, Typed, Locked, Owned, Filed, Recorded, RequestSet, Sources
<1>7. Ready'
  BY <1>1, <1>2 DEF Crash, Ended, Stopped, ImportInv, Typed, Uploaded, Owned, Ready, RequestSet, InspectionSet, Files
<1>8. Counted'
  BY <1>1, <1>2, CountedStays DEF Crash, Ended, Stopped, ImportInv, Typed, Uploaded, Owned, ContentOf, RequestSet, Files, Sources
<1> QED BY <1>2, <1>3, <1>4, <1>5, <1>6, <1>7, <1>8 DEF ImportInv

LEMMA StartupKeeps ==
  ASSUME ImportInv, Startup
  PROVE  ImportInv'
<1>1. UNCHANGED <<age, sheet, table, insp, req, up, lock, clean>>
  BY DEF Startup, fileVars, actorVars, boundVars
<1>2. Typed'
  BY <1>1 DEF Startup, Orphans, ImportInv, Typed, Sources
<1>3. Uploaded'
  <2>1. phase = "down" /\ phase' = "up" /\ staged' \subseteq staged
    BY DEF Startup
  <2>2. \A t \in Tokens : /\ row'[t] \in {row[t], "Gone"}
                          /\ row'[t] # "None" <=> row[t] # "None"
                          /\ row[t] = "Gone" => row'[t] = "Gone"
    BY DEF Startup
  <2>3. \A t \in Tokens : insp[t].pc \in {"idle", "done"} /\ insp[t].todo \subseteq Tokens
    BY <2>1 DEF ImportInv, Typed, Uploaded, InspectionSet, TokenSets
  <2> QED BY <1>1, <2>1, <2>2, <2>3 DEF ImportInv, Uploaded
<1>4. Locked'
  BY <1>1, <1>2, NamesAssumption DEF Startup, Orphans, ImportInv, Typed, Locked, RequestSet, Sources
<1>5. Owned'
  BY <1>1, <1>2 DEF Startup, Orphans, ImportInv, Typed, Uploaded, Locked, Owned, Filed, Took, TokenKeepsFile, RequestSet, InspectionSet, Sources
<1>6. Filed'
  BY <1>1, <1>2, NamesAssumption DEF Startup, Orphans, ImportInv, Typed, Locked, Owned, Filed, Recorded, RequestSet, Sources
<1>7. Ready'
  BY <1>1 DEF ImportInv, Ready
<1>8. Counted'
  BY <1>1, CountedStays DEF ContentOf
<1> QED BY <1>2, <1>3, <1>4, <1>5, <1>6, <1>7, <1>8 DEF ImportInv

-----------------------------------------------------------------------------
(* The theorems                                                              *)

LEMMA NextKeeps == ASSUME ImportInv, [Next]_vars PROVE ImportInv'
<1>1. CASE UNCHANGED vars
  <2>1. UNCHANGED <<row, staged, age, sheet, finals, table, insp, req, up, lock, clean, phase>>
    BY <1>1 DEF vars, fileVars, actorVars, boundVars
  <2>2. Typed' /\ Uploaded' /\ Locked' /\ Owned' /\ Filed' /\ Ready'
    BY <2>1 DEF ImportInv, Typed, Uploaded, Locked, Owned, Took, TokenKeepsFile, Filed,
        Recorded, Ready
  <2>3. Counted'
    BY <2>1, CountedStays DEF ContentOf
  <2> QED BY <2>2, <2>3 DEF ImportInv
<1>2. CASE \E t \in Tokens : Inspect(t)
  BY <1>2, ListExpiredKeeps, SweepRowKeeps, SweepFileKeeps, StoreKeeps, StoreRefusedKeeps,
     InspectFileKeeps, InsertRowKeeps, InsertFailsKeeps DEF Inspect
<1>3. CASE \E q \in Requests : Request(q)
  BY <1>3, AskMissingKeeps, AskDiscardKeeps, AskCommitKeeps, CheckKeeps, LockKeeps,
     MoveFileKeeps, MoveMissingKeeps, RecordKeeps, RecordFailsKeeps, MoveBackKeeps,
     DropRowKeeps, DropFileKeeps DEF Request
<1>4. CASE \E u \in Uploads : Upload(u)
  BY <1>4, UploadLockKeeps, UploadStoreKeeps, UploadRecordKeeps, UploadFailsKeeps DEF Upload
<1>5. CASE \/ \E s \in Sources : Query(s)
           \/ \E f \in Files : Ages(f)
  BY <1>5, QueryKeeps, AgesKeeps
<1>6. CASE CleanStart \/ CleanRemove \/ CutOff \/ Crash \/ Startup
  BY <1>6, CleanStartKeeps, CleanRemoveKeeps, CutOffKeeps, CrashKeeps, StartupKeeps
<1> QED BY <1>1, <1>2, <1>3, <1>4, <1>5, <1>6 DEF Next

LEMMA InvariantHolds == Spec => []ImportInv
<1> QED BY InitInv, NextKeeps, PTL DEF Spec

\* The state keeps its types, and the storage lock is held by exactly the commit,
\* the upload or the clean-up that is between taking it and giving it back
\* (data_sources.rs, maintenance.rs: storage_lock).
THEOREM ImportTypeCorrect == Spec => []TypeOK
<1>1. ImportInv => TypeOK
  <2> SUFFICES ASSUME ImportInv PROVE TypeOK
    OBVIOUS
  <2>1. \A q \in Requests : Holding(q) <=> lock = q
    BY DEF Holding, ImportInv, Locked
  <2>2. \A u \in Uploads : Holding(u) <=> lock = u
    BY NamesAssumption DEF Holding, ImportInv, Locked
  <2>3. Holding(Cleaner) <=> lock = Cleaner
    BY NamesAssumption DEF Holding, ImportInv, Locked
  <2>4. \A h \in Sources \cup {Cleaner} : Holding(h) <=> lock = h
    BY <2>1, <2>2, <2>3 DEF Sources
  <2>5. \A t \in Tokens : insp[t].pc \in {"idle", "sweep", "unlink", "read", "insert", "done"}
                          /\ insp[t].todo \subseteq Tokens
    BY DEF ImportInv, Typed, InspectionSet, TokenSets
  <2>6. \A q \in Requests :
          req[q].pc \in {"idle", "check", "lock", "move", "record", "back", "delete",
                         "unlink", "done", "torn"}
    BY DEF ImportInv, Typed, RequestSet
  <2> QED BY <2>4, <2>5, <2>6 DEF TypeOK, ImportInv, Typed, Uploaded, Owned
<1> QED BY <1>1, InvariantHolds, PTL

\* However many requests commit one upload at once, and whatever fails between
\* their steps, at most one source comes of it (commit_import: the rename).
THEOREM OneCommitWins == Spec => []OneSourcePerUpload
<1>1. ImportInv => OneSourcePerUpload
  BY DEF ImportInv, Owned, Took, OneSourcePerUpload
<1> QED BY <1>1, InvariantHolds, PTL

\* No clean-up, at startup or hourly, takes the file of a source, whatever the
\* age the file brought along (cleanup_source_revisions).
THEOREM FilesStay == Spec => []SourceHasFile
<1>1. ImportInv => SourceHasFile
  BY DEF ImportInv, Filed, SourceHasFile
<1> QED BY <1>1, InvariantHolds, PTL

\* A token with a row has its file, or one commit has it in its hands
\* (commit_import, discard_staged_file, cleanup_expired_imports).
THEOREM TokensStay == Spec => []TokenKeepsFile
<1>1. ImportInv => TokenKeepsFile
  BY DEF ImportInv, Owned
<1> QED BY <1>1, InvariantHolds, PTL

\* The rows a build takes are the rows the import counted (read_csv, read_excel
\* against stream_csv_rows, stream_excel_rows).
THEOREM RowsAgree == Spec => []RowsAsCounted
<1>1. ImportInv => RowsAsCounted
  BY DEF ImportInv, Counted, WellBuilt, RowsAsCounted
<1> QED BY <1>1, InvariantHolds, PTL

\* A table imported with the inferred types, all of whose rows were sampled,
\* builds, a doubtful column apart (infer_fields against json_to_duck).
THEOREM InferredTypesFit == Spec => []InferredTypesConvert
<1>1. ImportInv => InferredTypesConvert
  BY DEF ImportInv, Counted, WellBuilt, MostOf, InferredTypesConvert
<1> QED BY <1>1, InvariantHolds, PTL

=============================================================================
