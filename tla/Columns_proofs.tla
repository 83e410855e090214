--------------------------- MODULE Columns_proofs ---------------------------
(***************************************************************************)
(* Theorems about Columns, for every sheet and every valid range: the two  *)
(* readers of a file agree on its rows, and the types inferred from values  *)
(* take those values.                                                      *)
(***************************************************************************)
EXTENDS Columns, FiniteSetTheorems, WellFoundedInduction, TLAPS

\* A nonempty finite set of integers has a greatest element: of the sets of
\* elements above an element of S, a smallest one is empty.
LEMMA GreatestExists ==
  ASSUME NEW S, IsFiniteSet(S), S \subseteq Int, S # {}
  PROVE  Max(S) \in S /\ \A y \in S : Max(S) >= y
<1> DEFINE above(x) == {y \in S : y > x}
           uppers == {above(x) : x \in S}
<1>1. uppers \subseteq FiniteSubsetsOf(S) /\ uppers # {}
  <2>1. \A x \in S : above(x) \in SUBSET S
    OBVIOUS
  <2>2. FiniteSubsetsOf(S) = SUBSET S
    BY FS_FiniteSubsetsOfFinite
  <2>3. \A x \in S : above(x) \in FiniteSubsetsOf(S)
    BY <2>1, <2>2
  <2> HIDE DEF above
  <2> QED BY <2>3
<1>2. PICK low \in uppers : \A upper \in uppers : <<upper, low>> \notin StrictSubsetOrdering(S)
  <2> HIDE DEF uppers
  <2> QED BY <1>1, FS_StrictSubsetOrderingWellFounded, WFMin
<1>3. PICK x \in S : low = above(x)
  BY <1>2
<1>4. ASSUME NEW y \in S, y > x
      PROVE  FALSE
  <2>1. x \in Int /\ y \in Int /\ \A z \in S : z \in Int
    OBVIOUS
  <2>2. above(y) \in SUBSET S /\ above(x) \in SUBSET S /\ above(y) \in uppers
    OBVIOUS
  <2>3. above(y) \subseteq above(x) /\ y \in above(x) /\ y \notin above(y)
    <3> HIDE DEF uppers
    <3>1. \A z \in above(y) : z \in S /\ z > y
      OBVIOUS
    <3>2. \A z \in above(y) : z > x
      BY <1>4, <2>1, <3>1
    <3>3. ~(y > y)
      BY <2>1
    <3> QED BY <1>4, <3>1, <3>2, <3>3
  <2> HIDE DEF above, uppers
  <2>4. <<above(y), above(x)>> \in StrictSubsetOrdering(S)
    BY <2>2, <2>3 DEF StrictSubsetOrdering
  <2> QED BY <1>2, <1>3, <2>2, <2>4
<1>5. \A y \in S : x >= y
  BY <1>4
<1> QED BY <1>5 DEF Max

-----------------------------------------------------------------------------
(* Rows                                                                      *)

LEMMA SheetShape ==
  ASSUME NEW sheet \in CellSheets
  PROVE  /\ sheet.kind \in {"csv", "excel"}
         /\ Len(sheet.rows) \in Nat
         /\ \A i \in 1..Len(sheet.rows) :
               /\ Len(sheet.rows[i]) \in Nat
               /\ \A j \in 1..Len(sheet.rows[i]) : sheet.rows[i][j] \in Cells
<1>1. sheet.rows \in Seq(Seq(Cells)) /\ sheet.kind \in {"csv", "excel"}
  BY DEF CellSheets
<1>2. \A i \in 1..Len(sheet.rows) : sheet.rows[i] \in Seq(Cells)
  BY <1>1
<1> QED BY <1>1, <1>2

LEMMA LastRowBounds ==
  ASSUME NEW sheet \in CellSheets, NEW r \in CellRanges
  PROVE  LastRow(sheet, r) \in Nat /\ LastRow(sheet, r) <= Len(sheet.rows)
BY SheetShape DEF LastRow, Least, CellRanges

\* The width of a range is a natural number: the columns looked at are those of
\* finitely many rows, each of finite length.
LEMMA WidthIsNatural ==
  ASSUME NEW sheet \in CellSheets, NEW r \in CellRanges, RangeValid(r)
  PROVE  Width(sheet, r) \in Nat
<1> DEFINE n == Len(sheet.rows)
           across == [i \in 1..n |-> 1..Len(sheet.rows[i])]
           rows == {across[i] : i \in 1..n}
           seen == UNION {ColumnsAt(sheet, i) : i \in r.top..LastRow(sheet, r)}
           inside == {j \in seen : j >= r.left /\ (r.right = Open \/ j <= r.right)}
<1>1. n \in Nat /\ \A i \in 1..n : Len(sheet.rows[i]) \in Nat
  BY SheetShape
<1>2. IsFiniteSet(UNION rows)
  <2>1. IsFiniteSet(1..n)
    BY <1>1, FS_Interval
  <2>2. across \in Surjection(1..n, rows)
    BY DEF Surjection
  <2>3. IsFiniteSet(rows)
    <3> HIDE DEF rows, across, n
    <3> QED BY <2>1, <2>2, FS_Surjection
  <2>4. \A T \in rows : IsFiniteSet(T)
    <3>1. \A m \in Nat : IsFiniteSet(1..m)
      BY FS_Interval
    <3>2. \A i \in 1..n : IsFiniteSet(1..Len(sheet.rows[i]))
      BY <1>1, <3>1
    <3> QED BY <3>2
  <2> QED BY <2>3, <2>4, FS_UNION
<1>3. seen \subseteq UNION rows
  <2>1. r.top >= 1 /\ r.top \in Nat
    BY DEF RangeValid, CellRanges
  <2>2. \A i \in r.top..LastRow(sheet, r) : i \in 1..n
    BY <1>1, <2>1, LastRowBounds
  <2>3. \A i \in 1..n : ColumnsAt(sheet, i) \subseteq across[i]
    BY DEF ColumnsAt
  <2> QED BY <2>2, <2>3
<1>4. IsFiniteSet(inside) /\ inside \subseteq Int
  <2>1. UNION rows \subseteq Int
    <3>1. \A i \in 1..n : across[i] \subseteq Int
      BY <1>1
    <3> QED BY <3>1
  <2>2. inside \in SUBSET (UNION rows)
    BY <1>3
  <2> QED BY <1>2, <2>1, <2>2, FS_Subset
<1>5. CASE inside = {}
  BY <1>5 DEF Width
<1>6. CASE inside # {}
  <2>1. Max(inside) \in inside
    <3> HIDE DEF inside
    <3> QED BY <1>4, <1>6, GreatestExists
  <2>2. Max(inside) \in Int /\ Max(inside) >= r.left /\ r.left \in Nat
    BY <1>4, <2>1 DEF CellRanges
  <2> QED BY <1>6, <2>2 DEF Width
<1> QED BY <1>5, <1>6

LEMMA RowCountIsNatural ==
  ASSUME NEW sheet \in CellSheets, NEW r \in CellRanges, RangeValid(r)
  PROVE  RowCount(sheet, r) \in Nat /\ FirstDataRow(r) \in Nat /\ FirstDataRow(r) >= 1
<1>1. r.top \in Nat /\ r.top >= 1
  BY DEF CellRanges, RangeValid
<1>2. FirstDataRow(r) \in Nat /\ FirstDataRow(r) >= 1
  BY <1>1 DEF FirstDataRow
<1> QED BY <1>2, LastRowBounds DEF RowCount

\* The build streams as many rows of a readable range as the import counted,
\* whatever the number of its columns.
THEOREM StreamedAsCounted ==
  ASSUME NEW sheet \in CellSheets, NEW r \in CellRanges, RangeValid(r),
         NEW width \in Nat, Width(sheet, r) > 0
  PROVE  Len(StreamedRows(sheet, r, width)) = RowCount(sheet, r)
<1>1. FirstDataRow(r) \in Nat /\ LastRow(sheet, r) \in Nat /\ Width(sheet, r) # 0
  BY RowCountIsNatural, LastRowBounds, WidthIsNatural
<1> DEFINE number == IF FirstDataRow(r) > LastRow(sheet, r)
                     THEN 0 ELSE LastRow(sheet, r) - FirstDataRow(r) + 1
           row(i) == [j \in 1..width |-> Cell(sheet, FirstDataRow(r) + i - 1, r.left + j - 1)]
<1>2. number \in Nat /\ number = RowCount(sheet, r)
  BY <1>1 DEF RowCount
<1>3. StreamedRows(sheet, r, width) = [i \in 1..number |-> row(i)]
  BY DEF StreamedRows, FirstDataRow
<1>4. Len([i \in 1..number |-> row(i)]) = number
  <2> HIDE DEF number, row
  <2> QED BY <1>2
<1> QED BY <1>2, <1>3, <1>4

\* Both readers see the same cell in a row the sample holds.
LEMMA StreamedAsSampled ==
  ASSUME NEW sheet \in CellSheets, NEW r \in CellRanges, RangeValid(r),
         NEW most \in Nat, RowCount(sheet, r) <= most, Width(sheet, r) > 0,
         NEW i \in DOMAIN StreamedRows(sheet, r, Width(sheet, r)),
         NEW j \in 1..Width(sheet, r)
  PROVE  /\ i \in DOMAIN Sample(sheet, r, most)
         /\ Sample(sheet, r, most)[i][j] = StreamedRows(sheet, r, Width(sheet, r))[i][j]
<1>1. FirstDataRow(r) \in Nat /\ LastRow(sheet, r) \in Nat /\ Width(sheet, r) \in Nat
      /\ RowCount(sheet, r) \in Nat
  BY RowCountIsNatural, LastRowBounds, WidthIsNatural
<1>2. Least(most, RowCount(sheet, r)) = RowCount(sheet, r)
  BY <1>1 DEF Least
<1> DEFINE number == IF FirstDataRow(r) > LastRow(sheet, r)
                     THEN 0 ELSE LastRow(sheet, r) - FirstDataRow(r) + 1
           row(k) == [l \in 1..Width(sheet, r) |->
                        Cell(sheet, FirstDataRow(r) + k - 1, r.left + l - 1)]
<1>3. number = RowCount(sheet, r)
  BY <1>1 DEF RowCount
<1>4. StreamedRows(sheet, r, Width(sheet, r)) = [k \in 1..number |-> row(k)]
  BY DEF StreamedRows, FirstDataRow
<1>5. Sample(sheet, r, most) = [k \in 1..RowCount(sheet, r) |-> row(k)]
  BY <1>2 DEF Sample
<1> QED BY <1>3, <1>4, <1>5

-----------------------------------------------------------------------------
(* Types                                                                     *)

Read == Cells \ {"Midnight"}

LEMMA CellsRead ==
  ASSUME NEW sheet \in CellSheets, NEW i \in Nat, i >= 1, NEW j \in Nat, j >= 1
  PROVE  Cell(sheet, i, j) \in Read
<1>1. \A cell \in Cells : Value(sheet.kind, cell) \in Read
  BY DEF Value, Cells, Read
<1>2. CASE i <= Len(sheet.rows) /\ j <= Len(sheet.rows[i])
  <2>1. i \in 1..Len(sheet.rows)
    BY <1>2, SheetShape
  <2>2. j \in 1..Len(sheet.rows[i])
    BY <1>2, <2>1, SheetShape
  <2>3. sheet.rows[i][j] \in Cells
    BY <2>1, <2>2, SheetShape
  <2> QED BY <1>1, <1>2, <2>3 DEF Cell
<1>3. CASE ~(i <= Len(sheet.rows) /\ j <= Len(sheet.rows[i]))
  BY <1>3 DEF Cell, Cells, Read
<1> QED BY <1>2, <1>3

\* The type inferred from values takes each of them, unless a number among them
\* is not finite or dates are mixed with moments.
THEOREM InferredTypeTakes ==
  ASSUME NEW values \in SUBSET Read, NEW value \in values, NEW kind,
         "NaN" \notin values, ~({"Day", "Moment"} \subseteq values)
  PROVE  Takes(kind, InferType(values), value)
<1> DEFINE traits == {Trait(v) : v \in values}
<1>1. \A v \in values : Trait(v) \in traits
  OBVIOUS
<1>2. \A t \in traits : \E v \in values : Trait(v) = t
  OBVIOUS
<1>3. CASE OnlyText(traits)
  BY <1>3 DEF InferType, Takes
<1>4. CASE ~OnlyText(traits)
  <2> HIDE DEF traits
  <2>1. values \subseteq {"Empty", "Yes", "One", "Int", "Whole", "Real", "Day", "Moment"}
    BY <1>1, <1>4 DEF OnlyText, Read, Cells, Trait
  <2>2. "Yes" \in values => values \subseteq {"Yes", "Empty"}
    BY <1>1, <1>4, <2>1 DEF OnlyText, Trait
  <2>3. "Day" \in values \/ "Moment" \in values => values \subseteq {"Day", "Moment", "Empty"}
    BY <1>1, <1>4, <2>1 DEF OnlyText, Trait
  <2>4. CASE "datetime" \in traits
    <3>1. "Moment" \in values
      BY <1>2, <2>1, <2>4 DEF Trait
    <3>2. InferType(values) = "Datetime"
      BY <1>4, <2>4 DEF InferType, OnlyText, traits
    <3> QED BY <2>3, <3>1, <3>2 DEF Takes
  <2>5. CASE "datetime" \notin traits /\ traits \ {"null"} = {"date"}
    <3>1. "Day" \in values
      BY <1>2, <2>1, <2>5 DEF Trait
    <3>2. InferType(values) = "Date"
      BY <1>4, <2>5 DEF InferType, traits
    <3> QED BY <2>3, <3>1, <3>2 DEF Takes
  <2>6. CASE "datetime" \notin traits /\ traits \ {"null"} # {"date"} /\ "boolean" \in traits
    <3>1. "Yes" \in values
      BY <1>2, <2>1, <2>6 DEF Trait
    <3>2. InferType(values) = "Boolean"
      BY <1>4, <2>6 DEF InferType, OnlyText, traits
    <3> QED BY <2>2, <3>1, <3>2 DEF Takes
  <2>7. CASE /\ "datetime" \notin traits /\ traits \ {"null"} # {"date"}
             /\ "boolean" \notin traits
    <3>1. "Yes" \notin values /\ "Moment" \notin values
      BY <1>1, <2>7 DEF Trait
    <3>2. "Day" \notin values
      <4>1. ASSUME "Day" \in values
            PROVE  FALSE
        <5>1. values \subseteq {"Day", "Empty"}
          BY <2>3, <3>1, <4>1
        <5>2. "date" \in traits /\ \A t \in traits : t \in {"date", "null"}
          BY <1>1, <1>2, <4>1, <5>1 DEF Trait
        <5> QED BY <2>7, <5>2
      <4> QED BY <4>1
    <3>3. values \subseteq {"Empty", "One", "Int", "Whole", "Real"}
      BY <2>1, <3>1, <3>2
    <3>4. CASE "float" \in traits
      <4>1. InferType(values) = "Real"
        BY <1>4, <2>7, <3>4 DEF InferType, traits
      <4> QED BY <3>3, <4>1 DEF Takes
    <3>5. CASE "float" \notin traits
      <4>1. values \subseteq {"Empty", "One", "Int"}
        BY <1>1, <3>3, <3>5 DEF Trait
      <4>2. InferType(values) \in {"Integer", "Text"}
        BY <1>4, <2>7, <3>5 DEF InferType, traits
      <4> QED BY <4>1, <4>2 DEF Takes
    <3> QED BY <3>4, <3>5
  <2> QED BY <2>4, <2>5, <2>6, <2>7
<1> QED BY <1>3, <1>4

\* A table whose rows were all sampled builds with the types inferred from them,
\* a doubtful column apart: the two separate parsers of infer_fields and
\* json_to_duck agree on every cell.
THEOREM SampledRowsBuild ==
  ASSUME NEW sheet \in CellSheets, NEW r \in CellRanges, RangeValid(r),
         NEW most \in Nat, RowCount(sheet, r) <= most, Width(sheet, r) > 0,
         \A j \in 1..Width(sheet, r) :
            LET rows == Sample(sheet, r, most)
                seen == {rows[i][j] : i \in DOMAIN rows}
            IN  "NaN" \notin seen /\ ~({"Day", "Moment"} \subseteq seen)
  PROVE  Builds(sheet, r, InferTypes(sheet, r, most))
<1> DEFINE types == InferTypes(sheet, r, most)
           rows == Sample(sheet, r, most)
           width == Width(sheet, r)
           streamed == StreamedRows(sheet, r, width)
           seen(j) == {rows[i][j] : i \in DOMAIN rows}
<1>1. width \in Nat /\ r.top \in Nat /\ r.top >= 1 /\ r.left \in Nat /\ r.left >= 1
      /\ FirstDataRow(r) \in Nat /\ FirstDataRow(r) >= 1 /\ RowCount(sheet, r) \in Nat
  BY WidthIsNatural, RowCountIsNatural DEF CellRanges, RangeValid
<1>2. types = [j \in 1..width |-> InferType(seen(j))]
  BY DEF InferTypes
<1>3. Len(types) = width /\ DOMAIN types = 1..width
  <2> HIDE DEF types, width, seen
  <2> QED BY <1>1, <1>2
<1>4. SUFFICES ASSUME NEW i \in DOMAIN streamed, NEW j \in 1..width
               PROVE  Takes(sheet.kind, types[j], streamed[i][j])
  BY <1>3 DEF Builds
<1>5. i \in DOMAIN rows /\ rows[i][j] = streamed[i][j]
  BY StreamedAsSampled
<1>6. \A k \in DOMAIN rows : rows[k][j] \in Read
  <2>1. DOMAIN rows = 1..RowCount(sheet, r)
    BY <1>1 DEF Sample, Least
  <2>2. TAKE k \in DOMAIN rows
  <2>3. rows[k][j] = Cell(sheet, FirstDataRow(r) + k - 1, r.left + j - 1)
    BY DEF Sample
  <2>4. FirstDataRow(r) + k - 1 \in Nat /\ FirstDataRow(r) + k - 1 >= 1
        /\ r.left + j - 1 \in Nat /\ r.left + j - 1 >= 1
    BY <1>1, <2>1, SMTT(20)
  <2> QED BY <2>3, <2>4, CellsRead
<1>7. seen(j) \in SUBSET Read /\ rows[i][j] \in seen(j)
  BY <1>5, <1>6
<1>8. "NaN" \notin seen(j) /\ ~({"Day", "Moment"} \subseteq seen(j))
  OBVIOUS
<1>9. types[j] = InferType(seen(j))
  BY <1>2
<1> HIDE DEF types, rows, streamed, seen
<1> QED BY <1>5, <1>7, <1>8, <1>9, InferredTypeTakes
=============================================================================
