------------------------------ MODULE Columns ------------------------------
(* How an uploaded file becomes typed columns, and how its cells are        *)
(* converted when the table is built (services/spreadsheet.rs and the cell   *)
(* conversions of services/query_engine.rs).  The two halves were written     *)
(* apart: the upload reads a sample and infers a type for every column, the   *)
(* first query streams all rows again and converts each cell to that type.    *)
(*                                                                          *)
(* A cell is its class, not its characters:                                  *)
(*   Empty   nothing, or blank CSV text       Yes    a truth value            *)
(*   One     1                                Int    any other whole number    *)
(*   Whole   42.0                             Real   a number with a fraction  *)
(*   NaN     NaN or an infinity, as text      Day    a date                    *)
(*   Midnight a moment at 00:00:00            Moment any other date and time   *)
(*   Zoned   a moment with an offset          Word   any other text            *)
(* A sheet is its kind and its rows, a row a sequence of cells.  Left out:    *)
(* the letters of a cell reference, several sheets, and the limit of cells    *)
(* one Excel table may have.                                                 *)
EXTENDS Integers, Sequences, FiniteSetsExt

CONSTANT Open                  \* the range has no end cell

Types == {"Text", "Integer", "Real", "Boolean", "Date", "Datetime"}

Cells == {"Empty", "Yes", "One", "Int", "Whole", "Real", "NaN", "Day", "Midnight",
          "Moment", "Zoned", "Word"}

\* A range of cells, and what an uploaded file holds.
CellRanges == [top : Nat, left : Nat, bottom : Nat \cup {Open}, right : Nat \cup {Open},
               header : BOOLEAN]

CellSheets == [kind : {"csv", "excel"}, rows : Seq(Seq(Cells))]

-----------------------------------------------------------------------------
(* Reading                                                                   *)

Least(a, b) == IF a < b THEN a ELSE b

\* parse_cell_range refuses an end above or left of the start
RangeValid(r) ==
    /\ r.top >= 1 /\ r.left >= 1
    /\ r.bottom = Open \/ r.bottom >= r.top
    /\ r.right = Open \/ r.right >= r.left

\* An Excel file holds typed cells, a CSV file text only: cell_to_json writes a
\* whole number as an integer and a midnight as a bare date, parse_csv_value
\* keeps the text of every cell that is not blank.
Value(kind, cell) ==
    IF kind = "excel"
    THEN CASE cell \in {"One", "Whole"} -> "Int"
           [] cell = "Midnight" -> "Day"
           [] OTHER -> cell
    ELSE IF cell = "Midnight" THEN "Moment" ELSE cell

Cell(sheet, i, j) ==
    IF i <= Len(sheet.rows) /\ j <= Len(sheet.rows[i])
    THEN Value(sheet.kind, sheet.rows[i][j])
    ELSE "Empty"

LastRow(sheet, r) ==
    IF r.bottom = Open THEN Len(sheet.rows) ELSE Least(r.bottom, Len(sheet.rows))

\* A CSV record counts with its fields, blank ones too; an Excel column counts
\* when some cell of the range has a value.
ColumnsAt(sheet, i) ==
    IF sheet.kind = "csv"
    THEN 1..Len(sheet.rows[i])
    ELSE {j \in 1..Len(sheet.rows[i]) : sheet.rows[i][j] # "Empty"}

\* How many columns the range has: all its rows are looked at, header and
\* rows after the sample included.
Width(sheet, r) ==
    LET seen == UNION {ColumnsAt(sheet, i) : i \in r.top..LastRow(sheet, r)}
        inside == {j \in seen : j >= r.left /\ (r.right = Open \/ j <= r.right)}
    IN  IF inside = {} THEN 0 ELSE Max(inside) - r.left + 1

FirstDataRow(r) == IF r.header THEN r.top + 1 ELSE r.top

\* read_csv, read_excel: total_rows
RowCount(sheet, r) ==
    IF Width(sheet, r) = 0 \/ FirstDataRow(r) > LastRow(sheet, r)
    THEN 0
    ELSE LastRow(sheet, r) - FirstDataRow(r) + 1

\* The rows read_csv and read_excel keep, as sequences of Width cells.
Sample(sheet, r, most) ==
    [i \in 1..Least(most, RowCount(sheet, r)) |->
        [j \in 1..Width(sheet, r) |->
            Cell(sheet, FirstDataRow(r) + i - 1, r.left + j - 1)]]

\* build_column_names: the header's label, or the column's letter, and which
\* occurrence of that label this is.  (The code writes the occurrence as a suffix;
\* that "a_2" may also be a label is left out.)
Label(sheet, r, j) ==
    LET cell == Cell(sheet, r.top, r.left + j - 1)
    IN  IF r.header /\ cell # "Empty" THEN <<"label", cell>> ELSE <<"column", r.left + j - 1>>

Names(sheet, r) ==
    [j \in 1..Width(sheet, r) |->
        <<Label(sheet, r, j),
          Cardinality({k \in 1..j : Label(sheet, r, k) = Label(sheet, r, j)})>>]

StreamedRows_CountsHeader(sheet, r, width) ==
    [i \in 1..(IF r.top > LastRow(sheet, r) THEN 0 ELSE LastRow(sheet, r) - r.top + 1) |->
        [j \in 1..width |-> Cell(sheet, r.top + i - 1, r.left + j - 1)]]

\* The rows stream_csv_rows and stream_excel_rows hand to the build: they find
\* their own bounds and take the width of the stored columns.
StreamedRows(sheet, r, width) ==
    LET first == IF r.header THEN r.top + 1 ELSE r.top
        number == IF first > LastRow(sheet, r) THEN 0 ELSE LastRow(sheet, r) - first + 1
    IN  [i \in 1..number |-> [j \in 1..width |-> Cell(sheet, first + i - 1, r.left + j - 1)]]

-----------------------------------------------------------------------------
(* Types                                                                     *)

\* What infer_fields notes of one value.  An offset is not one of its date
\* formats, NaN and the infinities parse as numbers.
Trait(value) ==
    CASE value = "Yes" -> "boolean"
      [] value \in {"One", "Int"} -> "integer"
      [] value \in {"Whole", "Real", "NaN"} -> "float"
      [] value = "Moment" -> "datetime"
      [] value = "Day" -> "date"
      [] value = "Empty" -> "null"
      [] OTHER -> "string"

\* Traits that only text can hold together.
OnlyText(traits) ==
    LET numeric  == traits \cap {"integer", "float"} # {}
        temporal == traits \cap {"date", "datetime"} # {}
    IN  \/ "string" \in traits
        \/ "boolean" \in traits /\ (numeric \/ temporal)
        \/ numeric /\ temporal

InferType_NumbersAreIntegers(values) ==
    LET traits == {Trait(v) : v \in values}
    IN  CASE OnlyText(traits) -> "Text"
          [] ~OnlyText(traits) /\ "datetime" \in traits -> "Datetime"
          [] ~OnlyText(traits) /\ traits \ {"null"} = {"date"} -> "Date"
          [] ~OnlyText(traits) /\ "boolean" \in traits -> "Boolean"
          [] ~OnlyText(traits) /\ traits \cap {"integer", "float"} # {} -> "Integer"
          [] OTHER -> "Text"

InferType(values) ==
    LET traits == {Trait(v) : v \in values}
    IN  IF OnlyText(traits)
        THEN "Text"
        ELSE CASE "datetime" \in traits -> "Datetime"
               [] traits \ {"null"} = {"date"} -> "Date"
               [] "boolean" \in traits -> "Boolean"
               [] "float" \in traits -> "Real"
               [] traits \ {"null"} = {"integer"} -> "Integer"
               [] OTHER -> "Text"

\* infer_fields over the sample
InferTypes(sheet, r, most) ==
    LET rows == Sample(sheet, r, most)
    IN  [j \in 1..Width(sheet, r) |->
            InferType({rows[i][j] : i \in DOMAIN rows})]

\* json_to_duck: which values a type takes.  A truth value may also be the text
\* 0 or 1, which only a CSV file holds; a date is not a moment.
Takes(kind, type, value) ==
    value = "Empty" \/
    CASE type = "Integer"  -> value \in {"One", "Int", "Whole"}
      [] type = "Real"     -> value \in {"One", "Int", "Whole", "Real"}
      [] type = "Boolean"  -> value = "Yes" \/ (kind = "csv" /\ value = "One")
      [] type = "Date"     -> value = "Day"
      [] type = "Datetime" -> value \in {"Moment", "Zoned"}
      [] OTHER             -> TRUE

\* build_source_cache: the first cell that does not convert fails the build.
Builds(sheet, r, types) ==
    LET rows == StreamedRows(sheet, r, Len(types))
    IN  \A i \in DOMAIN rows : \A j \in DOMAIN types :
            Takes(sheet.kind, types[j], rows[i][j])
=============================================================================
