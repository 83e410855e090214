----------------------------- MODULE MCImports -----------------------------
(* Model-checking instances of Imports.                                      *)
EXTENDS Imports, TLC

CONSTANTS t1, t2, q1, q2, u1

MCWhole == [top |-> 1, left |-> 1, bottom |-> Open, right |-> Open, header |-> TRUE]
MCRanges == {MCWhole,
             [top |-> 2, left |-> 1, bottom |-> 3, right |-> 1, header |-> FALSE]}

\* Columns as one wide sheet: every kind of cell, alone or with one of its own
\* type, and the mixtures that only text can hold.
Pairs == <<<<"Empty", "Yes">>, <<"One", "Int">>, <<"Whole", "Int">>, <<"Real", "Int">>,
           <<"Day", "Empty">>, <<"Moment", "Moment">>, <<"Midnight", "Empty">>,
           <<"Zoned", "Moment">>, <<"Word", "Int">>, <<"One", "Yes">>, <<"Yes", "Day">>,
           <<"Int", "Moment">>>>

Wide(kind) ==
    [kind |-> kind, rows |-> <<[j \in DOMAIN Pairs |-> "Word"],
                               [j \in DOMAIN Pairs |-> Pairs[j][1]],
                               [j \in DOMAIN Pairs |-> Pairs[j][2]]>>]

Column(kind, cells) == [kind |-> kind, rows |-> [i \in 1..Len(cells) |-> <<cells[i]>>]]

\* A doubtful pair, a row after the sample, rows of several lengths.
Narrow == {
    Column("excel", <<"Word", "Midnight", "Moment">>),
    Column("csv", <<"Word", "One", "Yes", "Word">>),
    [kind |-> "csv", rows |-> <<<<"Word">>, <<"Empty", "Int">>, <<"Day", "Zoned">>>>],
    [kind |-> "excel", rows |-> <<<<"Empty", "Word">>, <<"Empty">>, <<"Empty", "Whole">>>>]}

MCSheets == [f \in Files |->
    CASE f = t1 -> Narrow \cup {Wide("csv"), Wide("excel")}
      [] f = t2 -> {}
      [] OTHER  -> {Column("csv", <<"Word", "Int", "Real">>)}]

ImportSymmetry == Permutations(Requests)
=============================================================================
