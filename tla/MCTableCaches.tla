--------------------------- MODULE MCTableCaches ---------------------------
(* Model-checking instances of TableCaches.                                 *)
EXTENDS TableCaches, TLC

CONSTANTS r0, r1, g1, g2, t1, t2, t3, q1, q2, e1

\* t1 and t2 type the same names; t3 has others.
MCNames == [t \in Types |-> IF t = t3 THEN 2 ELSE 1]

\* The ranges of the first revision differ in types, the new revision in the types of
\* one range and the names of the other.
MCInferred ==
    r0 :> (g1 :> t1 @@ g2 :> t2) @@ r1 :> (g1 :> t2 @@ g2 :> t3)

MCSettings ==
    {[range |-> g1, columns |-> t2], [range |-> g2, columns |-> t1],
     [range |-> g2, columns |-> t3]}

CacheSymmetry == Permutations(Readers)
=============================================================================
