------------------------- MODULE MCSourceRevisions --------------------------
(* Model checking of SourceRevisions: deliveries are interchangeable, and so *)
(* are the revisions no request has made yet.                              *)
EXTENDS SourceRevisions, TLC

RefreshSymmetry ==
    Permutations(Deliveries) \cup Permutations(Revs \ {Initial})

RetentionSymmetry == Permutations(Revs \ {Initial}) \cup Permutations(Foreign)

=============================================================================
