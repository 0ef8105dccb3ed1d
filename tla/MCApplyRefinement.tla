--------------------------- MODULE MCApplyRefinement ---------------------------
(***************************************************************************)
(* Instances of ApplyRefinement for TLC.  Files are interchangeable.       *)
(***************************************************************************)
EXTENDS ApplyRefinement, TLC

CONSTANTS f1, f2, f3

TwoFiles == {f1, f2}
ThreeFiles == {f1, f2, f3}
Symmetric == Permutations(Files)
=============================================================================
