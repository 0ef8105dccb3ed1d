----------------------------- MODULE MCExecutePlan -----------------------------
(***************************************************************************)
(* Instances of ExecutePlan for TLC.                                       *)
(***************************************************************************)
EXTENDS ExecutePlan, TLC

CONSTANTS s1, s2

TwoSignatures == {s1, s2}
Symmetric == Permutations(Signatures)
=============================================================================
