----------------------------- MODULE MCBacklog ------------------------------
(***************************************************************************)
(* Instances of Backlog for TLC.                                           *)
(***************************************************************************)
EXTENDS Backlog, TLC

CONSTANTS t1, t2

\* A ticket and its dependent; two tickets that wait for each other; two that
\* run at once, where the operator's edit takes the place of a batch.
Pairs == {t1, t2}
Chain == (t1 :> {}) @@ (t2 :> {t1})
Cycle == (t1 :> {t2}) @@ (t2 :> {t1})
AtOnce == (t1 :> {}) @@ (t2 :> {})
PairGraphs == {Chain, Cycle, AtOnce}
PairTurns == (Chain :> 3) @@ (Cycle :> 3) @@ (AtOnce :> 2)
=============================================================================
