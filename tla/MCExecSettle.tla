----------------------------- MODULE MCExecSettle -----------------------------
(***************************************************************************)
(* Instances of ExecSettle for TLC: every combination of options.          *)
(***************************************************************************)
EXTENDS ExecSettle

AllCalls == Options
=============================================================================
