-------------------------- MODULE MCControlledRunners --------------------------
(***************************************************************************)
(* Instances of ControlledRunners for TLC: every combination of options.   *)
(***************************************************************************)
EXTENDS ControlledRunners

AllCalls == Options
=============================================================================
