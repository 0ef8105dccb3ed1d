----------------------------- MODULE MCShipping ------------------------------
(***************************************************************************)
(* An instance of Shipping for TLC.                                        *)
(***************************************************************************)
EXTENDS Shipping

CONSTANTS build, lint

\* Two checks that may come at different times; two different findings.
TwoChecks == {build, lint}
TwoFindings == {1, 2}
=============================================================================
