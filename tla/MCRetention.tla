------------------------------ MODULE MCRetention ------------------------------
(***************************************************************************)
(* Instances of Retention for TLC.  Tickets are interchangeable.           *)
(***************************************************************************)
EXTENDS Retention, TLC

CONSTANTS t1, t2

TwoTickets == {t1, t2}
Symmetric == Permutations(Tickets)
=============================================================================
