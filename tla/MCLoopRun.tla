------------------------------ MODULE MCLoopRun ------------------------------
(***************************************************************************)
(* Instances of LoopRun for TLC.                                           *)
(***************************************************************************)
EXTENDS LoopRun

OneTicket == {1}
TwoTickets == {1, 2}
NoDependencies == [t \in Ticket |-> {}]
SecondNeedsFirst == [t \in Ticket |-> IF t = 2 THEN {1} ELSE {}]
NoRefactor == {}
SecondIsRefactor == {2}
=============================================================================
