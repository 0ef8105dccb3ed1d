------------------------------ MODULE LoopState ------------------------------
(***************************************************************************)
(* The transition table of the loop kernel (src/src/loopState.ts): the     *)
(* states a run can be in, the moves the kernel accepts, and the failure   *)
(* state each active state passes through on its way back to SelectTicket. *)
(* A null currentPhase is parsed as Idle, so Idle stands for both.         *)
(***************************************************************************)

Transitions ==
  [ Idle               |-> {"SelectTicket"},
    SelectTicket       |-> {"StartTicket", "Done", "BudgetExceeded",
                            "NoProgress", "RefineBacklog"},
    RefineBacklog      |-> {"SelectTicket", "NeedsHuman"},
    StartTicket        |-> {"ExecutePlan", "Blocked", "BudgetExceeded",
                            "NoProgress"},
    ExecutePlan        |-> {"Review", "VerificationFailed", "BudgetExceeded",
                            "NoProgress", "PlanTicket"},
    PlanTicket         |-> {"SelectTicket", "NeedsHuman"},
    Review             |-> {"Close", "ReviewRejected", "BudgetExceeded",
                            "NoProgress"},
    Close              |-> {"MergeGate", "SelectTicket", "Done", "NeedsHuman",
                            "BudgetExceeded", "NoProgress"},
    MergeGate          |-> {"SelectTicket", "Done", "BudgetExceeded",
                            "NoProgress"},
    Blocked            |-> {"SelectTicket", "NeedsHuman"},
    VerificationFailed |-> {"ExecutePlan", "SelectTicket", "NeedsHuman"},
    ReviewRejected     |-> {"ExecutePlan", "SelectTicket", "NeedsHuman"},
    Done               |-> {},
    NeedsHuman         |-> {},
    BudgetExceeded     |-> {},
    NoProgress         |-> {} ]

LoopStates == {"Idle", "SelectTicket", "RefineBacklog", "StartTicket",
               "ExecutePlan", "PlanTicket", "Review", "Close", "MergeGate",
               "Done", "Blocked", "NeedsHuman", "VerificationFailed",
               "ReviewRejected", "BudgetExceeded", "NoProgress"}

\* A run in one of these is over: no move leaves them.
TerminalStates == {"Done", "NeedsHuman", "BudgetExceeded", "NoProgress"}

FailureRoute == [ StartTicket |-> "Blocked",
                  ExecutePlan |-> "VerificationFailed",
                  Review      |-> "ReviewRejected" ]

CanTransition(from, to) == to \in Transitions[from]

\* Targets the budget guard (src/src/budget.ts) never blocks.
GuardExemptTargets == {"BudgetExceeded", "NoProgress", "NeedsHuman"}

=============================================================================
