------------------------------ MODULE Backlog -------------------------------
(***************************************************************************)
(* Autoplan, the loop and the operator on one backlog: what autoplan       *)
(* releases is what the loop picks, and what the doctor, the printed plan  *)
(* and discovery say of it.                                                *)
(***************************************************************************)
EXTENDS EpicPlanning, Readiness

\* What the files of a ticket say.
Now == [t \in Tickets |->
         [status |-> status[t], loop |-> loop[t],
          spec |-> pointers[t] /\ spec[t] # None,
          plan |-> pointers[t] /\ plan[t] # None]]

\* The operator sets the release flag, of a planned ticket or of a sketched one.
HumanReleases(t) ==
  /\ Edits /\ status[t] \in {"sketched", "planned"} /\ ~loop[t]
  /\ loop' = [loop EXCEPT ![t] = TRUE]
  /\ UNCHANGED <<dependsOn, batches, planning, status, pointers, stamped, decided,
                 spec, plan, pc, locals, batch>>

\* A loop whose preflight does not stop it lands a ticket it may pick.
LoopDelivers(t) ==
  /\ ~readinessStop(Now) /\ t \in pickable(Now, dependsOn)
  /\ status' = [status EXCEPT ![t] = "done"]
  /\ UNCHANGED <<setting, loop, pointers, stamped, decided, spec, plan, pc, locals,
                 batch>>

Next == \/ Autoplan
        \/ \E t \in Tickets : \/ HumanPlans(t) \/ HumanTakes(t)
                              \/ HumanReleases(t) \/ LoopDelivers(t)

Spec == Init /\ [][Next]_vars

\* Calls are answered: exec settles them (module ExecSettle), and a batch has
\* nothing else to wait for.  One step at a time is enough: each is a step on.
Works == planning /\ (NextWave \/ Ends \/ \E t \in Tickets : Loops(t))
Fairness == WF_vars(Works)
FairSpec == Spec /\ Fairness

-----------------------------------------------------------------------------
(* Properties *)

\* The variables range over what the files and the process may hold.
TypeOK ==
  /\ dependsOn \in [Tickets -> SUBSET Tickets]
  /\ status \in [Tickets -> Statuses]
  /\ loop \in [Tickets -> BOOLEAN] /\ pointers \in [Tickets -> BOOLEAN]
  /\ stamped \in [Tickets -> BOOLEAN] /\ decided \in [Tickets -> BOOLEAN]
  /\ spec \in [Tickets -> Contents] /\ plan \in [Tickets -> Contents]
  /\ approvedDraft \in [Tickets -> Contents]
  /\ batches \in 0 .. MaxBatches /\ planning \in BOOLEAN
  /\ planning => batches # 0
  /\ pc \in [Tickets -> Positions]
  /\ revision \in [Tickets -> Nat] /\ round \in [Tickets -> Nat]
  /\ decisions \in [Tickets -> {0, 1}]
  /\ outcome \in [Tickets -> {"none", "approved", "escalated"}]
  /\ approved \subseteq Tickets /\ edits \in 0 .. MaxEdits

\* What is planned holds a spec and a plan of one draft, and the reviewer
\* approved that draft: whatever failed or died between the writes, in this
\* batch or in an earlier one, and whatever was redrafted in between.
ReleasedIsReviewed ==
  \A t \in Tickets : status[t] \in {"planned", "done"} =>
    /\ pointers[t] /\ spec[t] = plan[t]
    /\ \/ spec[t] = Human
       \/ spec[t] = approvedDraft[t] /\ spec[t] # None /\ ~stamped[t]

\* A ticket is never drafted while the spec or the plan of a dependency is
\* missing, in the batch or outside it.
DraftedOnPlans ==
  \A t \in Tickets : pc[t] \in Calling =>
    \A d \in dependsOn[t] : spec[d] # None /\ plan[d] # None

\* Drafts are bounded by the budget and the one decision, and a draft that
\* was asked for after a decision finds the decision in the ticket.
WithinBudget ==
  \A t \in Tickets :
    /\ pc[t] \in Calling =>
         round[t] = 1 + revision[t] + decisions[t]
    /\ revision[t] <= (IF t \in Brainstormed THEN MaxPlanningRounds ELSE 2)
    /\ revision[t] <= MaxPlanningRounds
    /\ decisions[t] = 1 => decided[t]

\* The doctor and discovery call a ticket ready exactly when the loop would
\* take it, unless a dependency was dropped (both call it ready, the loop waits)
\* or superseded (discovery alone does).  What stops the loop stops the doctor,
\* and the plan that is printed says so; a ticket cut short stops the doctor and
\* autoplan alone.
ReadinessAgrees ==
  LET Taken == pickable(Now, dependsOn)
      Promised == Doctor(Now, dependsOn, {"loop_ready"})
      Found == {t \in Tickets :
                  discoverReadiness(Now, dependsOn, t) = "executable"}
      Without(t, gone) == \A d \in dependsOn[t] : status[d] \notin gone
  IN /\ Taken \subseteq Promised /\ Promised \subseteq Found
     /\ \A t \in Promised : Without(t, {"dropped"}) => t \in Taken
     /\ \A t \in Found : Without(t, {"superseded"}) => t \in Promised
     /\ readinessStop(Now) = ("needs-planning" \in doctorStops(Now, dependsOn))
     /\ (doctorStops(Now, dependsOn) \ {"structural"} # {}) =
          (planMode(Now, dependsOn) = "blocked")
     /\ ("structural" \notin doctorStops(Now, dependsOn)) = Intact

\* A batch ends, with a cycle among its tickets, with writes that fail, with a
\* reviewer that is never content; and none of its tickets is left without an
\* outcome.
BatchEnds ==
  /\ planning ~> ~planning
  /\ [](Finished => \A t \in Tickets : pc[t] \in {"out", "recorded"})

\* The comment on autoplanEpic: a ticket whose dependency is unresolved,
\* "escalated in-batch, or absent on disk", is never drafted.
DraftedOnApproved ==
  \A t \in Tickets : pc[t] \in Calling =>
    \A d \in dependsOn[t] : outcome[d] # "escalated"

-----------------------------------------------------------------------------
(* The inductive invariant *)

\* Without a batch no ticket is anywhere in one.
NoBatchNoPlace == ~planning => \A t \in Tickets : pc[t] = "out"

\* A ticket the batch is not done with is not released, and a sketch points at
\* no files, so that nobody releases it as it is.
WaitingIsUnreleased ==
  \A t \in Tickets :
    /\ pc[t] \notin {"out", "recorded"} => status[t] \notin {"planned", "done"}
    /\ status[t] = "sketched" => ~pointers[t]

\* What has been written at each of the writes is the draft that was approved.
WritesApproved ==
  \A t \in Tickets :
    /\ pc[t] \in {"writingSpec", "writingPlan", "releasing"} =>
         approvedDraft[t] = Draft(t)
    /\ pc[t] \in {"writingPlan", "releasing"} => spec[t] = Draft(t)
    /\ pc[t] = "releasing" => plan[t] = Draft(t)

\* Approval in this batch comes after the files, which are not taken away.
ApprovedHaveFiles == \A d \in approved : satisfiedExternally(d)

\* The counters of a ticket start from zero, and the one decision is spent once.
CountersStartAtZero ==
  \A t \in Tickets :
    /\ pc[t] \notin InFlight => revision[t] = 0 /\ decisions[t] = 0
    /\ pc[t] = "deciding" => decisions[t] = 0

\* Together they carry the properties over every step.
IndInv ==
  /\ NoBatchNoPlace /\ WaitingIsUnreleased /\ WritesApproved /\ ApprovedHaveFiles
  /\ CountersStartAtZero
  /\ ReleasedIsReviewed /\ DraftedOnPlans /\ WithinBudget
=============================================================================
