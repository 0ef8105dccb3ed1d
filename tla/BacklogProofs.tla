---------------------------- MODULE BacklogProofs ----------------------------
(***************************************************************************)
(* Proofs about Backlog, for every set of tickets and every dependency     *)
(* graph over it, every budget of rounds and any number of workers,        *)
(* batches and edits.                                                      *)
(***************************************************************************)
EXTENDS Backlog, TLAPS

USE TicketsAssumption, GraphsAssumption, BoundsAssumption
USE DEF At, Goes, InFlight, Calling, Writing
USE DEF setting, files, ticketFile, locals, batch

\* The parts of TypeOK that a write of a terminal outcome touches.
BatchTyped ==
  /\ pc \in [Tickets -> Positions]
  /\ outcome \in [Tickets -> {"none", "approved", "escalated"}]
  /\ approved \subseteq Tickets
  /\ revision \in [Tickets -> Nat] /\ round \in [Tickets -> Nat]
  /\ decisions \in [Tickets -> {0, 1}] /\ decided \in [Tickets -> BOOLEAN]

TicketTyped ==
  /\ status \in [Tickets -> Statuses] /\ loop \in [Tickets -> BOOLEAN]
  /\ pointers \in [Tickets -> BOOLEAN] /\ stamped \in [Tickets -> BOOLEAN]

\* A draft of the batch is a content, and neither nothing nor the operator's.
LEMMA DraftIsTyped ==
  ASSUME TypeOK, planning, NEW t \in Tickets
  PROVE  Draft(t) \in Contents /\ Draft(t) # None /\ Draft(t) # Human
BY DEF TypeOK, Draft, Contents, Drafts, None, Human

\* So are the others.
LEMMA ConstantContents ==
  /\ None \in Contents /\ Human \in Contents /\ Torn \in Contents
  /\ None # Human /\ None # Torn
BY DEF Contents, None, Human, Torn

\* An outcome is recorded.
LEMMA RecordIsTyped ==
  ASSUME TypeOK, NEW t \in Tickets, NEW final \in {"approved", "escalated"},
         Record(t, final)
  PROVE  BatchTyped'
BY DEF TypeOK, Record, BatchTyped, Positions

\* An escalation takes the approval back.
LEMMA EscalatedIsTyped ==
  ASSUME TypeOK, NEW t \in Tickets, Escalated(t)
  PROVE  BatchTyped' /\ approvedDraft' \in [Tickets -> Contents]
<1>1. BatchTyped'
  BY RecordIsTyped DEF Escalated
<1>2. approvedDraft' \in [Tickets -> Contents]
  BY ConstantContents DEF TypeOK, Escalated
<1> QED BY <1>1, <1>2

\* A write of the ticket that fails.
LEMMA TicketFailsIsTyped ==
  ASSUME TypeOK, NEW t \in Tickets, TicketFails(t)
  PROVE  TicketTyped' /\ BatchTyped' /\ approvedDraft' \in [Tickets -> Contents]
<1>1. BatchTyped' /\ approvedDraft' \in [Tickets -> Contents]
  BY EscalatedIsTyped DEF TicketFails
<1>2. TicketTyped'
  BY DEF TypeOK, TicketFails, TicketTyped, Statuses
<1> QED BY <1>1, <1>2

\* The variables keep their types.
LEMMA StepTypeOK ==
  ASSUME TypeOK, Next
  PROVE  TypeOK'
<1> USE DEF TypeOK, Positions, Statuses
<1>1. CASE Starts
  BY <1>1 DEF Starts
<1>2. CASE NextWave
  BY <1>2 DEF NextWave
<1>3. CASE Ends \/ Dies
  <2>1. Forgets
    BY <1>3 DEF Ends, Dies
  <2>2. approvedDraft' \in [Tickets -> Contents]
    BY <2>1, ConstantContents DEF Forgets
  <2>3. BatchTyped' /\ planning' = FALSE
    BY <2>1 DEF Forgets, BatchTyped
  <2>4. UNCHANGED <<dependsOn, batches, edits, ticketFile, spec, plan>>
    BY <2>1 DEF Forgets
  <2> QED BY <2>2, <2>3, <2>4 DEF BatchTyped
<1>4. ASSUME NEW t \in Tickets, planOne(t) PROVE TypeOK'
  BY <1>4 DEF planOne
<1>5. ASSUME NEW t \in Tickets, Unorderable(t) PROVE TypeOK'
  BY <1>5 DEF Unorderable
<1>6. ASSUME NEW t \in Tickets, Throws(t) PROVE TypeOK'
  BY <1>6 DEF Throws
<1>7. ASSUME NEW t \in Tickets, Approves(t) PROVE TypeOK'
  <2>1. approvedDraft' \in [Tickets -> Contents]
    BY <1>7, DraftIsTyped DEF Approves
  <2> QED BY <1>7, <2>1 DEF Approves
<1>8. ASSUME NEW t \in Tickets, Escalates(t) PROVE TypeOK'
  BY <1>8 DEF Escalates
<1>9. ASSUME NEW t \in Tickets, Revises(t) PROVE TypeOK'
  BY <1>9 DEF Revises
<1>10. ASSUME NEW t \in Tickets, Exhausted(t) PROVE TypeOK'
  BY <1>10 DEF Exhausted
<1>11. ASSUME NEW t \in Tickets, Decides(t) PROVE TypeOK'
  <2>1. PICK to \in {"drafting", "stamping"} : pc' = [pc EXCEPT ![t] = to]
    BY <1>11 DEF Decides
  <2>2. round' \in [Tickets -> Nat]
    BY <1>11 DEF Decides
  <2>3. decisions' \in [Tickets -> {0, 1}]
    BY <1>11 DEF Decides
  <2>4. decided' \in [Tickets -> BOOLEAN]
    BY <1>11 DEF Decides
  <2>5. TicketTyped'
    BY <1>11 DEF Decides, TicketTyped
  <2>6. UNCHANGED <<setting, spec, plan, revision, batch>>
    BY <1>11 DEF Decides
  <2> QED BY <2>1, <2>2, <2>3, <2>4, <2>5, <2>6 DEF TicketTyped
<1>12. ASSUME NEW t \in Tickets, WritesSpec(t) PROVE TypeOK'
  <2>1. UNCHANGED <<setting, ticketFile, plan>> /\ planning
    BY <1>12 DEF WritesSpec
  <2>2. spec' \in [Tickets -> Contents]
    BY <1>12, <2>1, DraftIsTyped, ConstantContents DEF WritesSpec
  <2>3. BatchTyped' /\ approvedDraft' \in [Tickets -> Contents]
    <3>1. CASE Escalated(t)
      BY <3>1, EscalatedIsTyped
    <3>2. CASE Goes(t, "writingPlan") /\ UNCHANGED <<decided, locals, batch>>
      BY <3>2 DEF BatchTyped
    <3> QED BY <1>12, <3>1, <3>2 DEF WritesSpec
  <2> QED BY <2>1, <2>2, <2>3 DEF BatchTyped
<1>13. ASSUME NEW t \in Tickets, WritesPlan(t) PROVE TypeOK'
  <2>1. UNCHANGED <<setting, ticketFile, spec>> /\ planning
    BY <1>13 DEF WritesPlan
  <2>2. plan' \in [Tickets -> Contents]
    BY <1>13, <2>1, DraftIsTyped, ConstantContents DEF WritesPlan
  <2>3. BatchTyped' /\ approvedDraft' \in [Tickets -> Contents]
    <3>1. CASE Escalated(t)
      BY <3>1, EscalatedIsTyped
    <3>2. CASE Goes(t, "releasing") /\ UNCHANGED <<decided, locals, batch>>
      BY <3>2 DEF BatchTyped
    <3> QED BY <1>13, <3>1, <3>2 DEF WritesPlan
  <2> QED BY <2>1, <2>2, <2>3 DEF BatchTyped
<1>14. ASSUME NEW t \in Tickets, Releases(t) PROVE TypeOK'
  <2>1. UNCHANGED <<setting, spec, plan>>
    BY <1>14 DEF Releases
  <2>2. TicketTyped' /\ BatchTyped' /\ approvedDraft' \in [Tickets -> Contents]
    <3>1. CASE TicketFails(t)
      BY <3>1, TicketFailsIsTyped
    <3>2. ASSUME applyApproved(t), approvedDraft' = approvedDraft,
                 NEW final \in {"approved", "escalated"}, Record(t, final)
          PROVE  TicketTyped' /\ BatchTyped' /\ approvedDraft' \in [Tickets -> Contents]
      BY <3>2, RecordIsTyped DEF applyApproved, TicketTyped
    <3> QED BY <1>14, <3>1, <3>2 DEF Releases
  <2> QED BY <2>1, <2>2 DEF BatchTyped, TicketTyped
<1>15. ASSUME NEW t \in Tickets, Stamps(t) PROVE TypeOK'
  <2>1. UNCHANGED <<setting, spec, plan>>
    BY <1>15 DEF Stamps
  <2>2. TicketTyped' /\ BatchTyped' /\ approvedDraft' \in [Tickets -> Contents]
    <3>1. CASE TicketFails(t)
      BY <3>1, TicketFailsIsTyped
    <3>2. CASE /\ stamped' = [stamped EXCEPT ![t] = TRUE]
               /\ UNCHANGED <<status, loop, pointers>>
               /\ Escalated(t)
      BY <3>2, EscalatedIsTyped DEF TicketTyped
    <3> QED BY <1>15, <3>1, <3>2 DEF Stamps
  <2> QED BY <2>1, <2>2 DEF BatchTyped, TicketTyped
<1>16. ASSUME NEW t \in Tickets, HumanPlans(t) PROVE TypeOK'
  <2>1. spec' \in [Tickets -> Contents] /\ plan' \in [Tickets -> Contents]
    BY <1>16, ConstantContents DEF HumanPlans
  <2>2. loop' \in [Tickets -> BOOLEAN]
    BY <1>16 DEF HumanPlans
  <2> QED BY <1>16, <2>1, <2>2 DEF HumanPlans, Edits
<1>17. ASSUME NEW t \in Tickets, HumanTakes(t) PROVE TypeOK'
  BY <1>17 DEF HumanTakes, Edits
<1>18. ASSUME NEW t \in Tickets, HumanReleases(t) PROVE TypeOK'
  BY <1>18 DEF HumanReleases, Edits
<1>19. ASSUME NEW t \in Tickets, LoopDelivers(t) PROVE TypeOK'
  BY <1>19 DEF LoopDelivers
<1> QED BY <1>1, <1>2, <1>3, <1>4, <1>5, <1>6, <1>7, <1>8, <1>9, <1>10,
           <1>11, <1>12, <1>13, <1>14, <1>15, <1>16, <1>17, <1>18,
           <1>19
           DEF Next, Autoplan, Loops

\* The variables keep their types, with any number of tickets and batches.
THEOREM TypeCorrect == Spec => []TypeOK
<1>1. Init => TypeOK
  <2> SUFFICES ASSUME Init PROVE TypeOK
    OBVIOUS
  <2>1. /\ spec \in [Tickets -> Contents] /\ plan \in [Tickets -> Contents]
        /\ approvedDraft \in [Tickets -> Contents]
    BY ConstantContents DEF Init
  <2>2. /\ dependsOn \in [Tickets -> SUBSET Tickets] /\ approved \subseteq Tickets
        /\ batches \in 0 .. MaxBatches /\ planning = FALSE /\ edits \in 0 .. MaxEdits
    BY DEF Init
  <2>3. /\ status \in [Tickets -> Statuses] /\ pc \in [Tickets -> Positions]
        /\ outcome \in [Tickets -> {"none", "approved", "escalated"}]
    BY DEF Init, Statuses, Positions
  <2>4. /\ loop \in [Tickets -> BOOLEAN] /\ pointers = loop /\ stamped = loop
        /\ decided = loop
    BY DEF Init
  <2>5. /\ revision \in [Tickets -> Nat] /\ revision \in [Tickets -> {0, 1}]
        /\ round = revision /\ decisions = revision
    BY DEF Init
  <2> QED BY <2>1, <2>2, <2>3, <2>4, <2>5 DEF TypeOK
<1>2. TypeOK /\ [Next]_vars => TypeOK'
  <2>1. ASSUME TypeOK, UNCHANGED vars PROVE TypeOK'
    BY <2>1 DEF TypeOK, vars
  <2> QED BY <2>1, StepTypeOK
<1> QED BY <1>1, <1>2, PTL DEF Spec
-----------------------------------------------------------------------------

\* The loop takes a ticket that points at its files.
LEMMA PickableIsPlanned ==
  ASSUME TypeOK, NEW t \in pickable(Now, dependsOn)
  PROVE  pointers[t] /\ status[t] \in {"sketched", "planned"}
BY DEF TypeOK, pickable, loopReady, released, parsed, startable, planned, Now

\* Without a batch nobody moves a ticket in one.
LEMMA StepNoBatch ==
  ASSUME TypeOK, IndInv, Next
  PROVE  NoBatchNoPlace'
<1> USE DEF TypeOK, IndInv, NoBatchNoPlace
<1>1. CASE Starts
  BY <1>1 DEF Starts
<1>2. CASE NextWave
  BY <1>2 DEF NextWave
<1>3. CASE Ends \/ Dies
  BY <1>3 DEF Ends, Dies, Forgets
<1>4. ASSUME NEW t \in Tickets, planOne(t) PROVE NoBatchNoPlace'
  BY <1>4 DEF planOne
<1>5. ASSUME NEW t \in Tickets, Unorderable(t) PROVE NoBatchNoPlace'
  BY <1>5 DEF Unorderable
<1>6. ASSUME NEW t \in Tickets, Throws(t) PROVE NoBatchNoPlace'
  BY <1>6 DEF Throws
<1>7. ASSUME NEW t \in Tickets, Approves(t) PROVE NoBatchNoPlace'
  BY <1>7 DEF Approves
<1>8. ASSUME NEW t \in Tickets, Escalates(t) PROVE NoBatchNoPlace'
  BY <1>8 DEF Escalates
<1>9. ASSUME NEW t \in Tickets, Revises(t) PROVE NoBatchNoPlace'
  BY <1>9 DEF Revises
<1>10. ASSUME NEW t \in Tickets, Exhausted(t) PROVE NoBatchNoPlace'
  BY <1>10 DEF Exhausted
<1>11. ASSUME NEW t \in Tickets, Decides(t) PROVE NoBatchNoPlace'
  BY <1>11 DEF Decides
<1>12. ASSUME NEW t \in Tickets, WritesSpec(t) PROVE NoBatchNoPlace'
  BY <1>12 DEF WritesSpec, Escalated, Record
<1>13. ASSUME NEW t \in Tickets, WritesPlan(t) PROVE NoBatchNoPlace'
  BY <1>13 DEF WritesPlan, Escalated, Record
<1>14. ASSUME NEW t \in Tickets, Releases(t) PROVE NoBatchNoPlace'
  BY <1>14 DEF Releases, applyApproved, Record, TicketFails, Escalated
<1>15. ASSUME NEW t \in Tickets, Stamps(t) PROVE NoBatchNoPlace'
  BY <1>15 DEF Stamps, TicketFails, Escalated, Record
<1>16. ASSUME NEW t \in Tickets, HumanPlans(t) PROVE NoBatchNoPlace'
  BY <1>16 DEF HumanPlans, Edits
<1>17. ASSUME NEW t \in Tickets, HumanTakes(t) PROVE NoBatchNoPlace'
  BY <1>17 DEF HumanTakes, Edits
<1>18. ASSUME NEW t \in Tickets, HumanReleases(t) PROVE NoBatchNoPlace'
  BY <1>18 DEF HumanReleases, Edits
<1>19. ASSUME NEW t \in Tickets, LoopDelivers(t) PROVE NoBatchNoPlace'
  BY <1>19 DEF LoopDelivers
<1> QED BY <1>1, <1>2, <1>3, <1>4, <1>5, <1>6, <1>7, <1>8, <1>9, <1>10,
           <1>11, <1>12, <1>13, <1>14, <1>15, <1>16, <1>17, <1>18,
           <1>19
           DEF Next, Autoplan, Loops

\* The operator and the loop release nothing a batch is working at.
LEMMA StepUnreleased ==
  ASSUME TypeOK, IndInv, Next
  PROVE  WaitingIsUnreleased'
<1> USE DEF TypeOK, IndInv, NoBatchNoPlace, WaitingIsUnreleased, Sketched, Ready
<1>1. CASE Starts
  BY <1>1 DEF Starts
<1>2. CASE NextWave
  BY <1>2 DEF NextWave
<1>3. CASE Ends \/ Dies
  BY <1>3 DEF Ends, Dies, Forgets
<1>4. ASSUME NEW t \in Tickets, planOne(t) PROVE WaitingIsUnreleased'
  BY <1>4 DEF planOne
<1>5. ASSUME NEW t \in Tickets, Unorderable(t) PROVE WaitingIsUnreleased'
  BY <1>5 DEF Unorderable
<1>6. ASSUME NEW t \in Tickets, Throws(t) PROVE WaitingIsUnreleased'
  BY <1>6 DEF Throws
<1>7. ASSUME NEW t \in Tickets, Approves(t) PROVE WaitingIsUnreleased'
  BY <1>7 DEF Approves
<1>8. ASSUME NEW t \in Tickets, Escalates(t) PROVE WaitingIsUnreleased'
  BY <1>8 DEF Escalates
<1>9. ASSUME NEW t \in Tickets, Revises(t) PROVE WaitingIsUnreleased'
  BY <1>9 DEF Revises
<1>10. ASSUME NEW t \in Tickets, Exhausted(t) PROVE WaitingIsUnreleased'
  BY <1>10 DEF Exhausted
<1>11. ASSUME NEW t \in Tickets, Decides(t) PROVE WaitingIsUnreleased'
  BY <1>11 DEF Decides
<1>12. ASSUME NEW t \in Tickets, WritesSpec(t) PROVE WaitingIsUnreleased'
  BY <1>12 DEF WritesSpec, Escalated, Record
<1>13. ASSUME NEW t \in Tickets, WritesPlan(t) PROVE WaitingIsUnreleased'
  BY <1>13 DEF WritesPlan, Escalated, Record
<1>14. ASSUME NEW t \in Tickets, Releases(t) PROVE WaitingIsUnreleased'
  BY <1>14 DEF Releases, applyApproved, Record, TicketFails, Escalated
<1>15. ASSUME NEW t \in Tickets, Stamps(t) PROVE WaitingIsUnreleased'
  BY <1>15 DEF Stamps, TicketFails, Escalated, Record
<1>16. ASSUME NEW t \in Tickets, HumanPlans(t) PROVE WaitingIsUnreleased'
  BY <1>16 DEF HumanPlans, Edits
<1>17. ASSUME NEW t \in Tickets, HumanTakes(t) PROVE WaitingIsUnreleased'
  BY <1>17 DEF HumanTakes, Edits
<1>18. ASSUME NEW t \in Tickets, HumanReleases(t) PROVE WaitingIsUnreleased'
  BY <1>18 DEF HumanReleases, Edits
<1>19. ASSUME NEW t \in Tickets, LoopDelivers(t) PROVE WaitingIsUnreleased'
  <2>1. pointers[t] /\ status[t] \in {"sketched", "planned"}
    BY <1>19, PickableIsPlanned DEF LoopDelivers
  <2> QED BY <1>19, <2>1 DEF LoopDelivers
<1> QED BY <1>1, <1>2, <1>3, <1>4, <1>5, <1>6, <1>7, <1>8, <1>9, <1>10,
           <1>11, <1>12, <1>13, <1>14, <1>15, <1>16, <1>17, <1>18,
           <1>19
           DEF Next, Autoplan, Loops

\* Between an approval and the release nobody else writes the files.
LEMMA StepWrites ==
  ASSUME TypeOK, IndInv, Next
  PROVE  WritesApproved'
<1> USE DEF TypeOK, IndInv, NoBatchNoPlace, WritesApproved, Draft
<1>1. CASE Starts
  BY <1>1 DEF Starts
<1>2. CASE NextWave
  BY <1>2 DEF NextWave
<1>3. CASE Ends \/ Dies
  BY <1>3 DEF Ends, Dies, Forgets
<1>4. ASSUME NEW t \in Tickets, planOne(t) PROVE WritesApproved'
  BY <1>4 DEF planOne
<1>5. ASSUME NEW t \in Tickets, Unorderable(t) PROVE WritesApproved'
  BY <1>5 DEF Unorderable
<1>6. ASSUME NEW t \in Tickets, Throws(t) PROVE WritesApproved'
  BY <1>6 DEF Throws
<1>7. ASSUME NEW t \in Tickets, Approves(t) PROVE WritesApproved'
  BY <1>7 DEF Approves
<1>8. ASSUME NEW t \in Tickets, Escalates(t) PROVE WritesApproved'
  BY <1>8 DEF Escalates
<1>9. ASSUME NEW t \in Tickets, Revises(t) PROVE WritesApproved'
  BY <1>9 DEF Revises
<1>10. ASSUME NEW t \in Tickets, Exhausted(t) PROVE WritesApproved'
  BY <1>10 DEF Exhausted
<1>11. ASSUME NEW t \in Tickets, Decides(t) PROVE WritesApproved'
  BY <1>11 DEF Decides
<1>12. ASSUME NEW t \in Tickets, WritesSpec(t) PROVE WritesApproved'
  BY <1>12 DEF WritesSpec, Escalated, Record
<1>13. ASSUME NEW t \in Tickets, WritesPlan(t) PROVE WritesApproved'
  BY <1>13 DEF WritesPlan, Escalated, Record
<1>14. ASSUME NEW t \in Tickets, Releases(t) PROVE WritesApproved'
  BY <1>14 DEF Releases, applyApproved, Record, TicketFails, Escalated
<1>15. ASSUME NEW t \in Tickets, Stamps(t) PROVE WritesApproved'
  BY <1>15 DEF Stamps, TicketFails, Escalated, Record
<1>16. ASSUME NEW t \in Tickets, HumanPlans(t) PROVE WritesApproved'
  BY <1>16 DEF HumanPlans, Edits
<1>17. ASSUME NEW t \in Tickets, HumanTakes(t) PROVE WritesApproved'
  BY <1>17 DEF HumanTakes, Edits
<1>18. ASSUME NEW t \in Tickets, HumanReleases(t) PROVE WritesApproved'
  BY <1>18 DEF HumanReleases, Edits
<1>19. ASSUME NEW t \in Tickets, LoopDelivers(t) PROVE WritesApproved'
  BY <1>19 DEF LoopDelivers
<1> QED BY <1>1, <1>2, <1>3, <1>4, <1>5, <1>6, <1>7, <1>8, <1>9, <1>10,
           <1>11, <1>12, <1>13, <1>14, <1>15, <1>16, <1>17, <1>18,
           <1>19
           DEF Next, Autoplan, Loops

\* A file is replaced, never removed.
LEMMA StepFiles ==
  ASSUME TypeOK, IndInv, Next
  PROVE  ApprovedHaveFiles'
<1> USE DEF TypeOK, IndInv, WritesApproved, ApprovedHaveFiles, satisfiedExternally
<1>1. CASE Starts
  BY <1>1, ConstantContents, DraftIsTyped DEF Starts
<1>2. CASE NextWave
  BY <1>2, ConstantContents, DraftIsTyped DEF NextWave
<1>3. CASE Ends \/ Dies
  BY <1>3, ConstantContents, DraftIsTyped DEF Ends, Dies, Forgets
<1>4. ASSUME NEW t \in Tickets, planOne(t) PROVE ApprovedHaveFiles'
  BY <1>4, ConstantContents, DraftIsTyped DEF planOne
<1>5. ASSUME NEW t \in Tickets, Unorderable(t) PROVE ApprovedHaveFiles'
  BY <1>5, ConstantContents, DraftIsTyped DEF Unorderable
<1>6. ASSUME NEW t \in Tickets, Throws(t) PROVE ApprovedHaveFiles'
  BY <1>6, ConstantContents, DraftIsTyped DEF Throws
<1>7. ASSUME NEW t \in Tickets, Approves(t) PROVE ApprovedHaveFiles'
  BY <1>7, ConstantContents, DraftIsTyped DEF Approves
<1>8. ASSUME NEW t \in Tickets, Escalates(t) PROVE ApprovedHaveFiles'
  BY <1>8, ConstantContents, DraftIsTyped DEF Escalates
<1>9. ASSUME NEW t \in Tickets, Revises(t) PROVE ApprovedHaveFiles'
  BY <1>9, ConstantContents, DraftIsTyped DEF Revises
<1>10. ASSUME NEW t \in Tickets, Exhausted(t) PROVE ApprovedHaveFiles'
  BY <1>10, ConstantContents, DraftIsTyped DEF Exhausted
<1>11. ASSUME NEW t \in Tickets, Decides(t) PROVE ApprovedHaveFiles'
  BY <1>11, ConstantContents, DraftIsTyped DEF Decides
<1>12. ASSUME NEW t \in Tickets, WritesSpec(t) PROVE ApprovedHaveFiles'
  BY <1>12, ConstantContents, DraftIsTyped DEF WritesSpec, Escalated, Record
<1>13. ASSUME NEW t \in Tickets, WritesPlan(t) PROVE ApprovedHaveFiles'
  BY <1>13, ConstantContents, DraftIsTyped DEF WritesPlan, Escalated, Record
<1>14. ASSUME NEW t \in Tickets, Releases(t) PROVE ApprovedHaveFiles'
  BY <1>14, ConstantContents, DraftIsTyped
  DEF Releases, applyApproved, Record, TicketFails, Escalated
<1>15. ASSUME NEW t \in Tickets, Stamps(t) PROVE ApprovedHaveFiles'
  BY <1>15, ConstantContents, DraftIsTyped DEF Stamps, TicketFails, Escalated, Record
<1>16. ASSUME NEW t \in Tickets, HumanPlans(t) PROVE ApprovedHaveFiles'
  BY <1>16, ConstantContents, DraftIsTyped DEF HumanPlans, Edits
<1>17. ASSUME NEW t \in Tickets, HumanTakes(t) PROVE ApprovedHaveFiles'
  BY <1>17, ConstantContents, DraftIsTyped DEF HumanTakes, Edits
<1>18. ASSUME NEW t \in Tickets, HumanReleases(t) PROVE ApprovedHaveFiles'
  BY <1>18, ConstantContents, DraftIsTyped DEF HumanReleases, Edits
<1>19. ASSUME NEW t \in Tickets, LoopDelivers(t) PROVE ApprovedHaveFiles'
  BY <1>19, ConstantContents, DraftIsTyped DEF LoopDelivers
<1> QED BY <1>1, <1>2, <1>3, <1>4, <1>5, <1>6, <1>7, <1>8, <1>9, <1>10,
           <1>11, <1>12, <1>13, <1>14, <1>15, <1>16, <1>17, <1>18,
           <1>19
           DEF Next, Autoplan, Loops

\* The counters of a ticket go back to zero with its outcome.
LEMMA StepCounters ==
  ASSUME TypeOK, IndInv, Next
  PROVE  CountersStartAtZero'
<1> USE DEF TypeOK, IndInv, NoBatchNoPlace, CountersStartAtZero, Ready
<1>1. CASE Starts
  BY <1>1 DEF Starts
<1>2. CASE NextWave
  BY <1>2 DEF NextWave
<1>3. CASE Ends \/ Dies
  BY <1>3 DEF Ends, Dies, Forgets
<1>4. ASSUME NEW t \in Tickets, planOne(t) PROVE CountersStartAtZero'
  BY <1>4 DEF planOne
<1>5. ASSUME NEW t \in Tickets, Unorderable(t) PROVE CountersStartAtZero'
  BY <1>5 DEF Unorderable
<1>6. ASSUME NEW t \in Tickets, Throws(t) PROVE CountersStartAtZero'
  BY <1>6 DEF Throws
<1>7. ASSUME NEW t \in Tickets, Approves(t) PROVE CountersStartAtZero'
  BY <1>7 DEF Approves
<1>8. ASSUME NEW t \in Tickets, Escalates(t) PROVE CountersStartAtZero'
  BY <1>8 DEF Escalates
<1>9. ASSUME NEW t \in Tickets, Revises(t) PROVE CountersStartAtZero'
  BY <1>9 DEF Revises
<1>10. ASSUME NEW t \in Tickets, Exhausted(t) PROVE CountersStartAtZero'
  BY <1>10 DEF Exhausted
<1>11. ASSUME NEW t \in Tickets, Decides(t) PROVE CountersStartAtZero'
  BY <1>11 DEF Decides
<1>12. ASSUME NEW t \in Tickets, WritesSpec(t) PROVE CountersStartAtZero'
  BY <1>12 DEF WritesSpec, Escalated, Record
<1>13. ASSUME NEW t \in Tickets, WritesPlan(t) PROVE CountersStartAtZero'
  BY <1>13 DEF WritesPlan, Escalated, Record
<1>14. ASSUME NEW t \in Tickets, Releases(t) PROVE CountersStartAtZero'
  BY <1>14 DEF Releases, applyApproved, Record, TicketFails, Escalated
<1>15. ASSUME NEW t \in Tickets, Stamps(t) PROVE CountersStartAtZero'
  BY <1>15 DEF Stamps, TicketFails, Escalated, Record
<1>16. ASSUME NEW t \in Tickets, HumanPlans(t) PROVE CountersStartAtZero'
  BY <1>16 DEF HumanPlans, Edits
<1>17. ASSUME NEW t \in Tickets, HumanTakes(t) PROVE CountersStartAtZero'
  BY <1>17 DEF HumanTakes, Edits
<1>18. ASSUME NEW t \in Tickets, HumanReleases(t) PROVE CountersStartAtZero'
  BY <1>18 DEF HumanReleases, Edits
<1>19. ASSUME NEW t \in Tickets, LoopDelivers(t) PROVE CountersStartAtZero'
  BY <1>19 DEF LoopDelivers
<1> QED BY <1>1, <1>2, <1>3, <1>4, <1>5, <1>6, <1>7, <1>8, <1>9, <1>10,
           <1>11, <1>12, <1>13, <1>14, <1>15, <1>16, <1>17, <1>18,
           <1>19
           DEF Next, Autoplan, Loops

\* Only the last write of an approved draft releases a ticket.
LEMMA StepReleased ==
  ASSUME TypeOK, IndInv, Next
  PROVE  ReleasedIsReviewed'
<1> USE DEF TypeOK, IndInv, NoBatchNoPlace, WaitingIsUnreleased, WritesApproved,
            ReleasedIsReviewed
<1>1. CASE Starts
  BY <1>1, ConstantContents, DraftIsTyped DEF Starts
<1>2. CASE NextWave
  BY <1>2, ConstantContents, DraftIsTyped DEF NextWave
<1>3. CASE Ends \/ Dies
  BY <1>3, ConstantContents, DraftIsTyped DEF Ends, Dies, Forgets
<1>4. ASSUME NEW t \in Tickets, planOne(t) PROVE ReleasedIsReviewed'
  BY <1>4, ConstantContents, DraftIsTyped DEF planOne
<1>5. ASSUME NEW t \in Tickets, Unorderable(t) PROVE ReleasedIsReviewed'
  BY <1>5, ConstantContents, DraftIsTyped DEF Unorderable
<1>6. ASSUME NEW t \in Tickets, Throws(t) PROVE ReleasedIsReviewed'
  BY <1>6, ConstantContents, DraftIsTyped DEF Throws
<1>7. ASSUME NEW t \in Tickets, Approves(t) PROVE ReleasedIsReviewed'
  BY <1>7, ConstantContents, DraftIsTyped DEF Approves
<1>8. ASSUME NEW t \in Tickets, Escalates(t) PROVE ReleasedIsReviewed'
  BY <1>8, ConstantContents, DraftIsTyped DEF Escalates
<1>9. ASSUME NEW t \in Tickets, Revises(t) PROVE ReleasedIsReviewed'
  BY <1>9, ConstantContents, DraftIsTyped DEF Revises
<1>10. ASSUME NEW t \in Tickets, Exhausted(t) PROVE ReleasedIsReviewed'
  BY <1>10, ConstantContents, DraftIsTyped DEF Exhausted
<1>11. ASSUME NEW t \in Tickets, Decides(t) PROVE ReleasedIsReviewed'
  BY <1>11, ConstantContents, DraftIsTyped DEF Decides
<1>12. ASSUME NEW t \in Tickets, WritesSpec(t) PROVE ReleasedIsReviewed'
  BY <1>12, ConstantContents, DraftIsTyped DEF WritesSpec, Escalated, Record
<1>13. ASSUME NEW t \in Tickets, WritesPlan(t) PROVE ReleasedIsReviewed'
  BY <1>13, ConstantContents, DraftIsTyped DEF WritesPlan, Escalated, Record
<1>14. ASSUME NEW t \in Tickets, Releases(t) PROVE ReleasedIsReviewed'
  BY <1>14, ConstantContents, DraftIsTyped
  DEF Releases, applyApproved, Record, TicketFails, Escalated
<1>15. ASSUME NEW t \in Tickets, Stamps(t) PROVE ReleasedIsReviewed'
  BY <1>15, ConstantContents, DraftIsTyped DEF Stamps, TicketFails, Escalated, Record
<1>16. ASSUME NEW t \in Tickets, HumanPlans(t) PROVE ReleasedIsReviewed'
  BY <1>16, ConstantContents, DraftIsTyped DEF HumanPlans, Edits
<1>17. ASSUME NEW t \in Tickets, HumanTakes(t) PROVE ReleasedIsReviewed'
  BY <1>17, ConstantContents, DraftIsTyped DEF HumanTakes, Edits
<1>18. ASSUME NEW t \in Tickets, HumanReleases(t) PROVE ReleasedIsReviewed'
  BY <1>18, ConstantContents, DraftIsTyped DEF HumanReleases, Edits
<1>19. ASSUME NEW t \in Tickets, LoopDelivers(t) PROVE ReleasedIsReviewed'
  <2>1. pointers[t] /\ status[t] \in {"sketched", "planned"}
    BY <1>19, PickableIsPlanned DEF LoopDelivers
  <2> QED BY <1>19, <2>1 DEF LoopDelivers
<1> QED BY <1>1, <1>2, <1>3, <1>4, <1>5, <1>6, <1>7, <1>8, <1>9, <1>10,
           <1>11, <1>12, <1>13, <1>14, <1>15, <1>16, <1>17, <1>18,
           <1>19
           DEF Next, Autoplan, Loops

\* The dependencies of what is drafted keep their files.
LEMMA StepDrafted ==
  ASSUME TypeOK, IndInv, Next
  PROVE  DraftedOnPlans'
<1> USE DEF TypeOK, IndInv, ApprovedHaveFiles, DraftedOnPlans, satisfiedExternally,
            Unresolved
<1>1. CASE Starts
  BY <1>1, ConstantContents, DraftIsTyped DEF Starts
<1>2. CASE NextWave
  BY <1>2, ConstantContents, DraftIsTyped DEF NextWave
<1>3. CASE Ends \/ Dies
  BY <1>3, ConstantContents, DraftIsTyped DEF Ends, Dies, Forgets
<1>4. ASSUME NEW t \in Tickets, planOne(t) PROVE DraftedOnPlans'
  BY <1>4, ConstantContents, DraftIsTyped DEF planOne
<1>5. ASSUME NEW t \in Tickets, Unorderable(t) PROVE DraftedOnPlans'
  BY <1>5, ConstantContents, DraftIsTyped DEF Unorderable
<1>6. ASSUME NEW t \in Tickets, Throws(t) PROVE DraftedOnPlans'
  BY <1>6, ConstantContents, DraftIsTyped DEF Throws
<1>7. ASSUME NEW t \in Tickets, Approves(t) PROVE DraftedOnPlans'
  BY <1>7, ConstantContents, DraftIsTyped DEF Approves
<1>8. ASSUME NEW t \in Tickets, Escalates(t) PROVE DraftedOnPlans'
  BY <1>8, ConstantContents, DraftIsTyped DEF Escalates
<1>9. ASSUME NEW t \in Tickets, Revises(t) PROVE DraftedOnPlans'
  BY <1>9, ConstantContents, DraftIsTyped DEF Revises
<1>10. ASSUME NEW t \in Tickets, Exhausted(t) PROVE DraftedOnPlans'
  BY <1>10, ConstantContents, DraftIsTyped DEF Exhausted
<1>11. ASSUME NEW t \in Tickets, Decides(t) PROVE DraftedOnPlans'
  BY <1>11, ConstantContents, DraftIsTyped DEF Decides
<1>12. ASSUME NEW t \in Tickets, WritesSpec(t) PROVE DraftedOnPlans'
  BY <1>12, ConstantContents, DraftIsTyped DEF WritesSpec, Escalated, Record
<1>13. ASSUME NEW t \in Tickets, WritesPlan(t) PROVE DraftedOnPlans'
  BY <1>13, ConstantContents, DraftIsTyped DEF WritesPlan, Escalated, Record
<1>14. ASSUME NEW t \in Tickets, Releases(t) PROVE DraftedOnPlans'
  BY <1>14, ConstantContents, DraftIsTyped
  DEF Releases, applyApproved, Record, TicketFails, Escalated
<1>15. ASSUME NEW t \in Tickets, Stamps(t) PROVE DraftedOnPlans'
  BY <1>15, ConstantContents, DraftIsTyped DEF Stamps, TicketFails, Escalated, Record
<1>16. ASSUME NEW t \in Tickets, HumanPlans(t) PROVE DraftedOnPlans'
  BY <1>16, ConstantContents, DraftIsTyped DEF HumanPlans, Edits
<1>17. ASSUME NEW t \in Tickets, HumanTakes(t) PROVE DraftedOnPlans'
  BY <1>17, ConstantContents, DraftIsTyped DEF HumanTakes, Edits
<1>18. ASSUME NEW t \in Tickets, HumanReleases(t) PROVE DraftedOnPlans'
  BY <1>18, ConstantContents, DraftIsTyped DEF HumanReleases, Edits
<1>19. ASSUME NEW t \in Tickets, LoopDelivers(t) PROVE DraftedOnPlans'
  BY <1>19, ConstantContents, DraftIsTyped DEF LoopDelivers
<1> QED BY <1>1, <1>2, <1>3, <1>4, <1>5, <1>6, <1>7, <1>8, <1>9, <1>10,
           <1>11, <1>12, <1>13, <1>14, <1>15, <1>16, <1>17, <1>18,
           <1>19
           DEF Next, Autoplan, Loops

\* A revision needs budget, and a decision none to have been made.
LEMMA StepBudget ==
  ASSUME TypeOK, IndInv, Next
  PROVE  WithinBudget'
<1> USE DEF TypeOK, IndInv, NoBatchNoPlace, CountersStartAtZero, WithinBudget,
            roundBudget
<1>1. CASE Starts
  BY <1>1 DEF Starts
<1>2. CASE NextWave
  BY <1>2 DEF NextWave
<1>3. CASE Ends \/ Dies
  BY <1>3 DEF Ends, Dies, Forgets
<1>4. ASSUME NEW t \in Tickets, planOne(t) PROVE WithinBudget'
  BY <1>4 DEF planOne
<1>5. ASSUME NEW t \in Tickets, Unorderable(t) PROVE WithinBudget'
  BY <1>5 DEF Unorderable
<1>6. ASSUME NEW t \in Tickets, Throws(t) PROVE WithinBudget'
  BY <1>6 DEF Throws
<1>7. ASSUME NEW t \in Tickets, Approves(t) PROVE WithinBudget'
  BY <1>7 DEF Approves
<1>8. ASSUME NEW t \in Tickets, Escalates(t) PROVE WithinBudget'
  BY <1>8 DEF Escalates
<1>9. ASSUME NEW t \in Tickets, Revises(t) PROVE WithinBudget'
  BY <1>9 DEF Revises
<1>10. ASSUME NEW t \in Tickets, Exhausted(t) PROVE WithinBudget'
  BY <1>10 DEF Exhausted
<1>11. ASSUME NEW t \in Tickets, Decides(t) PROVE WithinBudget'
  BY <1>11 DEF Decides
<1>12. ASSUME NEW t \in Tickets, WritesSpec(t) PROVE WithinBudget'
  BY <1>12 DEF WritesSpec, Escalated, Record
<1>13. ASSUME NEW t \in Tickets, WritesPlan(t) PROVE WithinBudget'
  BY <1>13 DEF WritesPlan, Escalated, Record
<1>14. ASSUME NEW t \in Tickets, Releases(t) PROVE WithinBudget'
  BY <1>14 DEF Releases, applyApproved, Record, TicketFails, Escalated
<1>15. ASSUME NEW t \in Tickets, Stamps(t) PROVE WithinBudget'
  BY <1>15 DEF Stamps, TicketFails, Escalated, Record
<1>16. ASSUME NEW t \in Tickets, HumanPlans(t) PROVE WithinBudget'
  BY <1>16 DEF HumanPlans, Edits
<1>17. ASSUME NEW t \in Tickets, HumanTakes(t) PROVE WithinBudget'
  BY <1>17 DEF HumanTakes, Edits
<1>18. ASSUME NEW t \in Tickets, HumanReleases(t) PROVE WithinBudget'
  BY <1>18 DEF HumanReleases, Edits
<1>19. ASSUME NEW t \in Tickets, LoopDelivers(t) PROVE WithinBudget'
  BY <1>19 DEF LoopDelivers
<1> QED BY <1>1, <1>2, <1>3, <1>4, <1>5, <1>6, <1>7, <1>8, <1>9, <1>10,
           <1>11, <1>12, <1>13, <1>14, <1>15, <1>16, <1>17, <1>18,
           <1>19
           DEF Next, Autoplan, Loops

\* The invariant: who may write the files of a ticket at each place of a batch,
\* and what they hold there.
THEOREM Inductive == Spec => []IndInv
<1>1. Init => IndInv
  <2> SUFFICES ASSUME Init PROVE IndInv
    OBVIOUS
  <2>1. NoBatchNoPlace /\ WaitingIsUnreleased /\ WritesApproved /\ ApprovedHaveFiles
    BY DEF Init, NoBatchNoPlace, WaitingIsUnreleased, WritesApproved,
           ApprovedHaveFiles
  <2>2. CountersStartAtZero /\ ReleasedIsReviewed /\ DraftedOnPlans
    BY DEF Init, CountersStartAtZero, ReleasedIsReviewed, DraftedOnPlans
  <2>3. WithinBudget
    BY DEF Init, WithinBudget, roundBudget
  <2> QED BY <2>1, <2>2, <2>3 DEF IndInv
<1>2. TypeOK /\ IndInv /\ [Next]_vars => IndInv'
  <2>1. ASSUME TypeOK, IndInv, Next PROVE IndInv'
    BY <2>1, StepNoBatch, StepUnreleased, StepWrites, StepFiles, StepCounters,
       StepReleased, StepDrafted, StepBudget DEF IndInv
  <2>2. ASSUME IndInv, UNCHANGED vars PROVE IndInv'
    BY <2>2 DEF vars, IndInv,
           NoBatchNoPlace, WaitingIsUnreleased, WritesApproved, ApprovedHaveFiles,
           CountersStartAtZero, ReleasedIsReviewed, DraftedOnPlans, WithinBudget,
           Draft, satisfiedExternally
  <2> QED BY <2>1, <2>2
<1> QED BY <1>1, <1>2, TypeCorrect, PTL DEF Spec

\* Whatever fails or dies between the writes, what is released was reviewed.
THEOREM ReleasesAreReviewed == Spec => []ReleasedIsReviewed
<1>1. IndInv => ReleasedIsReviewed
  BY DEF IndInv
<1> QED BY <1>1, Inductive, PTL

\* No ticket is drafted ahead of its dependencies, for every graph.
THEOREM DraftsRestOnPlans == Spec => []DraftedOnPlans
<1>1. IndInv => DraftedOnPlans
  BY DEF IndInv
<1> QED BY <1>1, Inductive, PTL

\* The rounds are bounded, for every budget.
THEOREM RoundsAreBounded == Spec => []WithinBudget
<1>1. IndInv => WithinBudget
  BY DEF IndInv
<1> QED BY <1>1, Inductive, PTL
-----------------------------------------------------------------------------

\* What the views agree on, for every backlog whatever led to it.
LEMMA ViewIsNow ==
  ASSUME TypeOK
  PROVE  /\ DOMAIN Now = Tickets
         /\ \A t \in Tickets :
              /\ Now[t].status = status[t] /\ Now[t].loop = loop[t]
              /\ Now[t].spec \in BOOLEAN /\ Now[t].plan \in BOOLEAN
              /\ Now[t].loop \in BOOLEAN /\ Now[t].status \in Statuses
BY DEF TypeOK, Now

\* The loop takes a ticket exactly when the doctor promises it and no dependency
\* was dropped; the doctor promises it exactly when discovery finds it and no
\* dependency was superseded.
LEMMA OneTicketAgrees ==
  ASSUME TypeOK, NEW t \in Tickets
  PROVE  /\ t \in pickable(Now, dependsOn) =>
              t \in Doctor(Now, dependsOn, {"loop_ready"})
         /\ t \in Doctor(Now, dependsOn, {"loop_ready"}) =>
              discoverReadiness(Now, dependsOn, t) = "executable"
         /\ t \in Doctor(Now, dependsOn, {"loop_ready"}) =>
              \/ t \in pickable(Now, dependsOn)
              \/ \E d \in dependsOn[t] : status[d] = "dropped"
         /\ discoverReadiness(Now, dependsOn, t) = "executable" =>
              \/ t \in Doctor(Now, dependsOn, {"loop_ready"})
              \/ \E d \in dependsOn[t] : status[d] = "superseded"
<1> USE ViewIsNow DEF Statuses, startable, planned, terminalStatus
<1>1. dependsOn[t] \subseteq Tickets
  BY DEF TypeOK
<1>2. t \in Doctor(Now, dependsOn, {"loop_ready"}) <=>
        /\ status[t] \in {"sketched", "planned"} /\ Now[t].loop
        /\ Now[t].spec /\ Now[t].plan
        /\ \A d \in dependsOn[t] : status[d] \in {"done", "dropped"}
  <2>1. missingDeps(Now, dependsOn, t) = {} <=>
          \A d \in dependsOn[t] : status[d] \in {"done", "dropped"}
    BY <1>1 DEF missingDeps, parsed
  <2> QED BY <2>1 DEF Doctor, doctorReadiness, parsed
<1>3. t \in pickable(Now, dependsOn) <=>
        /\ status[t] \in {"sketched", "planned"} /\ Now[t].loop
        /\ Now[t].spec /\ Now[t].plan
        /\ \A d \in dependsOn[t] : status[d] = "done"
  BY <1>1 DEF pickable, loopReady, released, parsed
<1>4. discoverReadiness(Now, dependsOn, t) = "executable" <=>
        /\ status[t] \in {"sketched", "planned"} /\ Now[t].loop
        /\ Now[t].spec /\ Now[t].plan
        /\ \A d \in dependsOn[t] : status[d] \in {"done", "dropped", "superseded"}
  <2>1. classifyTicket(Now[t]) = "executable" <=>
          /\ status[t] \in {"sketched", "planned"} /\ Now[t].loop
          /\ Now[t].spec /\ Now[t].plan
    BY DEF classifyTicket
  <2>2. (\E d \in dependsOn[t] : ~terminalStatus(Now[d])) <=>
          ~(\A d \in dependsOn[t] : status[d] \in {"done", "dropped", "superseded"})
    BY <1>1
  <2> QED BY <2>1, <2>2 DEF discoverReadiness
<1> QED BY <1>2, <1>3, <1>4

\* What stops the loop is debt to the doctor.
LEMMA StopsAgree ==
  ASSUME TypeOK
  PROVE  /\ readinessStop(Now) <=> Doctor(Now, dependsOn, debt) # {}
         /\ structuralStop(Now) <=> ~Intact
<1> USE ViewIsNow DEF Statuses, startable, planned, terminalStatus
<1>1. ASSUME NEW t \in Tickets
      PROVE  t \in needsPlanning(Now) <=> t \in Doctor(Now, dependsOn, debt)
  BY DEF needsPlanning, loopReady, released, parsed, Doctor, doctorReadiness, debt
<1>2. /\ needsPlanning(Now) \subseteq Tickets
      /\ Doctor(Now, dependsOn, debt) \subseteq Tickets
  BY DEF needsPlanning, loopReady, released, parsed, Doctor
<1> QED BY <1>1, <1>2 DEF readinessStop, structuralStop, Intact

\* The doctor, the printed plan, discovery and the loop agree on every backlog
\* that operators, autoplan and the loop can make.
THEOREM ReadinessAlwaysAgrees == Spec => []ReadinessAgrees
<1>1. ASSUME TypeOK PROVE ReadinessAgrees
  <2>1. /\ pickable(Now, dependsOn) \subseteq Tickets
        /\ Doctor(Now, dependsOn, {"loop_ready"}) \subseteq Tickets
    BY <1>1, ViewIsNow DEF pickable, loopReady, released, parsed, Doctor
  <2>2. readinessStop(Now) = ("needs-planning" \in doctorStops(Now, dependsOn))
    BY <1>1, StopsAgree DEF doctorStops, readinessStop
  <2>3. (doctorStops(Now, dependsOn) \ {"structural"} # {}) =
          (planMode(Now, dependsOn) = "blocked")
    <3>1. Doctor(Now, dependsOn, debt \cup {"blocked"}) =
            Doctor(Now, dependsOn, debt) \cup Doctor(Now, dependsOn, {"blocked"})
      BY DEF Doctor
    <3>2. planMode(Now, dependsOn) = "blocked" <=>
            Doctor(Now, dependsOn, debt \cup {"blocked"}) # {}
      BY DEF planMode
    <3>3. doctorStops(Now, dependsOn) \ {"structural"} # {} <=>
            \/ Doctor(Now, dependsOn, debt) # {}
            \/ Doctor(Now, dependsOn, {"blocked"}) # {}
      BY <1>1, StopsAgree DEF doctorStops
    <3> QED BY <3>1, <3>2, <3>3
  <2>4. ("structural" \notin doctorStops(Now, dependsOn)) = Intact
    BY <1>1, StopsAgree DEF doctorStops, Intact
  <2>5. /\ pickable(Now, dependsOn) \subseteq Doctor(Now, dependsOn, {"loop_ready"})
        /\ Doctor(Now, dependsOn, {"loop_ready"}) \subseteq
             {t \in Tickets : discoverReadiness(Now, dependsOn, t) = "executable"}
    BY <1>1, <2>1, OneTicketAgrees
  <2> QED BY <1>1, <2>1, <2>2, <2>3, <2>4, <2>5, OneTicketAgrees DEF ReadinessAgrees
<1> QED BY <1>1, TypeCorrect, PTL
==============================================================================
