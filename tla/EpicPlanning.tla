---------------------------- MODULE EpicPlanning ----------------------------
(***************************************************************************)
(* Autoplan (src/src/planning.ts, src/src/autoplan.ts): the sketched       *)
(* tickets of an epic are drafted, reviewed, revised and released in waves *)
(* of their dependencies, several at a time.  Every call of an agent and   *)
(* every write may fail; the process may die and be started again; the     *)
(* operator works on the same files.                                       *)
(*                                                                         *)
(* A file is known by the batch and the round that drafted it.  The order  *)
(* inside a wave is left open.  All tickets belong to one epic.            *)
(***************************************************************************)
EXTENDS Integers, FiniteSets

CONSTANTS
  Tickets,
  Graphs,            \* the dependency graphs: functions to sets of tickets
  Brainstormed,      \* the tickets whose gate decision is "brainstorm"
  MaxPlanningRounds,
  MaxConcurrent,
  MaxBatches,        \* bound: starts of autoplan
  MaxEdits,          \* bound: edits of the operator
  Turns              \* bound: starts and edits together, by graph

ASSUME TicketsAssumption == IsFiniteSet(Tickets)
ASSUME GraphsAssumption == Graphs \subseteq [Tickets -> SUBSET Tickets]
ASSUME TurnsAssumption == Turns \in [Graphs -> Nat]
ASSUME BoundsAssumption ==
  /\ MaxPlanningRounds \in Nat /\ MaxConcurrent \in Nat \ {0}
  /\ MaxBatches \in Nat /\ MaxEdits \in Nat

VARIABLES
  dependsOn,   \* the graph; it does not change
  (* the files *)
  status,      \* of a ticket; "torn": its frontmatter is cut short
  loop,        \* its release flag
  pointers,    \* its frontmatter names a spec and a plan
  stamped,     \* it carries escalation stamps
  decided,     \* its body holds the decision of this batch
  spec, plan,  \* what the files hold
  (* the process *)
  batches,     \* starts so far
  planning,    \* a batch is under way
  pc,          \* of each ticket
  revision, round, decisions,   \* the locals of runPlanningLoop
  outcome,     \* outcomeById
  approved,
  approvedDraft, \* history: the draft the reviewer approved, while it counts
  edits          \* of the operator so far

ticketFile == <<status, loop, pointers, stamped>>
files == <<ticketFile, decided, spec, plan>>
locals == <<revision, round, decisions>>
batch == <<outcome, approved, approvedDraft>>
setting == <<dependsOn, batches, planning, edits>>
vars == <<setting, files, pc, locals, batch>>

Statuses == {"sketched", "planned", "in-progress", "done", "dropped", "superseded",
             "torn"}
\* What a spec or plan may hold: nothing (there is no file), what the operator
\* wrote, what a failed write left, or a draft.
None == <<0, 0>>
Human == <<0, 1>>
Torn == <<0, 2>>
Drafts == (1..MaxBatches) \X Nat
Contents == Drafts \cup {None, Human, Torn}

\* Where a ticket of the batch is: waiting for its wave, for a worker, for an
\* agent, or in one of the writes of a terminal outcome.
Calling == {"drafting", "deciding"}
Writing == {"writingSpec", "writingPlan", "releasing", "stamping"}
InFlight == Calling \cup Writing
Positions == InFlight \cup {"out", "pending", "queued", "unorderable", "recorded"}

Init ==
  /\ dependsOn \in Graphs
  /\ status = [t \in Tickets |-> "sketched"]
  /\ loop = [t \in Tickets |-> FALSE] /\ pointers = loop /\ stamped = loop
  /\ decided = loop
  /\ spec = [t \in Tickets |-> None] /\ plan = spec
  /\ batches = 0 /\ planning = FALSE
  /\ pc = [t \in Tickets |-> "out"]
  /\ revision = [t \in Tickets |-> 0] /\ round = revision
  /\ decisions = revision
  /\ outcome = [t \in Tickets |-> "none"] /\ approved = {}
  /\ approvedDraft = [t \in Tickets |-> None] /\ edits = 0

-----------------------------------------------------------------------------
(* What a batch is made of *)

\* Mutant: one round more.
roundBudget_OneMore(t) ==
  IF t \in Brainstormed THEN MaxPlanningRounds + 1
  ELSE IF MaxPlanningRounds < 2 THEN MaxPlanningRounds + 1 ELSE 2

roundBudget(t) ==
  IF t \in Brainstormed THEN MaxPlanningRounds
  ELSE IF MaxPlanningRounds < 2 THEN MaxPlanningRounds ELSE 2

Batch == {t \in Tickets : pc[t] # "out"}

\* Kahn's algorithm: what is freed after n rounds.
Freed(sketched) ==
  LET layer[n \in Nat] ==
        IF n = 0 THEN {}
        ELSE {t \in sketched : dependsOn[t] \cap sketched \subseteq layer[n - 1]}
  IN layer[Cardinality(sketched)]

\* Mutant: the spec alone will do.
satisfiedExternally_SpecOnly(d) == spec[d] # None

\* A dependency that this batch did not approve counts when its files exist.
satisfiedExternally(d) == spec[d] # None /\ plan[d] # None

Unresolved(t) ==
  \E d \in dependsOn[t] : d \notin approved /\ ~satisfiedExternally(d)

\* The draft a ticket is at.
Draft(t) == <<batches, round[t]>>

At(t, here) == planning /\ pc[t] = here
Goes(t, there) == pc' = [pc EXCEPT ![t] = there]

-----------------------------------------------------------------------------
(* The batch *)

\* Mutant: a batch takes tickets that were planned already.
Sketched_AndPlanned == {t \in Tickets : status[t] \in {"sketched", "planned"}}

Sketched == {t \in Tickets : status[t] = "sketched"}

\* The structural check: a ticket without an id stops autoplan.
Intact == \A t \in Tickets : status[t] # "torn"

Turn == batches + edits < Turns[dependsOn]

\* autoplan starts: it reads the tickets and opens a run of its own.
Starts ==
  /\ ~planning /\ batches < MaxBatches /\ Turn /\ Intact /\ Sketched # {}
  /\ batches' = batches + 1 /\ planning' = TRUE
  /\ pc' = [t \in Tickets |->
             IF t \notin Sketched THEN "out"
             ELSE IF t \in Freed(Sketched) THEN "pending" ELSE "unorderable"]
  /\ UNCHANGED <<dependsOn, edits, files, locals, batch>>

WaveEnded == \A t \in Tickets : pc[t] \notin InFlight \cup {"queued"}

\* The tickets whose dependencies in the batch have an outcome.
Ready == {t \in Tickets :
            /\ pc[t] = "pending"
            /\ \A d \in dependsOn[t] \cap Batch : outcome[d] # "none"}

NextWave ==
  /\ planning /\ WaveEnded /\ Ready # {}
  /\ pc' = [t \in Tickets |-> IF t \in Ready THEN "queued" ELSE pc[t]]
  /\ UNCHANGED <<setting, files, locals, batch>>

\* A worker takes a ticket: a dependency that is not planned escalates it,
\* otherwise the first draft is asked for.
planOne(t) ==
  /\ At(t, "queued")
  /\ Cardinality({u \in Tickets : pc[u] \in InFlight}) < MaxConcurrent
  /\ \/ Unresolved(t) /\ Goes(t, "stamping") /\ UNCHANGED round
     \/ /\ ~Unresolved(t) /\ Goes(t, "drafting")
        /\ round' = [round EXCEPT ![t] = 1]
  /\ UNCHANGED <<setting, files, revision, decisions, batch>>

\* Afterwards the tickets of a cycle are escalated, one at a time.
Unorderable(t) ==
  /\ At(t, "unorderable") /\ WaveEnded /\ Ready = {}
  /\ Goes(t, "stamping")
  /\ UNCHANGED <<setting, files, locals, batch>>

\* The memory of a process goes with it.
Forgets ==
  /\ planning' = FALSE /\ pc' = [t \in Tickets |-> "out"]
  /\ revision' = [t \in Tickets |-> 0] /\ round' = revision'
  /\ decisions' = revision'
  /\ outcome' = [t \in Tickets |-> "none"] /\ approved' = {}
  /\ decided' = [t \in Tickets |-> FALSE]
  /\ approvedDraft' = [t \in Tickets |-> IF status[t] = "sketched" THEN None
                                         ELSE approvedDraft[t]]
  /\ UNCHANGED <<dependsOn, batches, edits, ticketFile, spec, plan>>

\* The process prints the outcomes and ends: there is no ticket it could take,
\* and the cycles are dealt with.
Finished == /\ WaveEnded /\ Ready = {}
            /\ \A t \in Tickets : pc[t] # "unorderable"
Ends == planning /\ Finished /\ Forgets

-----------------------------------------------------------------------------
(* runPlanningLoop, for one ticket *)

\* "drafting" is a round: a draft, asked for twice when the first answer is not
\* JSON, and its review.  A call that throws (a dead or silent agent, a second
\* malformed answer, a record of the call that cannot be written) escalates.
Throws(t) ==
  /\ At(t, "drafting") /\ Goes(t, "stamping")
  /\ UNCHANGED <<setting, files, locals, batch>>

Approves(t) ==
  /\ At(t, "drafting") /\ Goes(t, "writingSpec")
  /\ approvedDraft' = [approvedDraft EXCEPT ![t] = Draft(t)]
  /\ UNCHANGED <<setting, files, locals, outcome, approved>>

\* An escalation of the reviewer is never decided by a model.
Escalates(t) ==
  /\ At(t, "drafting") /\ Goes(t, "stamping")
  /\ UNCHANGED <<setting, files, locals, batch>>

\* A revision within the budget.
Revises(t) ==
  /\ At(t, "drafting") /\ revision[t] < roundBudget(t)
  /\ revision' = [revision EXCEPT ![t] = @ + 1]
  /\ round' = [round EXCEPT ![t] = @ + 1]
  /\ Goes(t, "drafting")
  /\ UNCHANGED <<setting, files, decisions, batch>>

\* The budget is spent: one decision, and then no more.
Exhausted(t) ==
  /\ At(t, "drafting") /\ revision[t] >= roundBudget(t)
  /\ Goes(t, IF decisions[t] = 0 THEN "deciding" ELSE "stamping")
  /\ UNCHANGED <<setting, files, locals, batch>>

\* Mutant: without a decision the reviewer is asked again.
Decides_Retries(t) ==
  /\ At(t, "deciding")
  /\ \/ /\ decisions' = [decisions EXCEPT ![t] = 1]
        /\ decided' = [decided EXCEPT ![t] = TRUE]
        /\ round' = [round EXCEPT ![t] = @ + 1]
        /\ Goes(t, "drafting")
     \/ Goes(t, "drafting") /\ UNCHANGED <<decided, round, decisions>>
  /\ UNCHANGED <<setting, ticketFile, spec, plan, revision, batch>>

\* The decision is written into the ticket before the draft is asked for
\* again; without a decision, or when the write fails, the ticket is parked.
Decides(t) ==
  /\ At(t, "deciding")
  /\ \/ /\ decisions' = [decisions EXCEPT ![t] = 1]
        /\ decided' = [decided EXCEPT ![t] = TRUE]
        /\ round' = [round EXCEPT ![t] = @ + 1]
        /\ Goes(t, "drafting") /\ UNCHANGED <<status, loop, pointers>>
     \/ /\ Goes(t, "stamping")
        /\ UNCHANGED <<status, loop, pointers, decided, round, decisions>>
     \/ /\ status' = [status EXCEPT ![t] = "torn"]
        /\ loop' = [loop EXCEPT ![t] = FALSE]
        /\ pointers' = [pointers EXCEPT ![t] = FALSE]
        /\ Goes(t, "stamping") /\ UNCHANGED <<decided, round, decisions>>
  /\ UNCHANGED <<setting, stamped, spec, plan, revision, batch>>

-----------------------------------------------------------------------------
(* record and applyOutcome: the writes of a terminal outcome *)

Record(t, final) ==
  /\ Goes(t, "recorded")
  /\ outcome' = [outcome EXCEPT ![t] = final]
  /\ approved' = IF final = "approved" THEN approved \cup {t} ELSE approved
  /\ revision' = [revision EXCEPT ![t] = 0]
  /\ round' = [round EXCEPT ![t] = 0]
  /\ decisions' = [decisions EXCEPT ![t] = 0]
  /\ decided' = [decided EXCEPT ![t] = FALSE]

\* An escalation, also that of a write that failed: it is not retried.
Escalated(t) ==
  /\ Record(t, "escalated")
  /\ approvedDraft' = [approvedDraft EXCEPT ![t] = None]

\* The ticket is read first; a failure to read it is one that writes nothing.
WritesSpec(t) ==
  /\ At(t, "writingSpec")
  /\ \/ /\ spec' = [spec EXCEPT ![t] = Draft(t)] /\ Goes(t, "writingPlan")
        /\ UNCHANGED <<decided, locals, batch>>
     \/ \E left \in {spec[t], Torn} :
          spec' = [spec EXCEPT ![t] = left] /\ Escalated(t)
  /\ UNCHANGED <<setting, ticketFile, plan>>

WritesPlan(t) ==
  /\ At(t, "writingPlan")
  /\ \/ /\ plan' = [plan EXCEPT ![t] = Draft(t)] /\ Goes(t, "releasing")
        /\ UNCHANGED <<decided, locals, batch>>
     \/ \E left \in {plan[t], Torn} :
          plan' = [plan EXCEPT ![t] = left] /\ Escalated(t)
  /\ UNCHANGED <<setting, ticketFile, spec>>

\* A write of the ticket that fails left it alone or cut it short.
TicketFails(t) ==
  /\ \/ UNCHANGED <<status, loop, pointers>>
     \/ /\ status' = [status EXCEPT ![t] = "torn"]
        /\ loop' = [loop EXCEPT ![t] = FALSE]
        /\ pointers' = [pointers EXCEPT ![t] = FALSE]
  /\ UNCHANGED stamped
  /\ Escalated(t)

\* applyApprovedFrontmatter
applyApproved(t) ==
  /\ status' = [status EXCEPT ![t] = "planned"]
  /\ loop' = [loop EXCEPT ![t] = TRUE]
  /\ pointers' = [pointers EXCEPT ![t] = TRUE]
  /\ stamped' = [stamped EXCEPT ![t] = FALSE]

\* The frontmatter that points at the artifacts is written last.  A write that
\* fails below the frontmatter has released the ticket all the same.
Releases(t) ==
  /\ At(t, "releasing")
  /\ \/ /\ applyApproved(t) /\ UNCHANGED approvedDraft
        /\ \E final \in {"approved", "escalated"} : Record(t, final)
     \/ TicketFails(t)
  /\ UNCHANGED <<setting, spec, plan>>

\* applyEscalatedFrontmatter
Stamps(t) ==
  /\ At(t, "stamping")
  /\ \/ /\ stamped' = [stamped EXCEPT ![t] = TRUE]
        /\ UNCHANGED <<status, loop, pointers>>
        /\ Escalated(t)
     \/ TicketFails(t)
  /\ UNCHANGED <<setting, spec, plan>>

-----------------------------------------------------------------------------
(* The environment *)

\* The process dies, anywhere.
Dies == planning /\ Forgets

Edits == edits < MaxEdits /\ Turn /\ edits' = edits + 1

\* The operator finishes a ticket by hand, between two batches.
HumanPlans(t) ==
  /\ Edits /\ ~planning /\ status[t] \in {"sketched", "torn"}
  /\ spec' = [spec EXCEPT ![t] = Human]
  /\ plan' = [plan EXCEPT ![t] = Human]
  /\ status' = [status EXCEPT ![t] = "planned"]
  /\ pointers' = [pointers EXCEPT ![t] = TRUE]
  /\ loop' \in {loop, [loop EXCEPT ![t] = TRUE]}
  /\ UNCHANGED <<dependsOn, batches, planning, stamped, decided, pc, locals, batch>>

\* Or takes it from the loop, at any time.
HumanTakes(t) ==
  /\ Edits /\ status[t] \in {"sketched", "planned"}
  /\ \E to \in {"dropped", "superseded"} :
       status' = [status EXCEPT ![t] = to]
  /\ UNCHANGED <<dependsOn, batches, planning, loop, pointers, stamped, decided,
                 spec, plan, pc, locals, batch>>

Loops(t) == \/ planOne(t) \/ Unorderable(t) \/ Throws(t) \/ Approves(t)
            \/ Escalates(t) \/ Revises(t) \/ Exhausted(t) \/ Decides(t)
            \/ WritesSpec(t) \/ WritesPlan(t) \/ Releases(t) \/ Stamps(t)

Autoplan == Starts \/ NextWave \/ Ends \/ Dies \/ \E t \in Tickets : Loops(t)
=============================================================================
