---------------------------- MODULE LoopRunSafety ----------------------------
(***************************************************************************)
(* Proofs about LoopRun for every value of its constants.  First its type  *)
(* correctness, with one lemma per action; most of them say where the      *)
(* process goes (GotoOK, EscapeOK, ThrowOK, ...), what is written, and     *)
(* that the rest stays.  Then that IndInv is inductive, and with it the    *)
(* safety properties about trees, closes and merges: a step is described   *)
(* by what it keeps of the store, the trees and the remote, and by the     *)
(* place the process reaches; most places claim nothing of the ticket in   *)
(* hand (QuietPCs).  The last part shows that LoopRun implements           *)
(* TicketDelivery: every step is a step of one ticket's life or a stutter. *)
(***************************************************************************)
EXTENDS LoopRun, TLAPS

-----------------------------------------------------------------------------
(* Where the process goes, and what a kernel move writes *)

LEMMA GotoOK ==
  ASSUME NEW p \in PCs \ NoRunPCs, Goto(p), ProcOK, cur \in RunId,
         p \in TicketPCs => tk \in Ticket
  PROVE  ProcOK'
BY DEF Goto, ProcOK, job, turn, tally

LEMMA ResetOK == ASSUME NEW p \in NoRunPCs, Reset(p) PROVE ProcOK'
BY DEF Reset, ProcOK, NoRunPCs, TicketPCs, PCs, LoopStates, Verdicts

LEMMA EscapeOK ==
  ASSUME NEW kind, Escape(kind), ProcOK, cur \in RunId
  PROVE  ProcOK'
<1>1. CASE resumed /\ Goto("resumeSkip")
  BY <1>1, GotoOK DEF PCs, NoRunPCs, TicketPCs, RunPCs
<1>2. CASE Reset("off")
  BY <1>2, ResetOK DEF NoRunPCs
<1>3. CASE Goto("structuredStop")
  BY <1>3, GotoOK DEF PCs, NoRunPCs, TicketPCs, RunPCs
<1> QED BY <1>1, <1>2, <1>3 DEF Escape

LEMMA ThrowOK ==
  ASSUME NEW kind, Throw(kind), ProcOK, cur \in RunId, tk \in Ticket
  PROVE  ProcOK'
<1>1. CASE catching /\ Escape(kind)
  BY <1>1, EscapeOK
<1>2. CASE ~catching
  <2>1. "flag" \in PCs \ NoRunPCs BY DEF PCs, NoRunPCs
  <2> QED BY <1>2, <2>1 DEF Throw, ProcOK, job, tally
<1> QED BY <1>1, <1>2 DEF Throw

LEMMA DenyOK ==
  ASSUME NEW to, Deny(to), ProcOK, cur \in RunId
  PROVE  ProcOK'
<1> {"resumeSkip", "structuredStop"} \subseteq (PCs \ NoRunPCs) \ TicketPCs
  BY DEF PCs, NoRunPCs, TicketPCs, RunPCs
<1> QED BY DEF Deny, ProcOK, job, turn, tally

LEMMA EnterOK ==
  ASSUME NEW to \in LoopStates, NEW next \in PCs \ NoRunPCs,
         ProcOK, cur \in RunId, tk \in Ticket, Enter(to, next)
  PROVE  ProcOK'
<1>1. CASE Throw("other") BY <1>1, ThrowOK
<1>2. CASE Deny(to) BY <1>2, DenyOK
<1>3. CASE pc' = next /\ mirror' = to
           /\ UNCHANGED <<job, catching, n, verdict, tally, refused>>
  BY <1>3 DEF ProcOK, job, tally
<1> QED BY <1>1, <1>2, <1>3 DEF Enter, Move

LEMMA PersistOK ==
  ASSUME NEW to \in LoopStates, NEW t \in Ticket \cup {NoTicket},
         StoreOK, Persist(to, t), UNCHANGED <<processed, over, log>>
  PROVE  StoreOK'
BY DEF Persist, StoreOK, RunStatus

LEMMA RunPcFacts == \A p \in RunPCs : p \in PCs \ NoRunPCs /\ p \notin TicketPCs
BY DEF RunPCs, PCs, NoRunPCs, TicketPCs

LEMMA TicketPcFacts == \A p \in TicketPCs : p \in PCs \ NoRunPCs
BY DEF TicketPCs

LEMMA AdvanceOK ==
  ASSUME NEW to \in LoopStates, NEW next \in RunPCs,
         TypeOK, cur \in RunId, Advance(to, next)
  PROVE  TypeOK'
<1> USE DEF Advance, Move, TypeOK
<1>1. ProcOK'
  <2>1. CASE Escape("other") BY <2>1, EscapeOK
  <2>2. CASE Deny(to) BY <2>2, DenyOK
  <2>3. CASE pc' = next /\ mirror' = to
             /\ UNCHANGED <<job, catching, n, verdict, tally, refused>>
    BY <2>3, RunPcFacts DEF ProcOK, job, tally
  <2> QED BY <2>1, <2>2, <2>3
<1>2. StoreOK'
  <2>1. CASE UNCHANGED <<status, phase, held>>
    BY <2>1 DEF StoreOK, MoveRest
  <2>2. CASE Persist(to, held[cur])
    BY <2>2, PersistOK DEF MoveRest, StoreOK
  <2> QED BY <2>1, <2>2
<1>3. RepoOK' /\ TreeOK' BY DEF MoveRest, RepoOK, TreeOK, repoVars, treeVars
<1>4. EnvOK' BY DEF EnvOK, Fault, Fine, MoveRest
<1> QED BY <1>1, <1>2, <1>3, <1>4

LEMMA FrameOK ==
  /\ StoreOK /\ UNCHANGED runVars => StoreOK'
  /\ RepoOK /\ UNCHANGED repoVars => RepoOK'
  /\ TreeOK /\ UNCHANGED treeVars => TreeOK'
  /\ ProcOK /\ UNCHANGED procVars => ProcOK'
  /\ EnvOK /\ (Fault \/ Fine) /\ UNCHANGED crashes => EnvOK'
  /\ EnvOK /\ UNCHANGED envVars => EnvOK'
BY DEF StoreOK, RepoOK, TreeOK, ProcOK, EnvOK, runVars, repoVars, treeVars,
       procVars, job, turn, tally, envVars, Fault, Fine

\* An append, or a lost one, on a store whose state.json stays.
LEMMA AppendOK ==
  ASSUME NEW type \in EventTypes, NEW t \in Ticket \cup {NoTicket},
         StoreOK, Append(type, t) \/ UNCHANGED log,
         UNCHANGED <<status, phase, held, processed, over>>
  PROVE  StoreOK'
<1>1. <<type, t>> \in Events BY DEF Events
<1>2. log' \in [RunId -> SUBSET Events] BY <1>1 DEF StoreOK, Append
<1> QED BY <1>2 DEF StoreOK

LEMMA SetStatusOK ==
  ASSUME NEW s \in RunStatus, StoreOK, SetStatus(s) \/ UNCHANGED status,
         UNCHANGED <<phase, held, processed, over, log>>
  PROVE  StoreOK'
BY DEF StoreOK, SetStatus

\* A step of the process taken at a run's or at a ticket's place.
LEMMA AtRun == ASSUME TypeOK, pc \notin NoRunPCs PROVE cur \in RunId
BY DEF TypeOK, ProcOK

LEMMA AtTicket == ASSUME TypeOK, pc \in TicketPCs PROVE cur \in RunId /\ tk \in Ticket
BY DEF TypeOK, ProcOK, TicketPCs

-----------------------------------------------------------------------------
(* Starting and resuming *)

LEMMA ResumeSkipOK == ASSUME TypeOK, ResumeSkip PROVE TypeOK'
<1>1. cur \in RunId BY AtRun DEF ResumeSkip, At, NoRunPCs
<1>2. ProcOK'
  BY <1>1, GotoOK, ResetOK, RunPcFacts DEF ResumeSkip, TypeOK, RunPCs, NoRunPCs
<1>3. StoreOK' BY SetStatusOK DEF ResumeSkip, TypeOK, RunStatus
<1> QED BY <1>2, <1>3, FrameOK DEF ResumeSkip, TypeOK

LEMMA ResumeSkipEventOK == ASSUME TypeOK, ResumeSkipEvent PROVE TypeOK'
<1>1. cur \in RunId BY AtRun DEF ResumeSkipEvent, At, NoRunPCs
<1>2. ProcOK'
  BY ResetOK DEF ResumeSkipEvent, NoRunPCs
<1>3. StoreOK' BY AppendOK DEF ResumeSkipEvent, TypeOK, EventTypes
<1> QED BY <1>2, <1>3, FrameOK DEF ResumeSkipEvent, TypeOK

LEMMA RefineOK == ASSUME TypeOK, Refine PROVE TypeOK'
<1>1. cur \in RunId BY AtRun DEF Refine, At, NoRunPCs
<1>2. ProcOK'
  BY <1>1, GotoOK, EscapeOK, RunPcFacts DEF Refine, TypeOK, RunPCs
<1> QED BY <1>2, FrameOK DEF Refine, TypeOK

LEMMA RefineSelectOK == ASSUME TypeOK, RefineSelect PROVE TypeOK'
<1>1. cur \in RunId BY AtRun DEF RefineSelect, At, NoRunPCs
<1> QED BY <1>1, AdvanceOK DEF RefineSelect, LoopStates, RunPCs

LEMMA RefineEnterOK == ASSUME TypeOK, RefineEnter PROVE TypeOK'
<1>1. cur \in RunId BY AtRun DEF RefineEnter, At, NoRunPCs
<1> QED BY <1>1, AdvanceOK DEF RefineEnter, LoopStates, RunPCs

LEMMA RefineBackOK == ASSUME TypeOK, RefineBack PROVE TypeOK'
<1>1. cur \in RunId BY AtRun DEF RefineBack, At, NoRunPCs
<1> QED BY <1>1, AdvanceOK DEF RefineBack, LoopStates, RunPCs

LEMMA SelectOK == ASSUME TypeOK, Select PROVE TypeOK'
<1>1. cur \in RunId BY AtRun DEF Select, At, NoRunPCs
<1> QED BY <1>1, AdvanceOK DEF Select, LoopStates, RunPCs

LEMMA FinishOK == ASSUME TypeOK, Finish PROVE TypeOK'
<1>1. cur \in RunId BY AtRun DEF Finish, At, NoRunPCs
<1> QED BY <1>1, AdvanceOK DEF Finish, LoopStates, RunPCs

LEMMA RefiningOK == ASSUME TypeOK, Refining PROVE TypeOK'
<1>1. cur \in RunId BY AtRun DEF Refining, At, NoRunPCs
<1>2. ProcOK'
  BY <1>1, GotoOK, EscapeOK, RunPcFacts DEF Refining, TypeOK, RunPCs
<1>3. StoreOK' BY AppendOK DEF Refining, TypeOK, EventTypes
<1> QED BY <1>2, <1>3, FrameOK DEF Refining, TypeOK

-----------------------------------------------------------------------------
(* The loop *)

LEMMA TopOK == ASSUME TypeOK, Top PROVE TypeOK'
<1>1. cur \in RunId BY AtRun DEF Top, At, NoRunPCs
<1>2. ProcOK'
  BY <1>1, GotoOK, RunPcFacts DEF Top, TypeOK, RunPCs
<1> QED BY <1>2, FrameOK DEF Top, TypeOK

LEMMA KillStopOK == ASSUME TypeOK, KillStop PROVE TypeOK'
<1>1. cur \in RunId BY AtRun DEF KillStop, At, NoRunPCs
<1>2. ProcOK'
  BY <1>1, GotoOK, EscapeOK, RunPcFacts DEF KillStop, TypeOK, RunPCs
<1>3. StoreOK' BY DEF KillStop, TypeOK, StoreOK, SetStatus, RunStatus, LoopStates
<1> QED BY <1>2, <1>3, FrameOK DEF KillStop, TypeOK

LEMMA BudgetOK == ASSUME TypeOK, Budget PROVE TypeOK'
<1>1. cur \in RunId BY AtRun DEF Budget, At, NoRunPCs
<1>2. ProcOK'
  BY <1>1, GotoOK, EscapeOK, RunPcFacts DEF Budget, TypeOK, RunPCs
<1>3. StoreOK' BY <1>1 DEF Budget, TypeOK, StoreOK
<1> QED BY <1>2, <1>3, FrameOK DEF Budget, TypeOK

LEMMA StopEventOK == ASSUME TypeOK, StopEvent PROVE TypeOK'
<1>1. cur \in RunId BY AtRun DEF StopEvent, At, NoRunPCs
<1>2. ProcOK'
  BY ResetOK DEF StopEvent, NoRunPCs
<1>3. StoreOK' BY AppendOK DEF StopEvent, TypeOK, EventTypes
<1> QED BY <1>2, <1>3, FrameOK DEF StopEvent, TypeOK

LEMMA PickNoneOK == ASSUME TypeOK, PickNone PROVE TypeOK'
<1>1. cur \in RunId BY AtRun DEF PickNone, At, NoRunPCs
<1>2. ProcOK'
  BY <1>1, GotoOK, RunPcFacts DEF PickNone, TypeOK, RunPCs
<1> QED BY <1>2, FrameOK DEF PickNone, TypeOK

LEMMA CompleteOK == ASSUME TypeOK, Complete PROVE TypeOK'
<1>1. cur \in RunId BY AtRun DEF Complete, At, NoRunPCs
<1>2. ProcOK'
  BY <1>1, EscapeOK, ResetOK, RunPcFacts DEF Complete, TypeOK, RunPCs, NoRunPCs
<1>3. StoreOK' BY AppendOK DEF Complete, TypeOK, EventTypes
<1> QED BY <1>2, <1>3, FrameOK DEF Complete, TypeOK

LEMMA StructuredStopOK == ASSUME TypeOK, StructuredStop PROVE TypeOK'
<1>1. cur \in RunId BY AtRun DEF StructuredStop, At, NoRunPCs
<1>2. ProcOK'
  BY <1>1, GotoOK, ResetOK, RunPcFacts DEF StructuredStop, TypeOK, RunPCs, NoRunPCs
<1>3. StoreOK' BY SetStatusOK DEF StructuredStop, TypeOK, RunStatus
<1> QED BY <1>2, <1>3, FrameOK DEF StructuredStop, TypeOK

-----------------------------------------------------------------------------
(* One ticket *)

\* A move of runTicket, and one that passes the ticket explicitly.
LEMMA EnterTypeOK ==
  ASSUME NEW to \in LoopStates, NEW next \in PCs \ NoRunPCs,
         TypeOK, cur \in RunId, tk \in Ticket, Enter(to, next)
  PROVE  TypeOK'
<1>1. ProcOK' BY EnterOK DEF TypeOK
<1>2. StoreOK'
  <2>1. CASE UNCHANGED <<status, phase, held>>
    BY <2>1 DEF StoreOK, TypeOK, Enter, MoveRest
  <2>2. CASE Persist(to, held[cur])
    BY <2>2, PersistOK DEF Enter, MoveRest, StoreOK, TypeOK
  <2> QED BY <2>1, <2>2 DEF Enter, Move
<1>3. (Fault \/ Fine) /\ MoveRest BY DEF Enter, Move
<1> QED BY <1>1, <1>2, <1>3, FrameOK DEF TypeOK, MoveRest

LEMMA EnterExecuteOK == ASSUME TypeOK, EnterExecute PROVE TypeOK'
<1>1. cur \in RunId /\ tk \in Ticket
  BY AtTicket DEF EnterExecute, At, TicketPCs, PCs, NoRunPCs, RunPCs
<1> QED BY <1>1, EnterTypeOK DEF EnterExecute, LoopStates, TicketPCs, PCs, NoRunPCs, RunPCs

LEMMA EnterPlanOK == ASSUME TypeOK, EnterPlan PROVE TypeOK'
<1>1. cur \in RunId /\ tk \in Ticket
  BY AtTicket DEF EnterPlan, At, TicketPCs, PCs, NoRunPCs, RunPCs
<1> QED BY <1>1, EnterTypeOK DEF EnterPlan, LoopStates, TicketPCs, PCs, NoRunPCs, RunPCs

LEMMA EnterReviewOK == ASSUME TypeOK, EnterReview PROVE TypeOK'
<1>1. cur \in RunId /\ tk \in Ticket
  BY AtTicket DEF EnterReview, At, TicketPCs, PCs, NoRunPCs, RunPCs
<1> QED BY <1>1, EnterTypeOK DEF EnterReview, LoopStates, TicketPCs, PCs, NoRunPCs, RunPCs

LEMMA EnterCloseOK == ASSUME TypeOK, EnterClose PROVE TypeOK'
<1>1. cur \in RunId /\ tk \in Ticket
  BY AtTicket DEF EnterClose, At, TicketPCs, PCs, NoRunPCs, RunPCs
<1> QED BY <1>1, EnterTypeOK DEF EnterClose, LoopStates, TicketPCs, PCs, NoRunPCs, RunPCs

LEMMA EnterMergeGateOK == ASSUME TypeOK, EnterMergeGate PROVE TypeOK'
<1>1. cur \in RunId /\ tk \in Ticket
  BY AtTicket DEF EnterMergeGate, At, TicketPCs, PCs, NoRunPCs, RunPCs
<1> QED BY <1>1, EnterTypeOK DEF EnterMergeGate, LoopStates, TicketPCs, PCs, NoRunPCs, RunPCs

LEMMA CreateWorktreeOK == ASSUME TypeOK, CreateWorktree PROVE TypeOK'
<1>1. cur \in RunId /\ tk \in Ticket
  BY AtTicket DEF CreateWorktree, At, TicketPCs, PCs, NoRunPCs, RunPCs
<1>2. ProcOK'
  BY <1>1, GotoOK, TicketPcFacts DEF CreateWorktree, TypeOK, TicketPCs, PCs, NoRunPCs, RunPCs
<1>3. RepoOK' BY <1>1 DEF CreateWorktree, TypeOK, RepoOK
<1> QED BY <1>2, <1>3, FrameOK DEF CreateWorktree, TypeOK

LEMMA SlashCommandOK == ASSUME TypeOK, SlashCommand PROVE TypeOK'
<1>1. cur \in RunId /\ tk \in Ticket
  BY AtTicket DEF SlashCommand, At, TicketPCs, PCs, NoRunPCs, RunPCs
<1>2. ProcOK'
  BY <1>1, GotoOK, ThrowOK, TicketPcFacts DEF SlashCommand, TypeOK, TicketPCs, PCs, NoRunPCs, RunPCs
<1> QED BY <1>2, FrameOK DEF SlashCommand, TypeOK

LEMMA PlanTicketOK == ASSUME TypeOK, PlanTicket PROVE TypeOK'
<1>1. cur \in RunId /\ tk \in Ticket
  BY AtTicket DEF PlanTicket, At, TicketPCs, PCs, NoRunPCs, RunPCs
<1>2. ProcOK'
  BY <1>1, GotoOK, ThrowOK, TicketPcFacts DEF PlanTicket, TypeOK, TicketPCs, PCs, NoRunPCs, RunPCs
<1>3. StoreOK' BY <1>1, AppendOK DEF PlanTicket, TypeOK, EventTypes
<1> QED BY <1>2, <1>3, FrameOK DEF PlanTicket, TypeOK

LEMMA ReviewedOK == ASSUME TypeOK, Reviewed PROVE TypeOK'
<1>1. cur \in RunId /\ tk \in Ticket
  BY AtTicket DEF Reviewed, At, TicketPCs, PCs, NoRunPCs, RunPCs
<1>2. ProcOK'
  BY <1>1, GotoOK, ThrowOK, TicketPcFacts DEF Reviewed, TypeOK, TicketPCs, PCs, NoRunPCs, RunPCs
<1>3. StoreOK' BY <1>1, AppendOK DEF Reviewed, TypeOK, EventTypes
<1> QED BY <1>2, <1>3, FrameOK DEF Reviewed, TypeOK

LEMMA CloseTicketOK == ASSUME TypeOK, CloseTicket PROVE TypeOK'
<1>1. cur \in RunId /\ tk \in Ticket
  BY AtTicket DEF CloseTicket, At, TicketPCs, PCs, NoRunPCs, RunPCs
<1>2. ProcOK'
  BY <1>1, GotoOK, ThrowOK, TicketPcFacts DEF CloseTicket, TypeOK, TicketPCs, PCs, NoRunPCs, RunPCs
<1>3. RepoOK' BY <1>1 DEF CloseTicket, TypeOK, RepoOK
<1> QED BY <1>2, <1>3, FrameOK DEF CloseTicket, TypeOK

LEMMA ClosedEventOK == ASSUME TypeOK, ClosedEvent PROVE TypeOK'
<1>1. cur \in RunId /\ tk \in Ticket
  BY AtTicket DEF ClosedEvent, At, TicketPCs, PCs, NoRunPCs, RunPCs
<1>2. ProcOK'
  BY <1>1, GotoOK, ThrowOK, TicketPcFacts DEF ClosedEvent, TypeOK, TicketPCs, PCs, NoRunPCs, RunPCs
<1>3. StoreOK' BY <1>1, AppendOK DEF ClosedEvent, TypeOK, EventTypes
<1> QED BY <1>2, <1>3, FrameOK DEF ClosedEvent, TypeOK

LEMMA GateOK == ASSUME TypeOK, Gate PROVE TypeOK'
<1>1. cur \in RunId /\ tk \in Ticket
  BY AtTicket DEF Gate, At, TicketPCs, PCs, NoRunPCs, RunPCs
<1>2. ProcOK'
  BY <1>1, GotoOK, ThrowOK, TicketPcFacts DEF Gate, TypeOK, TicketPCs, PCs, NoRunPCs, RunPCs
<1>3. StoreOK' BY <1>1, AppendOK DEF Gate, TypeOK, EventTypes
<1> QED BY <1>2, <1>3, FrameOK DEF Gate, TypeOK

LEMMA MarkEscalatedOK == ASSUME TypeOK, MarkEscalated PROVE TypeOK'
<1>1. cur \in RunId /\ tk \in Ticket
  BY AtTicket DEF MarkEscalated, At, TicketPCs, PCs, NoRunPCs, RunPCs
<1>2. ProcOK'
  BY <1>1, GotoOK, ThrowOK, TicketPcFacts DEF MarkEscalated, TypeOK, TicketPCs, PCs, NoRunPCs, RunPCs
<1> QED BY <1>2, FrameOK DEF MarkEscalated, TypeOK

LEMMA CleanupWorktreeOK == ASSUME TypeOK, CleanupWorktree PROVE TypeOK'
<1>1. cur \in RunId /\ tk \in Ticket
  BY AtTicket DEF CleanupWorktree, At, TicketPCs, PCs, NoRunPCs, RunPCs
<1>2. ProcOK'
  BY <1>1, GotoOK, TicketPcFacts DEF CleanupWorktree, TypeOK, TicketPCs, PCs, NoRunPCs, RunPCs
<1>3. RepoOK' BY <1>1 DEF CleanupWorktree, TypeOK, RepoOK
<1> QED BY <1>2, <1>3, FrameOK DEF CleanupWorktree, TypeOK

LEMMA FlagOK == ASSUME TypeOK, Flag PROVE TypeOK'
<1>1. cur \in RunId /\ tk \in Ticket
  BY AtTicket DEF Flag, At, TicketPCs, PCs, NoRunPCs, RunPCs
<1>2. ProcOK'
  BY <1>1, GotoOK, ThrowOK, TicketPcFacts DEF Flag, TypeOK, TicketPCs, PCs, NoRunPCs, RunPCs
<1>3. StoreOK' BY <1>1, AppendOK DEF Flag, TypeOK, EventTypes
<1> QED BY <1>2, <1>3, FrameOK DEF Flag, TypeOK

-----------------------------------------------------------------------------
(* The actions with a shape of their own *)

LEMMA BootOK == ASSUME TypeOK, Boot PROVE TypeOK'
<1>1. ProcOK'
  <2>1. CASE Reset("open") BY <2>1, ResetOK DEF NoRunPCs
  <2>2. ASSUME NEW r \in RunId, Resumable(r),
               pc' = "reattach", cur' = r, tk' = held[r], resumed' = TRUE,
               mirror' = phase[r], n' = 1,
               UNCHANGED <<catching, verdict, tally, refused>>
        PROVE  ProcOK'
    <3>1. tk' \in Ticket BY <2>2 DEF Resumable, TypeOK, StoreOK
    <3>2. mirror' \in LoopStates BY <2>2 DEF TypeOK, StoreOK
    <3>3. "reattach" \in PCs BY DEF PCs
    <3> QED BY <2>2, <3>1, <3>2, <3>3 DEF TypeOK, ProcOK, tally
  <2> QED BY <2>1, <2>2 DEF Boot
<1> QED BY <1>1, FrameOK DEF Boot, TypeOK

LEMMA ReattachOK == ASSUME TypeOK, Reattach PROVE TypeOK'
<1>1. cur \in RunId /\ tk \in Ticket
  BY AtTicket DEF Reattach, At, TicketPCs, PCs, NoRunPCs, RunPCs
<1>2. ProcOK'
  BY <1>1, GotoOK, EscapeOK, TicketPcFacts
  DEF Reattach, TypeOK, TicketPCs, PCs, NoRunPCs, RunPCs
<1>3. TreeOK' BY <1>1 DEF Reattach, TypeOK, TreeOK
<1> QED BY <1>2, <1>3, FrameOK DEF Reattach, TypeOK

LEMMA OpenRunOK == ASSUME TypeOK, OpenRun PROVE TypeOK'
<1>1. ProcOK'
  <2>1. CASE Reset("off") BY <2>1, ResetOK DEF NoRunPCs
  <2>2. ASSUME NEW r \in RunId, pc' = "refine", cur' = r,
               UNCHANGED <<tk, resumed, turn, tally, refused>>
        PROVE  ProcOK'
    BY <2>2, RunPcFacts DEF TypeOK, ProcOK, turn, tally, RunPCs
  <2> QED BY <2>1, <2>2 DEF OpenRun
<1>2. StoreOK' BY DEF OpenRun, TypeOK, StoreOK, RunStatus
<1> QED BY <1>1, <1>2, FrameOK DEF OpenRun, TypeOK

LEMMA TripOK == ASSUME TypeOK, Trip PROVE TypeOK'
<1>1. cur \in RunId BY AtRun DEF Trip, At, NoRunPCs
<1> QED BY <1>1, AdvanceOK DEF Trip, LoopStates, RunPCs

LEMMA PickOK == ASSUME TypeOK, Pick PROVE TypeOK'
<1>1. cur \in RunId BY AtRun DEF Pick, At, NoRunPCs
<1>2. PICK t \in Ticket :
        \/ /\ Fine /\ Append("ticket.started", t)
           /\ pc' = "start" /\ tk' = t /\ mirror' = "SelectTicket" /\ n' = 1
           /\ catching' = FALSE /\ verdict' = "ESCALATE"
           /\ UNCHANGED <<cur, resumed, tally, refused>>
        \/ /\ Fault /\ Escape("other")
           /\ UNCHANGED log \/ Append("ticket.started", t)
  BY DEF Pick, Ready, Eligible, LoopReady
<1>3. ProcOK'
  <2>1. CASE Escape("other") BY <1>1, <2>1, EscapeOK DEF TypeOK
  <2>2. CASE /\ pc' = "start" /\ tk' = t /\ mirror' = "SelectTicket" /\ n' = 1
             /\ catching' = FALSE /\ verdict' = "ESCALATE"
             /\ UNCHANGED <<cur, resumed, tally, refused>>
    <3>1. mirror' \in LoopStates /\ verdict' \in Verdicts /\ catching' \in BOOLEAN
      BY <2>2 DEF LoopStates, Verdicts
    <3>2. pc' \in PCs /\ n' \in Nat BY <2>2 DEF PCs
    <3>3. tk' \in Ticket /\ cur' \in RunId BY <1>1, <2>2
    <3>4. UNCHANGED <<resumed, skipped, count, refused>> BY <2>2 DEF tally
    <3> QED BY <3>1, <3>2, <3>3, <3>4 DEF TypeOK, ProcOK
  <2> QED BY <1>2, <2>1, <2>2
<1>4. StoreOK' BY <1>2, AppendOK DEF Pick, TypeOK, EventTypes
<1>5. Fault \/ Fine BY <1>2
<1> QED BY <1>3, <1>4, <1>5, FrameOK DEF Pick, TypeOK

LEMMA TicketEndOK == ASSUME TypeOK, TicketEnd PROVE TypeOK'
<1>1. cur \in RunId /\ tk \in Ticket
  BY AtTicket DEF TicketEnd, At, TicketPCs, PCs, NoRunPCs, RunPCs
<1>2. ProcOK'
  <2>1. CASE Goto("finish")
    BY <1>1, <2>1, GotoOK, RunPcFacts DEF TypeOK, RunPCs
  <2>2. CASE Escape("other") BY <1>1, <2>2, EscapeOK DEF TypeOK
  <2>3. CASE /\ pc' = "top" /\ count' = count + 1
             /\ skipped' = skipped \cup {t \in {tk} : Has(cur, "ticket.flagged", t)}
             /\ UNCHANGED <<job, turn, refused>>
    BY <1>1, <2>3, RunPcFacts DEF TypeOK, ProcOK, job, turn, RunPCs
  <2> QED BY <2>1, <2>2, <2>3 DEF TicketEnd
<1>3. StoreOK' BY <1>1 DEF TicketEnd, TypeOK, StoreOK
<1> QED BY <1>2, <1>3, FrameOK DEF TicketEnd, TypeOK

LEMMA StartTicketOK == ASSUME TypeOK, StartTicket PROVE TypeOK'
<1>1. cur \in RunId /\ tk \in Ticket
  BY AtTicket DEF StartTicket, At, TicketPCs, PCs, NoRunPCs, RunPCs
<1>2. ProcOK'
  <2>1. CASE Goto("flag")
    BY <1>1, <2>1, GotoOK DEF TypeOK, PCs, NoRunPCs
  <2>2. CASE Deny("StartTicket") BY <1>1, <2>2, DenyOK DEF TypeOK
  <2>3. CASE pc' = "worktree" /\ mirror' = "StartTicket"
             /\ UNCHANGED <<job, catching, n, verdict, tally, refused>>
    BY <1>1, <2>3 DEF TypeOK, ProcOK, job, tally, LoopStates, PCs
  <2> QED BY <2>1, <2>2, <2>3 DEF StartTicket, Move
<1>3. StoreOK'
  BY <1>1, PersistOK, FrameOK
  DEF StartTicket, Move, MoveRest, TypeOK, LoopStates, runVars
<1>4. (Fault \/ Fine) /\ MoveRest BY DEF StartTicket, Move
<1> QED BY <1>2, <1>3, <1>4, FrameOK DEF TypeOK, MoveRest

LEMMA BackToSelectOK == ASSUME TypeOK, BackToSelect PROVE TypeOK'
<1>1. cur \in RunId /\ tk \in Ticket
  BY AtTicket DEF BackToSelect, At, TicketPCs, PCs, NoRunPCs, RunPCs
<1>2. ProcOK'
  <2>1. CASE Throw("other") BY <1>1, <2>1, ThrowOK DEF TypeOK
  <2>2. CASE Deny("SelectTicket") BY <1>1, <2>2, DenyOK DEF TypeOK
  <2>3. CASE pc' = "ticketEnd" /\ mirror' = "SelectTicket"
             /\ UNCHANGED <<job, catching, n, verdict, tally, refused>>
    BY <1>1, <2>3 DEF TypeOK, ProcOK, job, tally, LoopStates, PCs
  <2> QED BY <2>1, <2>2, <2>3 DEF BackToSelect, Move
<1>3. StoreOK'
  BY <1>1, PersistOK, FrameOK
  DEF BackToSelect, Move, MoveRest, TypeOK, LoopStates, runVars
<1>4. (Fault \/ Fine) /\ MoveRest BY DEF BackToSelect, Move
<1> QED BY <1>2, <1>3, <1>4, FrameOK DEF TypeOK, MoveRest

LEMMA AgainOK ==
  ASSUME NEW p \in PCs \ NoRunPCs, Again(p), ProcOK, cur \in RunId, tk \in Ticket
  PROVE  ProcOK'
BY DEF Again, ProcOK, job, tally

LEMMA BuilderTurnOK ==
  ASSUME TypeOK, NEW here \in TicketPCs, NEW site \in EventTypes,
         NEW next \in TicketPCs, BuilderTurn(here, site, next)
  PROVE  TypeOK'
<1>1. cur \in RunId /\ tk \in Ticket BY AtTicket DEF BuilderTurn, At
<1>2. ProcOK'
  BY <1>1, GotoOK, ThrowOK, TicketPcFacts DEF BuilderTurn, TypeOK
<1>3. StoreOK' BY <1>1, AppendOK DEF BuilderTurn, TypeOK, Started
<1>4. TreeOK' BY <1>1 DEF BuilderTurn, TypeOK, TreeOK
<1> QED BY <1>2, <1>3, <1>4, FrameOK DEF BuilderTurn, TypeOK

LEMMA BuildOK == ASSUME TypeOK, Build PROVE TypeOK'
BY BuilderTurnOK DEF Build, EventTypes, TicketPCs, PCs, NoRunPCs, RunPCs

LEMMA RefixOK == ASSUME TypeOK, Refix PROVE TypeOK'
BY BuilderTurnOK DEF Refix, EventTypes, TicketPCs, PCs, NoRunPCs, RunPCs

LEMMA VerifyOK == ASSUME TypeOK, Verify PROVE TypeOK'
<1>1. cur \in RunId /\ tk \in Ticket
  BY AtTicket DEF Verify, Verification, At, TicketPCs, PCs, NoRunPCs, RunPCs
<1>2. ProcOK'
  BY <1>1, GotoOK, AgainOK, ThrowOK
  DEF Verify, Verification, TypeOK, TicketPCs, PCs, NoRunPCs, RunPCs
<1>3. StoreOK' BY <1>1, AppendOK DEF Verify, Verification, TypeOK, Started, EventTypes
<1>4. TreeOK' BY <1>1 DEF Verify, Verification, TypeOK, TreeOK
<1> QED BY <1>2, <1>3, <1>4, FrameOK DEF Verify, Verification, TypeOK

LEMMA ReverifyOK == ASSUME TypeOK, Reverify PROVE TypeOK'
<1>1. cur \in RunId /\ tk \in Ticket
  BY AtTicket DEF Reverify, Verification, At, TicketPCs, PCs, NoRunPCs, RunPCs
<1>2. ProcOK'
  BY <1>1, GotoOK, AgainOK, ThrowOK
  DEF Reverify, Verification, TypeOK, TicketPCs, PCs, NoRunPCs, RunPCs
<1>3. StoreOK' BY <1>1, AppendOK DEF Reverify, Verification, TypeOK, Started, EventTypes
<1>4. TreeOK' BY <1>1 DEF Reverify, Verification, TypeOK, TreeOK
<1> QED BY <1>2, <1>3, <1>4, FrameOK DEF Reverify, Verification, TypeOK

LEMMA RecordVerificationOK == ASSUME TypeOK, RecordVerification PROVE TypeOK'
<1>1. cur \in RunId /\ tk \in Ticket
  BY AtTicket DEF RecordVerification, At, TicketPCs, PCs, NoRunPCs, RunPCs
<1>2. ProcOK'
  <2>1. CASE pc' = "enterReview" /\ n' = 1
             /\ UNCHANGED <<job, catching, mirror, verdict, tally, refused>>
    BY <1>1, <2>1 DEF TypeOK, ProcOK, job, tally, PCs
  <2>2. CASE Throw("other") BY <1>1, <2>2, ThrowOK DEF TypeOK
  <2>3. CASE Goto("flag") \/ Goto("enterPlan")
    BY <1>1, <2>3, GotoOK DEF TypeOK, PCs, NoRunPCs
  <2> QED BY <2>1, <2>2, <2>3 DEF RecordVerification
<1>3. StoreOK' BY <1>1, AppendOK DEF RecordVerification, TypeOK, EventTypes
<1> QED BY <1>2, <1>3, FrameOK DEF RecordVerification, TypeOK

LEMMA ReviewOK == ASSUME TypeOK, Review PROVE TypeOK'
<1>1. cur \in RunId /\ tk \in Ticket
  BY AtTicket DEF Review, At, TicketPCs, PCs, NoRunPCs, RunPCs
<1>2. ProcOK'
  <2>1. CASE Throw("other") BY <1>1, <2>1, ThrowOK DEF TypeOK
  <2>2. CASE Goto("refix") BY <1>1, <2>2, GotoOK DEF TypeOK, PCs, NoRunPCs
  <2>3. CASE Verdict("APPROVE") \/ Verdict("ESCALATE")
    BY <1>1, <2>3 DEF Verdict, Verdicts, TypeOK, ProcOK, job, tally, PCs
  <2> QED BY <2>1, <2>2, <2>3 DEF Review
<1>3. StoreOK' BY <1>1, AppendOK DEF Review, TypeOK, Started, EventTypes
<1>4. TreeOK' BY <1>1 DEF Review, TypeOK, TreeOK
<1> QED BY <1>2, <1>3, <1>4, FrameOK DEF Review, TypeOK

LEMMA RemotelyOK ==
  ASSUME TypeOK, NEW here \in TicketPCs, NEW to \in RemoteStates,
         NEW next \in TicketPCs, Remotely(here, to, next)
  PROVE  TypeOK'
<1>1. cur \in RunId /\ tk \in Ticket BY AtTicket DEF Remotely, At
<1>2. ProcOK' BY <1>1, GotoOK, ThrowOK, TicketPcFacts DEF Remotely, TypeOK
<1>3. RepoOK' BY <1>1 DEF Remotely, TypeOK, RepoOK
<1> QED BY <1>2, <1>3, FrameOK DEF Remotely, TypeOK

LEMMA RemoteOK == ASSUME TypeOK, Push \/ CreatePr \/ MergePr PROVE TypeOK'
BY RemotelyOK
DEF Push, CreatePr, MergePr, RemoteStates, TicketPCs, PCs, NoRunPCs, RunPCs

LEMMA RouteOK == ASSUME TypeOK, Route PROVE TypeOK'
<1>1. cur \in RunId /\ tk \in Ticket
  BY AtTicket DEF Route, RouteFrom, At, TicketPCs, PCs, NoRunPCs, RunPCs
<1>2. ASSUME NEW at, NEW here, RouteFrom(here, at) PROVE TypeOK'
  <2>1. CASE at \in DOMAIN FailureRoute /\ Enter(FailureRoute[at], "backToSelect")
    <3>1. FailureRoute[at] \in LoopStates
      BY <2>1 DEF FailureRoute, LoopStates
    <3>2. "backToSelect" \in PCs \ NoRunPCs BY DEF PCs, NoRunPCs
    <3> QED BY <1>1, <2>1, <3>1, <3>2, EnterTypeOK
  <2>2. CASE /\ Goto("ticketEnd") \/ Goto("backToSelect")
             /\ UNCHANGED <<runVars, repoVars, treeVars, envVars>>
    <3>1. ProcOK' BY <1>1, <2>2, GotoOK DEF TypeOK, PCs, NoRunPCs
    <3> QED BY <2>2, <3>1, FrameOK DEF TypeOK
  <2> QED BY <1>2, <2>1, <2>2 DEF RouteFrom
<1> QED BY <1>2 DEF Route

LEMMA EnvironmentOK == ASSUME TypeOK, Crash \/ HumanPull PROVE TypeOK'
<1>1. CASE Crash
  <2>1. ProcOK' BY <1>1, ResetOK DEF Crash, NoRunPCs
  <2>2. EnvOK' BY <1>1 DEF Crash, TypeOK, EnvOK
  <2> QED BY <1>1, <2>1, <2>2, FrameOK DEF Crash, TypeOK
<1>2. CASE HumanPull
  <2>1. RepoOK' BY <1>2 DEF HumanPull, TypeOK, RepoOK
  <2> QED BY <1>2, <2>1, FrameOK DEF HumanPull, TypeOK
<1> QED BY <1>1, <1>2

-----------------------------------------------------------------------------
(* Type correctness *)

LEMMA TypeInit == Init => TypeOK
<1> SUFFICES ASSUME Init PROVE TypeOK OBVIOUS
<1>1. StoreOK BY DEF Init, StoreOK, RunStatus, LoopStates
<1>2. RepoOK /\ TreeOK BY DEF Init, RepoOK, TreeOK, RemoteStates
<1>3. ProcOK
  BY DEF Init, ProcOK, PCs, NoRunPCs, TicketPCs, LoopStates, Verdicts
<1>4. EnvOK BY DEF Init, EnvOK
<1> QED BY <1>1, <1>2, <1>3, <1>4 DEF TypeOK

LEMMA TypeStep == TypeOK /\ [Next]_vars => TypeOK'
<1> SUFFICES ASSUME TypeOK, [Next]_vars PROVE TypeOK' OBVIOUS
<1>1. CASE ProcessStep
  BY <1>1, ReattachOK, ResumeSkipOK, ResumeSkipEventOK, OpenRunOK, RefineOK,
     RefineSelectOK, RefineEnterOK, RefiningOK, RefineBackOK, TopOK, SelectOK,
     KillStopOK, BudgetOK, TripOK, StopEventOK, PickOK, PickNoneOK, TicketEndOK,
     FinishOK, CompleteOK, StructuredStopOK, StartTicketOK, CreateWorktreeOK,
     SlashCommandOK, EnterExecuteOK, BuildOK, VerifyOK, RecordVerificationOK,
     EnterPlanOK, PlanTicketOK, EnterReviewOK, ReviewOK, RefixOK, ReverifyOK,
     ReviewedOK, EnterCloseOK, CloseTicketOK, ClosedEventOK, RemoteOK,
     EnterMergeGateOK, GateOK, MarkEscalatedOK, CleanupWorktreeOK,
     BackToSelectOK, FlagOK, RouteOK
  DEF ProcessStep
<1>2. CASE Boot \/ Crash \/ HumanPull BY <1>2, BootOK, EnvironmentOK
<1>3. CASE UNCHANGED vars BY <1>3, FrameOK DEF vars, TypeOK
<1> QED BY <1>1, <1>2, <1>3 DEF Next

\* For any tickets, bounds and options, through crashes, faults and resumes:
\* every variable keeps its type, and the process never works at a run's place
\* without a run, nor at a ticket's place without a ticket.
THEOREM TypeCorrect == Spec => []TypeOK
BY TypeInit, TypeStep, PTL DEF Spec

-----------------------------------------------------------------------------
(* The safety of trees, closes and merges *)

\* Places at which IndInv says nothing of the ticket in hand.
QuietPCs == PCs \ (BuildingPCs \cup ClosedPCs \cup {"worktree", "reattach"})

\* No run becomes resumable, and those that stay so keep their ticket.
StoreKept ==
  \A r \in RunId : phase'[r] \in BuilderPhases =>
    phase[r] \in BuilderPhases /\ held'[r] = held[r]

\* What is closed stays closed, with what is known of it.
TreeKept == /\ closed' = closed /\ branch \subseteq branch'
            /\ blind \subseteq blind'
            /\ closed \cap verified \subseteq verified'
            /\ closed \cap approved \subseteq approved'

\* Nothing of a ticket that is not closed reaches the remote, and a merge is
\* gated.
RemoteKept ==
  \A t \in Ticket :
    /\ t \notin closed => remote'[t] = remote[t]
    /\ remote'[t] = "merged" =>
         \/ remote[t] = "merged"
         \/ t \in closed \cap approved /\ AutonomyCeiling = "autopilot"

Unshipped == \A t \in Ticket : t \notin closed => remote[t] = "none"

-----------------------------------------------------------------------------
(* Lemmas on what a step keeps *)

LEMMA ResumablesKept ==
  ASSUME IndInv, StoreKept, TreeKept PROVE Resumables'
<1>1. closed' \subseteq branch' BY DEF IndInv, Resumables, TreeKept
<1>2. \A r \in RunId : phase'[r] \in BuilderPhases => held'[r] \in branch' \ closed'
  BY DEF IndInv, Resumables, TreeKept, StoreKept
<1>3. \A r, q \in RunId :
        {phase'[r], phase'[q]} \subseteq BuilderPhases /\ held'[r] = held'[q] => r = q
  BY DEF IndInv, Resumables, StoreKept
<1> QED BY <1>1, <1>2, <1>3 DEF Resumables, BuilderPhases

LEMMA RepoKept ==
  ASSUME IndInv, TreeKept, RemoteKept
  PROVE  ClosedVerifiedUnlessBlind' /\ MergedIsGated' /\ Unshipped'
<1>1. ClosedVerifiedUnlessBlind'
  BY DEF IndInv, TreeKept, ClosedVerifiedUnlessBlind
<1>2. MergedIsGated' BY DEF IndInv, TreeKept, RemoteKept, MergedIsGated
<1>3. Unshipped' BY DEF IndInv, TreeKept, RemoteKept, Shipped, Unshipped
<1> QED BY <1>1, <1>2, <1>3

LEMMA QuietOK ==
  ASSUME IndInv, pc' \in QuietPCs, Resumables', TreeKept, RemoteKept
  PROVE  IndInv'
<1>1. InHand'
  BY DEF InHand, QuietPCs, BuildingPCs, ClosedPCs
<1>2. Known' BY DEF Known, QuietPCs, BuildingPCs, ClosedPCs
<1>3. ClosedVerifiedUnlessBlind' /\ MergedIsGated' /\ Unshipped' BY RepoKept
<1>4. Shipped' BY <1>3 DEF Shipped, Unshipped, QuietPCs, ClosedPCs
<1> QED BY <1>1, <1>2, <1>3, <1>4 DEF IndInv

\* Where an error leads, nothing is claimed.
LEMMA ErrorIsQuiet ==
  /\ \A k : Escape(k) => pc' \in QuietPCs
  /\ \A k : Throw(k) => pc' \in QuietPCs
  /\ \A to : Deny(to) => pc' \in QuietPCs
  /\ \A p \in NoRunPCs : Reset(p) => pc' \in QuietPCs
<1> {"resumeSkip", "off", "structuredStop", "flag", "open"} \subseteq QuietPCs
  BY DEF QuietPCs, PCs, BuildingPCs, ClosedPCs
<1>1. \A k : Escape(k) => pc' \in QuietPCs BY DEF Escape, Goto, Reset
<1>2. \A k : Throw(k) => pc' \in QuietPCs BY <1>1 DEF Throw
<1>3. \A to : Deny(to) => pc' \in QuietPCs BY DEF Deny
<1>4. \A p \in NoRunPCs : Reset(p) => pc' \in QuietPCs BY DEF Reset, NoRunPCs
<1> QED BY <1>1, <1>2, <1>3, <1>4

\* The same for the quiet places of the loop.
LEMMA RunIsQuiet == \A p \in RunPCs \cup NoRunPCs : p \in QuietPCs
BY DEF RunPCs, NoRunPCs, QuietPCs, PCs, BuildingPCs, ClosedPCs

LEMMA SameIsKept ==
  /\ UNCHANGED <<phase, held>> => StoreKept
  /\ UNCHANGED <<branch, closed, verified, approved, blind>> => TreeKept
  /\ UNCHANGED repoVars /\ UNCHANGED treeVars => TreeKept
  /\ UNCHANGED remote => RemoteKept
  /\ UNCHANGED repoVars => RemoteKept
BY DEF StoreKept, TreeKept, RemoteKept, repoVars, treeVars

LEMMA PersistKeeps ==
  ASSUME TypeOK, cur \in RunId, NEW to \in LoopStates \ BuilderPhases, NEW t,
         Persist(to, t)
  PROVE  StoreKept
BY DEF Persist, StoreKept, TypeOK, StoreOK

\* A step of the loop itself, a move of it included.
LEMMA QuietStep ==
  ASSUME IndInv, pc' \in QuietPCs, StoreKept, UNCHANGED repoVars, UNCHANGED treeVars
  PROVE  IndInv'
BY QuietOK, ResumablesKept, SameIsKept

LEMMA AdvanceInd ==
  ASSUME TypeOK, IndInv, cur \in RunId, NEW to \in LoopStates \ BuilderPhases,
         NEW next \in RunPCs, Advance(to, next)
  PROVE  IndInv'
<1>1. pc' \in QuietPCs BY ErrorIsQuiet, RunIsQuiet DEF Advance, Move
<1>2. StoreKept BY PersistKeeps, SameIsKept DEF Advance, Move
<1> QED BY <1>1, <1>2, QuietStep DEF Advance, MoveRest

\* A step that leaves state.json's phase, the repository and the trees alone.
LEMMA FrameStep ==
  ASSUME IndInv, pc' \in QuietPCs, UNCHANGED <<phase, held>>, UNCHANGED repoVars,
         UNCHANGED treeVars
  PROVE  IndInv'
BY QuietStep, SameIsKept

-----------------------------------------------------------------------------
(* Starting, and the loop *)

\* A resumed ticket is one that its run holds, started and not closed.
LEMMA BootInd == ASSUME TypeOK, IndInv, Boot PROVE IndInv'
<1>1. UNCHANGED runVars /\ UNCHANGED repoVars /\ UNCHANGED treeVars BY DEF Boot
<1>2. CASE Reset("open")
  <2>1. pc' \in QuietPCs BY <1>2, ErrorIsQuiet DEF NoRunPCs
  <2> QED BY <1>1, <2>1, FrameStep DEF runVars
<1>3. ASSUME NEW r \in RunId, Resumable(r), pc' = "reattach", cur' = r, tk' = held[r]
      PROVE  IndInv'
  <2>1. Resumables' /\ ClosedVerifiedUnlessBlind' /\ MergedIsGated' /\ Unshipped'
    BY <1>1, RepoKept, ResumablesKept, SameIsKept DEF runVars
  <2>2. InHand'
    BY <1>1, <1>3 DEF InHand, Resumable, runVars, BuildingPCs, ClosedPCs
  <2>3. Known' BY <1>3 DEF Known
  <2>4. Shipped' BY <1>3, <2>1 DEF Shipped, Unshipped
  <2> QED BY <2>1, <2>2, <2>3, <2>4 DEF IndInv
<1> QED BY <1>2, <1>3 DEF Boot

LEMMA StartingInd ==
  ASSUME TypeOK, IndInv, ResumeSkip \/ ResumeSkipEvent \/ OpenRun \/ Refine \/ Refining
  PROVE  IndInv'
<1>1. pc' \in QuietPCs
  BY ErrorIsQuiet, RunIsQuiet
  DEF ResumeSkip, ResumeSkipEvent, OpenRun, Refine, Refining, Goto, RunPCs, NoRunPCs
<1> QED BY <1>1, FrameStep
        DEF ResumeSkip, ResumeSkipEvent, OpenRun, Refine, Refining, runVars

LEMMA MovesInd ==
  ASSUME TypeOK, IndInv,
         RefineSelect \/ RefineEnter \/ RefineBack \/ Select \/ Trip \/ Finish
  PROVE  IndInv'
<1>1. cur \in RunId
  BY AtRun DEF RefineSelect, RefineEnter, RefineBack, Select, Trip, Finish, At, NoRunPCs
<1>2. {"SelectTicket", "RefineBacklog", "BudgetExceeded", "NoProgress", "Done"}
        \subseteq LoopStates \ BuilderPhases
  BY DEF LoopStates, BuilderPhases
<1>3. {"refineEnter", "refining", "top", "budget", "stopEvent", "complete"}
        \subseteq RunPCs
  BY DEF RunPCs
<1> QED BY <1>1, <1>2, <1>3, AdvanceInd
        DEF RefineSelect, RefineEnter, RefineBack, Select, Trip, Finish

LEMMA LoopInd ==
  ASSUME TypeOK, IndInv,
         Top \/ Budget \/ StopEvent \/ PickNone \/ Complete \/ StructuredStop
  PROVE  IndInv'
<1>1. pc' \in QuietPCs
  BY ErrorIsQuiet, RunIsQuiet
  DEF Top, Budget, StopEvent, PickNone, Complete, StructuredStop, Goto, RunPCs, NoRunPCs
<1> QED BY <1>1, FrameStep
        DEF Top, Budget, StopEvent, PickNone, Complete, StructuredStop, runVars

LEMMA KillStopInd == ASSUME TypeOK, IndInv, KillStop PROVE IndInv'
<1>1. pc' \in QuietPCs
  BY ErrorIsQuiet, RunIsQuiet DEF KillStop, Goto, RunPCs
<1>2. cur \in RunId BY AtRun DEF KillStop, At, NoRunPCs
<1>3. StoreKept
  BY <1>2 DEF KillStop, StoreKept, TypeOK, StoreOK, BuilderPhases
<1> QED BY <1>1, <1>3, QuietStep DEF KillStop

LEMMA PickInd == ASSUME TypeOK, IndInv, Pick PROVE IndInv'
<1>1. pc' \in QuietPCs
  <2>1. "start" \in QuietPCs BY DEF QuietPCs, PCs, BuildingPCs, ClosedPCs
  <2> QED BY <2>1, ErrorIsQuiet DEF Pick
<1> QED BY <1>1, FrameStep DEF Pick

LEMMA TicketEndInd == ASSUME TypeOK, IndInv, TicketEnd PROVE IndInv'
<1>1. pc' \in QuietPCs
  BY ErrorIsQuiet, RunIsQuiet DEF TicketEnd, Goto, RunPCs
<1> QED BY <1>1, FrameStep DEF TicketEnd

LEMMA CrashInd == ASSUME TypeOK, IndInv, Crash PROVE IndInv'
<1>1. pc' \in QuietPCs BY ErrorIsQuiet DEF Crash, NoRunPCs
<1> QED BY <1>1, FrameStep DEF Crash, runVars

\* IndInv does not read the main checkout.
LEMMA SameInd ==
  ASSUME IndInv,
         UNCHANGED <<phase, held, branch, closed, remote, verified, approved, blind,
                     pc, cur, tk, verdict>>
  PROVE  IndInv'
BY DEF IndInv, Resumables, InHand, Sole, Known, Shipped, ClosedVerifiedUnlessBlind,
       MergedIsGated

-----------------------------------------------------------------------------
(* A ticket that is not finished *)

LEMMA FailureInd ==
  ASSUME TypeOK, IndInv, Flag \/ PlanTicket \/ MarkEscalated
  PROVE  IndInv'
<1>1. pc' \in QuietPCs
  <2>1. {"route", "routeMirror", "backToSelect", "cleanup"} \subseteq QuietPCs
    BY DEF QuietPCs, PCs, BuildingPCs, ClosedPCs
  <2> QED BY <2>1, ErrorIsQuiet DEF Flag, PlanTicket, MarkEscalated, Goto
<1> QED BY <1>1, FrameStep DEF Flag, PlanTicket, MarkEscalated, runVars

LEMMA CleanupInd == ASSUME TypeOK, IndInv, CleanupWorktree PROVE IndInv'
<1>1. pc' \in QuietPCs
  BY DEF CleanupWorktree, Goto, QuietPCs, PCs, BuildingPCs, ClosedPCs
<1>2. Resumables' /\ TreeKept /\ RemoteKept
  BY ResumablesKept, SameIsKept DEF CleanupWorktree, runVars, treeVars
<1> QED BY <1>1, <1>2, QuietOK

LEMMA EnterQuietInd ==
  ASSUME TypeOK, IndInv, cur \in RunId, NEW to \in LoopStates \ BuilderPhases,
         NEW next \in QuietPCs, Enter(to, next)
  PROVE  IndInv'
<1>1. pc' \in QuietPCs BY ErrorIsQuiet DEF Enter, Move
<1>2. StoreKept BY PersistKeeps, SameIsKept DEF Enter, Move
<1> QED BY <1>1, <1>2, QuietStep DEF Enter, MoveRest

LEMMA EnterPlanInd == ASSUME TypeOK, IndInv, EnterPlan PROVE IndInv'
<1>1. cur \in RunId BY AtRun DEF EnterPlan, At, NoRunPCs
<1>2. "plan" \in QuietPCs BY DEF QuietPCs, PCs, BuildingPCs, ClosedPCs
<1> QED BY <1>1, <1>2, EnterQuietInd DEF EnterPlan, LoopStates, BuilderPhases

LEMMA BackToSelectInd == ASSUME TypeOK, IndInv, BackToSelect PROVE IndInv'
<1>1. cur \in RunId BY AtRun DEF BackToSelect, At, NoRunPCs
<1>2. "ticketEnd" \in QuietPCs BY DEF QuietPCs, PCs, BuildingPCs, ClosedPCs
<1>3. pc' \in QuietPCs BY <1>2, ErrorIsQuiet DEF BackToSelect, Move
<1>4. StoreKept
  BY <1>1, PersistKeeps, SameIsKept
  DEF BackToSelect, Move, LoopStates, BuilderPhases
<1> QED BY <1>3, <1>4, QuietStep DEF BackToSelect, MoveRest

LEMMA RouteInd == ASSUME TypeOK, IndInv, Route PROVE IndInv'
<1>1. cur \in RunId BY AtRun DEF Route, RouteFrom, At, NoRunPCs
<1>2. {"ticketEnd", "backToSelect"} \subseteq QuietPCs
  BY DEF QuietPCs, PCs, BuildingPCs, ClosedPCs
<1>3. ASSUME NEW at, NEW here, RouteFrom(here, at) PROVE IndInv'
  <2>1. CASE at \in DOMAIN FailureRoute /\ Enter(FailureRoute[at], "backToSelect")
    <3>1. FailureRoute[at] \in LoopStates \ BuilderPhases
      BY <2>1 DEF FailureRoute, LoopStates, BuilderPhases
    <3> QED BY <1>1, <1>2, <2>1, <3>1, EnterQuietInd
  <2>2. CASE /\ Goto("ticketEnd") \/ Goto("backToSelect")
             /\ UNCHANGED <<runVars, repoVars, treeVars, envVars>>
    <3>1. pc' \in QuietPCs BY <1>2, <2>2 DEF Goto
    <3> QED BY <2>2, <3>1, FrameStep DEF runVars
  <2> QED BY <1>3, <2>1, <2>2 DEF RouteFrom
<1> QED BY <1>3 DEF Route


-----------------------------------------------------------------------------
(* A ticket from its branch to its close *)

\* From one place of the building to another, the tree changed at most.
LEMMA StayBuilding ==
  ASSUME IndInv, pc \in BuildingPCs, pc' \in BuildingPCs \ {"close"},
         UNCHANGED <<cur, tk, phase, held>>, UNCHANGED repoVars, TreeKept, Known'
  PROVE  IndInv'
<1>1. Resumables' /\ ClosedVerifiedUnlessBlind' /\ MergedIsGated' /\ Unshipped'
  BY RepoKept, ResumablesKept, SameIsKept
<1>2. UNCHANGED <<branch, closed>> BY DEF repoVars
<1>3. InHand' BY <1>2 DEF IndInv, InHand, Sole, BuildingPCs, ClosedPCs
<1>4. Shipped' BY <1>1 DEF Shipped, Unshipped, BuildingPCs
<1> QED BY <1>1, <1>3, <1>4 DEF IndInv

\* An edit of the ticket in hand takes nothing from a closed one.
LEMMA EditKeeps ==
  ASSUME IndInv, pc \in BuildingPCs, UNCHANGED repoVars, UNCHANGED blind,
         verified \ {tk} \subseteq verified', approved \ {tk} \subseteq approved'
  PROVE  TreeKept
<1>1. tk \notin closed BY DEF IndInv, InHand
<1> QED BY <1>1 DEF TreeKept, repoVars

LEMMA ErrorStep ==
  ASSUME IndInv, pc' \in QuietPCs, UNCHANGED <<phase, held>>, UNCHANGED repoVars,
         TreeKept
  PROVE  IndInv'
BY QuietOK, ResumablesKept, SameIsKept

LEMMA StartTicketInd == ASSUME TypeOK, IndInv, StartTicket PROVE IndInv'
<1>1. cur \in RunId BY AtRun DEF StartTicket, At, NoRunPCs
<1>2. StoreKept
  BY <1>1, PersistKeeps, SameIsKept
  DEF StartTicket, Move, LoopStates, BuilderPhases
<1>3. UNCHANGED repoVars /\ UNCHANGED treeVars BY DEF StartTicket, MoveRest
<1>4. CASE pc' \in QuietPCs BY <1>2, <1>3, <1>4, QuietStep
<1>5. CASE /\ pc' = "worktree" /\ UNCHANGED <<cur, tk>>
           /\ Persist("StartTicket", tk)
  <2>1. Resumables' /\ ClosedVerifiedUnlessBlind' /\ MergedIsGated' /\ Unshipped'
    BY <1>2, <1>3, RepoKept, ResumablesKept, SameIsKept
  <2>2. held'[cur] = tk
    BY <1>1, <1>5 DEF Persist, TypeOK, StoreOK, TerminalStates
  <2>3. InHand' /\ Known' /\ Shipped'
    BY <1>5, <2>1, <2>2 DEF InHand, Known, Shipped, Unshipped, BuildingPCs, ClosedPCs
  <2> QED BY <2>1, <2>3 DEF IndInv
<1>6. "flag" \in QuietPCs BY DEF QuietPCs, PCs, BuildingPCs, ClosedPCs
<1> QED BY <1>4, <1>5, <1>6, ErrorIsQuiet DEF StartTicket, Move, Goto, job

\* The new branch has no other owner: no resumable run holds a ticket without
\* a branch.
LEMMA CreateWorktreeInd == ASSUME TypeOK, IndInv, CreateWorktree PROVE IndInv'
<1>1. cur \in RunId /\ tk \in Ticket
  BY AtTicket DEF CreateWorktree, At, TicketPCs, PCs, NoRunPCs, RunPCs
<1>2. UNCHANGED <<phase, held>> /\ TreeKept /\ RemoteKept
  BY SameIsKept DEF CreateWorktree, runVars, treeVars, TreeKept
<1>3. Resumables' /\ ClosedVerifiedUnlessBlind' /\ MergedIsGated' /\ Unshipped'
  BY <1>2, RepoKept, ResumablesKept, SameIsKept
<1>4. CASE Goto("flag")
  <2>1. pc' \in QuietPCs BY <1>4 DEF Goto, QuietPCs, PCs, BuildingPCs, ClosedPCs
  <2> QED BY <1>2, <1>3, <2>1, QuietOK
<1>5. CASE Goto("slash") /\ tk \notin branch /\ branch' = branch \cup {tk}
  <2>1. \A r \in RunId : phase[r] \in BuilderPhases => held[r] # tk
    BY <1>5 DEF IndInv, Resumables
  <2>2. tk \notin closed /\ held[cur] = tk
    BY <1>5 DEF IndInv, Resumables, InHand, CreateWorktree, At
  <2>3. UNCHANGED <<cur, tk, closed>> /\ pc' = "slash"
    BY <1>5 DEF Goto, job, CreateWorktree
  <2>4. Sole' BY <1>2, <2>1, <2>3 DEF Sole, BuilderPhases
  <2>5. InHand' BY <1>2, <1>5, <2>2, <2>3, <2>4 DEF InHand, ClosedPCs
  <2>6. Known' /\ Shipped' BY <1>3, <2>3 DEF Known, Shipped, Unshipped
  <2> QED BY <1>3, <2>5, <2>6 DEF IndInv
<1> QED BY <1>4, <1>5 DEF CreateWorktree

LEMMA SlashCommandInd == ASSUME TypeOK, IndInv, SlashCommand PROVE IndInv'
<1>1. UNCHANGED <<phase, held>> /\ UNCHANGED repoVars /\ TreeKept
  BY SameIsKept DEF SlashCommand, runVars
<1>2. CASE pc' \in QuietPCs BY <1>1, <1>2, ErrorStep
<1>3. CASE Goto("enterExecute")
  <2>1. Known' BY <1>3 DEF Known, Goto
  <2> QED BY <1>1, <1>3, <2>1, StayBuilding DEF SlashCommand, At, Goto, job, BuildingPCs
<1>4. "flag" \in QuietPCs BY DEF QuietPCs, PCs, BuildingPCs, ClosedPCs
<1> QED BY <1>2, <1>3, <1>4, ErrorIsQuiet DEF SlashCommand, Goto

\* A move of the owner keeps the ticket in its hands.
LEMMA OwnerPersists ==
  ASSUME TypeOK, IndInv, pc \in BuildingPCs,
         NEW to \in {"ExecutePlan", "Review", "Close"}, Persist(to, held[cur]),
         UNCHANGED repoVars
  PROVE  /\ Resumables'
         /\ held'[cur] = tk /\ phase'[cur] = to
         /\ \A r \in RunId : r # cur /\ phase'[r] \in BuilderPhases => held'[r] # tk
<1>1. cur \in RunId
  <2>1. pc \notin NoRunPCs BY DEF BuildingPCs, NoRunPCs
  <2> QED BY <2>1, AtRun
<1>2. held[cur] = tk /\ tk \in branch \ closed /\ Sole BY DEF IndInv, InHand
<1>3. \A r \in RunId : r # cur => phase'[r] = phase[r] /\ held'[r] = held[r]
  BY <1>1 DEF Persist, TypeOK, StoreOK
<1>4. held'[cur] = tk /\ phase'[cur] = to
  BY <1>1, <1>2 DEF Persist, TypeOK, StoreOK, TerminalStates
<1>5. \A r \in RunId : r # cur /\ phase'[r] \in BuilderPhases => held'[r] # tk
  BY <1>2, <1>3 DEF Sole
<1>6. Resumables'
  <2>1. UNCHANGED <<branch, closed>> BY DEF repoVars
  <2>2. \A r \in RunId : phase'[r] \in BuilderPhases => held'[r] \in branch \ closed
    BY <1>2, <1>3, <1>4 DEF IndInv, Resumables
  <2>3. \A r, q \in RunId :
          {phase'[r], phase'[q]} \subseteq BuilderPhases /\ held'[r] = held'[q] => r = q
    BY <1>3, <1>4, <1>5 DEF IndInv, Resumables
  <2> QED BY <2>1, <2>2, <2>3 DEF IndInv, Resumables, BuilderPhases
<1> QED BY <1>4, <1>5, <1>6

LEMMA OwnerEnters ==
  ASSUME TypeOK, IndInv, pc \in BuildingPCs,
         NEW to \in {"ExecutePlan", "Review", "Close"},
         NEW next \in {"build", "review", "close"}, Enter(to, next),
         next = "close" => to = "Close",
         next # "build" => tk \in verified \cup blind,
         next = "close" /\ verdict = "APPROVE" => tk \in approved
  PROVE  IndInv'
<1>1. UNCHANGED repoVars /\ UNCHANGED treeVars BY DEF Enter, MoveRest
<1>2. Resumables'
  BY <1>1, OwnerPersists, ResumablesKept, SameIsKept DEF Enter, Move
<1>3. CASE pc' \in QuietPCs BY <1>1, <1>2, <1>3, QuietOK, SameIsKept
<1>4. CASE /\ Persist(to, held[cur])
           /\ pc' = next /\ mirror' = to
           /\ UNCHANGED <<job, catching, n, verdict, tally, refused>>
  <2>1. ClosedVerifiedUnlessBlind' /\ MergedIsGated' /\ Unshipped'
    BY <1>1, RepoKept, SameIsKept
  <2>2. UNCHANGED <<cur, tk, verdict, branch, closed, verified, approved, blind>>
    BY <1>1, <1>4 DEF job, repoVars, treeVars
  <2>3. Sole' BY <1>1, <1>4, <2>2, OwnerPersists DEF Sole, BuilderPhases
  <2>4. InHand'
    BY <1>1, <1>4, <2>2, <2>3, OwnerPersists DEF IndInv, InHand, ClosedPCs
  <2>5. Known' BY <1>4, <2>2 DEF Known
  <2>6. Shipped' BY <1>4, <2>1 DEF Shipped, Unshipped
  <2> QED BY <1>2, <2>1, <2>4, <2>5, <2>6 DEF IndInv
<1> QED BY <1>3, <1>4, ErrorIsQuiet DEF Enter, Move

LEMMA EnterExecuteInd == ASSUME TypeOK, IndInv, EnterExecute PROVE IndInv'
BY OwnerEnters DEF EnterExecute, At, BuildingPCs

LEMMA EnterReviewInd == ASSUME TypeOK, IndInv, EnterReview PROVE IndInv'
<1>1. tk \in verified \cup blind BY DEF EnterReview, At, IndInv, Known
<1> QED BY <1>1, OwnerEnters DEF EnterReview, At, BuildingPCs

LEMMA EnterCloseInd == ASSUME TypeOK, IndInv, EnterClose PROVE IndInv'
<1>1. tk \in verified \cup blind /\ (verdict = "APPROVE" => tk \in approved)
  BY DEF EnterClose, At, IndInv, Known
<1> QED BY <1>1, OwnerEnters DEF EnterClose, At, BuildingPCs


LEMMA BuilderTurnInd ==
  ASSUME TypeOK, IndInv, NEW here \in BuildingPCs, NEW site,
         NEW next \in {"verify", "reverify"}, BuilderTurn(here, site, next)
  PROVE  IndInv'
<1>1. UNCHANGED <<phase, held>> /\ UNCHANGED repoVars BY DEF BuilderTurn
<1>2. TreeKept BY EditKeeps DEF BuilderTurn, At
<1>3. CASE pc' \in QuietPCs BY <1>1, <1>2, <1>3, ErrorStep
<1>4. CASE Goto(next)
  <2>1. Known' BY <1>4 DEF Known, Goto
  <2> QED BY <1>1, <1>2, <1>4, <2>1, StayBuilding
          DEF BuilderTurn, At, Goto, job, BuildingPCs
<1> QED BY <1>3, <1>4, ErrorIsQuiet DEF BuilderTurn

LEMMA BuildInd == ASSUME TypeOK, IndInv, Build \/ Refix PROVE IndInv'
BY BuilderTurnInd DEF Build, Refix, BuildingPCs

LEMMA VerifyInd == ASSUME TypeOK, IndInv, Verify PROVE IndInv'
<1>1. UNCHANGED <<phase, held>> /\ UNCHANGED repoVars BY DEF Verify, Verification
<1>2. TreeKept BY EditKeeps DEF Verify, Verification, At, BuildingPCs
<1>3. CASE pc' \in QuietPCs BY <1>1, <1>2, <1>3, ErrorStep
<1>4. CASE Goto("recordPassed") /\ verified' = verified \cup {tk}
  <2>1. Known' BY <1>4 DEF Known, Goto, job
  <2> QED BY <1>1, <1>2, <1>4, <2>1, StayBuilding
          DEF Verify, Verification, At, Goto, job, BuildingPCs
<1>5. CASE Again("build") \/ Goto("recordFailed") \/ Goto("recordUnworkable")
  <2>1. /\ pc' \in {"build", "recordFailed", "recordUnworkable"}
        /\ UNCHANGED <<cur, tk>>
    BY <1>5 DEF Again, Goto, job
  <2>2. Known' BY <2>1 DEF Known
  <2> QED BY <1>1, <1>2, <2>1, <2>2, StayBuilding
          DEF Verify, Verification, At, BuildingPCs
<1> QED BY <1>3, <1>4, <1>5, ErrorIsQuiet DEF Verify, Verification

LEMMA ReverifyInd == ASSUME TypeOK, IndInv, Reverify PROVE IndInv'
<1>1. UNCHANGED <<phase, held>> /\ UNCHANGED repoVars BY DEF Reverify, Verification
<1>2. TreeKept BY EditKeeps DEF Reverify, Verification, At, BuildingPCs
<1>3. CASE pc' \in QuietPCs BY <1>1, <1>2, <1>3, ErrorStep
<1>4. CASE Again("review") /\ verified' = verified \cup {tk}
  <2>1. pc' = "review" /\ UNCHANGED <<cur, tk>> BY <1>4 DEF Again, job
  <2>2. Known' BY <1>4, <2>1 DEF Known
  <2> QED BY <1>1, <1>2, <2>1, <2>2, StayBuilding
          DEF Reverify, Verification, At, BuildingPCs
<1>5. "flag" \in QuietPCs BY DEF QuietPCs, PCs, BuildingPCs, ClosedPCs
<1> QED BY <1>3, <1>4, <1>5, ErrorIsQuiet DEF Reverify, Verification, Goto

LEMMA RecordVerificationInd ==
  ASSUME TypeOK, IndInv, RecordVerification PROVE IndInv'
<1>1. /\ UNCHANGED <<phase, held>> /\ UNCHANGED repoVars /\ UNCHANGED treeVars
      /\ TreeKept
  BY SameIsKept DEF RecordVerification
<1>2. CASE pc' \in QuietPCs BY <1>1, <1>2, ErrorStep
<1>3. CASE At("recordPassed") /\ pc' = "enterReview" /\ UNCHANGED job
  <2>1. tk \in verified \cup blind BY <1>3 DEF IndInv, Known, At
  <2>2. Known' BY <1>1, <1>3, <2>1 DEF Known, job, treeVars
  <2> QED BY <1>1, <1>3, <2>2, StayBuilding DEF At, job, BuildingPCs
<1>4. {"flag", "enterPlan"} \subseteq QuietPCs
  BY DEF QuietPCs, PCs, BuildingPCs, ClosedPCs
<1> QED BY <1>2, <1>3, <1>4, ErrorIsQuiet DEF RecordVerification, Goto

\* An approval is of the tree that was verified, or taken for verified.
LEMMA ReviewInd == ASSUME TypeOK, IndInv, Review PROVE IndInv'
<1>1. UNCHANGED <<phase, held>> /\ UNCHANGED repoVars BY DEF Review
<1>2. TreeKept BY EditKeeps DEF Review, At, BuildingPCs
<1>3. tk \in verified \cup blind BY DEF Review, At, IndInv, Known
<1>4. CASE pc' \in QuietPCs BY <1>1, <1>2, <1>4, ErrorStep
<1>5. CASE \/ Verdict("APPROVE") /\ approved' = approved \cup {tk}
           \/ Verdict("ESCALATE")
  <2>1. pc' = "reviewed" /\ UNCHANGED <<cur, tk>> BY <1>5 DEF Verdict, job
  <2>2. Known' BY <1>3, <1>5, <2>1 DEF Known, Verdict, Review
  <2> QED BY <1>1, <1>2, <2>1, <2>2, StayBuilding DEF Review, At, BuildingPCs
<1>6. CASE Goto("refix")
  <2>1. Known' BY <1>6 DEF Known, Goto
  <2> QED BY <1>1, <1>2, <1>6, <2>1, StayBuilding
          DEF Review, At, Goto, job, BuildingPCs
<1> QED BY <1>4, <1>5, <1>6, ErrorIsQuiet DEF Review

LEMMA ReviewedInd == ASSUME TypeOK, IndInv, Reviewed PROVE IndInv'
<1>1. /\ UNCHANGED <<phase, held>> /\ UNCHANGED repoVars /\ UNCHANGED treeVars
      /\ TreeKept
  BY SameIsKept DEF Reviewed
<1>2. CASE pc' \in QuietPCs BY <1>1, <1>2, ErrorStep
<1>3. CASE Goto("enterClose")
  <2>1. tk \in verified \cup blind /\ (verdict = "APPROVE" => tk \in approved)
    BY DEF Reviewed, At, IndInv, Known
  <2>2. Known' BY <1>1, <1>3, <2>1 DEF Known, Goto, job, turn, treeVars
  <2> QED BY <1>1, <1>3, <2>2, StayBuilding DEF Reviewed, At, Goto, job, BuildingPCs
<1> QED BY <1>2, <1>3, ErrorIsQuiet DEF Reviewed

\* The commit: the run has left the builder phases, so nobody can resume it.
LEMMA CloseTicketInd == ASSUME TypeOK, IndInv, CloseTicket PROVE IndInv'
<1>1. /\ UNCHANGED <<phase, held, branch, remote>> /\ UNCHANGED treeVars
      /\ RemoteKept
  BY SameIsKept DEF CloseTicket, runVars
<1>2. /\ phase[cur] = "Close" /\ tk \in branch \ closed /\ Sole
      /\ tk \in verified \cup blind /\ (verdict = "APPROVE" => tk \in approved)
      /\ cur \in RunId
  BY AtRun DEF CloseTicket, At, IndInv, InHand, Known, BuildingPCs, NoRunPCs
<1>3. CASE pc' \in QuietPCs /\ UNCHANGED closed
  <2>1. UNCHANGED repoVars \/ TreeKept BY <1>1, <1>3, SameIsKept DEF treeVars
  <2>2. TreeKept BY <1>1, <1>3, SameIsKept DEF treeVars
  <2> QED BY <1>1, <1>3, <2>2, QuietOK, ResumablesKept, SameIsKept
<1>4. CASE closed' = closed \cup {tk} /\ Goto("closedEvent")
  <2>1. \A r \in RunId : phase[r] \in BuilderPhases => held[r] # tk
    BY <1>2 DEF Sole, BuilderPhases
  <2>2. Resumables' BY <1>1, <1>2, <1>4, <2>1 DEF IndInv, Resumables, BuilderPhases
  <2>3. ClosedVerifiedUnlessBlind' /\ MergedIsGated'
    BY <1>1, <1>2, <1>4
    DEF IndInv, ClosedVerifiedUnlessBlind, MergedIsGated, treeVars
  <2>4. remote[tk] = "none"
    <3>1. tk \in Ticket BY AtTicket DEF CloseTicket, At, TicketPCs, PCs, NoRunPCs, RunPCs
    <3> QED BY <1>2, <3>1 DEF IndInv, Shipped
  <2>5. UNCHANGED <<cur, tk, verdict>> /\ pc' = "closedEvent"
    BY <1>4 DEF Goto, job, turn
  <2>6. InHand' BY <1>4, <2>5 DEF InHand, BuildingPCs
  <2>7. Known' BY <1>1, <1>2, <2>5 DEF Known, treeVars
  <2>8. Shipped' BY <1>1, <1>4, <2>4, <2>5 DEF IndInv, Shipped
  <2> QED BY <2>2, <2>3, <2>6, <2>7, <2>8 DEF IndInv
<1> QED BY <1>3, <1>4, ErrorIsQuiet DEF CloseTicket

-----------------------------------------------------------------------------
(* A closed ticket on its way out *)

\* From one place behind the close to the next.
LEMMA StayClosed ==
  ASSUME IndInv, pc \in ClosedPCs, pc' \in ClosedPCs,
         UNCHANGED <<cur, tk>>, StoreKept, TreeKept, RemoteKept, Known', Shipped'
  PROVE  IndInv'
<1>1. Resumables' /\ ClosedVerifiedUnlessBlind' /\ MergedIsGated'
  BY RepoKept, ResumablesKept
<1>2. InHand' BY DEF IndInv, InHand, TreeKept, ClosedPCs, BuildingPCs
<1> QED BY <1>1, <1>2 DEF IndInv

LEMMA ClosedEventInd == ASSUME TypeOK, IndInv, ClosedEvent PROVE IndInv'
<1>1. /\ UNCHANGED <<phase, held>> /\ UNCHANGED repoVars /\ UNCHANGED treeVars
      /\ TreeKept /\ RemoteKept /\ StoreKept
  BY SameIsKept DEF ClosedEvent
<1>2. CASE pc' \in QuietPCs BY <1>1, <1>2, ErrorStep
<1>3. CASE Goto("push")
  <2>1. pc = "closedEvent" /\ pc' = "push" /\ UNCHANGED <<cur, tk, verdict>>
    BY <1>3 DEF ClosedEvent, At, Goto, job, turn
  <2>2. Known' BY <1>1, <2>1 DEF IndInv, Known, treeVars
  <2>3. Shipped' BY <1>1, <2>1 DEF IndInv, Shipped, repoVars
  <2> QED BY <1>1, <2>1, <2>2, <2>3, StayClosed DEF ClosedPCs
<1>4. "backToSelect" \in QuietPCs BY DEF QuietPCs, PCs, BuildingPCs, ClosedPCs
<1> QED BY <1>2, <1>3, <1>4, ErrorIsQuiet DEF ClosedEvent, Goto

\* A command that failed may have had its effect; a merge is asked for only of
\* a ticket that may be merged.
LEMMA RemotelyKeeps ==
  ASSUME TypeOK, IndInv, NEW here \in {"push", "pr", "merge"}, NEW to, NEW next,
         to = "merged" => here = "merge", Remotely(here, to, next)
  PROVE  RemoteKept /\ TreeKept /\ UNCHANGED <<phase, held>> /\ tk \in Ticket
<1>1. tk \in closed BY DEF Remotely, At, IndInv, InHand, ClosedPCs
<1>2. to = "merged" => tk \in approved /\ AutonomyCeiling = "autopilot"
  BY DEF Remotely, At, IndInv, Known
<1>3. remote' \in {remote, [remote EXCEPT ![tk] = to]} BY DEF Remotely
<1>4. RemoteKept BY <1>1, <1>2, <1>3 DEF RemoteKept, TypeOK, RepoOK
<1> QED BY <1>1, <1>4, SameIsKept DEF Remotely, runVars, treeVars, TypeOK, RepoOK

LEMMA PushInd == ASSUME TypeOK, IndInv, Push \/ CreatePr PROVE IndInv'
<1>1. ASSUME NEW here \in {"push", "pr"}, NEW next \in {"enterMergeGate", "gate"},
             NEW to \in {"pushed", "pr"}, Remotely(here, to, next),
             next = "enterMergeGate" <=> to = "pushed"
      PROVE  IndInv'
  <2>1. RemoteKept /\ TreeKept /\ UNCHANGED <<phase, held>> /\ tk \in Ticket
    BY <1>1, RemotelyKeeps
  <2>2. CASE pc' \in QuietPCs BY <2>1, <2>2, QuietOK, ResumablesKept, SameIsKept
  <2>3. CASE remote' = [remote EXCEPT ![tk] = to] /\ Goto(next)
    <3>1. pc = here /\ pc' = next /\ UNCHANGED <<cur, tk, verdict>>
      BY <1>1, <2>3 DEF Remotely, At, Goto, job, turn
    <3>2. Known' BY <1>1, <3>1 DEF IndInv, Known, Remotely, treeVars
    <3>3. remote'[tk] = to BY <2>1, <2>3 DEF TypeOK, RepoOK
    <3>4. tk \in closed BY <1>1, <3>1 DEF IndInv, InHand, ClosedPCs
    <3>5. Unshipped' BY <2>1, RepoKept
    <3>6. Shipped' BY <1>1, <3>1, <3>3, <3>5 DEF Shipped, Unshipped
    <3> QED BY <1>1, <2>1, <3>1, <3>2, <3>6, StayClosed, SameIsKept DEF ClosedPCs
  <2> QED BY <1>1, <2>2, <2>3, ErrorIsQuiet DEF Remotely
<1> QED BY <1>1 DEF Push, CreatePr

LEMMA MergePrInd == ASSUME TypeOK, IndInv, MergePr PROVE IndInv'
<1>1. RemoteKept /\ TreeKept /\ UNCHANGED <<phase, held>>
  BY RemotelyKeeps DEF MergePr
<1>2. "cleanup" \in QuietPCs BY DEF QuietPCs, PCs, BuildingPCs, ClosedPCs
<1>3. pc' \in QuietPCs BY <1>2, ErrorIsQuiet DEF MergePr, Remotely, Goto
<1> QED BY <1>1, <1>3, QuietOK, ResumablesKept, SameIsKept

LEMMA EnterMergeGateInd == ASSUME TypeOK, IndInv, EnterMergeGate PROVE IndInv'
<1>1. cur \in RunId BY AtRun DEF EnterMergeGate, At, NoRunPCs
<1>2. StoreKept
  BY <1>1, PersistKeeps, SameIsKept
  DEF EnterMergeGate, Enter, Move, LoopStates, BuilderPhases
<1>3. /\ UNCHANGED repoVars /\ UNCHANGED treeVars /\ TreeKept /\ RemoteKept
  BY SameIsKept DEF EnterMergeGate, Enter, MoveRest
<1>4. CASE pc' \in QuietPCs BY <1>2, <1>3, <1>4, QuietStep
<1>5. CASE pc' = "pr" /\ UNCHANGED <<job, verdict>>
  <2>1. pc = "enterMergeGate" /\ UNCHANGED <<cur, tk, verdict>>
    BY <1>5 DEF EnterMergeGate, At, job
  <2>2. Known' BY <1>3, <1>5, <2>1 DEF IndInv, Known, treeVars
  <2>3. Shipped' BY <1>3, <1>5, <2>1 DEF IndInv, Shipped, repoVars
  <2> QED BY <1>2, <1>3, <1>5, <2>1, <2>2, <2>3, StayClosed DEF ClosedPCs
<1> QED BY <1>4, <1>5, ErrorIsQuiet DEF EnterMergeGate, Enter, Move

\* The gate merges only what was approved, and only under an autopilot ceiling.
LEMMA GateDecision ==
  ASSUME NEW ci, NEW v, NEW risk, NEW request \in EpicRequests,
         applyAutonomy(decideMerge(ci, v, risk),
           resolveAutonomy(AutonomyDefault, AutonomyCeiling, request)) = "auto-merge"
  PROVE  v = "APPROVE" /\ AutonomyCeiling = "autopilot"
<1>1. resolveAutonomy(AutonomyDefault, AutonomyCeiling, request) = "autopilot"
  BY DEF applyAutonomy
<1>2. AutonomyCeiling = "autopilot"
  <2>1. CASE request = "absent"
    BY <1>1, <2>1, AutonomyAssumption DEF resolveAutonomy
  <2>2. CASE request = "invalid" BY <1>1, <2>2 DEF resolveAutonomy
  <2>3. CASE request \in AutonomyModes
    BY <1>1, <2>3, AutonomyAssumption
    DEF resolveAutonomy, autonomyRank, AutonomyModes
  <2> QED BY <2>1, <2>2, <2>3 DEF EpicRequests
<1>3. decideMerge(ci, v, risk) = "auto-merge" BY <1>1 DEF applyAutonomy
<1> QED BY <1>2, <1>3 DEF decideMerge

LEMMA GateInd == ASSUME TypeOK, IndInv, Gate PROVE IndInv'
<1>1. /\ UNCHANGED <<phase, held>> /\ UNCHANGED repoVars /\ UNCHANGED treeVars
      /\ TreeKept /\ RemoteKept /\ StoreKept
  BY SameIsKept DEF Gate
<1>2. CASE pc' \in QuietPCs BY <1>1, <1>2, ErrorStep
<1>3. ASSUME NEW ci \in CiStates, NEW risk \in RiskLevels, NEW request \in EpicRequests,
             applyAutonomy(decideMerge(ci, verdict, risk),
               resolveAutonomy(AutonomyDefault, AutonomyCeiling, request))
                 = "auto-merge",
             Goto("merge")
      PROVE  IndInv'
  <2>1. pc = "gate" /\ pc' = "merge" /\ UNCHANGED <<cur, tk>>
    BY <1>3 DEF Gate, At, Goto, job
  <2>2. tk \in approved /\ AutonomyCeiling = "autopilot"
    BY <1>3, <2>1, GateDecision DEF IndInv, Known
  <2>3. Known' BY <1>1, <2>1, <2>2 DEF Known, treeVars
  <2>4. Shipped' BY <1>1, <2>1 DEF IndInv, Shipped, repoVars
  <2> QED BY <1>1, <2>1, <2>3, <2>4, StayClosed DEF ClosedPCs
<1>4. "escalate" \in QuietPCs BY DEF QuietPCs, PCs, BuildingPCs, ClosedPCs
<1> QED BY <1>2, <1>3, <1>4, ErrorIsQuiet DEF Gate, Goto

-----------------------------------------------------------------------------
(* A resumed ticket *)

\* The only place where a tree is taken for verified without having been.
LEMMA ReattachInd == ASSUME TypeOK, IndInv, Reattach PROVE IndInv'
<1>1. /\ UNCHANGED <<phase, held>> /\ UNCHANGED repoVars
      /\ UNCHANGED <<verified, approved>> /\ blind \subseteq blind'
  BY DEF Reattach, runVars
<1>2. TreeKept /\ RemoteKept BY <1>1, SameIsKept DEF TreeKept, repoVars
<1>3. cur \in RunId BY AtRun DEF Reattach, At, NoRunPCs
<1>4. CASE pc' \in QuietPCs BY <1>1, <1>2, <1>4, ErrorStep
<1>5. ASSUME NEW p \in {"build", "review"}, Goto(p),
             p = "review" => tk \in verified \cup blind'
      PROVE  IndInv'
  <2>1. held[cur] = tk /\ phase[cur] \in BuilderPhases
    BY DEF Reattach, At, IndInv, InHand
  <2>2. tk \in branch \ closed /\ Sole
    BY <1>3, <2>1 DEF IndInv, Resumables, Sole
  <2>3. pc' = p /\ UNCHANGED <<cur, tk, branch, closed>>
    BY <1>1, <1>5 DEF Goto, job, repoVars
  <2>4. InHand' BY <1>1, <1>5, <2>1, <2>2, <2>3 DEF InHand, Sole, ClosedPCs
  <2>5. Known' BY <1>1, <1>5, <2>3 DEF Known
  <2>6. Resumables' /\ ClosedVerifiedUnlessBlind' /\ MergedIsGated' /\ Unshipped'
    BY <1>1, <1>2, RepoKept, ResumablesKept, SameIsKept
  <2>7. Shipped' BY <1>5, <2>3, <2>6 DEF Shipped, Unshipped
  <2> QED BY <2>4, <2>5, <2>6, <2>7 DEF IndInv
<1>6. "flag" \in QuietPCs BY DEF QuietPCs, PCs, BuildingPCs, ClosedPCs
<1>7. CASE /\ blind' = IF phase[cur] = "Review" /\ tk \notin verified
                         THEN blind \cup {tk} ELSE blind
           /\ Goto(IF tk \in Refactor THEN "flag"
                   ELSE IF phase[cur] = "Review" THEN "review" ELSE "build")
  <2>1. CASE Goto("flag") BY <1>4, <1>6, <2>1 DEF Goto
  <2>2. CASE Goto("build") BY <1>5, <2>2
  <2>3. CASE Goto("review") /\ phase[cur] = "Review" BY <1>5, <1>7, <2>3
  <2> QED BY <1>7, <2>1, <2>2, <2>3
<1> QED BY <1>4, <1>7, ErrorIsQuiet DEF Reattach

-----------------------------------------------------------------------------
(* The theorems *)

LEMMA IndInit == Init => IndInv
<1> SUFFICES ASSUME Init PROVE IndInv OBVIOUS
<1>1. Resumables BY DEF Init, Resumables, BuilderPhases
<1>2. InHand BY DEF Init, InHand, BuildingPCs, ClosedPCs
<1>3. Known BY DEF Init, Known
<1>4. Shipped BY DEF Init, Shipped
<1>5. ClosedVerifiedUnlessBlind BY DEF Init, ClosedVerifiedUnlessBlind
<1>6. MergedIsGated BY DEF Init, MergedIsGated
<1> QED BY <1>1, <1>2, <1>3, <1>4, <1>5, <1>6 DEF IndInv

LEMMA IndStep == TypeOK /\ IndInv /\ [Next]_vars => IndInv'
<1> SUFFICES ASSUME TypeOK, IndInv, [Next]_vars PROVE IndInv' OBVIOUS
<1>1. CASE ProcessStep
  BY <1>1, ReattachInd, StartingInd, MovesInd, LoopInd, KillStopInd, PickInd,
     TicketEndInd, StartTicketInd, CreateWorktreeInd, SlashCommandInd,
     EnterExecuteInd, BuildInd, VerifyInd, RecordVerificationInd, EnterPlanInd,
     EnterReviewInd, ReviewInd, ReverifyInd, ReviewedInd, EnterCloseInd,
     CloseTicketInd, ClosedEventInd, PushInd, EnterMergeGateInd, GateInd, MergePrInd,
     FailureInd, CleanupInd, BackToSelectInd, RouteInd
  DEF ProcessStep
<1>2. CASE Boot \/ Crash BY <1>2, BootInd, CrashInd
<1>3. CASE HumanPull
  BY <1>3, SameInd DEF HumanPull, runVars, treeVars, procVars, job, turn
<1>4. CASE UNCHANGED vars
  BY <1>4, SameInd DEF vars, runVars, repoVars, treeVars, procVars, job, turn
<1> QED BY <1>1, <1>2, <1>3, <1>4 DEF Next

\* IndInv holds of every reachable state.
THEOREM Inductive == Spec => []IndInv
<1>1. TypeOK /\ IndInv /\ [Next]_vars => IndInv' BY IndStep
<1> QED BY IndInit, <1>1, TypeCorrect, PTL DEF Spec

\* Whatever runs, crashes, faults and resumes produced it, a close that the loop
\* committed was of a tree that had passed verification after its last edit,
\* except for a ticket resumed in Review over a tree that had not.
THEOREM ClosedIsAccounted == Spec => []ClosedVerifiedUnlessBlind
<1>1. IndInv => ClosedVerifiedUnlessBlind BY DEF IndInv
<1> QED BY <1>1, Inductive, PTL

\* What the loop merged on its own was closed, approved as it is, and under an
\* autopilot ceiling, whatever CI, the diff and the epic said.
THEOREM MergesAreGated == Spec => []MergedIsGated
<1>1. IndInv => MergedIsGated BY DEF IndInv
<1> QED BY <1>1, Inductive, PTL

\* Only a builder turn takes evidence away.
LEMMA EvidenceGrows ==
  ASSUME Next, ~Build, ~Refix
  PROVE  closed \subseteq closed' /\ verified \subseteq verified'
         /\ approved \subseteq approved'
<1> USE DEF runVars, repoVars, treeVars
<1>1. CASE Boot \/ Crash \/ HumanPull BY <1>1 DEF Boot, Crash, HumanPull
<1>2. CASE \/ Reattach \/ ResumeSkip \/ ResumeSkipEvent \/ OpenRun \/ Refine
           \/ Refining \/ Top \/ KillStop \/ Budget \/ StopEvent \/ Pick
           \/ PickNone \/ TicketEnd \/ Complete \/ StructuredStop
  BY <1>2 DEF Reattach, ResumeSkip, ResumeSkipEvent, OpenRun, Refine, Refining,
     Top, KillStop, Budget, StopEvent, Pick, PickNone, TicketEnd, Complete,
     StructuredStop
<1>3. CASE \/ RefineSelect \/ RefineEnter \/ RefineBack \/ Select \/ Trip \/ Finish
           \/ StartTicket \/ EnterExecute \/ EnterPlan \/ EnterReview \/ EnterClose
           \/ EnterMergeGate \/ BackToSelect
  BY <1>3 DEF RefineSelect, RefineEnter, RefineBack, Select, Trip, Finish,
     StartTicket, EnterExecute, EnterPlan, EnterReview, EnterClose, EnterMergeGate,
     BackToSelect, Advance, Enter, MoveRest
<1>4. CASE CreateWorktree \/ SlashCommand \/ Verify \/ Reverify \/ RecordVerification
           \/ PlanTicket \/ Review \/ Reviewed \/ CloseTicket \/ ClosedEvent
  BY <1>4 DEF CreateWorktree, SlashCommand, Verify, Reverify, Verification,
     RecordVerification, PlanTicket, Review, Reviewed, CloseTicket, ClosedEvent
<1>5. CASE Push \/ CreatePr \/ MergePr \/ Gate \/ MarkEscalated \/ CleanupWorktree
           \/ Flag \/ Route
  BY <1>5 DEF Push, CreatePr, MergePr, Remotely, Gate, MarkEscalated,
     CleanupWorktree, Flag, Route, RouteFrom, Enter, MoveRest
<1> QED BY <1>1, <1>2, <1>3, <1>4, <1>5 DEF Next, ProcessStep

\* A closed tree is frozen: no later step of any run, fresh or resumed, edits it
\* or reopens it.
THEOREM ClosedIsFrozen == Spec => ClosedTreeFrozen
<1> DEFINE Frozen ==
      \A t \in closed : /\ t \in closed'
                        /\ t \in verified => t \in verified'
                        /\ t \in approved => t \in approved'
<1>1. ASSUME IndInv, [Next]_vars PROVE [Frozen]_vars
  <2>1. CASE Build \/ Refix
    <3>1. tk \notin closed BY <1>1, <2>1 DEF Build, Refix, BuilderTurn, At, IndInv,
                                         InHand, BuildingPCs
    <3> QED BY <2>1, <3>1 DEF Build, Refix, BuilderTurn, repoVars
  <2>2. CASE Next /\ ~Build /\ ~Refix BY <2>2, EvidenceGrows
  <2> QED BY <1>1, <2>1, <2>2
<1> QED BY <1>1, Inductive, PTL DEF Spec, ClosedTreeFrozen

-----------------------------------------------------------------------------
(* Steps of the life of a ticket, told by what the loop's state says *)

LEMMA StageMoves ==
  ASSUME NEW x \in Ticket, NEW from, NEW to, StageOf(x) = from, StageOf(x)' = to,
         \A t \in Ticket \ {x} : StageOf(t)' = StageOf(t)
  PROVE  Delivery!MoveTo(x, from, to)
<1> DEFINE stage == [t \in Ticket |-> StageOf(t)]
<1>1. stage[x] = from OBVIOUS
<1>2. stage' = [stage EXCEPT ![x] = to] OBVIOUS
<1> QED BY <1>1, <1>2 DEF Delivery!MoveTo

LEMMA StageStays ==
  ASSUME UNCHANGED <<branch, closed, remote>>
  PROVE  UNCHANGED [t \in Ticket |-> StageOf(t)]
BY DEF StageOf

LEMMA EvidenceStays ==
  ASSUME UNCHANGED treeVars PROVE UNCHANGED [t \in Ticket |-> EvidenceOf(t)]
BY DEF EvidenceOf, treeVars

LEMMA Stutters ==
  ASSUME UNCHANGED <<branch, closed, remote, done>>, UNCHANGED treeVars
  PROVE  UNCHANGED Delivery!vars
BY StageStays, EvidenceStays DEF Delivery!vars

LEMMA EvidenceMoves ==
  ASSUME NEW x \in Ticket, NEW e, EvidenceOf(x)' = e,
         \A t \in Ticket \ {x} : EvidenceOf(t)' = EvidenceOf(t)
  PROVE  [t \in Ticket |-> EvidenceOf(t)]' =
           [[t \in Ticket |-> EvidenceOf(t)] EXCEPT ![x] = e]
OBVIOUS

\* Work on a ticket: only what is known of its own tree changes, and a
\* verification once taken for granted stays so.
LEMMA Works ==
  ASSUME NEW x \in (branch \ closed) \cap Ticket,
         UNCHANGED <<branch, closed, remote, done>>,
         verified \ {x} = verified' \ {x}, approved \ {x} = approved' \ {x},
         blind \ {x} = blind' \ {x}, blind \subseteq blind'
  PROVE  Delivery!Work(x)
<1>1. PICK e : e = EvidenceOf(x)' OBVIOUS
<1>2. [t \in Ticket |-> StageOf(t)][x] = "building" BY DEF StageOf
<1>3. e \in SUBSET Delivery!EvidenceKinds
  BY <1>1 DEF EvidenceOf, Delivery!EvidenceKinds
<1>4. [t \in Ticket |-> EvidenceOf(t)][x] \cap {"assumed"} \subseteq e
  <2>1. "assumed" \in EvidenceOf(x) => x \in blind BY DEF EvidenceOf
  <2>2. x \in blind' => "assumed" \in EvidenceOf(x)' BY DEF EvidenceOf
  <2>3. [t \in Ticket |-> EvidenceOf(t)][x] = EvidenceOf(x) OBVIOUS
  <2> QED BY <1>1, <2>1, <2>2, <2>3
<1>5. \A t \in Ticket \ {x} : EvidenceOf(t)' = EvidenceOf(t)
  <2>1. \A t \in Ticket \ {x} : /\ (t \in verified) = (t \in verified')
                               /\ (t \in approved) = (t \in approved')
                               /\ (t \in blind) = (t \in blind')
    OBVIOUS
  <2> QED BY <2>1 DEF EvidenceOf
<1>6. [t \in Ticket |-> EvidenceOf(t)]' =
        [[t \in Ticket |-> EvidenceOf(t)] EXCEPT ![x] = e]
  BY <1>1, <1>5, EvidenceMoves
<1>7. UNCHANGED [t \in Ticket |-> StageOf(t)] BY StageStays
<1> QED BY <1>2, <1>3, <1>4, <1>6, <1>7 DEF Delivery!Work


\* Starting, closing and shipping a ticket.
LEMMA Starts ==
  ASSUME IndInv, NEW x \in Ticket \ branch, branch' = branch \cup {x},
         UNCHANGED <<closed, remote, done>>, UNCHANGED treeVars
  PROVE  Delivery!Start(x)
<1>1. x \notin closed BY DEF IndInv, Resumables
<1>2. StageOf(x) = "open" /\ StageOf(x)' = "building" BY <1>1 DEF StageOf
<1>3. \A t \in Ticket \ {x} : StageOf(t)' = StageOf(t) BY DEF StageOf
<1> QED BY <1>2, <1>3, StageMoves, EvidenceStays DEF Delivery!Start

LEMMA Closes ==
  ASSUME NEW x \in (branch \ closed) \cap Ticket, x \in verified \cup blind,
         remote[x] = "none", closed' = closed \cup {x},
         UNCHANGED <<branch, remote, done>>, UNCHANGED treeVars
  PROVE  Delivery!Close(x)
<1>1. StageOf(x) = "building" /\ StageOf(x)' = "closed" BY DEF StageOf
<1>2. \A t \in Ticket \ {x} : StageOf(t)' = StageOf(t) BY DEF StageOf
<1>3. [t \in Ticket |-> EvidenceOf(t)][x] \cap {"verified", "assumed"} # {}
  <2>1. "verified" \in EvidenceOf(x) \/ "assumed" \in EvidenceOf(x) BY DEF EvidenceOf
  <2>2. [t \in Ticket |-> EvidenceOf(t)][x] = EvidenceOf(x) OBVIOUS
  <2> QED BY <2>1, <2>2
<1> QED BY <1>1, <1>2, <1>3, StageMoves, EvidenceStays DEF Delivery!Close

LEMMA Ships ==
  ASSUME TypeOK, NEW x \in closed \cap Ticket, NEW from, NEW to, remote[x] = from,
         remote' = [remote EXCEPT ![x] = to],
         \/ from = "none" /\ to = "pushed"
         \/ from = "pushed" /\ to = "pr"
         \/ from = "pr" /\ to = "merged" /\ x \in approved,
         UNCHANGED <<branch, closed, done>>, UNCHANGED treeVars
  PROVE  Delivery!Ship(x)
<1>1. remote'[x] = to /\ \A t \in Ticket \ {x} : remote'[t] = remote[t]
  BY DEF TypeOK, RepoOK
<1>2. /\ StageOf(x) = IF from = "none" THEN "closed" ELSE from
      /\ StageOf(x)' = to
  BY <1>1 DEF StageOf
<1>3. \A t \in Ticket \ {x} : StageOf(t)' = StageOf(t) BY <1>1 DEF StageOf
<1>4. Delivery!MoveTo(x, IF from = "none" THEN "closed" ELSE from, to)
  BY <1>2, <1>3, StageMoves
<1>5. x \in approved => "approved" \in [t \in Ticket |-> EvidenceOf(t)][x]
  <2>1. x \in approved => "approved" \in EvidenceOf(x) BY DEF EvidenceOf
  <2> QED BY <2>1
<1> QED BY <1>4, <1>5, EvidenceStays DEF Delivery!Ship

-----------------------------------------------------------------------------
(* Every step of the loop is one of them *)

LEMMA ShipStep ==
  ASSUME TypeOK, IndInv, NEW here, NEW from, NEW to, NEW next,
         \/ here = "push" /\ from = "none" /\ to = "pushed"
         \/ here = "pr" /\ from = "pushed" /\ to = "pr"
         \/ here = "merge" /\ from = "pr" /\ to = "merged",
         Remotely(here, to, next)
  PROVE  (Delivery!Ship(tk) /\ tk \in Ticket) \/ UNCHANGED Delivery!vars
<1>1. tk \in closed \cap Ticket
  BY DEF Remotely, At, IndInv, InHand, ClosedPCs, TypeOK, RepoOK
<1>2. remote[tk] = from BY DEF Remotely, At, IndInv, Shipped
<1>3. here = "merge" => tk \in approved BY DEF Remotely, At, IndInv, Known
<1>4. UNCHANGED <<branch, closed, done>> /\ UNCHANGED treeVars BY DEF Remotely
<1>5. remote' \in {remote, [remote EXCEPT ![tk] = to]} BY DEF Remotely
<1>6. PICK x : x = tk OBVIOUS
<1>7. CASE remote' = remote BY <1>4, <1>7, Stutters
<1>8. CASE remote' = [remote EXCEPT ![x] = to]
  BY <1>1, <1>2, <1>3, <1>4, <1>6, <1>8, Ships
<1> QED BY <1>5, <1>6, <1>7, <1>8

LEMMA WorkStep ==
  ASSUME TypeOK, IndInv,
         Build \/ Refix \/ Verify \/ Reverify \/ Review \/ Reattach
  PROVE  \E x \in Ticket : Delivery!Work(x)
<1>1. tk \in (branch \ closed) \cap Ticket
  <2>1. CASE Reattach
    <3>1. cur \in RunId BY <2>1, AtRun DEF Reattach, At, NoRunPCs
    <3> QED BY <2>1, <3>1 DEF Reattach, At, IndInv, Resumables, InHand, TypeOK, RepoOK
  <2>2. CASE ~Reattach
    <3>1. pc \in BuildingPCs
      BY <2>2 DEF Build, Refix, Verify, Reverify, Verification, BuilderTurn, Review,
                  At, BuildingPCs
    <3> QED BY <3>1 DEF IndInv, InHand, TypeOK, RepoOK
  <2> QED BY <2>1, <2>2
<1>2. PICK x : x = tk OBVIOUS
<1>3. UNCHANGED <<branch, closed, remote, done>>
  BY DEF Build, Refix, Verify, Reverify, Verification, BuilderTurn, Review, Reattach,
         repoVars
<1>4. /\ verified \ {x} = verified' \ {x} /\ approved \ {x} = approved' \ {x}
      /\ blind \ {x} = blind' \ {x} /\ blind \subseteq blind'
  BY <1>2 DEF Build, Refix, Verify, Reverify, Verification, BuilderTurn, Review, Reattach
<1> QED BY <1>1, <1>2, <1>3, <1>4, Works

\* Everything else leaves the tickets' lives alone.
LEMMA OtherSteps ==
  ASSUME Next,
         ~(CreateWorktree \/ Build \/ Refix \/ Verify \/ Reverify \/ Review
           \/ Reattach \/ CloseTicket \/ Push \/ CreatePr \/ MergePr \/ HumanPull)
  PROVE  UNCHANGED Delivery!vars
<1> SUFFICES UNCHANGED <<branch, closed, remote, done>> /\ UNCHANGED treeVars
  BY Stutters
<1> USE DEF repoVars
<1>1. CASE Boot \/ Crash BY <1>1 DEF Boot, Crash
<1>2. CASE \/ ResumeSkip \/ ResumeSkipEvent \/ OpenRun \/ Refine
           \/ Refining \/ Top \/ KillStop \/ Budget \/ StopEvent \/ Pick
           \/ PickNone \/ TicketEnd \/ Complete \/ StructuredStop
  BY <1>2 DEF ResumeSkip, ResumeSkipEvent, OpenRun, Refine, Refining,
     Top, KillStop, Budget, StopEvent, Pick, PickNone, TicketEnd, Complete,
     StructuredStop
<1>3. CASE \/ RefineSelect \/ RefineEnter \/ RefineBack \/ Select \/ Trip \/ Finish
           \/ StartTicket \/ EnterExecute \/ EnterPlan \/ EnterReview \/ EnterClose
           \/ EnterMergeGate \/ BackToSelect
  BY <1>3 DEF RefineSelect, RefineEnter, RefineBack, Select, Trip, Finish,
     StartTicket, EnterExecute, EnterPlan, EnterReview, EnterClose, EnterMergeGate,
     BackToSelect, Advance, Enter, MoveRest
<1>4. CASE SlashCommand \/ RecordVerification \/ PlanTicket \/ Reviewed \/ ClosedEvent
  BY <1>4 DEF SlashCommand, RecordVerification, PlanTicket, Reviewed, ClosedEvent
<1>5. CASE Gate \/ MarkEscalated \/ CleanupWorktree \/ Flag \/ Route
  BY <1>5 DEF Gate, MarkEscalated, CleanupWorktree, Flag, Route, RouteFrom, Enter,
     MoveRest
<1> QED BY <1>1, <1>2, <1>3, <1>4, <1>5 DEF Next, ProcessStep

LEMMA DeliveryInit == Init => Delivery!Init
BY DEF Init, Delivery!Init, StageOf, EvidenceOf

LEMMA DeliveryStep ==
  TypeOK /\ IndInv /\ [Next]_vars => [Delivery!Next]_(Delivery!vars)
<1> SUFFICES ASSUME TypeOK, IndInv, [Next]_vars
             PROVE  Delivery!Next \/ UNCHANGED Delivery!vars
  OBVIOUS
<1>1. CASE CreateWorktree
  <2>1. PICK x : x = tk OBVIOUS
  <2>2. x \in Ticket
    BY <1>1, <2>1, AtTicket DEF CreateWorktree, At, TicketPCs, PCs, NoRunPCs, RunPCs
  <2>3. UNCHANGED <<closed, remote, done>> /\ UNCHANGED treeVars
    BY <1>1 DEF CreateWorktree
  <2>4. CASE branch' = branch BY <2>3, <2>4, Stutters
  <2>5. CASE x \notin branch /\ branch' = branch \cup {x}
    BY <2>2, <2>3, <2>5, Starts DEF Delivery!Next
  <2> QED BY <1>1, <2>1, <2>4, <2>5 DEF CreateWorktree
<1>2. CASE Build \/ Refix \/ Verify \/ Reverify \/ Review \/ Reattach
  BY <1>2, WorkStep DEF Delivery!Next
<1>3. CASE CloseTicket
  <2>1. PICK x : x = tk OBVIOUS
  <2>2. x \in (branch \ closed) \cap Ticket /\ x \in verified \cup blind
    BY <1>3, <2>1
    DEF CloseTicket, At, IndInv, InHand, Known, BuildingPCs, TypeOK, RepoOK
  <2>3. remote[x] = "none" BY <2>2 DEF IndInv, Shipped
  <2>4. UNCHANGED <<branch, remote, done>> /\ UNCHANGED treeVars
    BY <1>3 DEF CloseTicket
  <2>5. CASE closed' = closed BY <2>4, <2>5, Stutters
  <2>6. CASE closed' = closed \cup {x}
    BY <2>2, <2>3, <2>4, <2>6, Closes DEF Delivery!Next
  <2> QED BY <1>3, <2>1, <2>5, <2>6 DEF CloseTicket
<1>4. CASE Push \/ CreatePr \/ MergePr
  BY <1>4, ShipStep DEF Push, CreatePr, MergePr, Delivery!Next
<1>5. CASE HumanPull
  <2>1. PICK x \in closed \ done :
          /\ done' = done \cup {x}
          /\ UNCHANGED <<runVars, branch, worktree, closed, remote, treeVars,
                         procVars, envVars>>
    BY <1>5 DEF HumanPull
  <2>2. x \in Ticket BY <2>1 DEF TypeOK, RepoOK
  <2>3. [t \in Ticket |-> StageOf(t)][x] \notin {"open", "building"}
    BY <2>1, <2>2 DEF StageOf, TypeOK, RepoOK, RemoteStates
  <2>4. UNCHANGED [t \in Ticket |-> StageOf(t)] BY <2>1, StageStays
  <2>5. UNCHANGED [t \in Ticket |-> EvidenceOf(t)] BY <2>1, EvidenceStays
  <2> QED BY <2>1, <2>2, <2>3, <2>4, <2>5 DEF Delivery!Land, Delivery!Next
<1>6. CASE UNCHANGED vars BY <1>6, Stutters DEF vars, repoVars
<1> QED BY <1>1, <1>2, <1>3, <1>4, <1>5, <1>6, OtherSteps

\* Through any crashes, faults and resumes every ticket has the one life that
\* TicketDelivery describes.
THEOREM LoopDelivers == Spec => ImplementsDelivery
<1>1. Init => Delivery!Init BY DeliveryInit
<1>2. TypeOK /\ IndInv /\ [Next]_vars => [Delivery!Next]_(Delivery!vars)
  BY DeliveryStep
<1> QED BY <1>1, <1>2, TypeCorrect, Inductive, PTL
        DEF Spec, ImplementsDelivery, Delivery!Spec

=============================================================================
