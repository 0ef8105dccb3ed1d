---------------------------- MODULE ShippingProofs ----------------------------
(***************************************************************************)
(* Proofs about Shipping, for every set of findings and of checks, every   *)
(* bound on the rounds and on the wait, every autonomy mode and any number *)
(* of faults and of resumes.                                               *)
(***************************************************************************)
EXTENDS Shipping, SequenceTheorems, WellFoundedInduction, TLAPS

-----------------------------------------------------------------------------
(* Logs *)

LEMMA LeastExists ==
  ASSUME NEW S \in SUBSET Nat, S # {}
  PROVE  \E m \in S : \A n \in S : m <= n
<1>1. PICK m \in S : \A n \in S : <<n, m>> \notin OpToRel(<, Nat)
  BY NatLessThanWellFounded, WFMin, Zenon
<1>2. \A n \in S : ~(n < m)
  BY <1>1 DEF OpToRel
<1> QED BY <1>2

\* Some events of a log, when there are any, have a last one.
LEMMA LastExists ==
  ASSUME NEW n \in Nat, NEW S \in SUBSET (1..n), S # {}
  PROVE  Max(S) \in S /\ \A i \in S : i <= Max(S)
<1> DEFINE T == {n - i : i \in S}
<1>1. T \in SUBSET Nat /\ T # {}
  <2>1. \A i \in S : n - i \in Nat
    OBVIOUS
  <2> QED BY <2>1
<1>2. PICK m \in T : \A k \in T : m <= k
  BY <1>1, LeastExists
<1>3. PICK i \in S : m = n - i
  BY <1>2
<1>4. ASSUME NEW j \in S PROVE i >= j
  <2>1. m <= n - j
    BY <1>2
  <2> QED BY <1>3, <2>1
<1> QED BY <1>3, <1>4 DEF Max

LEMMA GreatestIsMax ==
  ASSUME NEW S \in SUBSET Nat, NEW m \in S, \A i \in S : i <= m
  PROVE  Max(S) = m
<1>1. Max(S) \in S /\ \A i \in S : Max(S) >= i
  BY DEF Max
<1>2. Max(S) \in Nat /\ Max(S) <= m /\ Max(S) >= m
  BY <1>1
<1> QED BY <1>2

\* The last event of a type.
LEMMA LastIsIndex ==
  ASSUME NEW events \in Seq(Events), NEW type, Happened(events, type)
  PROVE  /\ Max(Indices(events, type)) \in Indices(events, type)
         /\ \A i \in Indices(events, type) : i <= Max(Indices(events, type))
<1>1. Indices(events, type) \in SUBSET (1..Len(events)) /\ Len(events) \in Nat
  BY DEF Indices
<1> QED BY <1>1, LastExists DEF Happened

LEMMA LastIsTyped ==
  ASSUME NEW events \in Seq(Events), NEW type
  PROVE  LastOf(events, type, "none") \in Data \cup {"none"}
<1>1. CASE Happened(events, type)
  <2> DEFINE i == Max(Indices(events, type))
  <2>1. i \in 1..Len(events)
    BY <1>1, LastIsIndex DEF Indices
  <2>2. events[i] \in Events
    BY <2>1
  <2>3. events[i][2] \in Data
    BY <2>2 DEF Events
  <2> QED BY <1>1, <2>3 DEF LastOf
<1> QED BY <1>1 DEF LastOf

LEMMA AppendIsTyped ==
  ASSUME NEW events \in Seq(Events), NEW e \in Events
  PROVE  /\ Append(events, e) \in Seq(Events)
         /\ Len(Append(events, e)) = Len(events) + 1 /\ Len(events) \in Nat
         /\ \A i \in 1..Len(events) : Append(events, e)[i] = events[i]
         /\ Append(events, e)[Len(events) + 1] = e
BY AppendProperties

LEMMA AppendIndices ==
  ASSUME NEW events \in Seq(Events), NEW e \in Events, NEW t
  PROVE  /\ e[1] = t =>
              Indices(Append(events, e), t) = Indices(events, t) \cup {Len(events) + 1}
         /\ e[1] # t => Indices(Append(events, e), t) = Indices(events, t)
         /\ Indices(events, t) \subseteq 1..Len(events)
<1> DEFINE longer == Append(events, e)
<1>1. DOMAIN events = 1..Len(events) /\ DOMAIN longer = 1..(Len(events) + 1)
  BY AppendIsTyped
<1>2. \A i \in 1..(Len(events) + 1) : i \in 1..Len(events) \/ i = Len(events) + 1
  BY AppendIsTyped
<1> QED BY <1>1, <1>2, AppendIsTyped DEF Indices

\* One more event: what has happened, and what came last.
LEMMA AppendLast ==
  ASSUME NEW events \in Seq(Events), NEW e \in Events, NEW t
  PROVE  /\ Happened(Append(events, e), t) <=> Happened(events, t) \/ t = e[1]
         /\ LastOf(Append(events, e), t, "none") =
              IF t = e[1] THEN e[2] ELSE LastOf(events, t, "none")
<1> DEFINE last == Len(events) + 1
           longer == Append(events, e)
           before == Indices(events, t)
           after == Indices(longer, t)
<1>1. /\ t = e[1] => after = before \cup {last}
      /\ t # e[1] => after = before
      /\ before \subseteq 1..Len(events)
  BY AppendIndices
<1>0. longer[last] = e /\ \A i \in 1..Len(events) : longer[i] = events[i]
  BY AppendIsTyped
<1>2. Happened(longer, t) <=> Happened(events, t) \/ t = e[1]
  BY <1>1 DEF Happened
<1>3. CASE t = e[1]
  <2>1. Len(events) \in Nat
    BY AppendIsTyped
  <2> HIDE DEF before, after, longer
  <2>2. after = before \cup {last} /\ before \in SUBSET (1..Len(events))
    BY <1>1, <1>3
  <2>3. Max(after) = last
    <3>1. last \in after /\ last \in Nat
      BY <2>1, <2>2
    <3>2. \A i \in before : i \in Nat /\ i <= last
      BY <2>1, <2>2
    <3>3. ASSUME NEW i \in after PROVE i \in Nat /\ i <= last
      <4>1. CASE i \in before
        BY <3>2, <4>1
      <4>2. CASE i = last
        BY <3>1, <4>2
      <4> QED BY <2>2, <3>3, <4>1, <4>2
    <3> QED BY <3>1, <3>3, GreatestIsMax
  <2> QED BY <1>0, <1>2, <1>3, <2>3 DEF LastOf, after, longer
<1>4. CASE t # e[1]
  <2>1. CASE Happened(events, t)
    <3>1. Max(before) \in 1..Len(events)
      BY <1>1, <2>1, LastIsIndex
    <3>2. Max(after) = Max(before)
      BY <1>1, <1>4
    <3> HIDE DEF before, after, longer
    <3>3. longer[Max(after)] = events[Max(before)]
      BY <1>0, <3>1, <3>2
    <3> QED BY <1>2, <1>4, <2>1, <3>3 DEF LastOf, before, after, longer
  <2> QED BY <1>2, <1>4, <2>1 DEF LastOf
<1> QED BY <1>3, <1>4

\* A flag that follows the decision.
LEMMA AppendFlag ==
  ASSUME NEW events \in Seq(Events), NEW e \in Events
  PROVE  /\ e[1] \notin {"merge.decision", "ticket.flagged"} =>
              (flaggedAfterDecision(Append(events, e)) <=> flaggedAfterDecision(events))
         /\ e[1] = "ticket.flagged" /\ Happened(events, "merge.decision") =>
              flaggedAfterDecision(Append(events, e))
<1> DEFINE longer == Append(events, e)
<1>1. CASE e[1] \notin {"merge.decision", "ticket.flagged"}
  <2>1. \A t \in {"merge.decision", "ticket.flagged"} :
          Indices(longer, t) = Indices(events, t)
    BY <1>1, AppendIndices
  <2> QED BY <1>1, <2>1 DEF flaggedAfterDecision
<1>2. CASE e[1] = "ticket.flagged" /\ Happened(events, "merge.decision")
  <2> DEFINE i == Max(Indices(events, "merge.decision"))
             j == Len(events) + 1
  <2>1. Indices(longer, "merge.decision") = Indices(events, "merge.decision")
    BY <1>2, AppendIndices
  <2>2. j \in Indices(longer, "ticket.flagged")
    BY <1>2, AppendIndices
  <2>3. /\ i \in Indices(events, "merge.decision")
        /\ \A k \in Indices(events, "merge.decision") : k <= i
    BY <1>2, LastIsIndex
  <2>4. j > i
    <3>1. Indices(events, "merge.decision") \subseteq 1..Len(events)
      BY AppendIndices
    <3> QED BY <2>3, <3>1, AppendIsTyped
  <2> QED BY <1>2, <2>1, <2>2, <2>3, <2>4 DEF flaggedAfterDecision
<1> QED BY <1>1, <1>2

LEMMA AppendReached ==
  ASSUME NEW events \in Seq(Events), NEW e \in Events
  PROVE  reachedMergeGate(Append(events, e)) <=>
           reachedMergeGate(events) \/ e = <<"ticket.flagged", "MergeGate">>
<1> DEFINE longer == Append(events, e)
           before == Indices(events, "ticket.flagged")
           after == Indices(longer, "ticket.flagged")
<1>1. /\ longer[Len(events) + 1] = e /\ \A i \in 1..Len(events) : longer[i] = events[i]
      /\ before \subseteq 1..Len(events)
  BY AppendIsTyped, AppendIndices
<1>2. \A i \in before : longer[i] = events[i]
  BY <1>1
<1>3. e = <<e[1], e[2]>>
  BY DEF Events
<1>4. CASE e[1] = "ticket.flagged"
  <2>1. after = before \cup {Len(events) + 1}
    BY <1>4, AppendIndices
  <2> QED BY <1>1, <1>2, <1>3, <1>4, <2>1 DEF reachedMergeGate
<1>5. CASE e[1] # "ticket.flagged"
  <2>1. after = before
    BY <1>5, AppendIndices
  <2>2. e # <<"ticket.flagged", "MergeGate">>
    BY <1>5
  <2> QED BY <1>2, <2>1, <2>2 DEF reachedMergeGate
<1> QED BY <1>4, <1>5

LEMMA InboxIsNotEmpty ==
  ASSUME NEW events
  PROVE  eventsToInbox(events) # {} <=> Happened(events, "triage.item")
BY DEF eventsToInbox, Happened

LEMMA NothingYet ==
  /\ <<>> \in Seq(Events) /\ Len(<<>>) = 0
  /\ \A t : ~Happened(<<>>, t) /\ LastOf(<<>>, t, "none") = "none"
<1>1. \A t : Indices(<<>>, t) = {}
  BY DEF Indices
<1> QED BY <1>1 DEF Happened, LastOf

-----------------------------------------------------------------------------
(* Types *)

USE ReviewAssumption, CiAssumption, ShippingAssumption
USE DEF At, Goto, Fine, world, state, reports, local, rest

LEMMA InitTypeOK == Init => TypeOK
<1> SUFFICES ASSUME Init PROVE TypeOK
  OBVIOUS
<1>1. ReviewTypeOK
  BY DEF Init, ReviewInit, ReviewTypeOK
<1>2. CiTypeOK
  <2>1. bucket \in [Checks -> Buckets]
    BY DEF Init, CiInit, Buckets
  <2>2. reruns \in 0..MaxReruns
    BY DEF Init, CiInit
  <2> QED BY <2>1, <2>2 DEF Init, CiInit, CiTypeOK
<1>3. /\ outcomes \in Files(OutcomeRecords)
      /\ evidence \in Files(EvidenceRecords) /\ handoff \in Files(EvidenceRecords)
  BY DEF Init, Files
<1>4. /\ status \in RunStatuses /\ phase \in Phases /\ mirror \in Phases
      /\ pc \in Positions /\ log \in Seq(Events)
  BY NothingYet DEF Init, RunStatuses, Phases, Positions
<1>5. hasRemote \in BOOLEAN /\ faults \in 0..MaxFaults /\ resumes \in 0..MaxResumes
  BY DEF Init
<1> QED BY <1>1, <1>2, <1>3, <1>4, <1>5
    DEF Init, TypeOK, WorldOK, StoreOK, ReportsOK, ProcessOK, RestOK

\* What an append does to the log, said once.
LEMMA Appended ==
  ASSUME log \in Seq(Events), NEW type \in EventTypes, NEW datum \in Data,
         Appends(type, datum)
  PROVE  /\ log' \in Seq(Events) /\ Len(log') = Len(log) + 1 /\ Len(log) \in Nat
         /\ \A t : Happened(log', t) <=> Happened(log, t) \/ t = type
         /\ \A t : LastOf(log', t, "none") =
              IF t = type THEN datum ELSE LastOf(log, t, "none")
         /\ type \notin {"merge.decision", "ticket.flagged"} =>
              (flaggedAfterDecision(log') <=> flaggedAfterDecision(log))
         /\ type = "ticket.flagged" /\ Happened(log, "merge.decision") =>
              flaggedAfterDecision(log')
         /\ reachedMergeGate(log') <=>
              reachedMergeGate(log) \/ (type = "ticket.flagged" /\ datum = "MergeGate")
<1> DEFINE e == <<type, datum>>
<1>1. e \in Events /\ e[1] = type /\ e[2] = datum /\ log' = Append(log, e)
  BY DEF Events, Appends
<1> HIDE DEF e
<1>2. log' \in Seq(Events) /\ Len(log') = Len(log) + 1 /\ Len(log) \in Nat
  BY <1>1, AppendIsTyped
<1>3. ASSUME NEW t
      PROVE  /\ Happened(log', t) <=> Happened(log, t) \/ t = type
             /\ LastOf(log', t, "none") =
                  IF t = type THEN datum ELSE LastOf(log, t, "none")
  BY <1>1, AppendLast
<1>4. /\ type \notin {"merge.decision", "ticket.flagged"} =>
           (flaggedAfterDecision(log') <=> flaggedAfterDecision(log))
      /\ type = "ticket.flagged" /\ Happened(log, "merge.decision") =>
           flaggedAfterDecision(log')
  BY <1>1, AppendFlag
<1>5. reachedMergeGate(log') <=>
        reachedMergeGate(log) \/ (type = "ticket.flagged" /\ datum = "MergeGate")
  BY <1>1, AppendReached DEF e
<1> QED BY <1>2, <1>3, <1>4, <1>5

LEMMA ReturnsTyped ==
  ASSUME ReviewTypeOK, NEW v \in {"APPROVE", "ESCALATE", "null"}, Returns(v)
  PROVE  ReviewTypeOK'
BY DEF ReviewTypeOK, Returns

LEMMA ReviewStepTyped ==
  ASSUME ReviewTypeOK, ReviewStep
  PROVE  ReviewTypeOK'
<1>1. CASE Invokes
  <2>1. CASE Returns("ESCALATE")
    BY <2>1, ReturnsTyped
  <2> QED BY <1>1, <2>1 DEF Invokes, ReviewTypeOK
<1>2. CASE Judges
  <2>1. CASE Returns("APPROVE") \/ Returns("ESCALATE")
    BY <2>1, ReturnsTyped
  <2>2. CASE /\ lastMessage[1] = "REQUEST_CHANGES" /\ stage' = "fix"
             /\ previous' = lastMessage[2]
             /\ UNCHANGED <<round, attempt, lastMessage, verdict, fixes>>
    <3>1. lastMessage[2] \in Findings
      BY <2>2 DEF ReviewTypeOK, Messages, NoMessage
    <3> QED BY <2>2, <3>1 DEF ReviewTypeOK
  <2> QED BY <1>2, <2>1, <2>2 DEF Judges, Requests
<1>3. CASE Fixes
  <2>1. lastMessage[2] \in Findings
    BY <1>3 DEF Fixes, ReviewTypeOK, Messages, NoMessage
  <2>2. fixes' \in Seq(Findings)
    BY <1>3, <2>1, AppendProperties DEF Fixes, ReviewTypeOK
  <2> QED BY <1>3, <2>2 DEF Fixes, ReviewTypeOK
<1>4. CASE Reverifies
  <2>1. CASE Returns("null")
    BY <2>1, ReturnsTyped
  <2> QED BY <1>4, <2>1 DEF Reverifies, ReviewTypeOK
<1> QED BY <1>1, <1>2, <1>3, <1>4 DEF ReviewStep

LEMMA PollTyped ==
  ASSUME CiTypeOK, Poll
  PROVE  CiTypeOK'
<1>1. ci' \in {"unasked", "polling", "green", "red", "pending-timeout", "no-signal"}
  BY DEF CiTypeOK, Poll, Concludes, Overdue, emptyVerdict, verdictOf
<1>2. poll' \in Nat
  BY DEF CiTypeOK, Poll, Concludes
<1>3. everPending' \in BOOLEAN
  BY DEF CiTypeOK, Poll, Concludes
<1> QED BY <1>1, <1>2, <1>3 DEF CiTypeOK, Poll, checkVars

LEMMA CheckMovesTyped ==
  ASSUME CiTypeOK, CheckMoves
  PROVE  CiTypeOK'
<1>1. PICK c \in Checks : Registers(c) \/ Finishes(c) \/ Reruns(c)
  BY DEF CheckMoves
<1>2. bucket' \in [Checks -> Buckets]
  BY <1>1 DEF CiTypeOK, Registers, Finishes, Reruns, Moves, Buckets, Ended
<1>3. reruns' \in 0..MaxReruns
  BY <1>1 DEF CiTypeOK, Registers, Finishes, Reruns
<1>4. late' \subseteq Checks
  BY <1>1 DEF CiTypeOK, Registers, Finishes, Reruns
<1> QED BY <1>1, <1>2, <1>3, <1>4
    DEF CiTypeOK, Registers, Finishes, Reruns, Moves

LEMMA ForgetsTyped ==
  ASSUME CiTypeOK, Forgets
  PROVE  CiTypeOK'
<1>1. bucket' \in [Checks -> Buckets]
  BY DEF Forgets, Buckets
<1>2. reruns' \in 0..MaxReruns
  BY DEF Forgets
<1> QED BY <1>1, <1>2 DEF CiTypeOK, Forgets

\* What is written into the report.
LEMMA OutcomeIs ==
  ASSUME NEW events
  PROVE  deriveComprehension(events).outcome = deriveTicketOutcomes(events)
BY DEF deriveComprehension

LEMMA OutcomeTyped ==
  ASSUME NEW events
  PROVE  deriveTicketOutcomes(events) \in OutcomeRecords
BY DEF deriveTicketOutcomes, OutcomeRecords, Happened, flaggedAfterDecision

LEMMA EvidenceTyped ==
  ASSUME NEW events \in Seq(Events), NEW s \in RunStatuses
  PROVE  deriveRunEvidence(s, events) \in EvidenceRecords
<1> DEFINE told == deriveRunEvidence(s, events)
<1>1. told.finalOutcome \in RunStatuses
  BY DEF deriveRunEvidence, RunStatuses
<1>2. told.review \in Data \cup {"none"} /\ told.pr \in Data \cup {"none"}
  BY LastIsTyped DEF deriveRunEvidence
<1> QED BY <1>1, <1>2 DEF deriveRunEvidence, EvidenceRecords, Happened

\* What a step leaves alone keeps its type, whatever else it does.
LEMMA KeptTyped ==
  ASSUME TypeOK
  PROVE  /\ UNCHANGED reviewVars => ReviewTypeOK'
         /\ UNCHANGED ciVars => CiTypeOK'
         /\ UNCHANGED world => WorldOK'
         /\ UNCHANGED <<status, phase, log>> => StoreOK'
         /\ UNCHANGED reports => ReportsOK'
         /\ UNCHANGED <<pc, local>> => ProcessOK'
         /\ Fine => RestOK'
<1>1. UNCHANGED reviewVars => ReviewTypeOK'
  BY DEF TypeOK, ReviewTypeOK, reviewVars
<1>2. UNCHANGED ciVars => CiTypeOK'
  BY DEF TypeOK, CiTypeOK, ciVars, checkVars
<1> QED BY <1>1, <1>2 DEF TypeOK, WorldOK, StoreOK, ReportsOK, ProcessOK, RestOK

\* Faults are counted up to their bound; an error leaves for one of three places.
LEMMA FaultTyped ==
  ASSUME TypeOK
  PROVE  /\ Fault => RestOK'
         /\ faults < MaxFaults /\ faults' = faults + 1 /\ lost' = TRUE /\ UNCHANGED resumes
              => RestOK'
         /\ resumes < MaxResumes /\ resumes' = resumes + 1 /\ UNCHANGED <<lost, faults>>
              => RestOK'
         /\ \A kind : Throws(kind) => ProcessOK'
         /\ \A kind : Leaves(kind) => ProcessOK'
         /\ \A there \in Positions : Goto(there) => ProcessOK'
<1>1. Fault => RestOK'
  BY DEF TypeOK, Fault, RestOK
<1>2. faults < MaxFaults /\ faults' = faults + 1 /\ lost' = TRUE /\ UNCHANGED resumes
        => RestOK'
  BY DEF TypeOK, RestOK
<1>3. resumes < MaxResumes /\ resumes' = resumes + 1 /\ UNCHANGED <<lost, faults>>
        => RestOK'
  BY DEF TypeOK, RestOK
<1>4. \A kind : Leaves(kind) => ProcessOK'
  BY DEF TypeOK, Leaves, ProcessOK, Positions
<1>5. \A kind : Throws(kind) => ProcessOK'
  BY <1>4 DEF TypeOK, Throws, ProcessOK, Positions
<1> QED BY <1>1, <1>2, <1>3, <1>4, <1>5 DEF TypeOK, ProcessOK

LEMMA StepTypeOK ==
  ASSUME TypeOK, Next
  PROVE  TypeOK'
<1>0. /\ ReviewTypeOK /\ CiTypeOK /\ WorldOK /\ StoreOK
      /\ ReportsOK /\ ProcessOK /\ RestOK
  BY DEF TypeOK
<1>1. ASSUME NEW type \in EventTypes, NEW datum \in Data, Appends(type, datum)
      PROVE  log' \in Seq(Events)
  BY <1>0, <1>1, Appended DEF StoreOK
<1> USE KeptTyped, FaultTyped
<1>2. CASE Review \/ Reviewed
  <2>1. ReviewTypeOK' /\ ProcessOK' /\ RestOK'
    BY <1>0, <1>2, ReviewStepTyped DEF Review, Reviewed, ProcessOK, Positions
  <2> QED BY <1>0, <1>2, <2>1 DEF Review, Reviewed, TypeOK, StoreOK
<1>3. CASE Summary \/ ClosedEvent \/ Triage
  <2>1. PICK type \in EventTypes, datum \in Data, here \in Positions, there \in Positions :
          Records(here, type, datum, there)
    <3>1. verdict \in Data
      BY <1>0 DEF ReviewTypeOK, Data
    <3> QED BY <1>3, <3>1
        DEF Summary, ClosedEvent, Triage, EventTypes, Data, Positions
  <2>2. StoreOK'
    BY <1>0, <1>1, <2>1 DEF Records, StoreOK
  <2>3. ProcessOK' /\ RestOK'
    BY <2>1 DEF Records
  <2> QED BY <2>1, <2>2, <2>3 DEF Records, TypeOK
<1>4. CASE EnterClose \/ EnterMergeGate \/ BackToSelect
  <2>1. PICK here \in Positions, there \in Positions, to \in Phases : Move(here, to, there)
    BY <1>4 DEF EnterClose, EnterMergeGate, BackToSelect, Positions, Phases
  <2>2. StoreOK' /\ ProcessOK' /\ RestOK'
    BY <1>0, <2>1 DEF Move, StoreOK, ProcessOK
  <2> QED BY <2>1, <2>2 DEF Move, TypeOK
<1>5. CASE CloseTicket \/ Push \/ MergePr \/ MarkEscalated \/ Cleanup
  <2>1. ProcessOK' /\ RestOK'
    BY <1>5 DEF CloseTicket, Push, MergePr, MarkEscalated, Cleanup, Positions
  <2>2. WorldOK'
    BY <1>0, <1>5 DEF CloseTicket, Push, MergePr, MarkEscalated, Cleanup, WorldOK
  <2>3. UNCHANGED reviewVars /\ UNCHANGED ciVars /\ UNCHANGED <<status, phase, log>>
        /\ UNCHANGED reports
    BY <1>5 DEF CloseTicket, Push, MergePr, MarkEscalated, Cleanup
  <2> QED BY <2>1, <2>2, <2>3 DEF TypeOK
<1>6. CASE CreatePr
  <2>1. ProcessOK' /\ RestOK' /\ WorldOK'
    BY <1>0, <1>6 DEF CreatePr, Positions, WorldOK
  <2>2. CiTypeOK'
    BY <1>0, <1>6 DEF CreatePr, CiTypeOK, checkVars
  <2>3. UNCHANGED reviewVars /\ UNCHANGED <<status, phase, log>> /\ UNCHANGED reports
    BY <1>6 DEF CreatePr
  <2> QED BY <2>1, <2>2, <2>3 DEF TypeOK
<1>7. CASE Observe
  BY <1>0, <1>7, PollTyped DEF Observe, TypeOK
<1>8. CASE Environment
  BY <1>0, <1>8, CheckMovesTyped DEF Environment, TypeOK, Fine
<1>9. CASE Decide
  <2>1. CiTypeOK'
    BY <1>0, <1>9, ForgetsTyped DEF Decide
  <2>2. StoreOK'
    <3>1. \A x, m : applyAutonomy(x, m) \in {x, "open-pr"}
      BY DEF applyAutonomy
    <3>2. \A x, y, z : decideMerge(x, y, z) \in {"auto-merge", "open-pr"}
      BY DEF decideMerge
    <3>3. CASE \E decision \in {"auto-merge", "open-pr"} : Appends("merge.decision", decision)
      BY <1>0, <1>1, <1>9, <3>3 DEF Decide, EventTypes, Data, StoreOK
    <3>4. CASE UNCHANGED log
      BY <1>0, <1>9, <3>4 DEF Decide, StoreOK
    <3> QED BY <1>9, <3>1, <3>2, <3>3, <3>4 DEF Decide
  <2>3. ProcessOK' /\ RestOK'
    BY <1>0, <1>9 DEF Decide, ProcessOK, Positions
  <2> QED BY <1>9, <2>1, <2>2, <2>3 DEF Decide, TypeOK
<1>10. CASE Flag
  <2>1. StoreOK'
    <3>1. phase \in Data /\ mirror \in Data
      BY <1>0 DEF Data, StoreOK, ProcessOK
    <3> QED BY <1>0, <1>1, <1>10, <3>1 DEF Flag, EventTypes, StoreOK
  <2>2. ProcessOK'
    BY <1>10 DEF Flag, Positions
  <2>3. RestOK'
    BY <1>10 DEF Flag
  <2> QED BY <1>10, <2>1, <2>2, <2>3 DEF Flag, TypeOK
<1>11. CASE Route \/ Done
  <2>1. StoreOK'
    BY <1>0, <1>11 DEF Route, Done, StoreOK, Phases, RunStatuses
  <2>2. ProcessOK' /\ RestOK'
    BY <1>11 DEF Route, Done, Positions
  <2> QED BY <1>11, <2>1, <2>2 DEF Route, Done, TypeOK
<1>12. CASE Completed \/ Stop
  <2>1. log' \in Seq(Events)
    BY <1>0, <1>1, <1>12 DEF Completed, Stop, EventTypes, Data, StoreOK
  <2>2. StoreOK'
    BY <1>0, <1>12, <2>1 DEF Completed, Stop, StoreOK, RunStatuses
  <2>3. ProcessOK' /\ RestOK'
    BY <1>12 DEF Completed, Stop, Positions
  <2> QED BY <1>12, <2>2, <2>3 DEF Completed, Stop, TypeOK
<1>13. CASE Outcomes \/ Evidence \/ Handoff
  <2>1. /\ Written(deriveComprehension(log).outcome, log) \in Files(OutcomeRecords)
        /\ Written(deriveRunEvidence(status, log), log) \in Files(EvidenceRecords)
        /\ TornFile \in Files(OutcomeRecords) /\ TornFile \in Files(EvidenceRecords)
    BY <1>0, OutcomeIs, OutcomeTyped, EvidenceTyped DEF Written, Files, StoreOK
  <2>2. ReportsOK'
    BY <1>0, <1>13, <2>1 DEF Outcomes, Evidence, Handoff, Writes, ReportsOK
  <2>3. ProcessOK' /\ RestOK'
    BY <1>13 DEF Outcomes, Evidence, Handoff, Writes, Positions
  <2> QED BY <1>13, <2>2, <2>3 DEF Outcomes, Evidence, Handoff, Writes, TypeOK
<1>14. CASE Dies
  <2>1. ReportsOK'
    BY <1>0, <1>14 DEF Dies, ReportsOK, Files
  <2>2. ProcessOK'
    BY <1>0, <1>14 DEF Dies, ProcessOK, Positions
  <2> QED BY <1>14, <2>1, <2>2 DEF Dies, TypeOK
<1>15. CASE Resumes
  <2>1. ReviewTypeOK'
    BY <1>0, <1>15, EmptySeq DEF Resumes, Enters, ReviewTypeOK
  <2>2. ProcessOK' /\ RestOK'
    BY <1>0, <1>15 DEF Resumes, ProcessOK, Positions, Phases
  <2> QED BY <1>15, <2>1, <2>2 DEF Resumes, TypeOK
<1> QED BY <1>2, <1>3, <1>4, <1>5, <1>6, <1>7, <1>8, <1>9, <1>10, <1>11, <1>12,
      <1>13, <1>14, <1>15
    DEF Next, Process

-----------------------------------------------------------------------------
(* The rounds of the review *)

LEMMA ReturnsKeepsRounds ==
  ASSUME NEW v, Returns(v)
  PROVE  RoundsInv'
<1>1. fixes' = <<>> /\ round' = 1 /\ stage' = "returned" /\ Len(fixes') = 0
  BY EmptySeq DEF Returns
<1> QED BY <1>1, ReviewAssumption DEF RoundsInv

LEMMA EntersKeepsRounds ==
  ASSUME Enters
  PROVE  RoundsInv'
<1>1. fixes' = <<>> /\ round' = 1 /\ stage' = "invoke" /\ Len(fixes') = 0
  BY EmptySeq DEF Enters
<1> QED BY <1>1, ReviewAssumption DEF RoundsInv

LEMMA ReviewStepKeepsRounds ==
  ASSUME ReviewTypeOK, RoundsInv, ReviewStep
  PROVE  RoundsInv'
<1>1. CASE \E v : Returns(v)
  BY <1>1, ReturnsKeepsRounds
<1>2. CASE Invokes /\ ~\E v : Returns(v)
  <2>1. stage = "invoke" /\ stage' \in {"invoke", "judge"} /\ UNCHANGED <<round, previous, fixes>>
    BY <1>2 DEF Invokes
  <2> QED BY <2>1 DEF RoundsInv
<1>3. CASE Judges /\ ~\E v : Returns(v)
  <2>1. /\ stage = "judge" /\ stage' = "fix" /\ previous' = lastMessage[2]
        /\ lastMessage[2] # previous /\ round # MaxReviewRounds
        /\ UNCHANGED <<round, lastMessage, fixes>>
    BY <1>3 DEF Judges, Requests
  <2>2. round < MaxReviewRounds
    BY <2>1, ReviewAssumption DEF RoundsInv, ReviewTypeOK
  <2> QED BY <2>1, <2>2 DEF RoundsInv
<1>4. CASE Fixes
  <2> DEFINE n == Len(fixes)
  <2>1. stage = "fix" /\ stage' = "verify" /\ UNCHANGED <<round, previous, lastMessage>>
    BY <1>4 DEF Fixes
  <2>2. lastMessage[2] \in Findings /\ previous = lastMessage[2]
    BY <2>1 DEF ReviewTypeOK, Messages, NoMessage, RoundsInv
  <2>3. /\ n \in Nat /\ Len(fixes') = n + 1 /\ fixes'[n + 1] = previous
        /\ \A i \in 1..n : fixes'[i] = fixes[i]
    BY <1>4, <2>2, AppendProperties, LenProperties DEF Fixes, ReviewTypeOK
  <2>4. n = round - 1 /\ round < MaxReviewRounds /\ round \in Nat
    BY <2>1 DEF RoundsInv, ReviewTypeOK
  <2>5. n > 0 => fixes[n] # previous
    <3>1. n > 0 => fixes # <<>>
      BY EmptySeq
    <3> QED BY <2>1, <3>1 DEF RoundsInv
  <2>6. ASSUME NEW i \in 1..Len(fixes'), i > 1
        PROVE  fixes'[i] # fixes'[i - 1]
    <3>1. CASE i = n + 1
      BY <2>3, <2>5, <2>6, <3>1
    <3>2. CASE i \in 1..n
      <4>1. i - 1 \in 1..n
        BY <2>3, <2>6, <3>2
      <4>2. fixes[i] # fixes[i - 1]
        BY <2>6, <3>2 DEF RoundsInv
      <4> QED BY <2>3, <3>2, <4>1, <4>2
    <3> QED BY <2>3, <2>6, <3>1, <3>2
  <2>7. fixes' # <<>> => previous' = fixes'[Len(fixes')]
    BY <2>1, <2>3
  <2>8. Len(fixes') = round'
    BY <2>1, <2>3, <2>4
  <2> QED BY <2>1, <2>4, <2>6, <2>7, <2>8 DEF RoundsInv
<1>5. CASE Reverifies /\ ~\E v : Returns(v)
  <2>1. /\ stage = "verify" /\ stage' = "invoke" /\ round' = round + 1
        /\ UNCHANGED <<previous, fixes>>
    BY <1>5 DEF Reverifies
  <2> QED BY <2>1, ReviewAssumption DEF RoundsInv, ReviewTypeOK
<1> QED BY <1>1, <1>2, <1>3, <1>4, <1>5 DEF ReviewStep

LEMMA StepReview ==
  ASSUME Next
  PROVE  ReviewStep \/ Enters \/ UNCHANGED reviewVars
<1>1. CASE Process
  BY <1>1 DEF Process, Review, Reviewed, Summary, EnterClose, CloseTicket, ClosedEvent,
    Push, EnterMergeGate, CreatePr, Observe, Decide, MergePr, MarkEscalated, Triage,
    Cleanup, BackToSelect, Flag, Route, Done, Completed, Stop, Outcomes, Evidence, Handoff,
    Records, Move, Writes
<1> QED BY <1>1 DEF Next, Environment, Dies, Resumes

LEMMA StepRounds ==
  ASSUME TypeOK, RoundsInv, Next
  PROVE  RoundsInv'
<1>1. CASE UNCHANGED reviewVars
  BY <1>1 DEF RoundsInv, reviewVars
<1> QED BY <1>1, StepReview, ReviewStepKeepsRounds, EntersKeepsRounds DEF TypeOK

LEMMA RoundsConverge ==
  ASSUME ReviewTypeOK, RoundsInv
  PROVE  FixesConverge
<1>1. Len(fixes) \in Nat
  BY LenProperties DEF ReviewTypeOK
<1> QED BY <1>1, ReviewAssumption DEF ReviewTypeOK, RoundsInv, FixesConverge

-----------------------------------------------------------------------------
(* The checks *)

\* A list with nothing against the merge, and what the checks do after it.
LEMMA PollUnopposed ==
  ASSUME CiTypeOK, Poll, ci' = "green"
  PROVE  Unopposed'
<1>1. verdictOf = "green" /\ bucket' = bucket /\ late' = {}
  BY DEF Poll, Concludes, Overdue, emptyVerdict, checkVars
<1>2. In({"fail", "cancel"}) = {} /\ In({"pending"}) = {}
  BY <1>1 DEF verdictOf
<1>3. \A c \in Checks : bucket[c] \in Buckets /\ bucket[c] \notin {"fail", "cancel", "pending"}
  BY <1>2 DEF In, CiTypeOK
<1> QED BY <1>1, <1>3 DEF Unopposed, Buckets, Ended

LEMMA MovesUnopposed ==
  ASSUME CiTypeOK, Unopposed, CheckMoves
  PROVE  Unopposed'
<1>1. PICK c \in Checks : Registers(c) \/ Finishes(c) \/ Reruns(c)
  BY DEF CheckMoves
<1>2. c \in late' /\ late \subseteq late'
  <2>1. CASE Finishes(c)
    BY <2>1 DEF Finishes, Moves, Unopposed
  <2> QED BY <1>1, <2>1 DEF Registers, Reruns
<1>3. \A d \in Checks \ {c} : bucket'[d] = bucket[d]
  BY <1>1 DEF CiTypeOK, Registers, Finishes, Reruns, Moves
<1> QED BY <1>2, <1>3 DEF Unopposed

LEMMA StepGreen ==
  ASSUME TypeOK, FreshInv, GreenInv, Next
  PROVE  GreenInv'
<1>1. CASE Observe
  <2>1. pr' = "open"
    BY <1>1 DEF Observe, FreshInv
  <2> QED BY <1>1, <2>1, PollUnopposed DEF Observe, GreenInv, TypeOK
<1>2. CASE Environment
  <2>1. UNCHANGED pr /\ ci' = ci
    BY <1>2 DEF Environment, CheckMoves, Registers, Finishes, Reruns, Moves
  <2> QED BY <1>2, <2>1, MovesUnopposed DEF Environment, GreenInv, TypeOK
<1>3. CASE Decide
  <2>1. CASE UNCHANGED ciVars
    BY <1>3, <2>1 DEF Decide, GreenInv, Unopposed, ciVars, checkVars
  <2>2. CASE Forgets
    BY <2>2 DEF Forgets, GreenInv, Unopposed
  <2> QED BY <1>3, <2>1, <2>2 DEF Decide
<1>4. CASE CreatePr
  <2>1. UNCHANGED <<bucket, late>> /\ pr' # "merged" /\ ci' \in {ci, "polling"}
    BY <1>4 DEF CreatePr, checkVars
  <2> QED BY <2>1 DEF GreenInv, Unopposed
<1>5. CASE MergePr
  <2>1. UNCHANGED ciVars /\ ci = "green"
    BY <1>5 DEF MergePr, FreshInv
  <2> QED BY <2>1 DEF GreenInv, Unopposed, ciVars, checkVars
<1>6. CASE UNCHANGED ciVars /\ UNCHANGED pr
  BY <1>6 DEF GreenInv, Unopposed, ciVars, checkVars
<1>7. Observe \/ Environment \/ Decide \/ CreatePr \/ MergePr
        \/ (UNCHANGED ciVars /\ UNCHANGED pr)
  <2>1. CASE Process
    BY <2>1 DEF Process, Review, Reviewed, Summary, EnterClose, CloseTicket, ClosedEvent,
      Push, EnterMergeGate, MarkEscalated, Triage, Cleanup, BackToSelect,
      Flag, Route, Done, Completed, Stop, Outcomes, Evidence, Handoff,
      Records, Move, Writes
  <2> QED BY <2>1 DEF Next, Dies, Resumes
<1> QED BY <1>1, <1>2, <1>3, <1>4, <1>5, <1>6, <1>7

-----------------------------------------------------------------------------
(* The decision *)

LEMMA DecidesOn ==
  ASSUME Decide
  PROVE  \/ \E decision \in {"auto-merge", "open-pr"} :
              /\ Appends("merge.decision", decision) /\ Fine /\ UNCHANGED <<catching, mirror>>
              /\ decision = "auto-merge" =>
                   pc' = "merge" /\ ci = "green" /\ verdict = "APPROVE" /\ UNCHANGED ciVars
              /\ decision = "open-pr" => pc' = "comment"
         \/ Fault /\ UNCHANGED log /\ Throws("other")
<1>1. ASSUME NEW x, NEW m, applyAutonomy(x, m) = "auto-merge"
      PROVE  x = "auto-merge"
  BY <1>1 DEF applyAutonomy
<1>2. ASSUME NEW x, NEW y, NEW z, decideMerge(x, y, z) = "auto-merge"
      PROVE  x = "green" /\ y = "APPROVE"
  BY <1>2 DEF decideMerge
<1> QED BY <1>1, <1>2 DEF Decide

-----------------------------------------------------------------------------
(* Where the process is *)

LEMMA ThrowsTo ==
  ASSUME NEW kind, Throws(kind)
  PROVE  pc' \in {"flag", "skip", "stop", "report"} /\ mirror' = mirror
BY DEF Throws, Leaves

LEMMA StepPhase ==
  ASSUME TypeOK, PhaseInv, Next
  PROVE  PhaseInv'
<1> USE DEF BeforeClose, BeforeMergeGate, InMergeGate, PhaseInv
<1>1. CASE Review \/ Reviewed
  BY <1>1 DEF Review, Reviewed, Throws, Leaves
<1>2. CASE Summary \/ ClosedEvent \/ Triage
  <2>1. CASE Summary
    BY <2>1 DEF Summary, Records, Throws, Leaves
  <2>2. CASE ClosedEvent
    <3>1. PICK there \in {"push", "back"} : Records("closedEvent", "ticket.closed", "", there)
      BY <2>2 DEF ClosedEvent
    <3>2. CASE Throws("other")
      BY <3>1, <3>2, ThrowsTo DEF Records
    <3>3. CASE Goto(there)
      BY <3>1, <3>3 DEF Records
    <3> QED BY <3>1, <3>2, <3>3 DEF Records
  <2>3. CASE Triage
    BY <2>3 DEF Triage, Records, Throws, Leaves
  <2> QED BY <1>2, <2>1, <2>2, <2>3
<1>3. CASE EnterClose \/ EnterMergeGate \/ BackToSelect
  BY <1>3 DEF EnterClose, EnterMergeGate, BackToSelect, Move, Throws, Leaves
<1>4. CASE CloseTicket \/ Push \/ MergePr \/ MarkEscalated \/ Cleanup \/ CreatePr
  BY <1>4 DEF CloseTicket, Push, MergePr, MarkEscalated, Cleanup, CreatePr, Throws, Leaves
<1>5. CASE Observe \/ Environment
  BY <1>5 DEF Observe, Environment
<1>6. CASE Decide
  BY <1>6 DEF Decide, Throws, Leaves
<1>7. CASE Flag
  BY <1>7 DEF Flag, Throws, Leaves
<1>8. CASE Route
  BY <1>8 DEF Route, Throws, Leaves
<1>9. CASE Done \/ Completed \/ Stop
  BY <1>9 DEF Done, Completed, Stop, Leaves
<1>10. CASE Outcomes \/ Evidence \/ Handoff \/ Dies
  BY <1>10 DEF Outcomes, Evidence, Handoff, Writes, Dies
<1>11. CASE Resumes
  BY <1>11 DEF Resumes
<1> QED BY <1>1, <1>2, <1>3, <1>4, <1>5, <1>6, <1>7, <1>8, <1>9, <1>10, <1>11
    DEF Next, Process

-----------------------------------------------------------------------------
(* What has not happened yet, and what the log says of what has *)

\* The events and the world of the steps that leave the log alone.
LEMMA StepFresh ==
  ASSUME TypeOK, PhaseInv, FreshInv, LogInv, Next
  PROVE  FreshInv'
<1> USE DEF BeforeClose, BeforeMergeGate, InMergeGate, PhaseInv, FreshInv, Decision
<1>0. log \in Seq(Events) /\ verdict \in Data /\ phase \in Data /\ mirror \in Data
  BY DEF TypeOK, StoreOK, ReviewTypeOK, ProcessOK, Data
<1>1. CASE Review \/ Reviewed
  BY <1>1 DEF Review, Reviewed, Throws, Leaves
<1>2. CASE Summary
  BY <1>0, <1>2, Appended DEF Summary, Records, Throws, Leaves, EventTypes, Data
<1>3. CASE ClosedEvent
  BY <1>0, <1>3, Appended DEF ClosedEvent, Records, Throws, Leaves, EventTypes, Data
<1>4. CASE Triage
  BY <1>0, <1>4, Appended DEF Triage, Records, Throws, Leaves, EventTypes, Data
<1>5. CASE EnterClose \/ EnterMergeGate \/ BackToSelect
  BY <1>5 DEF EnterClose, EnterMergeGate, BackToSelect, Move, Throws, Leaves
<1>6. CASE CloseTicket \/ Push \/ MergePr \/ MarkEscalated \/ Cleanup \/ CreatePr
  BY <1>6 DEF CloseTicket, Push, MergePr, MarkEscalated, Cleanup, CreatePr, Throws, Leaves
<1>7. CASE Observe
  BY <1>7 DEF Observe
<1>8. CASE Environment
  BY <1>8 DEF Environment, CheckMoves, Registers, Finishes, Reruns, Moves
<1>9. CASE Decide
  <2>1. UNCHANGED world /\ UNCHANGED state /\ pc = "observe"
    BY <1>9 DEF Decide
  <2>2. CASE UNCHANGED log /\ Throws("other")
    BY <2>1, <2>2 DEF Throws, Leaves
  <2>3. ASSUME NEW decision \in {"auto-merge", "open-pr"}, Appends("merge.decision", decision),
               decision = "auto-merge" => pc' = "merge" /\ ci = "green" /\ UNCHANGED ciVars,
               decision = "open-pr" => pc' = "comment"
        PROVE  FreshInv'
    <3>1. Decision' = decision
      BY <1>0, <2>3, Appended DEF EventTypes, Data
    <3> QED BY <2>1, <2>3, <3>1 DEF ciVars
  <2> QED BY <1>9, <2>2, <2>3, DecidesOn
<1>10. CASE Flag
  BY <1>0, <1>10, Appended DEF Flag, Throws, Leaves, EventTypes
<1>11. CASE Route
  BY <1>11 DEF Route, Throws, Leaves
<1>12. CASE Done
  BY <1>12 DEF Done, Leaves
<1>13. CASE Completed
  BY <1>0, <1>13, Appended DEF Completed, Leaves, EventTypes, Data
<1>14. CASE Stop
  BY <1>0, <1>14, Appended DEF Stop, EventTypes, Data
<1>15. CASE Outcomes \/ Evidence \/ Handoff \/ Dies
  BY <1>15 DEF Outcomes, Evidence, Handoff, Writes, Dies
<1>16. CASE Resumes
  BY <1>16 DEF Resumes
<1> QED BY <1>1, <1>2, <1>3, <1>4, <1>5, <1>6, <1>7, <1>8, <1>9, <1>10, <1>11, <1>12,
      <1>13, <1>14, <1>15, <1>16
    DEF Next, Process

LEMMA StepLog ==
  ASSUME TypeOK, PhaseInv, FreshInv, LogInv, Next
  PROVE  LogInv'
<1> USE DEF BeforeClose, BeforeMergeGate, InMergeGate, PhaseInv, FreshInv, LogInv,
            Decision, Verdict
<1>0. log \in Seq(Events) /\ verdict \in Data /\ phase \in Data /\ mirror \in Data
  BY DEF TypeOK, StoreOK, ReviewTypeOK, ProcessOK, Data
<1>1. CASE Review \/ Reviewed
  BY <1>1, ThrowsTo DEF Review, Reviewed
<1>2. CASE Summary
  <2>1. CASE UNCHANGED log /\ Throws("other")
    BY <1>2, <2>1, ThrowsTo DEF Summary, Records
  <2>2. CASE Appends("review.result", verdict) /\ pc' = "enterClose"
    <3>1. /\ Verdict' = verdict /\ Decision' = Decision
          /\ \A t \in EventTypes \ {"review.result"} : Happened(log', t) <=> Happened(log, t)
      BY <1>0, <2>2, Appended DEF EventTypes
    <3> QED BY <1>2, <2>2, <3>1 DEF Summary, Records, EventTypes, reviewVars
  <2> QED BY <1>2, <2>1, <2>2 DEF Summary, Records
<1>3. CASE ClosedEvent
  <2>1. CASE UNCHANGED log /\ Throws("other")
    BY <1>3, <2>1, ThrowsTo DEF ClosedEvent, Records
  <2>2. CASE Appends("ticket.closed", "") /\ pc' \in {"push", "back"}
    <3>1. /\ Verdict' = Verdict /\ Decision' = Decision
          /\ \A t \in EventTypes \ {"ticket.closed"} : Happened(log', t) <=> Happened(log, t)
      BY <1>0, <2>2, Appended DEF EventTypes, Data
    <3> QED BY <1>3, <2>2, <3>1 DEF ClosedEvent, Records, EventTypes, reviewVars
  <2> QED BY <1>3, <2>1, <2>2 DEF ClosedEvent, Records
<1>4. CASE Triage
  <2>1. CASE UNCHANGED log /\ Throws("other")
    BY <1>4, <2>1, ThrowsTo DEF Triage, Records
  <2>2. CASE Appends("triage.item", "merge-escalation") /\ pc' = "cleanup"
    <3>1. /\ Verdict' = Verdict /\ Decision' = Decision
          /\ \A t \in EventTypes \ {"triage.item"} : Happened(log', t) <=> Happened(log, t)
      BY <1>0, <2>2, Appended DEF EventTypes, Data
    <3> QED BY <1>4, <2>2, <3>1 DEF Triage, Records, EventTypes, reviewVars
  <2> QED BY <1>4, <2>1, <2>2 DEF Triage, Records
<1>5. CASE EnterClose \/ EnterMergeGate \/ BackToSelect
  BY <1>5, ThrowsTo DEF EnterClose, EnterMergeGate, BackToSelect, Move, reviewVars
<1>6. CASE CloseTicket \/ Push \/ MergePr \/ MarkEscalated \/ Cleanup \/ CreatePr
  BY <1>6, ThrowsTo
  DEF CloseTicket, Push, MergePr, MarkEscalated, Cleanup, CreatePr, reviewVars
<1>7. CASE Observe \/ Environment
  BY <1>7 DEF Observe, Environment, reviewVars
<1>8. CASE Decide
  <2>1. UNCHANGED <<hasRemote, closed, pr, status, phase, verdict>> /\ pc = "observe"
    BY <1>8 DEF Decide, reviewVars
  <2>2. CASE UNCHANGED log /\ Throws("other")
    BY <2>1, <2>2, ThrowsTo
  <2>3. ASSUME NEW decision \in {"auto-merge", "open-pr"}, Appends("merge.decision", decision),
               decision = "auto-merge" => pc' = "merge" /\ verdict = "APPROVE",
               decision = "open-pr" => pc' = "comment"
        PROVE  LogInv'
    <3>1. /\ Decision' = decision /\ Verdict' = Verdict /\ Happened(log', "merge.decision")
          /\ \A t \in EventTypes \ {"merge.decision"} : Happened(log', t) <=> Happened(log, t)
      BY <1>0, <2>3, Appended DEF EventTypes, Data
    <3> QED BY <2>1, <2>3, <3>1 DEF EventTypes
  <2> QED BY <1>8, <2>2, <2>3, DecidesOn
<1>9. CASE Flag
  <2>1. UNCHANGED <<hasRemote, closed, pr, status, phase, verdict>>
        /\ pc' \in {"route", "flag", "skip", "stop", "report"}
    BY <1>9, ThrowsTo DEF Flag, reviewVars
  <2>2. CASE UNCHANGED log
    BY <2>1, <2>2
  <2>3. ASSUME NEW datum \in Data, Appends("ticket.flagged", datum)
        PROVE  LogInv'
    <3>1. /\ Decision' = Decision /\ Verdict' = Verdict
          /\ \A t \in EventTypes \ {"ticket.flagged"} : Happened(log', t) <=> Happened(log, t)
      BY <1>0, <2>3, Appended DEF EventTypes
    <3> QED BY <2>1, <2>3, <3>1 DEF EventTypes
  <2> QED BY <1>0, <1>9, <2>2, <2>3 DEF Flag
<1>10. CASE Route \/ Done
  BY <1>10, ThrowsTo DEF Route, Done, Leaves, reviewVars
<1>11. CASE Completed \/ Stop
  <2>1. UNCHANGED <<hasRemote, closed, pr, phase, verdict>>
        /\ pc' \in {"report", "skip", "stop", "ended"}
    BY <1>11 DEF Completed, Stop, Leaves, reviewVars
  <2>2. CASE UNCHANGED log
    BY <2>1, <2>2
  <2>3. ASSUME NEW type \in {"run.completed", "run.stopped"}, Appends(type, "")
        PROVE  LogInv'
    <3>1. /\ Decision' = Decision /\ Verdict' = Verdict
          /\ \A t \in EventTypes \ {"run.completed", "run.stopped"} :
                Happened(log', t) <=> Happened(log, t)
      <4>1. type \in EventTypes /\ "" \in Data
            /\ type # "review.result" /\ type # "merge.decision"
        BY DEF EventTypes, Data
      <4>2. \A t : /\ Happened(log', t) <=> Happened(log, t) \/ t = type
                   /\ LastOf(log', t, "none") =
                        IF t = type THEN "" ELSE LastOf(log, t, "none")
        BY <1>0, <2>3, <4>1, Appended
      <4> QED BY <4>1, <4>2
    <3> QED BY <2>1, <2>3, <3>1 DEF EventTypes
  <2> QED BY <1>0, <1>11, <2>2, <2>3 DEF Completed, Stop
<1>12. CASE Outcomes \/ Evidence \/ Handoff \/ Dies
  BY <1>12 DEF Outcomes, Evidence, Handoff, Writes, Dies, reviewVars
<1>13. CASE Resumes
  BY <1>13 DEF Resumes
<1> QED BY <1>1, <1>2, <1>3, <1>4, <1>5, <1>6, <1>7, <1>8, <1>9, <1>10, <1>11, <1>12, <1>13
    DEF Next, Process

\* A step outside the merge and its flag keeps FlagInv.
LEMMA StepFlag ==
  ASSUME TypeOK, PhaseInv, FreshInv, LogInv, FlagInv, Next
  PROVE  FlagInv'
<1> USE DEF BeforeClose, BeforeMergeGate, InMergeGate, PhaseInv, FreshInv,
            Decision, FlagInv
<1>0. log \in Seq(Events) /\ verdict \in Data /\ phase \in Data /\ mirror \in Data
  BY DEF TypeOK, StoreOK, ReviewTypeOK, ProcessOK, Data
<1>1. CASE Review \/ Reviewed
  BY <1>1 DEF Review, Reviewed
<1>2. ASSUME NEW here, NEW there, NEW type \in EventTypes, NEW datum \in Data,
             type \notin {"merge.decision", "ticket.flagged"},
             Records(here, type, datum, there),
             here \in {"summary", "closedEvent", "triage"}
      PROVE  FlagInv'
  <2>1. UNCHANGED <<hasRemote, closed, pr, status, phase, lost>>
        /\ Decision' = Decision
        /\ (flaggedAfterDecision(log') <=> flaggedAfterDecision(log))
        /\ (reachedMergeGate(log') <=> reachedMergeGate(log))
    BY <1>0, <1>2, Appended DEF Records, Fault
  <2>2. pc = here /\ (here = "triage" => Decision = "open-pr") /\ (here # "triage" => pr = "none")
    BY <1>2 DEF Records
  <2> QED BY <1>2, <2>1, <2>2
<1>3. CASE EnterClose \/ EnterMergeGate
  BY <1>3 DEF EnterClose, EnterMergeGate, Move
<1>4. CASE BackToSelect \/ Cleanup
  BY <1>4, ThrowsTo DEF BackToSelect, Cleanup, Move, Fault
<1>5. CASE CloseTicket \/ Push \/ MarkEscalated
  BY <1>5 DEF CloseTicket, Push, MarkEscalated
<1>6. CASE MergePr
  BY <1>6 DEF MergePr, Throws
<1>7. CASE CreatePr
  BY <1>7 DEF CreatePr, Throws
<1>8. CASE Observe \/ Environment
  BY <1>8 DEF Observe, Environment
<1>9. CASE Decide
  <2>1. UNCHANGED <<pr, phase>> /\ pc = "observe"
    BY <1>9 DEF Decide
  <2>2. CASE UNCHANGED log /\ Throws("other")
    BY <2>1, <2>2 DEF Throws
  <2>3. ASSUME NEW decision \in {"auto-merge", "open-pr"}, Appends("merge.decision", decision),
               decision = "auto-merge" => pc' = "merge",
               decision = "open-pr" => pc' = "comment"
        PROVE  FlagInv'
    <3>1. Decision' = decision
      BY <1>0, <2>3, Appended DEF EventTypes, Data
    <3> QED BY <2>1, <2>3, <3>1
  <2> QED BY <1>9, <2>2, <2>3, DecidesOn
<1>10. CASE Flag
  <2>1. UNCHANGED <<hasRemote, closed, pr, status, phase, mirror>> /\ pc = "flag"
    BY <1>10, ThrowsTo DEF Flag
  <2>2. CASE lost'
    BY <2>1, <2>2
  <2>3. ASSUME NEW datum \in {phase, mirror}, Appends("ticket.flagged", datum), pc' = "route",
               lost' = lost
        PROVE  FlagInv'
    <3>1. /\ Decision' = Decision
          /\ Decision # "none" => flaggedAfterDecision(log')
          /\ reachedMergeGate(log') <=> reachedMergeGate(log) \/ datum = "MergeGate"
      BY <1>0, <2>3, Appended DEF EventTypes, LogInv
    <3> QED BY <2>1, <2>3, <3>1
  <2> QED BY <1>10, <2>2, <2>3 DEF Flag, Fault
<1>11. CASE Route
  BY <1>11, ThrowsTo DEF Route, Fault
<1>12. CASE Done
  BY <1>12 DEF Done, Leaves, Fault
<1>13. CASE Completed \/ Stop
  <2>1. UNCHANGED <<pr, phase, lost>> /\ pc \in {"completed", "stop", "skip"}
    BY <1>13 DEF Completed, Stop, Fault
  <2>2. CASE UNCHANGED log
    BY <1>13, <2>1, <2>2 DEF Completed, Stop, Leaves
  <2>3. ASSUME NEW type \in {"run.completed", "run.stopped"}, Appends(type, "")
        PROVE  FlagInv'
    <3>1. type \in EventTypes /\ "" \in Data /\ type \notin {"merge.decision", "ticket.flagged"}
      BY DEF EventTypes, Data
    <3>2. /\ Decision' = Decision
          /\ (flaggedAfterDecision(log') <=> flaggedAfterDecision(log))
          /\ (reachedMergeGate(log') <=> reachedMergeGate(log))
      BY <1>0, <2>3, <3>1, Appended
    <3>3. pc' \in {"report", "skip", "stop", "ended"}
      BY <1>13 DEF Completed, Stop, Leaves
    <3> QED BY <2>1, <3>2, <3>3
  <2> QED BY <1>13, <2>2, <2>3 DEF Completed, Stop
<1>14. CASE Outcomes \/ Evidence \/ Handoff \/ Dies
  BY <1>14 DEF Outcomes, Evidence, Handoff, Writes, Dies, Fault
<1>15. CASE Resumes
  BY <1>15 DEF Resumes
<1>16. (Summary \/ ClosedEvent \/ Triage) => FlagInv'
  BY <1>0, <1>2 DEF Summary, ClosedEvent, Triage, EventTypes, Data
<1> QED BY <1>1, <1>3, <1>4, <1>5, <1>6, <1>7, <1>8, <1>9, <1>10, <1>11, <1>12,
      <1>13, <1>14, <1>15, <1>16
    DEF Next, Process

-----------------------------------------------------------------------------
(* The end of the run *)

\* The log only grows.
LEMMA LogGrows ==
  ASSUME TypeOK, Next
  PROVE  \/ UNCHANGED log
         \/ \E type \in EventTypes, datum \in Data : Appends(type, datum)
<1>0. verdict \in Data /\ phase \in Data /\ mirror \in Data
  BY DEF TypeOK, StoreOK, ReviewTypeOK, ProcessOK, Data
<1>1. CASE Summary \/ ClosedEvent \/ Triage
  BY <1>0, <1>1 DEF Summary, ClosedEvent, Triage, Records, EventTypes, Data
<1>2. CASE Decide
  BY <1>2, DecidesOn DEF EventTypes, Data
<1>3. CASE Flag \/ Completed \/ Stop
  BY <1>0, <1>3 DEF Flag, Completed, Stop, EventTypes, Data
<1>4. CASE UNCHANGED log
  BY <1>4
<1>5. \/ Summary \/ ClosedEvent \/ Triage \/ Decide \/ Flag \/ Completed \/ Stop
      \/ UNCHANGED log
  <2>1. CASE Process
    BY <2>1 DEF Process, Review, Reviewed, EnterClose, CloseTicket, Push, EnterMergeGate,
      CreatePr, Observe, MergePr, MarkEscalated, Cleanup, BackToSelect, Route, Done,
      Outcomes, Evidence, Handoff, Move, Writes
  <2> QED BY <2>1 DEF Next, Environment, Dies, Resumes
<1> QED BY <1>1, <1>2, <1>3, <1>5

\* So what has happened has happened.
LEMMA HappenedStays ==
  ASSUME TypeOK, Next, NEW t
  PROVE  Happened(log, t) => Happened(log', t)
<1>1. CASE UNCHANGED log
  BY <1>1
<1>2. ASSUME NEW type \in EventTypes, NEW datum \in Data, Appends(type, datum)
      PROVE  Happened(log, t) => Happened(log', t)
  BY <1>2, Appended DEF TypeOK, StoreOK
<1> QED BY <1>1, <1>2, LogGrows

\* A merge is not undone, nor is a close, once it is reported.
LEMMA WorldStays ==
  ASSUME TypeOK, FreshInv, Next
  PROVE  /\ pr = "merged" => pr' = "merged"
         /\ closed => closed'
         /\ pr # "none" => pr' # "none"
         /\ hasRemote' = hasRemote
         /\ lost => lost'
<1>1. CASE UNCHANGED world
  <2>1. lost => lost'
    <3>1. CASE Process
      BY <3>1 DEF Process, Review, Reviewed, Summary, EnterClose, CloseTicket, ClosedEvent,
        Push, EnterMergeGate, CreatePr, Observe, Decide, MergePr, MarkEscalated, Triage,
        Cleanup, BackToSelect, Flag, Route, Done, Completed, Stop, Outcomes, Evidence,
        Handoff, Records, Move, Writes, Fault
    <3> QED BY <3>1 DEF Next, Environment, Dies, Resumes
  <2> QED BY <1>1, <2>1
<1>2. CASE CloseTicket
  BY <1>2 DEF CloseTicket, FreshInv, Fault
<1>3. CASE CreatePr
  BY <1>3 DEF CreatePr, FreshInv, Fault
<1>4. CASE MergePr
  BY <1>4 DEF MergePr, FreshInv, Fault
<1>5. CloseTicket \/ CreatePr \/ MergePr \/ UNCHANGED world
  <2>1. CASE Process
    BY <2>1 DEF Process, Review, Reviewed, Summary, EnterClose, ClosedEvent,
      Push, EnterMergeGate, Observe, Decide, MarkEscalated, Triage,
      Cleanup, BackToSelect, Flag, Route, Done, Completed, Stop, Outcomes, Evidence,
      Handoff, Records, Move, Writes
  <2> QED BY <2>1 DEF Next, Environment, Dies, Resumes
<1> QED BY <1>1, <1>2, <1>3, <1>4, <1>5

LEMMA SettledStays ==
  ASSUME TypeOK, FreshInv, Next, Settled
  PROVE  Settled'
BY HappenedStays, WorldStays, InboxIsNotEmpty DEF Settled

\* Where a step may go, when it is one that does not come from the last places.
LEMMA StepEnd ==
  ASSUME TypeOK, PhaseInv, FreshInv, LogInv, EndInv, Next
  PROVE  EndInv'
<1>0. log \in Seq(Events) /\ phase \in Data /\ mirror \in Data
  BY DEF TypeOK, StoreOK, ProcessOK, Data
<1>1. /\ Settled => Settled'
      /\ Happened(log, "ticket.flagged") => Happened(log', "ticket.flagged")
      /\ Happened(log, "triage.item") => Happened(log', "triage.item")
      /\ pr = "merged" => pr' = "merged"
  BY SettledStays, HappenedStays, WorldStays
<1> USE DEF EndInv
<1>2. ASSUME UNCHANGED status, Happened(log', "run.completed") => Happened(log, "run.completed"),
             pc \notin Reporting,
             pc' \in {"back", "done", "completed", "route", "cleanup"} => UNCHANGED pc
      PROVE  EndInv'
  BY <1>1, <1>2
<1>3. ASSUME NEW type \in EventTypes \ {"run.completed"}, NEW datum \in Data,
             Appends(type, datum)
      PROVE  Happened(log', "run.completed") => Happened(log, "run.completed")
  BY <1>0, <1>3, Appended
<1>4. CASE Review \/ Reviewed
  BY <1>2, <1>4, ThrowsTo DEF Review, Reviewed, Reporting
<1>5. CASE Summary
  <2>1. verdict \in Data
    BY DEF TypeOK, ReviewTypeOK, Data
  <2> QED BY <1>2, <1>3, <1>5, <2>1, ThrowsTo DEF Summary, Records, EventTypes, Reporting
<1>6. CASE ClosedEvent
  <2>1. Happened(log', "run.completed") => Happened(log, "run.completed")
    BY <1>3, <1>6 DEF ClosedEvent, Records, EventTypes, Data
  <2>2. CASE pc' = "back"
    <3>1. closed /\ closed' = closed /\ hasRemote' = hasRemote
      BY <1>6 DEF ClosedEvent, Records, LogInv, BeforeMergeGate
    <3>2. ~hasRemote
      BY <1>6, <2>2, ThrowsTo DEF ClosedEvent, Records
    <3> QED BY <1>1, <1>6, <2>1, <2>2, <3>1, <3>2 DEF ClosedEvent, Records, Settled, Reporting
  <2>3. CASE pc' # "back"
    BY <1>2, <1>6, <2>1, <2>3, ThrowsTo DEF ClosedEvent, Records, Reporting
  <2> QED BY <2>2, <2>3
<1>7. CASE Triage
  <2>1. Happened(log', "run.completed") => Happened(log, "run.completed")
    BY <1>3, <1>7 DEF Triage, Records, EventTypes, Data
  <2>2. CASE Throws("other")
    BY <1>2, <1>7, <2>1, <2>2, ThrowsTo DEF Triage, Records, Reporting
  <2>3. CASE Appends("triage.item", "merge-escalation") /\ pc' = "cleanup"
    <3>1. Happened(log', "triage.item")
      BY <1>0, <2>3, Appended DEF EventTypes, Data
    <3> QED BY <1>1, <1>7, <2>1, <2>3, <3>1 DEF Triage, Records, Reporting
  <2> QED BY <1>7, <2>2, <2>3 DEF Triage, Records
<1>8. CASE EnterClose \/ EnterMergeGate
  BY <1>2, <1>8, ThrowsTo DEF EnterClose, EnterMergeGate, Move, Reporting
<1>9. CASE BackToSelect
  BY <1>1, <1>9, ThrowsTo DEF BackToSelect, Move, Reporting
<1>10. CASE CloseTicket \/ Push \/ MarkEscalated \/ CreatePr
  BY <1>2, <1>10, ThrowsTo DEF CloseTicket, Push, MarkEscalated, CreatePr, Reporting
<1>11. CASE MergePr
  BY <1>1, <1>11, ThrowsTo DEF MergePr, Reporting
<1>12. CASE Cleanup
  <2>1. Settled
    BY <1>12, InboxIsNotEmpty DEF Cleanup, Settled
  <2> QED BY <1>1, <1>12, <2>1 DEF Cleanup, Reporting
<1>13. CASE Observe \/ Environment
  BY <1>1, <1>13 DEF Observe, Environment, Reporting
<1>14. CASE Decide
  <2>1. pc = "observe" /\ UNCHANGED status /\ pc' \in {"merge", "comment", "flag", "skip", "stop", "report"}
    BY <1>14, DecidesOn, ThrowsTo DEF Decide
  <2>2. Happened(log', "run.completed") => Happened(log, "run.completed")
    BY <1>3, <1>14, DecidesOn DEF EventTypes, Data
  <2> QED BY <1>2, <2>1, <2>2 DEF Reporting
<1>15. CASE Flag
  <2>1. UNCHANGED status /\ pc = "flag"
    BY <1>15 DEF Flag
  <2>2. Happened(log', "run.completed") => Happened(log, "run.completed")
    BY <1>0, <1>3, <1>15 DEF Flag, EventTypes
  <2>3. CASE Throws("flag")
    BY <1>2, <2>1, <2>2, <2>3, ThrowsTo DEF Reporting
  <2>4. ASSUME NEW datum \in Data, Appends("ticket.flagged", datum), pc' = "route"
        PROVE  EndInv'
    <3>1. Happened(log', "ticket.flagged")
      BY <1>0, <2>4, Appended DEF EventTypes
    <3> QED BY <1>1, <2>1, <2>2, <2>4, <3>1 DEF Reporting
  <2> QED BY <1>0, <1>15, <2>3, <2>4 DEF Flag
<1>16. CASE Route
  <2>1. CASE Throws("other")
    BY <1>2, <1>16, <2>1, ThrowsTo DEF Route, Reporting
  <2>2. CASE pc' = "done"
    BY <1>1, <1>16, <2>2 DEF Route, Settled, Reporting
  <2> QED BY <1>16, <2>1, <2>2 DEF Route
<1>17. CASE Done
  BY <1>1, <1>17 DEF Done, Leaves, Reporting
<1>18. CASE Completed
  <2>1. CASE UNCHANGED log
    BY <1>1, <1>18, <2>1 DEF Completed, Leaves, Reporting
  <2>2. CASE pc' = "report"
    BY <1>1, <1>18, <2>2 DEF Completed, Reporting
  <2> QED BY <1>18, <2>1, <2>2 DEF Completed
<1>19. CASE Stop
  <2>1. Happened(log', "run.completed") => Happened(log, "run.completed")
    BY <1>3, <1>19 DEF Stop, EventTypes, Data
  <2> QED BY <1>1, <1>19, <2>1 DEF Stop, Reporting
<1>20. CASE Outcomes \/ Evidence \/ Handoff
  BY <1>1, <1>20 DEF Outcomes, Evidence, Handoff, Writes, Reporting
<1>21. CASE Dies
  BY <1>1, <1>21 DEF Dies, Reporting
<1>22. CASE Resumes
  BY <1>1, <1>22 DEF Resumes, Reporting
<1> QED BY <1>4, <1>5, <1>6, <1>7, <1>8, <1>9, <1>10, <1>11, <1>12, <1>13, <1>14, <1>15,
      <1>16, <1>17, <1>18, <1>19, <1>20, <1>21, <1>22
    DEF Next, Process

-----------------------------------------------------------------------------
(* The report *)

\* What the process derives of the log when it comes to its report is true.
LEMMA DerivedOutcomeIsTrue ==
  ASSUME TypeOK, LogInv, FlagInv, pc = "report"
  PROVE  OutcomeIsTrue(deriveTicketOutcomes(log))
<1> DEFINE told == deriveTicketOutcomes(log)
           decided == Happened(log, "merge.decision")
           clean == decided /\ ~flaggedAfterDecision(log)
<1>1. /\ told.merged <=> clean /\ Decision = "auto-merge"
      /\ told.uncertain <=> decided /\ ~clean
      /\ told.closed <=> Happened(log, "ticket.closed")
      /\ told.prOpened = IF decided THEN "yes"
                         ELSE IF reachedMergeGate(log) THEN "not proven" ELSE "no"
  BY DEF deriveTicketOutcomes, Decision
<1>2. decided <=> Decision # "none"
  BY DEF LogInv
<1> HIDE DEF told, decided
<1>3. told.merged => pr = "merged" \/ lost
  BY <1>1 DEF FlagInv
<1>4. ~told.merged /\ ~told.uncertain => pr # "merged"
  BY <1>1, <1>2 DEF LogInv
<1>5. told.prOpened = "yes" => pr # "none"
  BY <1>1, <1>2 DEF LogInv
<1>6. told.prOpened = "no" => pr = "none" \/ lost
  BY <1>1, <1>2 DEF FlagInv
<1>7. told.closed => closed
  BY <1>1 DEF LogInv
<1> QED BY <1>3, <1>4, <1>5, <1>6, <1>7 DEF OutcomeIsTrue, told

LEMMA DerivedEvidenceIsTrue ==
  ASSUME TypeOK, LogInv, EndInv
  PROVE  EvidenceIsTrue(deriveRunEvidence(status, log))
<1> DEFINE told == deriveRunEvidence(status, log)
           ends == Indices(log, "run.completed") \cup Indices(log, "run.stopped")
<1>1. /\ told.pr = Decision /\ told.review = Verdict
      /\ told.blocked <=> Happened(log, "ticket.flagged") \/ Happened(log, "run.stopped")
      /\ told.finalOutcome =
           IF ends = {} THEN status
           ELSE IF log[Max(ends)][1] = "run.completed" THEN "completed" ELSE "stopped"
  BY DEF deriveRunEvidence, Decision, Verdict
<1> HIDE DEF told
<1>2. ASSUME told.finalOutcome = "completed"
      PROVE  status = "completed"
  <2>1. CASE ends = {}
    BY <1>1, <1>2, <2>1
  <2>2. CASE ends # {}
    <3>1. ends \in SUBSET (1..Len(log)) /\ Len(log) \in Nat
      BY LenProperties DEF TypeOK, StoreOK, Indices
    <3>2. Max(ends) \in ends
      BY <2>2, <3>1, LastExists
    <3>3. Max(ends) \in Indices(log, "run.completed")
      BY <1>1, <1>2, <2>2, <3>2 DEF Indices
    <3> QED BY <3>3 DEF Happened, EndInv
  <2> QED BY <2>1, <2>2
<1>3. told.pr = "auto-merge" => told.review = "APPROVE" /\ closed
  BY <1>1 DEF LogInv
<1>4. ASSUME told.finalOutcome = "completed", ~told.blocked, hasRemote
      PROVE  pr = "merged" \/ told.pr = "open-pr"
  BY <1>1, <1>2, <1>4, InboxIsNotEmpty DEF EndInv, Settled, LogInv
<1> QED BY <1>2, <1>3, <1>4 DEF EvidenceIsTrue, told

LEMMA StepOutcomes ==
  ASSUME TypeOK, FreshInv, LogInv, FlagInv, OutcomesInv, Next
  PROVE  OutcomesInv'
<1>0. log \in Seq(Events) /\ Len(log) \in Nat
  BY LenProperties DEF TypeOK, StoreOK
<1>1. CASE Outcomes
  <2>1. CASE outcomes' = Written(deriveTicketOutcomes(log), log) /\ pc' = "evidence"
    <3>1. OutcomeIsTrue(deriveTicketOutcomes(log))
      BY <1>1, DerivedOutcomeIsTrue DEF Outcomes, Writes
    <3>2. UNCHANGED <<world, log>> /\ (lost => lost')
      BY <1>1, WorldStays DEF Outcomes, Writes
    <3>3. outcomes'[2] = deriveTicketOutcomes(log) /\ outcomes'[3] = Len(log)
      BY <2>1 DEF Written
    <3>4. OutcomeIsTrue(outcomes[2])'
      BY <3>1, <3>2, <3>3 DEF OutcomeIsTrue
    <3> QED BY <1>0, <2>1, <3>2, <3>3, <3>4
        DEF OutcomesInv, Working, BeforeMergeGate, InMergeGate
  <2>2. CASE outcomes' \in {outcomes, TornFile} /\ pc' = "ended"
    <3>1. UNCHANGED <<world, log>> /\ (lost => lost')
      BY <1>1, WorldStays DEF Outcomes, Writes
    <3> QED BY <2>2, <3>1
        DEF OutcomesInv, OutcomeIsTrue, covers, readable, Working, BeforeMergeGate,
            InMergeGate
  <2> QED BY <1>1, <2>1, <2>2, OutcomeIs DEF Outcomes, Writes
<1>2. ASSUME UNCHANGED outcomes, NEW type \in EventTypes, NEW datum \in Data,
             Appends(type, datum)
      PROVE  OutcomesInv'
  <2>1. Len(log') = Len(log) + 1
    BY <1>0, <1>2, Appended
  <2>2. CASE readable(outcomes)
    <3>1. outcomes[3] \in Nat /\ outcomes[3] <= Len(log)
      BY <2>2 DEF OutcomesInv, TypeOK, ReportsOK, Files, readable
    <3> QED BY <1>0, <1>2, <2>1, <3>1 DEF OutcomesInv, covers
  <2>3. CASE ~readable(outcomes)
    BY <1>2, <2>3 DEF OutcomesInv
  <2> QED BY <2>2, <2>3
<1>3. ASSUME UNCHANGED <<outcomes, log, world>>,
             pc' \in Working => pc \in Working
      PROVE  OutcomesInv'
  BY <1>3, WorldStays
  DEF OutcomesInv, OutcomeIsTrue, covers, Working
<1>4. ASSUME UNCHANGED <<outcomes, log>>, pc \in Working
      PROVE  OutcomesInv'
  BY <1>4 DEF OutcomesInv, covers, Working
<1>5. CASE Dies
  <2>1. CASE UNCHANGED outcomes
    BY <1>3, <1>5, <2>1 DEF Dies, Working, BeforeMergeGate, InMergeGate
  <2>2. CASE outcomes' = TornFile
    BY <2>2 DEF OutcomesInv, readable
  <2> QED BY <1>5, <2>1, <2>2 DEF Dies
<1>6. ASSUME ~Outcomes, ~Dies PROVE UNCHANGED outcomes
  <2>1. CASE Process
    BY <1>6, <2>1 DEF Process, Review, Reviewed, Summary, EnterClose, CloseTicket, ClosedEvent,
      Push, EnterMergeGate, CreatePr, Observe, Decide, MergePr, MarkEscalated, Triage,
      Cleanup, BackToSelect, Flag, Route, Done, Completed, Stop, Evidence,
      Handoff, Records, Move, Writes
  <2> QED BY <1>6, <2>1 DEF Next, Environment, Resumes
<1>7. CASE UNCHANGED outcomes /\ UNCHANGED log /\ ~Outcomes /\ ~Dies
  <2> USE DEF Working, BeforeMergeGate, InMergeGate
  <2>1. CASE pc \in Working
    BY <1>4, <1>7, <2>1
  <2>2. CASE pc \notin Working
    <3>1. UNCHANGED world /\ pc' \notin Working
      <4>1. CASE Review \/ Reviewed
        BY <4>1, ThrowsTo DEF Review, Reviewed
      <4>2. CASE Summary
        <5>1. ~Appends("review.result", verdict)
          <6>1. verdict \in Data /\ "review.result" \in EventTypes
            BY DEF TypeOK, ReviewTypeOK, Data, EventTypes
          <6>2. Appends("review.result", verdict) => Len(log') = Len(log) + 1
            BY <1>0, <6>1, Appended
          <6> QED BY <1>0, <1>7, <6>2
        <5> QED BY <4>2, <5>1, ThrowsTo DEF Summary, Records
      <4>3. CASE Flag \/ Route
        BY <4>3, ThrowsTo DEF Flag, Route
      <4>4. CASE Done \/ Completed \/ Stop \/ Evidence \/ Handoff \/ Resumes
        BY <4>4 DEF Done, Completed, Stop, Evidence, Handoff, Resumes, Leaves, Writes
      <4>5. ~\/ ClosedEvent \/ Triage \/ EnterClose \/ EnterMergeGate \/ BackToSelect
             \/ CloseTicket \/ Push \/ MergePr \/ MarkEscalated \/ Cleanup \/ CreatePr
             \/ Observe \/ Environment \/ Decide
        BY <2>2 DEF ClosedEvent, Triage, EnterClose, EnterMergeGate, BackToSelect,
          CloseTicket, Push, MergePr, MarkEscalated, Cleanup, CreatePr, Observe, Environment,
          Decide, Records, Move
      <4> QED BY <1>7, <4>1, <4>2, <4>3, <4>4, <4>5 DEF Next, Process
    <3> QED BY <1>3, <1>7, <3>1
  <2> QED BY <2>1, <2>2
<1> QED BY <1>1, <1>2, <1>5, <1>6, <1>7, LogGrows

\* What a file of before the step says is true after it.
StillTrue(file) ==
  readable(file) =>
    /\ file[2].pr = "auto-merge" => file[2].review = "APPROVE" /\ closed'
    /\ file[2].finalOutcome = "completed" =>
         status' = "completed" /\ pc' \in {"handoff", "ended", "dead"}
    /\ file[2].finalOutcome = "completed" /\ ~file[2].blocked /\ hasRemote' =>
         pr' = "merged" \/ file[2].pr = "open-pr"

LEMMA StepEvidence ==
  ASSUME TypeOK, FreshInv, LogInv, EndInv, EvidenceInv, Next
  PROVE  EvidenceInv'
<1> DEFINE Sound(file) == readable(file) =>
             /\ EvidenceIsTrue(file[2])
             /\ file[2].finalOutcome = "completed" => pc \in {"handoff", "ended", "dead"}
<1>1. ASSUME NEW file, Sound(file),
             status = "completed" /\ pc \in {"handoff", "ended", "dead"} =>
               status' = "completed" /\ pc' \in {"handoff", "ended", "dead"}
      PROVE  StillTrue(file)
  BY <1>1, WorldStays DEF EvidenceIsTrue, StillTrue
<1>2. status = "completed" /\ pc \in {"handoff", "ended", "dead"} =>
        status' = "completed" /\ pc' \in {"handoff", "ended", "dead"}
  <2>1. CASE Process
    BY <2>1 DEF Process, Review, Reviewed, Summary, EnterClose, CloseTicket, ClosedEvent,
      Push, EnterMergeGate, CreatePr, Observe, Decide, MergePr, MarkEscalated, Triage,
      Cleanup, BackToSelect, Flag, Route, Done, Completed, Stop, Outcomes, Evidence,
      Handoff, Records, Move, Writes
  <2> QED BY <2>1 DEF Next, Environment, Dies, Resumes
<1>3. Sound(evidence) /\ Sound(handoff)
  BY DEF EvidenceInv
<1>4. ASSUME NEW file, file \in {evidence, handoff, TornFile}
      PROVE  StillTrue(file)
  <2>1. CASE file = TornFile
    BY <2>1 DEF readable, StillTrue
  <2> QED BY <1>1, <1>2, <1>3, <1>4, <2>1
<1>5. CASE UNCHANGED <<evidence, handoff>> \/ Dies
  BY <1>4, <1>5 DEF EvidenceInv, EvidenceIsTrue, Dies, StillTrue
<1>6. CASE Evidence \/ Handoff
  <2> DEFINE fresh == Written(deriveRunEvidence(status, log), log)
  <2>1. /\ evidence' \in {evidence, TornFile, fresh} /\ handoff' \in {handoff, fresh}
        /\ UNCHANGED <<status, world>> /\ pc' \in {"handoff", "ended"}
    BY <1>6 DEF Evidence, Handoff, Writes
  <2>2. fresh[2] = deriveRunEvidence(status, log)
    BY DEF Written
  <2>3. EvidenceIsTrue(fresh[2])
    BY <2>2, DerivedEvidenceIsTrue
  <2> HIDE DEF fresh
  <2>4. ASSUME NEW file, file \in {evidence, handoff, TornFile, fresh}
        PROVE  StillTrue(file)
    <3>1. CASE file = fresh
      BY <2>1, <2>3, <3>1 DEF EvidenceIsTrue, StillTrue
    <3> QED BY <1>4, <2>4, <3>1
  <2> QED BY <2>1, <2>4 DEF EvidenceInv, EvidenceIsTrue, StillTrue
<1>7. UNCHANGED <<evidence, handoff>> \/ Dies \/ Evidence \/ Handoff
  <2>1. CASE Process
    BY <2>1 DEF Process, Review, Reviewed, Summary, EnterClose, CloseTicket, ClosedEvent,
      Push, EnterMergeGate, CreatePr, Observe, Decide, MergePr, MarkEscalated, Triage,
      Cleanup, BackToSelect, Flag, Route, Done, Completed, Stop, Outcomes,
      Records, Move, Writes
  <2> QED BY <2>1 DEF Next, Environment, Resumes
<1> QED BY <1>5, <1>6, <1>7

-----------------------------------------------------------------------------
(* The theorems *)

LEMMA InitInd == Init => IndInv
<1> SUFFICES ASSUME Init PROVE IndInv
  OBVIOUS
<1>1. TypeOK
  BY InitTypeOK
<1>2. RoundsInv
  BY EmptySeq, ReviewAssumption DEF Init, ReviewInit, RoundsInv
<1>3. GreenInv
  BY DEF Init, CiInit, GreenInv
<1>4. /\ Decision = "none" /\ pc = "review" /\ phase = "Review" /\ ~catching /\ pr = "none"
      /\ ~closed /\ status = "running" /\ ~lost
      /\ \A t : ~Happened(log, t)
  BY NothingYet DEF Init, Decision
<1>5. PhaseInv /\ FreshInv /\ LogInv /\ FlagInv /\ EndInv
  BY <1>4 DEF PhaseInv, FreshInv, LogInv, FlagInv, EndInv,
    BeforeClose, BeforeMergeGate, InMergeGate
<1>6. OutcomesInv /\ EvidenceInv
  BY DEF Init, OutcomesInv, EvidenceInv, readable
<1> QED BY <1>1, <1>2, <1>3, <1>5, <1>6 DEF IndInv

LEMMA StepInd == IndInv /\ [Next]_vars => IndInv'
<1> SUFFICES ASSUME IndInv, [Next]_vars PROVE IndInv'
  OBVIOUS
<1> USE DEF IndInv
<1>1. CASE Next
  BY <1>1, StepTypeOK, StepRounds, StepGreen, StepPhase, StepFresh, StepLog, StepFlag,
    StepEnd, StepOutcomes, StepEvidence
<1>2. CASE UNCHANGED vars
  <2> USE DEF vars
  <2>1. TypeOK'
    BY <1>2, KeptTyped DEF TypeOK
  <2>2. RoundsInv' /\ GreenInv'
    BY <1>2 DEF RoundsInv, GreenInv, Unopposed, reviewVars, ciVars, checkVars
  <2>3. PhaseInv' /\ FreshInv'
    BY <1>2 DEF PhaseInv, FreshInv, Decision, ciVars
  <2>4. LogInv' /\ FlagInv'
    BY <1>2 DEF LogInv, FlagInv, Decision, Verdict, reviewVars
  <2>5. EndInv'
    BY <1>2 DEF EndInv, Settled
  <2>6. OutcomesInv' /\ EvidenceInv'
    BY <1>2 DEF OutcomesInv, EvidenceInv, OutcomeIsTrue, EvidenceIsTrue
  <2> QED BY <2>1, <2>2, <2>3, <2>4, <2>5, <2>6
<1> QED BY <1>1, <1>2

THEOREM ShippingInvariant == Spec => []IndInv
BY InitInd, StepInd, PTL DEF Spec

\* The variables keep their types: the events, and what the report is made of
\* them, come from the sets the code takes them from.
THEOREM ShippingIsTyped == Spec => []TypeOK
<1>1. IndInv => TypeOK
  BY DEF IndInv
<1> QED BY <1>1, ShippingInvariant, PTL

\* Whatever the checks do between two lists and after the last one, the merge
\* rests on a list without a failed, cancelled or pending check (observeCi).
THEOREM ShippingMergesGreen == Spec => []GreenUnlessLate
<1>1. IndInv => GreenUnlessLate
  BY DEF IndInv, GreenInv, GreenUnlessLate
<1> QED BY <1>1, ShippingInvariant, PTL

\* Whatever reviewers find, in how many rounds, reviewStep fixes no findings
\* twice in a row and nothing after the last review.
THEOREM ShippingFixesConverge == Spec => []FixesConverge
<1>1. IndInv => FixesConverge
  BY RoundsConverge DEF IndInv, TypeOK
<1> QED BY <1>1, ShippingInvariant, PTL

\* Wherever writes fail, processes die and resumes begin again, a run whose
\* state.json says it is completed has settled its ticket.
THEOREM ShippingSettles == Spec => []CompletedIsSettled
<1>1. IndInv => CompletedIsSettled
  BY DEF IndInv, EndInv, CompletedIsSettled
<1> QED BY <1>1, ShippingInvariant, PTL

\* And its report, when a reader can read it and it was made of the whole log,
\* claims nothing that did not happen.
THEOREM ShippingReportsTruly == Spec => []ReportIsTrue
<1>1. IndInv => ReportIsTrue
  BY DEF IndInv, OutcomesInv, EvidenceInv, ReportIsTrue
<1> QED BY <1>1, ShippingInvariant, PTL

-----------------------------------------------------------------------------
(* Why a process comes to its end *)

LEMMA MaxPollsPositive == maxPolls \in Nat \ {0}
<1> DEFINE n == CiWaitTimeoutSec + CiPollIntervalSec - 1
           d == CiPollIntervalSec
<1>1. n \in Nat /\ d \in Nat \ {0}
  BY CiAssumption
<1>2. n \div d \in Nat
  <2> HIDE DEF n, d
  <2> QED BY <1>1
<1> QED BY <1>2 DEF maxPolls

\* A poll is one of those the deadline allows.
LEMMA StepPolls ==
  ASSUME TypeOK, poll < maxPolls, Next
  PROVE  poll' < maxPolls
<1>1. UNCHANGED poll \/ Poll
  BY DEF Next, Process, Review, Reviewed, Summary, EnterClose, CloseTicket, ClosedEvent,
    Push, EnterMergeGate, CreatePr, Observe, Decide, MergePr, MarkEscalated, Triage,
    Cleanup, BackToSelect, Flag, Route, Done, Completed, Stop, Outcomes, Evidence, Handoff,
    Records, Move, Writes, Forgets, Environment, CheckMoves, Registers, Finishes, Reruns,
    Moves, Dies, Resumes, ciVars
<1>2. CASE Poll
  BY <1>2, MaxPollsPositive DEF Poll, Concludes
<1> QED BY <1>1, <1>2

Counters ==
  /\ ReviewLeft \in Nat /\ PollsLeft \in Nat /\ PollsLeft <= 1 + maxPolls
  /\ OnceLeft \in 0..21 /\ catching \in BOOLEAN
PollInBounds == poll < maxPolls

LEMMA CountersTyped == TypeOK /\ RoundsInv /\ PollInBounds => Counters
<1> SUFFICES ASSUME TypeOK, RoundsInv, PollInBounds PROVE Counters
  OBVIOUS
<1>1. ReviewLeft \in Nat
  <2> DEFINE r == MaxReviewRounds - round
  <2>1. r \in Nat /\ attempt \in {1, 2}
    BY ReviewAssumption DEF TypeOK, ReviewTypeOK, RoundsInv
  <2> HIDE DEF r
  <2>2. 1 + 5 * r \in Nat
    BY <2>1
  <2>3. ReviewLeft = IF stage = "returned" THEN 0
                     ELSE 1 + 5 * r + (CASE stage = "invoke" -> 5 - attempt
                                         [] stage = "judge" -> 2
                                         [] stage = "fix" -> 1
                                         [] OTHER -> 0)
    BY DEF ReviewLeft, r
  <2> QED BY <2>1, <2>2, <2>3
<1>2. PollsLeft \in Nat /\ PollsLeft <= 1 + maxPolls
  <2>1. poll \in Nat /\ maxPolls \in Nat /\ poll < maxPolls
    BY MaxPollsPositive DEF TypeOK, CiTypeOK, PollInBounds
  <2>2. PollsLeft \in {1 + maxPolls, maxPolls - poll, 0}
    BY DEF PollsLeft
  <2> QED BY <2>1, <2>2
<1>3. OnceLeft \in 0..21
  BY DEF OnceLeft
<1> QED BY <1>1, <1>2, <1>3 DEF Counters, TypeOK, ProcessOK

LEMMA ReviewCountsDown ==
  ASSUME TypeOK, RoundsInv, ReviewStep
  PROVE  ReviewLeft' < ReviewLeft
<1> DEFINE r == MaxReviewRounds - round
<1>1. r \in Nat /\ attempt \in {1, 2} /\ stage # "returned"
  BY ReviewAssumption
     DEF TypeOK, ReviewTypeOK, RoundsInv, ReviewStep, Invokes, Judges, Fixes, Reverifies
<1>2. ReviewLeft > 0
  BY <1>1 DEF ReviewLeft
<1>3. CASE \E v : Returns(v)
  <2>1. ReviewLeft' = 0
    BY <1>3 DEF Returns, ReviewLeft
  <2> QED BY <1>2, <2>1
<1>4. CASE ReviewStep /\ ~\E v : Returns(v)
  <2>1. \/ /\ round' = round
           /\ \/ stage = "invoke" /\ attempt = 1 /\ stage' = "invoke" /\ attempt' = 2
              \/ stage = "invoke" /\ stage' = "judge"
              \/ stage = "judge" /\ stage' = "fix"
              \/ stage = "fix" /\ stage' = "verify"
        \/ stage = "verify" /\ stage' = "invoke" /\ attempt' = 1 /\ round' = round + 1
    BY <1>4 DEF ReviewStep, Invokes, Judges, Requests, Fixes, Reverifies
  <2>2. MaxReviewRounds \in Nat /\ round \in Nat
    BY ReviewAssumption DEF TypeOK, ReviewTypeOK
  <2>3. CASE round' = round
    BY <1>1, <2>1, <2>2, <2>3 DEF ReviewLeft
  <2>4. CASE round' = round + 1
    BY <1>1, <2>1, <2>2, <2>4 DEF ReviewLeft
  <2> QED BY <2>1, <2>3, <2>4
<1> QED BY <1>3, <1>4

\* The process goes forward, or it throws for the first time.
Forward == catching' = catching /\ OnceLeft' < OnceLeft
FirstThrow == ~catching /\ catching' = TRUE /\ pc' = "flag" /\ OnceLeft >= 7

LEMMA ThrowsForward ==
  ASSUME TypeOK, OnceLeft >= 7, NEW kind, Throws(kind)
  PROVE  Forward \/ FirstThrow
<1>1. CASE catching
  <2>1. pc' \in {"skip", "stop", "report"} /\ catching' = catching
    BY <1>1 DEF Throws, Leaves, Goto
  <2> QED BY <2>1 DEF Forward, OnceLeft
<1>2. CASE ~catching
  BY <1>2 DEF Throws, FirstThrow
<1> QED BY <1>1, <1>2

LEMMA ProcessForward ==
  ASSUME TypeOK, Process, ~Observe
  PROVE  Forward \/ FirstThrow \/ (ReviewStep /\ UNCHANGED <<pc, catching>>)
<1> USE DEF Goto, At
<1>1. CASE Review \/ Reviewed
  <2>1. CASE Throws("other") /\ pc = "review"
    BY <2>1, ThrowsForward DEF OnceLeft
  <2>2. CASE Reviewed
    BY <2>2 DEF Reviewed, Forward, OnceLeft
  <2> QED BY <1>1, <2>1, <2>2 DEF Review, local
<1>2. CASE Summary \/ ClosedEvent \/ Triage
  <2>1. PICK here, type, datum, there :
          /\ Records(here, type, datum, there)
          /\ \/ here = "summary" /\ there = "enterClose"
             \/ here = "closedEvent" /\ there \in {"push", "back"}
             \/ here = "triage" /\ there = "cleanup"
    BY <1>2 DEF Summary, ClosedEvent, Triage
  <2>2. CASE Throws("other")
    BY <2>1, <2>2, ThrowsForward DEF Records, OnceLeft
  <2>3. CASE Goto(there)
    BY <2>1, <2>3 DEF Records, Forward, OnceLeft
  <2> QED BY <2>1, <2>2, <2>3 DEF Records
<1>3. CASE EnterClose \/ EnterMergeGate \/ BackToSelect
  <2>1. PICK here, to, there :
          /\ Move(here, to, there)
          /\ \/ here = "enterClose" /\ there = "close"
             \/ here = "enterMergeGate" /\ there = "createPr"
             \/ here = "back" /\ there = "done"
    BY <1>3 DEF EnterClose, EnterMergeGate, BackToSelect
  <2>2. CASE Throws("other")
    BY <2>1, <2>2, ThrowsForward DEF Move, OnceLeft
  <2>3. CASE pc' = there /\ catching' = catching
    BY <2>1, <2>3 DEF Move, Forward, OnceLeft
  <2> QED BY <2>1, <2>2, <2>3 DEF Move
<1>4. CASE CloseTicket \/ Push \/ CreatePr \/ MergePr \/ Decide
  <2>1. pc \in {"close", "push", "createPr", "merge", "observe"}
    BY <1>4 DEF CloseTicket, Push, CreatePr, MergePr, Decide
  <2>2. CASE Throws("other")
    BY <2>1, <2>2, ThrowsForward DEF OnceLeft
  <2>3. CASE ~Throws("other")
    <3>1. /\ catching' = catching
          /\ \/ pc = "close" /\ pc' = "closedEvent"
             \/ pc = "push" /\ pc' = "enterMergeGate"
             \/ pc = "createPr" /\ pc' = "observe"
             \/ pc = "observe" /\ pc' \in {"merge", "comment"}
             \/ pc = "merge" /\ pc' = "cleanup"
      BY <1>4, <2>3 DEF CloseTicket, Push, CreatePr, MergePr, Decide
    <3> QED BY <3>1 DEF Forward, OnceLeft
  <2> QED BY <2>2, <2>3
<1>5. CASE MarkEscalated \/ Cleanup
  BY <1>5 DEF MarkEscalated, Cleanup, Forward, OnceLeft
<1>6. CASE Flag \/ Route
  <2>1. /\ pc \in {"flag", "route"}
        /\ \/ \E kind : Throws(kind)
           \/ catching' = catching /\ pc = "flag" /\ pc' = "route"
           \/ catching' = catching /\ pc = "route" /\ pc' = "done"
    BY <1>6 DEF Flag, Route
  <2>2. OnceLeft >= 7
    BY <2>1 DEF OnceLeft
  <2>3. CASE \E kind : Throws(kind)
    BY <2>2, <2>3, ThrowsForward
  <2> QED BY <2>1, <2>3 DEF Forward, OnceLeft
<1>7. CASE Done \/ Completed \/ Stop
  <2>1. /\ catching' = catching
        /\ \/ pc = "done" /\ pc' \in {"completed", "skip", "stop", "report"}
           \/ pc = "completed" /\ pc' \in {"skip", "stop", "report"}
           \/ pc \in {"stop", "skip"} /\ pc' \in {"report", "ended"}
    BY <1>7 DEF Done, Completed, Stop, Leaves
  <2> QED BY <2>1 DEF Forward, OnceLeft
<1>8. CASE Outcomes \/ Evidence \/ Handoff
  <2>1. /\ catching' = catching
        /\ \/ pc = "report" /\ pc' \in {"evidence", "ended"}
           \/ pc = "evidence" /\ pc' \in {"handoff", "ended"}
           \/ pc = "handoff" /\ pc' = "ended"
    BY <1>8 DEF Outcomes, Evidence, Handoff, Writes
  <2> QED BY <2>1 DEF Forward, OnceLeft
<1> QED BY <1>1, <1>2, <1>3, <1>4, <1>5, <1>6, <1>7, <1>8 DEF Process

\* The rounds of the review are the process's, while it is there.
LEMMA ProcessReviews ==
  ASSUME Process
  PROVE  UNCHANGED reviewVars \/ (ReviewStep /\ pc = "review" /\ UNCHANGED <<pc, catching>>)
BY DEF Process, Review, Reviewed, Summary, EnterClose, CloseTicket, ClosedEvent,
  Push, EnterMergeGate, CreatePr, Observe, Decide, MergePr, MarkEscalated, Triage,
  Cleanup, BackToSelect, Flag, Route, Done, Completed, Stop, Outcomes, Evidence, Handoff,
  Records, Move, Writes, At, local

\* Nothing goes back to the polls, nor to before them.
LEMMA PollsBehind ==
  ASSUME TypeOK, Counters, Counters', Forward \/ FirstThrow
  PROVE  PollsLeft' <= PollsLeft
<1> USE DEF BeforePolls, BeforeClose, BeforeMergeGate
<1>1. CASE pc \in BeforePolls
  <2>1. PollsLeft = 1 + maxPolls
    BY <1>1 DEF PollsLeft
  <2> QED BY <2>1 DEF Counters
<1>2. CASE pc \notin BeforePolls
  <2>1. pc \in Positions /\ OnceLeft <= 13
    BY <1>2 DEF TypeOK, ProcessOK, Positions, OnceLeft
  <2>2. pc' = "flag" \/ OnceLeft' < 13
    BY <2>1 DEF Forward, FirstThrow, Counters
  <2>3. pc' \notin BeforePolls \cup {"observe"}
    BY <2>2 DEF OnceLeft
  <2>4. PollsLeft' = 0
    BY <2>3 DEF PollsLeft
  <2> QED BY <2>4 DEF Counters
<1> QED BY <1>1, <1>2

LEMMA ReviewLeftStays ==
  ASSUME UNCHANGED reviewVars
  PROVE  ReviewLeft' = ReviewLeft
BY DEF reviewVars, ReviewLeft

LEMMA PollCountsDown ==
  ASSUME TypeOK, poll < maxPolls, Observe
  PROVE  PollsLeft' < PollsLeft
<1>1. pc = "observe" /\ pc' = "observe" /\ ci = "polling"
  BY DEF Observe, At, Poll
<1>2. \/ ci' = ci /\ poll' = poll + 1
      \/ ci' # "polling"
  BY DEF Observe, Poll, Concludes, Overdue, emptyVerdict, verdictOf
<1>3. poll \in Nat
  BY DEF TypeOK, CiTypeOK
<1>4. PollsLeft = maxPolls - poll
  BY <1>1 DEF PollsLeft, BeforePolls, BeforeClose, BeforeMergeGate
<1>5. PollsLeft' = IF ci' = "polling" THEN maxPolls - poll' ELSE 0
  BY <1>1 DEF PollsLeft, BeforePolls, BeforeClose, BeforeMergeGate
<1> QED BY <1>1, <1>2, <1>3, <1>4, <1>5, MaxPollsPositive

\* Of four counters one goes down and none up, or the fourth makes up for the third.
LEMMA SumGoesDown ==
  ASSUME NEW a \in Nat, NEW b \in Nat, NEW c \in Nat, NEW d \in Nat,
         NEW p \in Nat, NEW q \in Nat, NEW r \in Nat, NEW s \in Nat,
         p <= a, q <= b,
         \/ r <= c /\ s = d /\ (p < a \/ q < b \/ r < c)
         \/ r = 8 /\ c >= 7 /\ d = 2 /\ s = 0
  PROVE  p + q + r + s < a + b + c + d
OBVIOUS

LEMMA ProcessCounts ==
  ASSUME TypeOK, RoundsInv, PollInBounds, Counters, Counters', Process
  PROVE  StepsLeft' < StepsLeft
<1> DEFINE Falls == \/ /\ OnceLeft' <= OnceLeft /\ FlagsLeft' = FlagsLeft
                      /\ \/ ReviewLeft' < ReviewLeft \/ PollsLeft' < PollsLeft
                         \/ OnceLeft' < OnceLeft
                   \/ /\ OnceLeft' = 8 /\ OnceLeft >= 7
                      /\ FlagsLeft = 2 /\ FlagsLeft' = 0
<1>0. /\ ReviewLeft \in Nat /\ ReviewLeft' \in Nat
      /\ PollsLeft \in Nat /\ PollsLeft' \in Nat
      /\ OnceLeft \in Nat /\ OnceLeft' \in Nat
      /\ FlagsLeft \in Nat /\ FlagsLeft' \in Nat
  BY DEF Counters, FlagsLeft
<1>1. SUFFICES ReviewLeft' <= ReviewLeft /\ PollsLeft' <= PollsLeft /\ Falls
  BY <1>0, SumGoesDown DEF StepsLeft
<1>2. /\ ReviewLeft <= ReviewLeft /\ PollsLeft <= PollsLeft /\ OnceLeft <= OnceLeft
      /\ \A x, y \in Nat : x < y => x <= y
  BY <1>0
<1>3. catching' = catching => FlagsLeft' = FlagsLeft
  BY DEF FlagsLeft
<1>4. ~catching /\ catching' => FlagsLeft = 2 /\ FlagsLeft' = 0
  BY DEF FlagsLeft
<1>5. CASE Observe
  <2>1. UNCHANGED <<reviewVars, pc, catching>>
    BY <1>5 DEF Observe, local
  <2>2. ReviewLeft' = ReviewLeft /\ OnceLeft' = OnceLeft
    BY <2>1, ReviewLeftStays DEF OnceLeft
  <2>3. PollsLeft' < PollsLeft
    BY <1>5, PollCountsDown DEF PollInBounds
  <2> QED BY <1>0, <1>1, <1>2, <1>3, <2>1, <2>2, <2>3
<1>6. CASE ReviewStep /\ pc = "review" /\ UNCHANGED <<pc, catching>>
  <2>1. PollsLeft' = PollsLeft /\ OnceLeft' = OnceLeft
    BY <1>6 DEF PollsLeft, OnceLeft, BeforePolls, BeforeClose
  <2>2. ReviewLeft' < ReviewLeft
    BY <1>6, ReviewCountsDown
  <2> QED BY <1>0, <1>1, <1>2, <1>3, <1>6, <2>1, <2>2
<1>7. CASE UNCHANGED reviewVars /\ (Forward \/ FirstThrow)
  <2>1. ReviewLeft' = ReviewLeft /\ PollsLeft' <= PollsLeft
    BY <1>7, ReviewLeftStays, PollsBehind
  <2>2. CASE Forward
    BY <1>0, <1>1, <1>2, <1>3, <2>1, <2>2 DEF Forward
  <2>3. CASE FirstThrow
    <3>1. OnceLeft' = 8 /\ OnceLeft >= 7 /\ ~catching /\ catching'
      BY <2>3 DEF FirstThrow, OnceLeft
    <3> QED BY <1>0, <1>1, <1>2, <1>4, <2>1, <3>1
  <2> QED BY <1>7, <2>2, <2>3
<1>8. ~Observe /\ UNCHANGED reviewVars => Forward \/ FirstThrow
  <2> SUFFICES ASSUME ~Observe, UNCHANGED reviewVars, ReviewStep, UNCHANGED <<pc, catching>>
               PROVE  FALSE
    BY ProcessForward
  <2>1. ReviewLeft' < ReviewLeft /\ ReviewLeft' = ReviewLeft
    BY ReviewCountsDown, ReviewLeftStays
  <2> QED BY <1>0, <2>1
<1> QED BY <1>5, <1>6, <1>7, <1>8, ProcessReviews

\* The checks and a death leave the process no more to do.
LEMMA OthersCount ==
  ASSUME TypeOK, Counters, Counters', Environment \/ Dies
  PROVE  StepsLeft' <= StepsLeft
<1>1. ReviewLeft' = ReviewLeft /\ catching' = catching
  BY ReviewLeftStays DEF Environment, Dies, local
<1>2. CASE Environment
  <2>1. PollsLeft' = PollsLeft /\ OnceLeft' = OnceLeft
    BY <1>2 DEF Environment, CheckMoves, Registers, Finishes, Reruns, Moves, PollsLeft, OnceLeft
  <2> QED BY <1>1, <2>1 DEF StepsLeft, FlagsLeft, Counters
<1>3. CASE Dies
  <2>1. PollsLeft' = 0 /\ OnceLeft' = 0
    BY <1>3 DEF Dies, PollsLeft, OnceLeft, BeforePolls, BeforeClose, BeforeMergeGate
  <2> QED BY <1>1, <2>1 DEF StepsLeft, FlagsLeft, Counters
<1> QED BY <1>2, <1>3

\* Whatever the reviewer says, the checks do and fails, the number of steps a
\* process has left goes down with every step of it, and nothing but a resume
\* raises it: it ends if its calls return (reviewStep's rounds, observeCi's
\* deadline, the two catches).
THEOREM ShippingCountsDown == Spec => [](StepsLeft \in Nat) /\ CountsDown
<1> DEFINE Inv == IndInv /\ PollInBounds
<1>1. Init => Inv
  BY InitInd, MaxPollsPositive DEF Init, CiInit, PollInBounds
<1>2. Inv /\ [Next]_vars => Inv'
  <2>1. IndInv /\ PollInBounds /\ [Next]_vars => PollInBounds'
    BY StepPolls DEF IndInv, PollInBounds, vars, ciVars
  <2> QED BY <2>1, StepInd
<1>3. Inv => TypeOK /\ RoundsInv /\ PollInBounds /\ Counters
  BY CountersTyped DEF IndInv
<1>4. Inv => StepsLeft \in Nat
  BY <1>3 DEF Counters, StepsLeft, FlagsLeft
<1>5. Inv /\ Inv' /\ [Next]_vars => [Process => StepsLeft' < StepsLeft]_vars
  <2> SUFFICES ASSUME Inv, Inv', Process PROVE StepsLeft' < StepsLeft
    OBVIOUS
  <2>1. Counters'
    BY <1>3, CountersTyped, PTL
  <2> QED BY <1>3, <2>1, ProcessCounts
<1>6. Inv /\ Inv' /\ [Next]_vars => [~Resumes => StepsLeft' <= StepsLeft]_vars
  <2> SUFFICES ASSUME Inv, Inv', Next, ~Resumes PROVE StepsLeft' <= StepsLeft
    OBVIOUS
  <2>1. Counters'
    BY <1>3, PTL
  <2>2. CASE Process
    <3>1. StepsLeft' < StepsLeft
      BY <1>3, <2>1, <2>2, ProcessCounts
    <3> QED BY <1>3, <2>1, <3>1 DEF Counters, StepsLeft, FlagsLeft
  <2> QED BY <1>3, <2>1, <2>2, OthersCount DEF Next
<1> HIDE DEF Inv
<1> QED BY <1>1, <1>2, <1>4, <1>5, <1>6, PTL DEF Spec, CountsDown
===============================================================================
