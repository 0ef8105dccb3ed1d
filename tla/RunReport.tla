------------------------------ MODULE RunReport -------------------------------
(***************************************************************************)
(* What a run's log is made into: the outcome of a ticket                  *)
(* (src/src/ticketOutcomes.ts), the triage inbox (src/src/triageInbox.ts), *)
(* the decision log and the evidence (src/src/comprehension.ts), and what  *)
(* explain-run and the conductor get of it.  One ticket; an event is a     *)
(* pair of its type and the one datum that is looked at.                   *)
(***************************************************************************)
EXTENDS Naturals, Sequences, FiniteSetsExt

Indices(events, type) == {i \in DOMAIN events : events[i][1] = type}
Happened(events, type) == Indices(events, type) # {}

\* The datum of the last event of a type.
LastOf(events, type, default) ==
  IF Happened(events, type) THEN events[Max(Indices(events, type))][2] ELSE default

\* Mutant: a flag after the decision is not looked at.
flaggedAfterDecision_Never(events) == FALSE

flaggedAfterDecision(events) ==
  \E i \in Indices(events, "merge.decision"), j \in Indices(events, "ticket.flagged") :
    /\ \A k \in Indices(events, "merge.decision") : k <= i
    /\ j > i

reachedMergeGate(events) ==
  \E i \in Indices(events, "ticket.flagged") : events[i][2] = "MergeGate"

\* Positive outcomes only with proof, from presence and order of the events.
deriveTicketOutcomes(events) ==
  LET decided == Happened(events, "merge.decision")
      clean == decided /\ ~flaggedAfterDecision(events)
  IN [prOpened |-> IF decided THEN "yes"
                   ELSE IF reachedMergeGate(events) THEN "not proven" ELSE "no",
      merged |-> clean /\ LastOf(events, "merge.decision", "none") = "auto-merge",
      closed |-> Happened(events, "ticket.closed"),
      cleanupPending |-> ~clean,
      uncertain |-> decided /\ ~clean]

eventsToInbox(events) == {events[i][2] : i \in Indices(events, "triage.item")}

DecisionTypes == {"ticket.closed", "ticket.flagged", "merge.decision",
                  "run.stopped", "run.completed"}
deriveComprehension(events) ==
  [decisions |-> SelectSeq(events, LAMBDA e : e[1] \in DecisionTypes),
   outcome |-> deriveTicketOutcomes(events)]

\* The last event of the run's end, when there is one, overrides state.json.
deriveRunEvidence(status, events) ==
  [finalOutcome |->
     LET ends == Indices(events, "run.completed") \cup Indices(events, "run.stopped")
     IN IF ends = {} THEN status
        ELSE IF events[Max(ends)][1] = "run.completed" THEN "completed" ELSE "stopped",
   review |-> LastOf(events, "review.result", "none"),
   pr |-> LastOf(events, "merge.decision", "none"),
   blocked |-> Happened(events, "ticket.flagged") \/ Happened(events, "run.stopped")]

\* A file that a death may have cut short, what a reader makes of it, and
\* whether it was made from the whole log.
Missing == <<"missing">>
TornFile == <<"torn">>
Written(content, events) == <<"written", content, Len(events)>>
readable(file) == file \notin {Missing, TornFile}
covers(file, events) == file[3] = Len(events)

=============================================================================
