------------------------------- MODULE Shipping -------------------------------
(***************************************************************************)
(* From a verified tree to a report a human can trust: the tail of a       *)
(* ticket's run (src/src/ticketReviewClose.ts, mergeGateStep.ts), the      *)
(* flag that replaces it when a step throws (ticketFailure.ts), the end of *)
(* the run (orchestrator.ts) and its report (runComprehension.ts), with    *)
(* the rounds of the review, the polls of the checks and the order of the  *)
(* events that LoopRun leaves out.                                         *)
(*                                                                         *)
(* One run with one ticket, entered in Review; a process that dies there   *)
(* is followed by one that resumes it.                                     *)
(***************************************************************************)
EXTENDS ReviewRounds, ObserveCi, RunReport, MergeGate

CONSTANTS
  Remotes,     \* whether a remote is configured: the cases considered
  Mode,        \* the effective autonomy of the epic
  MaxFaults,   \* bound: writes, appends and commands that fail
  MaxResumes   \* bound: processes that take the run up again

ASSUME ShippingAssumption ==
  /\ Remotes \subseteq BOOLEAN /\ Mode \in AutonomyModes
  /\ MaxFaults \in Nat /\ MaxResumes \in Nat

VARIABLES
  (* the world *)
  hasRemote,   \* it does not change
  closed,      \* the close is committed
  pr,          \* of the branch: "none", "open" or "merged"
  (* the run directory *)
  status, phase, log,
  outcomes, evidence, handoff,   \* what outcomes.json, evidence.json and the
                                 \* conductor's outbox hold
  (* the process *)
  pc,
  catching,    \* it is in the catch of runTicket
  mirror,      \* the in-memory phase, when the persisted one cannot be read
  lost,        \* history: a flag was given up
  faults, resumes

world == <<hasRemote, closed, pr>>
state == <<status, phase>>
reports == <<outcomes, evidence, handoff>>
local == <<catching, mirror>>
rest == <<lost, faults, resumes>>
vars == <<reviewVars, ciVars, world, state, log, reports, pc, local, rest>>

Init ==
  /\ ReviewInit /\ CiInit
  /\ hasRemote \in Remotes /\ closed = FALSE /\ pr = "none"
  /\ status = "running" /\ phase = "Review" /\ log = <<>>
  /\ outcomes = Missing /\ evidence = Missing /\ handoff = Missing
  /\ pc = "review" /\ catching = FALSE
  /\ mirror = "Review"
  /\ lost = FALSE /\ faults = 0 /\ resumes = 0

-----------------------------------------------------------------------------
(* Building blocks *)

At(here) == pc = here
Goto(there) == pc' = there /\ UNCHANGED <<catching, mirror>>
Fine == UNCHANGED rest
Fault == faults < MaxFaults /\ faults' = faults + 1 /\ UNCHANGED <<lost, resumes>>

\* An error leaves runTicket.  A resumed run is given up; a fresh one reports
\* before its process ends, after a structured stop when a flag was lost.
Leaves(kind) ==
  Goto(IF resumes > 0 THEN "skip" ELSE IF kind = "flag" THEN "stop" ELSE "report")

\* An error inside the try of runTicket, or inside its catch.
Throws(kind) ==
  \/ catching /\ Leaves(kind)
  \/ /\ ~catching /\ catching' = TRUE /\ pc' = "flag"
     /\ UNCHANGED mirror

Appends(type, datum) == log' = Append(log, <<type, datum>>)

\* A step of the ticket that ends with an append.
Records(here, type, datum, there) ==
  /\ At(here)
  /\ \/ Fine /\ Appends(type, datum) /\ Goto(there)
     \/ Fault /\ UNCHANGED log /\ Throws("other")
  /\ UNCHANGED <<reviewVars, ciVars, world, state, reports>>

\* A kernel move: it may fail before or after the write of state.json.
Move(here, to, there) ==
  /\ At(here)
  /\ \/ /\ Fine /\ phase' = to /\ pc' = there /\ mirror' = to
        /\ UNCHANGED catching
     \/ Fault /\ phase' \in {phase, to} /\ Throws("other")
  /\ UNCHANGED <<reviewVars, ciVars, world, status, log, reports>>

-----------------------------------------------------------------------------
(* Review and close *)

\* The rounds; a builder, a runner or a write of theirs may throw.
Review ==
  /\ At("review") /\ stage # "returned"
  /\ \/ ReviewStep /\ Fine /\ UNCHANGED <<pc, local>>
     \/ Fault /\ Throws("other") /\ UNCHANGED reviewVars
  /\ UNCHANGED <<ciVars, world, state, log, reports>>

\* A review that broke the build: failAndContinue, inside the try.
Reviewed ==
  /\ At("review") /\ stage = "returned"
  /\ IF verdict = "null"
     THEN /\ pc' = "flag"
          /\ UNCHANGED <<catching, mirror>>
     ELSE Goto("summary")
  /\ Fine
  /\ UNCHANGED <<reviewVars, ciVars, world, state, log, reports>>

Summary == Records("summary", "review.result", verdict, "enterClose")
EnterClose == Move("enterClose", "Close", "close")

CloseTicket ==
  /\ At("close")
  /\ \/ Fine /\ closed' = TRUE /\ Goto("closedEvent")
     \/ Fault /\ closed' \in BOOLEAN /\ Throws("other")
  /\ UNCHANGED <<reviewVars, ciVars, hasRemote, pr, state, log, reports>>

ClosedEvent ==
  Records("closedEvent", "ticket.closed", "", IF hasRemote THEN "push" ELSE "back")

-----------------------------------------------------------------------------
(* The merge gate *)

Push ==
  /\ At("push")
  /\ \/ Fine /\ Goto("enterMergeGate")
     \/ Fault /\ Throws("other")
  /\ UNCHANGED <<reviewVars, ciVars, world, state, log, reports>>

EnterMergeGate == Move("enterMergeGate", "MergeGate", "createPr")

CreatePr ==
  /\ At("createPr")
  /\ \/ Fine /\ pr' = "open" /\ Goto("observe") /\ ci' = "polling"
     \/ Fault /\ pr' \in {"none", "open"} /\ Throws("other") /\ UNCHANGED ci
  /\ UNCHANGED <<reviewVars, checkVars, late, poll, everPending, hasRemote, closed,
                 state, log, reports>>

Observe ==
  /\ At("observe") /\ Poll /\ Fine
  /\ UNCHANGED <<reviewVars, world, state, log, reports, pc, local>>

\* Nobody looks at the checks again.
Forgets ==
  /\ bucket' = [c \in Checks |-> "absent"] /\ reruns' = 0 /\ late' = {}
  /\ ci' = "unasked" /\ UNCHANGED <<poll, everPending>>

\* The diff, its risk, the decision and its event.
Decide ==
  /\ At("observe") /\ ci \in CiStates
  /\ \/ \E risk \in RiskLevels :
          LET decision == applyAutonomy(decideMerge(ci, verdict, risk), Mode)
          IN /\ Fine /\ Appends("merge.decision", decision)
             /\ UNCHANGED <<catching, mirror>>
             /\ \/ decision = "auto-merge" /\ pc' = "merge" /\ UNCHANGED ciVars
                \/ decision = "open-pr" /\ pc' = "comment" /\ Forgets
     \/ Fault /\ UNCHANGED log /\ Throws("other") /\ Forgets
  /\ UNCHANGED <<reviewVars, world, state, reports>>

\* gh may refuse, or fail after it merged.
MergePr ==
  /\ At("merge")
  /\ \/ Fine /\ pr' = "merged" /\ Goto("cleanup")
     \/ Fault /\ pr' \in {"open", "merged"} /\ Throws("other")
  /\ UNCHANGED <<reviewVars, ciVars, hasRemote, closed, state, log, reports>>

\* Mutant: without its comment an escalation leaves no item either.
MarkEscalated_CommentFirst ==
  /\ At("comment") /\ Fine
  /\ \/ Goto("triage")
     \/ Goto("cleanup")
  /\ UNCHANGED <<reviewVars, ciVars, world, state, log, reports>>

\* The comment is best effort, the triage item is not.
MarkEscalated ==
  /\ At("comment") /\ Fine /\ Goto("triage")
  /\ UNCHANGED <<reviewVars, ciVars, world, state, log, reports>>

Triage == Records("triage", "triage.item", "merge-escalation", "cleanup")

\* git's refusal is not looked at.
Cleanup ==
  /\ At("cleanup") /\ Fine /\ Goto("back")
  /\ UNCHANGED <<reviewVars, ciVars, world, state, log, reports>>

BackToSelect == Move("back", "SelectTicket", "done")

-----------------------------------------------------------------------------
(* A step that threw *)

\* The phase is read from state.json, or from memory when that fails; an outage
\* longer than the three attempts at the append leaves failAndContinue.
Flag ==
  /\ At("flag")
  /\ \/ /\ \/ Fine /\ Appends("ticket.flagged", phase)
           \/ Fault /\ Appends("ticket.flagged", mirror)
        /\ Goto("route")
     \/ /\ faults < MaxFaults /\ faults' = faults + 1 /\ lost' = TRUE
        /\ UNCHANGED <<log, resumes>> /\ Throws("flag")
  /\ UNCHANGED <<reviewVars, ciVars, world, state, reports>>

\* Through the failure state and back to SelectTicket.
Route ==
  /\ At("route")
  /\ \/ Fine /\ phase' = "SelectTicket" /\ Goto("done")
     \/ Fault /\ phase' \in {phase, "SelectTicket"} /\ Throws("other")
  /\ UNCHANGED <<reviewVars, ciVars, world, status, log, reports>>

-----------------------------------------------------------------------------
(* The end of the run *)

\* The Done advance.
Done ==
  /\ At("done")
  /\ \/ Fine /\ status' = "completed" /\ phase' = "Done" /\ Goto("completed")
     \/ /\ Fault /\ Leaves("other")
        /\ \/ UNCHANGED state
           \/ status' = "completed" /\ phase' = "Done"
  /\ UNCHANGED <<reviewVars, ciVars, world, log, reports>>

Completed ==
  /\ At("completed")
  /\ \/ Fine /\ Appends("run.completed", "") /\ Goto("report")
     \/ Fault /\ UNCHANGED log /\ Leaves("other")
  /\ UNCHANGED <<reviewVars, ciVars, world, state, reports>>

\* The structured stop of a fresh run, and the end of a resume that failed:
\* state.json, then run.stopped.  Only the first one is followed by a report.
Stop ==
  /\ pc \in {"stop", "skip"}
  /\ \/ /\ status' = "stopped"
        /\ \/ Fine /\ Appends("run.stopped", "")
           \/ Fault /\ UNCHANGED log
     \/ Fault /\ UNCHANGED <<status, log>>
  /\ Goto(IF At("stop") THEN "report" ELSE "ended")
  /\ UNCHANGED <<reviewVars, ciVars, world, phase, reports>>

\* One artifact of the report; a failure ends the report, not the process, and
\* may leave half a file.
Writes(here, file, content, there) ==
  /\ At(here)
  /\ \/ Fine /\ file' = Written(content, log) /\ Goto(there)
     \/ Fault /\ file' \in {file, TornFile} /\ Goto("ended")
  /\ UNCHANGED <<reviewVars, ciVars, world, state, log>>

Outcomes == /\ Writes("report", outcomes, deriveComprehension(log).outcome, "evidence")
            /\ UNCHANGED <<evidence, handoff>>
Evidence == /\ Writes("evidence", evidence, deriveRunEvidence(status, log), "handoff")
            /\ UNCHANGED <<outcomes, handoff>>

\* The conductor's copy, by a temporary file and a rename.
Handoff ==
  /\ At("handoff")
  /\ \/ Fine /\ handoff' = Written(deriveRunEvidence(status, log), log)
     \/ Fault /\ UNCHANGED handoff
  /\ Goto("ended")
  /\ UNCHANGED <<reviewVars, ciVars, world, state, log, outcomes, evidence>>

-----------------------------------------------------------------------------
(* The environment *)

\* The checks of the pull request, while the loop may still merge on them.
Environment ==
  /\ pr = "open" /\ pc \in {"observe", "merge"} /\ CheckMoves
  /\ UNCHANGED <<reviewVars, world, state, log, reports, pc, local, rest>>

\* The process dies, in the middle of a write of the report too.
Dies ==
  /\ pc \notin {"dead", "ended"} /\ pc' = "dead"
  /\ \/ UNCHANGED <<outcomes, evidence>>
     \/ At("report") /\ outcomes' = TornFile /\ UNCHANGED evidence
     \/ At("evidence") /\ evidence' = TornFile /\ UNCHANGED outcomes
  /\ UNCHANGED <<reviewVars, ciVars, world, state, log, handoff, local, rest>>

\* The next process takes up a run that was left in Review and says "running",
\* from the first round, with nothing of what the last process knew.
Resumes ==
  /\ pc \in {"dead", "ended"} /\ phase = "Review" /\ status = "running"
  /\ resumes < MaxResumes /\ resumes' = resumes + 1 /\ UNCHANGED <<lost, faults>>
  /\ Enters
  /\ pc' = "review" /\ catching' = FALSE
  /\ mirror' = "Review"
  /\ UNCHANGED <<ciVars, world, state, log, reports>>

Process ==
  \/ Review \/ Reviewed \/ Summary \/ EnterClose \/ CloseTicket \/ ClosedEvent
  \/ Push \/ EnterMergeGate \/ CreatePr \/ Observe \/ Decide \/ MergePr
  \/ MarkEscalated \/ Triage \/ Cleanup \/ BackToSelect
  \/ Flag \/ Route \/ Done \/ Completed \/ Stop \/ Outcomes \/ Evidence \/ Handoff

Next == Process \/ Environment \/ Dies \/ Resumes

Spec == Init /\ [][Next]_vars

\* The process runs: its commands settle (module ExecSettle).  Nothing is
\* asked of the checks, nor of a human who starts the loop again.
FairSpec == Spec /\ WF_vars(Process)

-----------------------------------------------------------------------------
(* Properties *)

\* What the loop merged was green: a check that is not, registered or was run
\* again after the list that decided, while the loop was deciding.
GreenUnlessLate == pr = "merged" => Unopposed

Settled ==
  \/ pr = "merged" \/ eventsToInbox(log) # {} \/ Happened(log, "ticket.flagged")
  \/ ~hasRemote /\ closed

\* A run that says it is completed has delivered its ticket or left it where a
\* human looks: a flag, or an item in the triage inbox.
CompletedIsSettled == status = "completed" => Settled

OutcomeIsTrue(told) ==
  /\ told.merged => pr = "merged" \/ lost
  /\ ~told.merged /\ ~told.uncertain => pr # "merged"
  /\ told.prOpened = "yes" => pr # "none"
  /\ told.prOpened = "no" => pr = "none" \/ lost
  /\ told.closed => closed

EvidenceIsTrue(told) ==
  /\ told.pr = "auto-merge" => told.review = "APPROVE" /\ closed
  /\ told.finalOutcome = "completed" => status = "completed"
  /\ told.finalOutcome = "completed" /\ ~told.blocked /\ hasRemote =>
       pr = "merged" \/ told.pr = "open-pr"

\* What the report says of the ticket happened: a merge (unless the flag of a
\* merge that failed was lost), a pull request, a close, the end of the run;
\* and where it denies a merge outright there was none.  A report may be older
\* than the run: the one a process left before another resumed it.
ReportIsTrue ==
  /\ readable(outcomes) /\ covers(outcomes, log) => OutcomeIsTrue(outcomes[2])
  /\ \A file \in {evidence, handoff} :
       readable(file) /\ covers(file, log) => EvidenceIsTrue(file[2])

\* A process comes to its end, or dies, whatever the reviewer finds, whatever the
\* checks do and whatever fails; and where nothing failed, a process that came to
\* its end has written its evidence.
ShippingEnds ==
  /\ pc # "dead" ~> pc \in {"dead", "ended"}
  /\ [](At("ended") /\ faults = 0 => readable(evidence))

-----------------------------------------------------------------------------
(* The inductive invariant *)

Positions ==
  {"review", "summary", "enterClose", "close", "closedEvent", "push",
   "enterMergeGate", "createPr", "observe", "merge", "comment", "triage",
   "cleanup", "back", "flag", "route", "done", "completed", "stop", "skip",
   "report", "evidence", "handoff", "ended", "dead"}
Phases == {"Review", "Close", "MergeGate", "SelectTicket", "Done"}
RunStatuses == {"running", "completed", "stopped"}

EventTypes == {"review.result", "ticket.closed", "merge.decision", "triage.item",
               "ticket.flagged", "run.completed", "run.stopped"}
Data == {"APPROVE", "ESCALATE", "null", "", "auto-merge", "open-pr", "merge-escalation"}
          \cup Phases
Events == EventTypes \X Data

OutcomeRecords ==
  [prOpened : {"yes", "not proven", "no"}, merged : BOOLEAN, closed : BOOLEAN,
   cleanupPending : BOOLEAN, uncertain : BOOLEAN]
EvidenceRecords ==
  [finalOutcome : RunStatuses, review : Data \cup {"none"}, pr : Data \cup {"none"},
   blocked : BOOLEAN]
Files(contents) == {Missing, TornFile} \cup ({"written"} \X contents \X Nat)

WorldOK ==
  hasRemote \in BOOLEAN /\ closed \in BOOLEAN /\ pr \in {"none", "open", "merged"}
StoreOK == status \in RunStatuses /\ phase \in Phases /\ log \in Seq(Events)
ReportsOK ==
  /\ outcomes \in Files(OutcomeRecords)
  /\ evidence \in Files(EvidenceRecords) /\ handoff \in Files(EvidenceRecords)
ProcessOK == pc \in Positions /\ catching \in BOOLEAN /\ mirror \in Phases
RestOK == lost \in BOOLEAN /\ faults \in 0..MaxFaults /\ resumes \in 0..MaxResumes

TypeOK ==
  ReviewTypeOK /\ CiTypeOK /\ WorldOK /\ StoreOK /\ ReportsOK /\ ProcessOK /\ RestOK

Verdict == LastOf(log, "review.result", "none")
Decision == LastOf(log, "merge.decision", "none")

BeforeClose == {"review", "summary", "enterClose"}
BeforeMergeGate == {"close", "closedEvent", "push", "enterMergeGate"}
InMergeGate == {"createPr", "observe", "merge", "comment", "triage", "cleanup"}
Working == {"enterClose", "back"} \cup BeforeMergeGate \cup InMergeGate
Reporting == {"report", "evidence", "handoff", "ended", "dead"}

\* Why a merge is green.
GreenInv == ci = "green" \/ pr = "merged" => Unopposed

\* Where the process is in the ticket, and the phase it has persisted.
PhaseInv ==
  /\ pc \in BeforeClose => phase = "Review"
  /\ pc \in BeforeMergeGate => phase = "Close"
  /\ pc \in InMergeGate => phase = "MergeGate" /\ mirror = "MergeGate"
  /\ pc = "back" => phase # "Review"
  /\ pc \in BeforeClose \cup BeforeMergeGate \cup InMergeGate \cup {"back"} => ~catching

\* What has not happened yet, so that it happens once: what a process that
\* takes the run up in Review may rely on.
FreshInv ==
  /\ (phase = "Review" \/ pc = "close") =>
       pr = "none" /\ ~closed /\ ~Happened(log, "ticket.closed")
  /\ phase = "Review" \/ pc \in BeforeMergeGate \cup {"createPr"} =>
       pr = "none" /\ Decision = "none"
  /\ pc = "observe" => pr = "open" /\ Decision = "none"
  /\ pc = "merge" => pr = "open" /\ Decision = "auto-merge" /\ ci = "green"
  /\ pc \in {"comment", "triage"} => Decision = "open-pr"

\* What the log says happened.
LogInv ==
  /\ Happened(log, "merge.decision") <=> Decision # "none"
  /\ Happened(log, "ticket.closed") => closed
  /\ pc \in (BeforeMergeGate \ {"close"}) \cup InMergeGate => closed
  /\ pc \in {"enterClose", "observe", "createPr"} \cup BeforeMergeGate => Verdict = verdict
  /\ Decision # "none" => pr # "none" /\ closed
  /\ Decision = "auto-merge" => Verdict = "APPROVE"
  /\ pr = "merged" => Decision = "auto-merge"
  /\ Happened(log, "triage.item") => Decision = "open-pr"

\* What the log does not say: a merge that gh refused and a pull request that
\* was decided about by nobody are on their way to a flag, or to the loss of it.
FlagInv ==
  /\ Decision = "auto-merge" /\ ~flaggedAfterDecision(log) /\ pr # "merged" =>
       lost \/ pc \in {"merge", "flag", "dead"}
  /\ pr # "none" /\ Decision = "none" /\ ~reachedMergeGate(log) =>
       lost \/ pc \in {"observe", "flag", "dead"}
  /\ pr # "none" /\ Decision = "none" /\ ~reachedMergeGate(log) /\ pc = "flag" =>
       lost \/ (phase = "MergeGate" /\ mirror = "MergeGate")

EndInv ==
  /\ pc \in {"back", "done", "completed"} \/ status = "completed" => Settled
  /\ pc = "route" => Happened(log, "ticket.flagged")
  /\ pc = "cleanup" => pr = "merged" \/ Happened(log, "triage.item")
  /\ pc = "completed" => status = "completed"
  /\ Happened(log, "run.completed") => status = "completed" /\ pc \in Reporting

\* What the last report says stays true, for a step that could make it false
\* has put an event into the log since.
OutcomesInv ==
  readable(outcomes) =>
    /\ outcomes[3] <= Len(log)
    /\ covers(outcomes, log) =>
         /\ OutcomeIsTrue(outcomes[2])
         /\ pc \notin Working
EvidenceInv ==
  \A file \in {evidence, handoff} : readable(file) =>
    /\ EvidenceIsTrue(file[2])
    /\ file[2].finalOutcome = "completed" => pc \in {"handoff", "ended", "dead"}

IndInv ==
  /\ TypeOK /\ RoundsInv /\ GreenInv
  /\ PhaseInv /\ FreshInv /\ LogInv /\ FlagInv /\ EndInv
  /\ OutcomesInv /\ EvidenceInv

-----------------------------------------------------------------------------
(* Why a process comes to its end *)

\* The invocations, fixes and verifications a review can still ask for.
ReviewLeft ==
  LET steps == CASE stage = "invoke" -> 5 - attempt
                 [] stage = "judge" -> 2
                 [] stage = "fix" -> 1
                 [] OTHER -> 0
  IN IF stage = "returned" THEN 0 ELSE 1 + 5 * (MaxReviewRounds - round) + steps

BeforePolls == BeforeClose \cup BeforeMergeGate \cup {"createPr"}

\* The polls of the checks: all of them before the pull request is there.
PollsLeft ==
  IF pc \in BeforePolls THEN 1 + maxPolls
  ELSE IF pc = "observe" /\ ci = "polling" THEN maxPolls - poll ELSE 0

\* The steps that are made once, from the review to the report.
OnceLeft ==
  CASE pc = "review" -> 21
    [] pc = "summary" -> 20
    [] pc = "enterClose" -> 19
    [] pc = "close" -> 18
    [] pc = "closedEvent" -> 17
    [] pc = "push" -> 16
    [] pc = "enterMergeGate" -> 15
    [] pc = "createPr" -> 14
    [] pc = "observe" -> 13
    [] pc \in {"merge", "comment"} -> 12
    [] pc = "triage" -> 11
    [] pc = "cleanup" -> 10
    [] pc = "back" -> 9
    [] pc = "flag" -> 8
    [] pc = "route" -> 7
    [] pc = "done" -> 6
    [] pc = "completed" -> 5
    [] pc \in {"stop", "skip"} -> 4
    [] pc = "report" -> 3
    [] pc = "evidence" -> 2
    [] pc = "handoff" -> 1
    [] OTHER -> 0

\* A step that throws goes back to the flag, once.
FlagsLeft == IF catching THEN 0 ELSE 2

StepsLeft == ReviewLeft + PollsLeft + OnceLeft + FlagsLeft

\* Every step of the process leaves it fewer, whatever fails; neither the checks
\* nor a death give it more, only a resume begins again.
CountsDown ==
  /\ [][Process => StepsLeft' < StepsLeft]_vars
  /\ [][~Resumes => StepsLeft' <= StepsLeft]_vars

=============================================================================
