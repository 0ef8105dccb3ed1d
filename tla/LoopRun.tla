------------------------------- MODULE LoopRun -------------------------------
(***************************************************************************)
(* One loop process after another over one repository: runLoop, runTicket  *)
(* and the steps they call (src/src/orchestrator.ts, ticketStart.ts,       *)
(* ticketExecutionGate.ts, executePlan.ts, reviewStep.ts,                  *)
(* ticketReviewClose.ts, ticketFailure.ts, mergeGateStep.ts), on top of    *)
(* the durable run store (runStore.ts), the kernel (loopKernel.ts) and the *)
(* resume rule (resume.ts).                                                *)
(*                                                                         *)
(* An action is what the process does between two points at which another  *)
(* party can see it: a durable write of state.json, an append to           *)
(* events.jsonl, a git or GitHub effect, the end of a runner.  The process *)
(* may die between any two actions; a write, an append, a git command or a *)
(* runner may fail ("fault"), and a failing kernel move may have written   *)
(* state.json and lost the event.                                          *)
(***************************************************************************)
EXTENDS LoopState, MergeGate, Naturals, FiniteSets

CONSTANTS
  Ticket,          \* released tickets with spec and plan, as positive numbers
                   \* (pickNext orders them by id)
  DependsOn,       \* depends-on of each ticket
  Refactor,        \* tickets of class "refactor" (golden-output gate)
  HasRemote,       \* a git remote is configured
  ClaudeBuilds,    \* builder provider is claude: its turns, and those of the
                   \* codex reviewer, go through the controlled runners
  BudgetOn,        \* some budget ceiling is configured
  RefineInstalled, \* the skill core/refine-tickets resolves
  AutonomyDefault, AutonomyCeiling,
  MaxTickets,      \* config.maxTicketsPerRun
  MaxIterations,   \* config.maxIterationsPerTicket
  MaxReviewRounds, \* config.maxReviewRounds
  MaxRuns,         \* bound: runs that are ever opened
  MaxFaults,       \* bound: failing writes, appends, commands and runners
  MaxCrashes       \* bound: deaths of the loop process

ASSUME TicketAssumption == Ticket \subseteq Nat \ {0}
ASSUME DependsOnAssumption == DependsOn \in [Ticket -> SUBSET Ticket]
ASSUME FlagAssumption ==
  /\ Refactor \subseteq Ticket
  /\ {HasRemote, ClaudeBuilds, BudgetOn, RefineInstalled} \subseteq BOOLEAN
\* buildConfig refuses a default above the ceiling (src/src/config.ts).
ASSUME AutonomyAssumption ==
  /\ AutonomyDefault \in AutonomyModes /\ AutonomyCeiling \in AutonomyModes
  /\ AutonomyDefault = "autopilot" => AutonomyCeiling = "autopilot"
ASSUME BoundAssumption ==
  /\ {MaxTickets, MaxIterations, MaxReviewRounds, MaxRuns} \subseteq Nat \ {0}
  /\ MaxFaults \in Nat /\ MaxCrashes \in Nat

VARIABLES
  \* the run store: .agent/runs/<run id>/{state.json, events.jsonl}
  status,      \* state.status of each run, "absent" before it is opened
  phase,       \* state.currentPhase of each run
  held,        \* state.currentTicketId of each run
  processed,   \* state.queue.processed of each run
  over,        \* the persisted budget views of each run show a tripped arm
  log,         \* the events of each run, as a set of <<type, ticket>>
  \* the repository
  branch,      \* tickets whose branch loop/<id> exists
  worktree,    \* tickets whose directory .worktrees/<id> exists
  closed,      \* tickets whose close is committed on their branch
  done,        \* tickets whose status is done in the main checkout
  remote,      \* what the remote has of each ticket
  \* history of the worktrees, for the properties
  verified,    \* tickets whose tree passed verification since the last edit
  approved,    \* tickets whose tree a reviewer approved since the last edit
  blind,       \* tickets resumed in Review with a tree not verified as it is
  \* the loop process
  pc,          \* where it is
  cur,         \* the run it works on
  tk,          \* the ticket it works on
  resumed,     \* the run was resumed
  catching,    \* it is in the catch of runTicket
  mirror,      \* the in-memory phase of the ticket
  n,           \* build attempt or review round
  verdict,     \* the verdict of the review
  skipped,     \* skippedThisRun
  count,       \* tickets processed
  refused,     \* how the kernel refused its last move, for the properties
  \* the environment
  faults, crashes

runVars  == <<status, phase, held, processed, over, log>>
repoVars == <<branch, worktree, closed, done, remote>>
treeVars == <<verified, approved, blind>>
envVars  == <<faults, crashes>>
job      == <<cur, tk, resumed>>
turn     == <<catching, mirror, n, verdict>>
tally    == <<skipped, count>>
procVars == <<pc, job, turn, tally, refused>>
vars     == <<runVars, repoVars, treeVars, procVars, envVars>>

RunId    == 1..MaxRuns
NoRun    == 0
NoTicket == 0

RunStatus == {"absent", "running", "stopped", "completed"}
RemoteStates == {"none", "pushed", "pr", "merged"}
EventTypes == {"run.completed", "run.stopped", "ticket.started",
               "runner.started ExecutePlan", "runner.started Review",
               "verification.passed", "review.result", "ticket.flagged",
               "ticket.closed", "merge.decision"}
Events == EventTypes \X (Ticket \cup {NoTicket})

-----------------------------------------------------------------------------
(* Building blocks *)

Fault == faults < MaxFaults /\ faults' = faults + 1
Fine  == UNCHANGED faults

At(p) == pc = p
Goto(p) == pc' = p /\ UNCHANGED <<job, turn, tally, refused>>

\* A process that knows nothing: not started, or about to open a run.
Reset(p) ==
  /\ pc' = p /\ cur' = NoRun /\ tk' = NoTicket /\ resumed' = FALSE
  /\ catching' = FALSE /\ mirror' = "Idle" /\ n' = 0 /\ verdict' = "ESCALATE"
  /\ skipped' = {} /\ count' = 0 /\ refused' = "no"

Has(r, type, t) == <<type, t>> \in log[r]
Append(type, t) == log' = [log EXCEPT ![cur] = @ \cup {<<type, t>>}]

\* An error leaves runTicket.  A resumed run is given up ("resume skipped");
\* in a fresh run a FlagRecordError and a LoopStateError are turned into a
\* structured stop, and any other error ends the process as it stands.
Escape(kind) ==
  \/ resumed /\ Goto("resumeSkip")
  \/ ~resumed /\ kind = "other" /\ Reset("off")
  \/ ~resumed /\ kind # "other" /\ Goto("structuredStop")

\* An error inside runTicket's try: its catch flags the ticket once more; an
\* error inside the catch leaves runTicket.
Throw(kind) ==
  \/ catching /\ Escape(kind)
  \/ /\ ~catching /\ catching' = TRUE /\ pc' = "flag"
     /\ UNCHANGED <<job, mirror, n, verdict, tally, refused>>

\* The budget guard refuses a move that a tripped view does not exempt.
Denied(to) == over[cur] /\ to \notin GuardExemptTargets
Illegal(to) == ~CanTransition(phase[cur], to)

\* A LoopStateError passes through runTicket's catch.
Deny(to) ==
  /\ pc' = IF resumed THEN "resumeSkip" ELSE "structuredStop"
  /\ refused' = IF Illegal(to) THEN "illegal" ELSE "denied"
  /\ UNCHANGED <<job, turn, tally>>

\* What kernel.advance writes to state.json.
Persist(to, t) ==
  /\ phase' = [phase EXCEPT ![cur] = to]
  /\ held' = [held EXCEPT ![cur] =
                IF to \in TerminalStates THEN NoTicket ELSE t]
  /\ status' = [status EXCEPT ![cur] =
                  IF to = "Done" THEN "completed"
                  ELSE IF to \in TerminalStates THEN "stopped" ELSE @]

\* kernel.advance.  A failing move may have written state.json and lost the
\* event; the in-memory mirror of the phase follows only a move that succeeded.
Move(to, t, next, OnError) ==
  \/ /\ Fault /\ OnError
     /\ UNCHANGED <<status, phase, held>>
  \/ /\ Illegal(to) \/ Denied(to)
     /\ Fine /\ Deny(to)
     /\ UNCHANGED <<status, phase, held>>
  \/ /\ ~Illegal(to) /\ ~Denied(to)
     /\ Persist(to, t)
     /\ \/ /\ Fine /\ pc' = next /\ mirror' = to
           /\ UNCHANGED <<job, catching, n, verdict, tally, refused>>
        \/ Fault /\ OnError

MoveRest == UNCHANGED <<processed, over, log, repoVars, treeVars, crashes>>

\* A move of runLoop, and one of runTicket.
Advance(to, next) ==
  Move(to, held[cur], next, Escape("other")) /\ MoveRest
Enter(to, next) ==
  Move(to, held[cur], next, Throw("other")) /\ MoveRest

\* A write of a state.json that leaves the phase alone.
SetStatus(s) == status' = [status EXCEPT ![cur] = s]

-----------------------------------------------------------------------------
(* Starting: resume an interrupted run, or open a fresh one *)

BuilderPhases == {"ExecutePlan", "Review"}

\* Mutant: a stopped run is resumable too.
Running_StoppedToo == {r \in RunId : status[r] \in {"running", "stopped"}}

\* Only the newest run that still says "running" is considered.
Running == {r \in RunId : status[r] = "running"}
IsNewest(r) == r \in Running /\ \A q \in Running : q <= r

Resumable(r) ==
  /\ phase[r] \in BuilderPhases /\ held[r] # NoTicket
  /\ ~Has(r, "run.completed", NoTicket) /\ ~Has(r, "run.stopped", NoTicket)
  /\ Has(r, IF phase[r] = "Review" THEN "runner.started Review"
            ELSE "runner.started ExecutePlan", held[r])

\* A run id is left to open: the bound on the runs.
Boot ==
  /\ At("off")
  /\ \E r \in RunId : status[r] = "absent"
  /\ \/ \E r \in RunId :
          /\ IsNewest(r) /\ Resumable(r)
          /\ pc' = "reattach" /\ cur' = r /\ tk' = held[r] /\ resumed' = TRUE
          /\ mirror' = phase[r] /\ n' = 1
          /\ UNCHANGED <<catching, verdict, tally, refused>>
     \/ /\ \A r \in RunId : IsNewest(r) => ~Resumable(r)
        /\ Reset("open")
  /\ UNCHANGED <<runVars, repoVars, treeVars, envVars>>

\* reopenWorktree, then runTicket from the persisted phase.  A refactor ticket
\* has lost its golden baseline; a Review resume skips build and verification.
Reattach ==
  /\ At("reattach")
  /\ \/ /\ Fault /\ Escape("other") /\ UNCHANGED blind
     \/ /\ tk \notin worktree
        /\ Fine /\ Escape("other") /\ UNCHANGED blind
     \/ /\ tk \in worktree
        /\ Fine
        /\ blind' = IF phase[cur] = "Review" /\ tk \notin verified
                      THEN blind \cup {tk} ELSE blind
        /\ Goto(IF tk \in Refactor THEN "flag"
                ELSE IF phase[cur] = "Review" THEN "review" ELSE "build")
  /\ UNCHANGED <<runVars, repoVars, verified, approved, crashes>>

\* "resume skipped": mark the run stopped, best effort, and open a fresh one.
ResumeSkip ==
  /\ At("resumeSkip")
  /\ \/ Fine /\ SetStatus("stopped") /\ Goto("resumeSkipEvent")
     \/ Fault /\ UNCHANGED status /\ Reset("open")
  /\ UNCHANGED <<phase, held, processed, over, log, repoVars, treeVars, crashes>>

ResumeSkipEvent ==
  /\ At("resumeSkipEvent")
  /\ \/ Fine /\ Append("run.stopped", NoTicket)
     \/ Fault /\ UNCHANGED log
  /\ Reset("open")
  /\ UNCHANGED <<status, phase, held, processed, over, repoVars, treeVars,
                 crashes>>

\* Preflight, createRun, run.started.  A failure after createRun leaves a run
\* that says "running".
OpenRun ==
  /\ At("open")
  /\ \/ Fault /\ Reset("off") /\ UNCHANGED status
     \/ \E r \in RunId :
          /\ status[r] = "absent" /\ \A q \in RunId : q < r => status[q] # "absent"
          /\ status' = [status EXCEPT ![r] = "running"]
          /\ \/ /\ Fine /\ pc' = "refine" /\ cur' = r
                /\ UNCHANGED <<tk, resumed, turn, tally, refused>>
             \/ Fault /\ Reset("off")
  /\ UNCHANGED <<phase, held, processed, over, log, repoVars, treeVars, crashes>>

-----------------------------------------------------------------------------
(* The backlog refinement pass of a fresh run *)

\* Skipped (no epic, or the skill is not installed: an event), or entered.
Refine ==
  /\ At("refine")
  /\ \/ Fault /\ Escape("other")
     \/ Fine /\ Goto("top")
     \/ RefineInstalled /\ Fine /\ Goto("refineSelect")
  /\ UNCHANGED <<runVars, repoVars, treeVars, crashes>>

RefineSelect == At("refineSelect") /\ Advance("SelectTicket", "refineEnter")
RefineEnter  == At("refineEnter")  /\ Advance("RefineBacklog", "refining")
RefineBack   == At("refineBack")   /\ Advance("SelectTicket", "top")

\* runRefineBacklog and runApplyRefinement: they go on whatever happened,
\* unless an event is lost or the roll-back of a failed apply fails too, which
\* records run.stopped and throws a plain Error.
Refining ==
  /\ At("refining")
  /\ \/ Fine /\ Goto("refineBack") /\ UNCHANGED log
     \/ Fault /\ Escape("other") /\ UNCHANGED log
     \/ Fault /\ Escape("other") /\ Append("run.stopped", NoTicket)
  /\ UNCHANGED <<status, phase, held, processed, over, repoVars, treeVars,
                 crashes>>

-----------------------------------------------------------------------------
(* The loop over the tickets *)

\* The head of the while: the count, the kill switch (a file that may be there
\* at any moment), the first move of a run.
Top ==
  /\ At("top")
  /\ \/ count = MaxTickets /\ Goto("finish")
     \/ count < MaxTickets /\ Goto("killStop")
     \/ /\ count < MaxTickets
        /\ Goto(IF phase[cur] = "Idle" THEN "select" ELSE "budget")
  /\ UNCHANGED <<runVars, repoVars, treeVars, envVars>>

Select == At("select") /\ Advance("SelectTicket", "budget")

\* Mutant: the event first, then state.json.
KillStop_EventFirst ==
  /\ At("killStop") /\ Fine /\ Goto("structuredStop")
  /\ Append("run.stopped", NoTicket)
  /\ UNCHANGED <<status, phase, held, processed, over, repoVars, treeVars, crashes>>

KillStop ==
  /\ At("killStop")
  /\ \/ /\ Fine
        /\ SetStatus("stopped")
        /\ phase' = [phase EXCEPT ![cur] = "Idle"]
        /\ held' = [held EXCEPT ![cur] = NoTicket]
        /\ Goto("stopEvent")
     \/ Fault /\ Escape("other") /\ UNCHANGED <<status, phase, held>>
  /\ UNCHANGED <<processed, over, log, repoVars, treeVars, crashes>>

\* Mutant: the views are written and the verdict is forgotten.
Budget_NoTrip ==
  /\ At("budget") /\ Fine /\ Goto("pick")
  /\ \E trips \in BOOLEAN : /\ trips => BudgetOn
                            /\ over' = [over EXCEPT ![cur] = trips]
  /\ UNCHANGED <<status, phase, held, processed, log, repoVars, treeVars, crashes>>

\* evaluateBudget on what the log and the clock say, then the write of the
\* budget views.
Budget ==
  /\ At("budget")
  /\ \/ \E trips \in BOOLEAN :
          /\ trips => BudgetOn
          /\ Fine
          /\ over' = [over EXCEPT ![cur] = trips]
          /\ Goto(IF trips THEN "trip" ELSE "pick")
     \/ Fault /\ Escape("other") /\ UNCHANGED over
  /\ UNCHANGED <<status, phase, held, processed, log, repoVars, treeVars, crashes>>

Trip == /\ At("trip")
        /\ \E s \in {"BudgetExceeded", "NoProgress"} : Advance(s, "stopEvent")

\* run.stopped, the last append of a stopped run.
StopEvent ==
  /\ At("stopEvent")
  /\ \/ Fine /\ Append("run.stopped", NoTicket)
     \/ Fault /\ UNCHANGED log
  /\ Reset("off")
  /\ UNCHANGED <<status, phase, held, processed, over, repoVars, treeVars, crashes>>

\* scanTickets and pickNext read the main checkout.
LoopReady == Ticket \ done
Eligible  == LoopReady \ skipped

\* Mutant: pickNext without the dependency filter.
Ready_NoDependencies == Eligible

Ready     == {t \in Eligible : DependsOn[t] \subseteq done}

\* The write of the queue and ticket.started.  The log is read once more before
\* runTicket begins: when that fails, the event is there and no one acts on it.
Pick ==
  /\ At("pick")
  /\ \E t \in Ready :
       /\ \A u \in Ready : t <= u
       /\ \/ /\ Fine /\ Append("ticket.started", t)
             /\ pc' = "start" /\ tk' = t /\ mirror' = "SelectTicket" /\ n' = 1
             /\ catching' = FALSE /\ verdict' = "ESCALATE"
             /\ UNCHANGED <<cur, resumed, tally, refused>>
          \/ /\ Fault /\ Escape("other")
             /\ UNCHANGED log \/ Append("ticket.started", t)
  /\ UNCHANGED <<status, phase, held, processed, over, repoVars, treeVars, crashes>>

\* Nothing to pick: the run is over when every ready ticket was skipped or one
\* ticket was asked for; otherwise the loop polls.
PickNone ==
  /\ At("pick") /\ Ready = {}
  /\ Goto(IF \/ Eligible = {} /\ LoopReady \cap skipped # {}
             \/ MaxTickets = 1
          THEN "finish" ELSE "top")
  /\ UNCHANGED <<runVars, repoVars, treeVars, envVars>>

\* Mutant: a flagged ticket is not skipped.
TicketEnd_NoSkip ==
  /\ At("ticketEnd") /\ Fine
  /\ processed' = [processed EXCEPT ![cur] = @ \cup {tk}]
  /\ \/ resumed /\ Goto("finish")
     \/ /\ ~resumed /\ pc' = "top" /\ count' = count + 1
        /\ UNCHANGED <<job, turn, skipped, refused>>
  /\ UNCHANGED <<status, phase, held, over, log, repoVars, treeVars, crashes>>

\* runTicket returned: skip what was flagged, write the queue.
TicketEnd ==
  /\ At("ticketEnd")
  /\ \/ /\ Fine
        /\ processed' = [processed EXCEPT ![cur] = @ \cup {tk}]
        /\ \/ resumed /\ Goto("finish")
           \/ /\ ~resumed /\ pc' = "top" /\ count' = count + 1
              /\ skipped' = skipped \cup
                   {t \in {tk} : Has(cur, "ticket.flagged", t)}
              /\ UNCHANGED <<job, turn, refused>>
     \/ Fault /\ Escape("other") /\ UNCHANGED processed
  /\ UNCHANGED <<status, phase, held, over, log, repoVars, treeVars, crashes>>

Finish == At("finish") /\ Advance("Done", "complete")

Complete ==
  /\ At("complete")
  /\ \/ Fine /\ Append("run.completed", NoTicket) /\ Reset("off")
     \/ Fault /\ Escape("other") /\ UNCHANGED log
  /\ UNCHANGED <<status, phase, held, processed, over, repoVars, treeVars, crashes>>

\* The catch of runLoop for a FlagRecordError or a LoopStateError.
StructuredStop ==
  /\ At("structuredStop")
  /\ \/ Fine /\ SetStatus("stopped") /\ Goto("stopEvent")
     \/ Fault /\ UNCHANGED status /\ Reset("off")
  /\ UNCHANGED <<phase, held, processed, over, log, repoVars, treeVars, crashes>>

-----------------------------------------------------------------------------
(* One ticket: start, worktree, build and verification *)

\* A store error here is flagged at once; everywhere else it is thrown.
StartTicket ==
  /\ At("start")
  /\ Move("StartTicket", tk, "worktree", Goto("flag"))
  /\ MoveRest

\* Mutant: an existing branch is taken over.
CreateWorktree_Reuses ==
  /\ At("worktree") /\ Fine /\ Goto("slash")
  /\ branch' = branch \cup {tk}
  /\ worktree' = worktree \cup {tk}
  /\ UNCHANGED <<runVars, closed, done, remote, treeVars, crashes>>

\* git worktree add -b: refused when the branch exists.  The provisioning of
\* the new worktree may fail after that.  Without the ticketing commands the
\* ticket is flagged before anything is done.
CreateWorktree ==
  /\ At("worktree")
  /\ \/ /\ Goto("flag")
        /\ (Fine \/ Fault)
        /\ UNCHANGED <<branch, worktree>>
     \/ /\ tk \notin branch
        /\ branch' = branch \cup {tk}
        /\ worktree' = worktree \cup {tk}
        /\ \/ Fine /\ Goto("slash")
           \/ Fault /\ Goto("flag")
  /\ UNCHANGED <<runVars, closed, done, remote, treeVars, crashes>>

\* /ticket-start: ok, refused or failed; then the golden capture of a refactor.
SlashCommand ==
  /\ At("slash")
  /\ \/ Fine /\ (Goto("enterExecute") \/ Goto("flag"))
     \/ Fault /\ Throw("other")
  /\ UNCHANGED <<runVars, repoVars, treeVars, crashes>>

EnterExecute == At("enterExecute") /\ Enter("ExecutePlan", "build")

\* A controlled runner appends runner.started first; a runner that fails may
\* have had its effect.
Started(site) == Append(site, tk)

\* The next attempt, or the next round.
Again(p) == /\ pc' = p /\ n' = n + 1
            /\ UNCHANGED <<job, catching, mirror, verdict, tally, refused>>

\* A builder turn, in ExecutePlan or in Review: the tree is edited.
BuilderTurn(here, site, next) ==
  /\ At(here)
  /\ \/ Fault /\ Throw("other") /\ UNCHANGED <<log, verified, approved>>
     \/ /\ IF ClaudeBuilds THEN Started(site) ELSE UNCHANGED log
        /\ verified' = verified \ {tk}
        /\ approved' = approved \ {tk}
        /\ \/ Fine /\ Goto(next)
           \/ Fault /\ Throw("other")
  /\ UNCHANGED <<status, phase, held, processed, over, repoVars, blind, crashes>>

\* runVerification: red leaves the tree as it was.
Verification(here, site, onPass, onFail) ==
  /\ At(here)
  /\ \/ Fault /\ Throw("other") /\ UNCHANGED <<log, verified>>
     \/ /\ Started(site)
        /\ \/ Fault /\ Throw("other") /\ UNCHANGED verified
           \/ Fine /\ onPass /\ verified' = verified \cup {tk}
           \/ Fine /\ onFail /\ UNCHANGED verified
  /\ UNCHANGED <<status, phase, held, processed, over, repoVars, approved, blind,
                 crashes>>

Build == BuilderTurn("build", "runner.started ExecutePlan", "verify")

\* Mutant: the attempts are not counted.
Verify_Uncounted ==
  Verification("verify", "runner.started ExecutePlan", Goto("recordPassed"),
               Goto("build"))

\* Red: diagnose and build again, or give up (exhausted, or stalled from the
\* third attempt on), or find the plan unworkable, never on the last attempt.
Verify ==
  Verification("verify", "runner.started ExecutePlan", Goto("recordPassed"),
    \/ /\ n < MaxIterations
       /\ Again("build")
    \/ (n = MaxIterations \/ n >= 3) /\ Goto("recordFailed")
    \/ n < MaxIterations /\ Goto("recordUnworkable"))

\* verification.result, then the outcome's branch; a verified build is flagged
\* when its diff is empty or a refactor's golden output changed.
RecordVerification ==
  /\ \/ /\ At("recordPassed") /\ Append("verification.passed", tk)
        /\ \/ /\ Fine /\ pc' = "enterReview" /\ n' = 1
              /\ UNCHANGED <<job, catching, mirror, verdict, tally, refused>>
           \/ Fine /\ Goto("flag")
           \/ Fault /\ Throw("other")
     \/ /\ At("recordFailed") /\ Fine /\ Goto("flag") /\ UNCHANGED log
     \/ /\ At("recordUnworkable") /\ Fine /\ Goto("enterPlan") /\ UNCHANGED log
     \/ /\ pc \in {"recordPassed", "recordFailed", "recordUnworkable"}
        /\ Fault /\ Throw("other") /\ UNCHANGED log
  /\ UNCHANGED <<status, phase, held, processed, over, repoVars, treeVars, crashes>>

EnterPlan == At("enterPlan") /\ Enter("PlanTicket", "plan")

\* Mutant: the proposal is recorded, the flag is not.
PlanTicket_NoFlag ==
  /\ At("plan") /\ Fine /\ Goto("backToSelect")
  /\ UNCHANGED <<runVars, repoVars, treeVars, crashes>>

\* runPlanTicket flags the ticket on every exit that does not throw.
PlanTicket ==
  /\ At("plan")
  /\ \/ Fine /\ Append("ticket.flagged", tk) /\ Goto("backToSelect")
     \/ Fault /\ Throw("other") /\ UNCHANGED log
  /\ UNCHANGED <<status, phase, held, processed, over, repoVars, treeVars, crashes>>

-----------------------------------------------------------------------------
(* Review, close, merge gate *)

EnterReview == At("enterReview") /\ Enter("Review", "review")

Verdict(v) == /\ pc' = "reviewed" /\ verdict' = v
              /\ UNCHANGED <<job, catching, mirror, n, tally, refused>>

\* One review round.  REQUEST_CHANGES asks for a fix unless the findings repeat
\* or no round is left: then it becomes an escalation.
Review ==
  /\ At("review")
  /\ \/ Fault /\ Throw("other") /\ UNCHANGED <<log, approved>>
     \/ /\ IF ClaudeBuilds THEN Started("runner.started Review") ELSE UNCHANGED log
        /\ \/ Fault /\ Throw("other") /\ UNCHANGED approved
           \/ /\ Fine /\ approved' = approved \cup {tk}
              /\ Verdict("APPROVE")
           \/ /\ Fine /\ UNCHANGED approved
              /\ Verdict("ESCALATE")
           \/ /\ n < MaxReviewRounds
              /\ Fine /\ UNCHANGED approved /\ Goto("refix")
  /\ UNCHANGED <<status, phase, held, processed, over, repoVars, verified, blind,
                 crashes>>

Refix == BuilderTurn("refix", "runner.started Review", "reverify")

\* Mutant: a red re-verification does not stop the review.
Reverify_IgnoresRed ==
  Verification("reverify", "runner.started Review",
               Again("review"),
               Again("review"))

\* A red tree is never closed: the ticket is flagged.
Reverify ==
  Verification("reverify", "runner.started Review",
               Again("review"), Goto("flag"))

Reviewed ==
  /\ At("reviewed")
  /\ \/ Fine /\ Append("review.result", tk) /\ Goto("enterClose")
     \/ Fault /\ Throw("other") /\ UNCHANGED log
  /\ UNCHANGED <<status, phase, held, processed, over, repoVars, treeVars, crashes>>

EnterClose == At("enterClose") /\ Enter("Close", "close")

\* Mutant: a failing commit is let through.
CloseTicket_AllowFail ==
  /\ At("close") /\ Goto("closedEvent")
  /\ \/ Fine /\ closed' = closed \cup {tk}
     \/ Fault /\ UNCHANGED closed
  /\ UNCHANGED <<runVars, branch, worktree, done, remote, treeVars, crashes>>

\* git.closeTicket: the status flip and the build, in one commit.
CloseTicket ==
  /\ At("close")
  /\ \/ Fine /\ closed' = closed \cup {tk} /\ Goto("closedEvent")
     \/ Fault /\ Throw("other") /\ UNCHANGED closed
  /\ UNCHANGED <<runVars, branch, worktree, done, remote, treeVars, crashes>>

\* Mutant: the merge gate is entered without the push.
ClosedEvent_NoPush ==
  /\ At("closedEvent") /\ Fine /\ Append("ticket.closed", tk)
  /\ Goto("enterMergeGate")
  /\ UNCHANGED <<status, phase, held, processed, over, repoVars, treeVars, crashes>>

ClosedEvent ==
  /\ At("closedEvent")
  /\ \/ /\ Fine /\ Append("ticket.closed", tk)
        /\ Goto(IF HasRemote THEN "push" ELSE "backToSelect")
     \/ Fault /\ Throw("other") /\ UNCHANGED log
  /\ UNCHANGED <<status, phase, held, processed, over, repoVars, treeVars, crashes>>

\* A command about the remote: when it fails its effect may have happened.
Remotely(here, to, next) ==
  /\ At(here)
  /\ \/ Fine /\ remote' = [remote EXCEPT ![tk] = to] /\ Goto(next)
     \/ /\ Fault /\ Throw("other")
        /\ remote' \in {remote, [remote EXCEPT ![tk] = to]}
  /\ UNCHANGED <<runVars, branch, worktree, closed, done, treeVars, crashes>>

Push           == Remotely("push", "pushed", "enterMergeGate")
EnterMergeGate == At("enterMergeGate") /\ Enter("MergeGate", "pr")
CreatePr       == Remotely("pr", "pr", "gate")
MergePr        == Remotely("merge", "merged", "cleanup")

\* What CI, the diff and the epic say, then merge.decision.
Gate ==
  /\ At("gate")
  /\ \/ \E ci \in CiStates, risk \in RiskLevels, request \in EpicRequests :
          /\ Fine /\ Append("merge.decision", tk)
          /\ Goto(IF applyAutonomy(decideMerge(ci, verdict, risk),
                       resolveAutonomy(AutonomyDefault, AutonomyCeiling, request))
                     = "auto-merge" THEN "merge" ELSE "escalate")
     \/ Fault /\ Throw("other") /\ UNCHANGED log
  /\ UNCHANGED <<status, phase, held, processed, over, repoVars, treeVars, crashes>>

\* A comment, best effort, and the triage event.
MarkEscalated ==
  /\ At("escalate")
  /\ \/ Fine /\ Goto("cleanup")
     \/ Fault /\ Throw("other")
  /\ UNCHANGED <<runVars, repoVars, treeVars, crashes>>

\* Best effort; the branch stays.
CleanupWorktree ==
  /\ At("cleanup")
  /\ \/ Fine /\ worktree' = worktree \ {tk}
     \/ Fault /\ UNCHANGED worktree
  /\ Goto("backToSelect")
  /\ UNCHANGED <<runVars, branch, closed, done, remote, treeVars, crashes>>

BackToSelect ==
  /\ At("backToSelect")
  /\ Move("SelectTicket", NoTicket, "ticketEnd", Throw("other"))
  /\ MoveRest

-----------------------------------------------------------------------------
(* A ticket the loop does not finish *)

\* Mutant: a flag that cannot be recorded is only logged.
Flag_BestEffort ==
  /\ At("flag")
  /\ Goto("route")
  /\ \/ Fine /\ Append("ticket.flagged", tk)
     \/ Fault /\ UNCHANGED log
  /\ UNCHANGED <<status, phase, held, processed, over, repoVars, treeVars, crashes>>

\* persistedPhase falls back on the mirror when the read fails; three failing
\* appends (one outage, one fault here) raise FlagRecordError.
Flag ==
  /\ At("flag")
  /\ \/ /\ Append("ticket.flagged", tk)
        /\ \/ Fine /\ Goto("route")
           \/ Fault /\ Goto("routeMirror")
     \/ Fault /\ Throw("flagRecord") /\ UNCHANGED log
  /\ UNCHANGED <<status, phase, held, processed, over, repoVars, treeVars, crashes>>

\* Through the failure state of the phase read when it was flagged, when that
\* phase has one; nothing is left to do from SelectTicket.
RouteFrom(here, at) ==
  /\ At(here)
  /\ \/ /\ at \in DOMAIN FailureRoute
        /\ Enter(FailureRoute[at], "backToSelect")
     \/ /\ at \notin DOMAIN FailureRoute
        /\ Goto(IF at = "SelectTicket" THEN "ticketEnd" ELSE "backToSelect")
        /\ UNCHANGED <<runVars, repoVars, treeVars, envVars>>

Route == \/ RouteFrom("route", phase[cur])
         \/ RouteFrom("routeMirror", mirror)

-----------------------------------------------------------------------------
(* The environment *)

Crash ==
  /\ ~At("off") /\ crashes < MaxCrashes
  /\ crashes' = crashes + 1
  /\ Reset("off")
  /\ UNCHANGED <<runVars, repoVars, treeVars, faults>>

\* A human merges what the loop closed and the main checkout has it.
HumanPull ==
  \E t \in closed \ done :
    /\ done' = done \cup {t}
    /\ UNCHANGED <<runVars, branch, worktree, closed, remote, treeVars,
                   procVars, envVars>>

Init ==
  /\ status = [r \in RunId |-> "absent"]
  /\ phase = [r \in RunId |-> "Idle"]
  /\ held = [r \in RunId |-> NoTicket]
  /\ processed = [r \in RunId |-> {}]
  /\ over = [r \in RunId |-> FALSE]
  /\ log = [r \in RunId |-> {}]
  /\ branch = {} /\ worktree = {} /\ closed = {} /\ done = {}
  /\ remote = [t \in Ticket |-> "none"]
  /\ verified = {} /\ approved = {} /\ blind = {}
  /\ pc = "off" /\ cur = NoRun /\ tk = NoTicket /\ resumed = FALSE
  /\ catching = FALSE /\ mirror = "Idle" /\ n = 0 /\ verdict = "ESCALATE"
  /\ skipped = {} /\ count = 0 /\ refused = "no"
  /\ faults = 0 /\ crashes = 0

\* What a started process does, one step at a time.
ProcessStep ==
  \/ Reattach \/ ResumeSkip \/ ResumeSkipEvent \/ OpenRun
  \/ Refine \/ RefineSelect \/ RefineEnter \/ Refining \/ RefineBack
  \/ Top \/ Select \/ KillStop \/ Budget \/ Trip \/ StopEvent \/ Pick \/ PickNone
  \/ TicketEnd \/ Finish \/ Complete \/ StructuredStop
  \/ StartTicket \/ CreateWorktree \/ SlashCommand
  \/ EnterExecute \/ Build \/ Verify \/ RecordVerification \/ EnterPlan
  \/ PlanTicket \/ EnterReview \/ Review \/ Refix \/ Reverify \/ Reviewed
  \/ EnterClose \/ CloseTicket \/ ClosedEvent \/ Push \/ EnterMergeGate \/ CreatePr
  \/ Gate \/ MergePr \/ MarkEscalated \/ CleanupWorktree \/ BackToSelect
  \/ Flag \/ Route

Next == Boot \/ ProcessStep \/ Crash \/ HumanPull

Spec == Init /\ [][Next]_vars

-----------------------------------------------------------------------------
(* Properties *)

PCs == {"off", "reattach", "resumeSkip", "resumeSkipEvent", "open", "refine",
        "refineSelect", "refineEnter", "refining", "refineBack", "top",
        "killStop", "select", "budget", "trip", "stopEvent", "pick", "start",
        "worktree", "slash", "enterExecute", "build", "verify", "recordPassed",
        "recordFailed", "recordUnworkable", "enterPlan", "plan", "enterReview",
        "review", "refix", "reverify", "reviewed", "enterClose", "close",
        "closedEvent", "push", "enterMergeGate", "pr", "gate", "merge",
        "escalate", "cleanup", "backToSelect", "ticketEnd", "flag", "route",
        "routeMirror",
        "finish", "complete", "structuredStop"}

\* The process never works on a run or a ticket it has not got.
NoRunPCs == {"off", "open"}
RunPCs == {"resumeSkip", "resumeSkipEvent", "refine", "refineSelect",
           "refineEnter", "refining", "refineBack", "top", "killStop", "select",
           "budget", "trip", "stopEvent", "pick", "finish", "complete",
           "structuredStop"}
TicketPCs == PCs \ (NoRunPCs \cup RunPCs)

StoreOK ==
  /\ status \in [RunId -> RunStatus]
  /\ phase \in [RunId -> LoopStates]
  /\ held \in [RunId -> Ticket \cup {NoTicket}]
  /\ processed \in [RunId -> SUBSET Ticket]
  /\ over \in [RunId -> BOOLEAN]
  /\ log \in [RunId -> SUBSET Events]

RepoOK ==
  /\ branch \subseteq Ticket /\ worktree \subseteq Ticket
  /\ closed \subseteq Ticket /\ done \subseteq Ticket
  /\ remote \in [Ticket -> RemoteStates]

TreeOK ==
  /\ verified \subseteq Ticket /\ approved \subseteq Ticket /\ blind \subseteq Ticket

ProcOK ==
  /\ pc \in PCs /\ cur \in RunId \cup {NoRun} /\ tk \in Ticket \cup {NoTicket}
  /\ resumed \in BOOLEAN /\ catching \in BOOLEAN /\ mirror \in LoopStates
  /\ n \in Nat /\ verdict \in Verdicts /\ skipped \subseteq Ticket /\ count \in Nat
  /\ refused \in {"no", "illegal", "denied"}
  /\ pc \notin NoRunPCs => cur \in RunId
  /\ pc \in TicketPCs => tk \in Ticket

EnvOK == faults \in Nat /\ crashes \in Nat

\* The type of every variable, and what the process has in hand.
TypeOK == StoreOK /\ RepoOK /\ TreeOK /\ ProcOK /\ EnvOK

\* The Iron Law as far as the code keeps it: what is closed is the tree that
\* passed verification, unless the ticket was resumed in Review over a tree
\* that had not (ticketExecutionGate.ts skips verification then).
ClosedVerifiedUnlessBlind == closed \subseteq verified \cup blind

\* The Iron Law as README.md states it: every "done" claim rests on a
\* verification of the tree that is closed.
ClosedIsVerified == closed \subseteq verified

\* What the loop merges on its own was closed, approved by the reviewer as it
\* is, and allowed by the autonomy ceiling.
MergedIsGated ==
  \A t \in Ticket : remote[t] = "merged" =>
    /\ t \in closed \cap approved
    /\ AutonomyCeiling = "autopilot"

\* A closed tree is frozen: no later run, resumed or fresh, edits it again.
ClosedTreeFrozen ==
  [][\A t \in closed : /\ t \in closed'
                       /\ t \in verified => t \in verified'
                       /\ t \in approved => t \in approved']_vars

\* The audit trail of a run never claims a close without the evidence of it: a
\* passing verification and a review result in the same log, whichever
\* processes wrote them; and what the run counts as processed was flagged or
\* closed in its log.
AuditTrail ==
  \A r \in RunId, t \in Ticket :
    /\ Has(r, "ticket.closed", t) =>
         /\ Has(r, "verification.passed", t) /\ Has(r, "review.result", t)
         /\ t \in closed
    /\ Has(r, "merge.decision", t) =>
         Has(r, "ticket.closed", t) /\ remote[t] \in {"pr", "merged"}
    /\ t \in processed[r] => Has(r, "ticket.flagged", t) \/ Has(r, "ticket.closed", t)

\* No ticket is dropped: a run lets go of the ticket it holds only once its log
\* says that it was flagged or closed, at the kill switch and the budget's trip
\* too.
NoTicketDropped ==
  [][\A r \in RunId : held[r] # NoTicket /\ held'[r] # held[r] =>
       \/ Has(r, "ticket.flagged", held[r])
       \/ Has(r, "ticket.closed", held[r])]_vars

\* A ticket is built only on dependencies that the main checkout has.
DependenciesFirst == \A t \in branch : DependsOn[t] \subseteq done

\* A ticket flagged in a run is not started again by that run.
FlaggedNotRestarted ==
  At("start") => ~Has(cur, "ticket.flagged", tk)

\* An event log that says the run stopped or completed is never behind a
\* state.json that says "running", except after a failed roll-back of a
\* refinement (phase RefineBacklog).
TerminalEventIsFinal ==
  \A r \in RunId :
    Has(r, "run.stopped", NoTicket) \/ Has(r, "run.completed", NoTicket) =>
      status[r] # "running" \/ phase[r] = "RefineBacklog"

\* A refused move is explained. The budget guard never has to deny one, since
\* the trip at the head of the loop comes first; and the driver never asks for
\* an illegal one unless the store failed twice: an event lost after its state
\* was written, then an unreadable state.
RefusalsExplained ==
  /\ refused # "denied"
  /\ refused = "illegal" => faults >= 2

\* A run that is over stays over, and keeps no ticket unless it was stopped
\* where it stood.
FinalIsFinal ==
  [][\A r \in RunId :
       /\ status[r] \in {"stopped", "completed"} => status'[r] # "running"
       /\ status[r] = "stopped" => status'[r] = "stopped"]_vars

\* A started process ends, whatever the tickets wait for: the kill switch apart,
\* the wall-clock ceiling trips.
ProcessEnds == ~At("off") ~> At("off")

\* The ticket was announced and runTicket never called: the process is gone, and
\* the run says for ever that it runs and stands before its ticket.
Abandoned(r) ==
  cur # r /\ status[r] = "running" /\ phase[r] = "SelectTicket" /\ held[r] = NoTicket

\* A ticket that a run started gets an outcome in its log, when at most one
\* thing fails and the process is not killed.  The exception is a failed read of
\* the log between ticket.started and runTicket.
StartedGetsOutcome ==
  \A r \in RunId, t \in Ticket :
    Has(r, "ticket.started", t) ~>
      Has(r, "ticket.flagged", t) \/ Has(r, "ticket.closed", t) \/ Abandoned(r)

\* The process runs, and with a wall-clock ceiling a trip is always possible
\* again and in the end it happens.
BudgetTrips == Budget /\ pc' = "trip"
Fairness == WF_vars(ProcessStep) /\ SF_vars(BudgetTrips)
FairSpec == Spec /\ Fairness

-----------------------------------------------------------------------------
(* The loop implements the life of a ticket *)

StageOf(t) ==
  IF t \in closed THEN IF remote[t] = "none" THEN "closed" ELSE remote[t]
  ELSE IF t \in branch THEN "building" ELSE "open"

EvidenceOf(t) == (IF t \in verified THEN {"verified"} ELSE {})
                 \cup (IF t \in approved THEN {"approved"} ELSE {})
                 \cup (IF t \in blind THEN {"assumed"} ELSE {})

Delivery == INSTANCE TicketDelivery WITH
              stage <- [t \in Ticket |-> StageOf(t)],
              evidence <- [t \in Ticket |-> EvidenceOf(t)],
              landed <- done

\* Every behaviour of the loop, with its crashes, faults and resumes, gives
\* each ticket the one life that TicketDelivery describes.
ImplementsDelivery == Delivery!Spec

-----------------------------------------------------------------------------
(* Why it holds: the inductive invariant of the proofs *)

\* From the new worktree to the close, and with the close behind it.
BuildingPCs == {"slash", "enterExecute", "build", "verify", "recordPassed",
                "recordFailed", "recordUnworkable", "enterReview", "review",
                "refix", "reverify", "reviewed", "enterClose", "close"}
ClosedPCs == {"closedEvent", "push", "enterMergeGate", "pr", "gate", "merge"}

\* A run that may be resumed holds a ticket that is started and not closed, and
\* no two of them hold the same.
Resumables ==
  /\ closed \subseteq branch
  /\ \A r \in RunId : phase[r] \in BuilderPhases => held[r] \in branch \ closed
  /\ \A r, q \in RunId :
       {phase[r], phase[q]} \subseteq BuilderPhases /\ held[r] = held[q] => r = q

\* The ticket in hand is the one its run holds, and no other run may resume it.
Sole == \A r \in RunId : r # cur /\ phase[r] \in BuilderPhases => held[r] # tk
InHand ==
  /\ pc \in {"worktree", "reattach"} => held[cur] = tk
  /\ pc = "reattach" => phase[cur] \in BuilderPhases
  /\ pc \in BuildingPCs => held[cur] = tk /\ tk \in branch \ closed /\ Sole
  /\ pc = "close" => phase[cur] = "Close"
  /\ pc \in ClosedPCs => tk \in closed

\* What is known of its tree.
Known ==
  /\ pc \in {"recordPassed", "enterReview", "review", "reviewed", "enterClose",
             "close"} => tk \in verified \cup blind
  /\ pc \in {"reviewed", "enterClose", "close", "closedEvent", "push",
             "enterMergeGate", "pr", "gate"} /\ verdict = "APPROVE" =>
       tk \in approved
  /\ pc = "merge" => tk \in approved /\ AutonomyCeiling = "autopilot"

\* What the remote has of it.
Shipped ==
  /\ \A t \in Ticket : t \notin closed => remote[t] = "none"
  /\ pc \in {"closedEvent", "push"} => remote[tk] = "none"
  /\ pc \in {"enterMergeGate", "pr"} => remote[tk] = "pushed"
  /\ pc \in {"gate", "merge"} => remote[tk] = "pr"

\* A ticket has one owner from its branch to its close, whatever run or process
\* that is, and the owner's place says what is known of the tree it will close:
\* with this every closed tree was checked and nobody edits it again.
IndInv ==
  /\ Resumables /\ InHand /\ Known /\ Shipped
  /\ ClosedVerifiedUnlessBlind /\ MergedIsGated

-----------------------------------------------------------------------------
(* Why the log tells the truth: the inductive invariant over the event logs *)

Outcome(r, t) == Has(r, "ticket.flagged", t) \/ Has(r, "ticket.closed", t)
Terminal(r)   == Has(r, "run.stopped", NoTicket) \/ Has(r, "run.completed", NoTicket)

\* The loop between tickets, the places at which a run is not over, the places
\* that a build reaches once it passed, and those behind a close.
LoopPCs == {"refine", "refineSelect", "refineEnter", "refining", "refineBack",
            "top", "killStop", "select", "budget", "trip", "pick"}
LivePCs == LoopPCs \cup TicketPCs \cup {"finish"}
PassedPCs == {"enterReview", "review", "refix", "reverify", "reviewed",
              "enterClose", "close", "closedEvent"}
ShippingPCs == {"push", "enterMergeGate", "pr", "gate", "merge", "escalate",
                "cleanup"}

\* A run under way says so, and its log has no last word yet.
Standing ==
  /\ pc \in LivePCs => status[cur] = "running" /\ ~Terminal(cur)
  /\ pc \notin NoRunPCs => status[cur] # "absent"
  /\ pc \in {"resumeSkipEvent", "stopEvent", "complete"} => status[cur] # "running"
  /\ pc = "refining" => phase[cur] = "RefineBacklog"
  /\ \A r \in RunId : status[r] = "absent" => log[r] = {} /\ held[r] = NoTicket
  /\ TerminalEventIsFinal

\* A fresh run remembers whom it flagged.
Remembers ==
  /\ pc \in NoRunPCs \cup LoopPCs \cup {"start"} => ~resumed
  /\ pc \in LoopPCs \cup {"start"} =>
       \A t \in Ticket : Has(cur, "ticket.flagged", t) => t \in skipped
  /\ pc \in TicketPCs /\ ~resumed =>
       \A t \in Ticket : Has(cur, "ticket.flagged", t) => t \in skipped \cup {tk}
  /\ FlaggedNotRestarted

\* What the log has when a ticket is at a place.
Trail ==
  /\ pc \in PassedPCs => Has(cur, "verification.passed", tk)
  /\ pc \in {"enterClose", "close", "closedEvent"} => Has(cur, "review.result", tk)
  /\ pc \in ShippingPCs => Has(cur, "ticket.closed", tk)
  /\ pc \in {"route", "routeMirror"} => Has(cur, "ticket.flagged", tk)
  /\ pc \in {"backToSelect", "ticketEnd"} => Outcome(cur, tk)
  /\ \A r \in RunId : phase[r] = "Review" => Has(r, "verification.passed", held[r])
  /\ AuditTrail

\* A run between tickets holds none without an outcome, and none but the one in
\* hand while it works.
Owed ==
  /\ pc \in LoopPCs \cup {"start", "finish"} =>
       held[cur] = NoTicket \/ Outcome(cur, held[cur])
  /\ pc \in TicketPCs =>
       held[cur] \in {NoTicket, tk} \/ Outcome(cur, held[cur])

\* A ticket is picked on dependencies that landed, and they stay.
Grounded ==
  /\ pc \in {"start", "worktree"} => DependsOn[tk] \subseteq done
  /\ DependenciesFirst

LogInv == Standing /\ Remembers /\ Trail /\ Owed /\ Grounded

-----------------------------------------------------------------------------
(* Why no move is refused: the inductive invariant over the phases *)

\* What a ticket may be flagged in: a phase with a failure state, or one with
\* a way back to SelectTicket, or SelectTicket itself.
WayBack == {p \in LoopStates : CanTransition(p, "SelectTicket")} \ {"Idle"}
FlagPhases == {"SelectTicket"} \cup DOMAIN FailureRoute \cup WayBack

\* The phase a run is in at each place, and the places where the mirror of it
\* is right: what holds until a second thing fails.
InPhase ==
  /\ pc \in {"refine", "refineSelect", "select"} => phase[cur] = "Idle"
  /\ pc \in {"top", "killStop"} => phase[cur] \in {"Idle", "SelectTicket"}
  /\ pc \in {"refine", "top"} /\ phase[cur] = "Idle" => count = 0
  /\ pc \in {"refineEnter", "budget", "trip", "pick", "start", "ticketEnd",
             "finish"} => phase[cur] = "SelectTicket"
  /\ pc \in {"refining", "refineBack"} => phase[cur] = "RefineBacklog"
  /\ pc = "reattach" => phase[cur] \in BuilderPhases
  /\ pc \in {"worktree", "slash", "enterExecute"} => phase[cur] = "StartTicket"
  /\ pc \in {"build", "verify", "recordPassed", "recordFailed",
             "recordUnworkable", "enterPlan", "enterReview"} =>
       phase[cur] = "ExecutePlan"
  /\ pc = "plan" => phase[cur] = "PlanTicket"
  /\ pc \in {"review", "refix", "reverify", "reviewed", "enterClose"} =>
       phase[cur] = "Review"
  /\ pc \in {"close", "closedEvent", "push", "enterMergeGate"} =>
       phase[cur] = "Close"
  /\ pc \in {"pr", "gate", "merge", "escalate", "cleanup"} =>
       phase[cur] = "MergeGate"
  /\ pc \in {"flag", "route", "routeMirror"} => phase[cur] \in FlagPhases
  /\ pc = "backToSelect" => phase[cur] \in WayBack
  /\ pc \in TicketPCs \ {"flag", "route", "backToSelect", "ticketEnd"} =>
       mirror = phase[cur]
  /\ pc = "flag" /\ mirror # phase[cur] => faults > 0

\* Whatever fails: a run whose views show a trip is about to stop, or was left
\* in a phase that nobody resumes.
StopPCs == {"trip", "stopEvent", "structuredStop", "resumeSkip", "resumeSkipEvent"}
Overdrawn ==
  \A r \in RunId : over[r] =>
    /\ phase[r] \notin BuilderPhases
    /\ r = cur => pc \in NoRunPCs \cup StopPCs

\* The loop between tickets is never in such a phase: only a mirror at
\* SelectTicket takes a ticket to its end without a move, and no build starts
\* behind such a mirror.
Unbuilt ==
  /\ pc \in LoopPCs \cup {"ticketEnd"} => phase[cur] \notin BuilderPhases
  /\ pc \in TicketPCs /\ mirror = "SelectTicket" =>
       /\ phase[cur] \notin BuilderPhases
       /\ pc \in {"start", "flag", "route", "routeMirror", "backToSelect",
                 "ticketEnd"}

Fresh ==
  /\ \A r \in RunId : status[r] = "absent" => phase[r] = "Idle" /\ ~over[r]
  /\ pc = "open" => count = 0

RefusalInv ==
  /\ Fresh /\ Overdrawn /\ Unbuilt
  /\ faults < 2 => InPhase
  /\ RefusalsExplained

=============================================================================
