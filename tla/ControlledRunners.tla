--------------------------- MODULE ControlledRunners ---------------------------
(***************************************************************************)
(* The runners of the loop over exec (src/src/controlledRunners.ts and the *)
(* wrappers of runners.ts): a call gets an id from the run's log, appends  *)
(* runner.started, runs its command once or, where the runner asks again,  *)
(* twice, and appends runner.settle with the reason exec gave, on the way  *)
(* to a result and on the way to an error.                                 *)
(*                                                                         *)
(* A call is one after the other, as in the loop.  What the command prints *)
(* is a choice; what exec does is ExecSettle, step by step.                *)
(***************************************************************************)
EXTENDS ExecSettle, Sequences, FiniteSets

CONSTANTS
  MaxCalls,   \* bound: calls
  MaxFaults   \* bound: reads, appends and files that fail

ASSUME BoundsAssumption == MaxCalls \in Nat /\ MaxFaults \in Nat

\* The runners that are wrapped (a planning review is a review), and a call of
\* exec that is not, with any options.
Commands == {"runBuilder", "runVerification"}
Asks == {"runCodexReview", "runDiagnosisConsult", "runPlanDrafter", "runPlanningDecision"}
Site == Commands \cup Asks \cup {"runSlashCommand"}
Plain == "exec"

VARIABLES
  site,      \* the runner that is called
  step,      \* where the call stands
  callId,
  tries,     \* commands this call has run
  captured,  \* the last reason exec gave it
  answer,    \* what the caller gets
  log,       \* runner.started and runner.settle in events.jsonl
  calls, faults

call == <<site, callId, calls>>
wrapper == <<call, step, tries, captured, answer, log, faults>>
all == <<vars, wrapper>>

Answers == {"none", "ok", "failed", "error", "timeout"}

\* The timeouts of a controlled call: idle and completion, no signal, no
\* wall-clock, and every exit code resolves.
resolveTimeoutPolicy ==
  [allowFail |-> TRUE, wall |-> FALSE, idle |-> TRUE, grace |-> TRUE,
   signals |-> FALSE]

ControlledInit ==
  /\ opts = resolveTimeoutPolicy /\ child = "zero" /\ pipeHeld = FALSE /\ chunks = 0
  /\ errorEvent = FALSE /\ closeEvent = TRUE /\ armed = {}
  /\ timedOut = FALSE /\ idleKilled = FALSE /\ graceKilled = FALSE
  /\ inGraceMode = FALSE /\ settled = TRUE
  /\ result = [reason |-> "clean", outcome |-> "zero"]
  /\ site = Plain /\ step = "idle" /\ callId = 0 /\ tries = 0
  /\ captured = "none" /\ answer = "none"
  /\ log = <<>> /\ calls = 0 /\ faults = 0

-----------------------------------------------------------------------------
(* The wrapper before the command *)

Fault == faults < MaxFaults /\ faults' = faults + 1
Fine == UNCHANGED faults

\* What is left of an append that throws: nothing, or the event.
Appends(event) ==
  \/ Fine /\ log' = Append(log, event)
  \/ Fault /\ log' \in {log, Append(log, event)}
Appended == faults' = faults

StartsOf(events) == {i \in DOMAIN events : events[i][1] = "runner.started"}
nextCallId == Cardinality(StartsOf(log)) + 1

\* The id is read from the log, outside of the try.
CallsRunner(s) ==
  /\ step = "idle" /\ calls < MaxCalls
  /\ calls' = calls + 1 /\ site' = s /\ tries' = 0 /\ captured' = "none"
  /\ \/ /\ Fine /\ callId' = nextCallId
        /\ step' = "started" /\ answer' = "none"
     \/ /\ Fault /\ callId' = 0
        /\ step' = "idle" /\ answer' = "error"
  /\ UNCHANGED <<vars, log>>

\* A call of exec by anything else, git for one.
CallsExec ==
  /\ step = "idle" /\ calls < MaxCalls
  /\ calls' = calls + 1 /\ site' = Plain /\ tries' = 0 /\ captured' = "none"
  /\ callId' = 0 /\ step' = "spawn" /\ answer' = "none"
  /\ UNCHANGED <<vars, log, faults>>

RecordsStart ==
  /\ step = "started"
  /\ Appends(<<"runner.started", callId, "none">>)
  /\ step' = IF Appended THEN "prepare" ELSE "settle"
  /\ answer' = IF Appended THEN "none" ELSE "error"
  /\ UNCHANGED <<vars, call, tries, captured>>

\* Schema files and context before the command: a consult takes their failure
\* for "unavailable".
Prepares ==
  /\ step = "prepare"
  /\ \/ Fine /\ step' = "spawn" /\ UNCHANGED answer
     \/ /\ Fault /\ site \in Asks /\ step' = "settle"
        /\ answer' = IF site = "runDiagnosisConsult" THEN "failed" ELSE "error"
  /\ UNCHANGED <<vars, call, tries, captured, log>>

-----------------------------------------------------------------------------
(* The command *)

\* exec is called: a new child, new timers, a new promise.
Spawns ==
  /\ step = "spawn" /\ step' = "exec" /\ tries' = tries + 1
  /\ opts' \in IF site = Plain THEN Calls ELSE {resolveTimeoutPolicy}
  /\ child' \in {"running", "unspawned"}
  /\ pipeHeld' = FALSE /\ chunks' = 0
  /\ errorEvent' = FALSE /\ closeEvent' = FALSE
  /\ armed' = {t \in {"wall", "idle"} : opts'[t]}
  /\ timedOut' = FALSE /\ idleKilled' = FALSE /\ graceKilled' = FALSE
  /\ inGraceMode' = FALSE /\ settled' = FALSE /\ result' = Unsettled
  /\ UNCHANGED <<call, captured, answer, log, faults>>

\* Mutant: the first reason of a call is kept.
capture_First ==
  captured' = IF ~settled /\ settled' /\ site # Plain /\ captured = "none"
              THEN result'.reason ELSE captured

\* onSettle, from inside the latch.
capture ==
  captured' = IF ~settled /\ settled' /\ site # Plain THEN result'.reason ELSE captured

Runs == /\ Next /\ capture
        /\ UNCHANGED <<call, step, tries, answer, log, faults>>

-----------------------------------------------------------------------------
(* What the runner makes of it *)

Exited == step = "exec" /\ settled /\ UNCHANGED <<vars, call, captured, log>>
Succeeded == result.outcome = "zero"
Returns(a) == step' = "settle" /\ answer' = a /\ UNCHANGED tries
Again == tries = 1 /\ step' = "spawn" /\ UNCHANGED <<answer, tries>>

runExec ==
  /\ Exited /\ site = Plain /\ Fine
  /\ step' = "idle" /\ UNCHANGED tries
  /\ answer' = IF result.outcome = "rejected" THEN "error"
               ELSE IF Succeeded THEN "ok" ELSE "failed"

runCommand == /\ Exited /\ site \in Commands /\ Fine
              /\ Returns(IF Succeeded THEN "ok" ELSE "failed")

\* The last sentinel line alone decides, whatever the exit code.
runSlashCommand == /\ Exited /\ site = "runSlashCommand" /\ Fine
                   /\ \E a \in {"ok", "failed"} : Returns(a)

\* The output goes to a log file, and a write that fails is loud.
writeRunLog == /\ Exited /\ site \in {"runBuilder", "runSlashCommand"} /\ Fault
               /\ Returns("error")

\* A review that failed or left no message is asked for once more; a rejected
\* model is not, nor a message that is no verdict.
runReviewWithRetry ==
  /\ Exited /\ site = "runCodexReview" /\ Fine
  /\ \/ Succeeded /\ Returns("ok")
     \/ Again
     \/ (Succeeded \/ tries = 2) /\ Returns("failed")
     \/ ~Succeeded /\ Returns("failed")

runDiagnosisConsult ==
  /\ Exited /\ site = "runDiagnosisConsult" /\ Fine
  /\ \/ Succeeded /\ Returns("ok")
     \/ Returns("failed")

\* A draft that is no JSON is asked for once more; a failed command is not.
draftWithJsonRetry ==
  /\ Exited /\ site = "runPlanDrafter" /\ Fine
  /\ \/ Succeeded /\ Returns("ok")
     \/ Succeeded /\ Again
     \/ (~Succeeded \/ tries = 2) /\ Returns("error")

runPlanningDecision ==
  /\ Exited /\ site = "runPlanningDecision" /\ Fine
  /\ \/ Succeeded /\ Returns("ok")
     \/ Returns("error")

\* The catch and the finally: an error after an idle kill is a timeout, and what
\* exec settled is recorded; an append that throws masks everything.
RecordsSettle ==
  /\ step = "settle" /\ step' = "idle"
  /\ IF captured = "none" THEN Fine /\ UNCHANGED log
     ELSE Appends(<<"runner.settle", callId, captured>>)
  /\ answer' = IF ~Appended THEN "error"
               ELSE IF answer = "error" /\ captured = "idle-timeout" THEN "timeout"
               ELSE answer
  /\ UNCHANGED <<vars, call, tries, captured>>

CallNext ==
  \/ \E s \in Site : CallsRunner(s)
  \/ CallsExec \/ RecordsStart \/ Prepares \/ Spawns \/ Runs
  \/ runExec \/ runCommand \/ runSlashCommand \/ writeRunLog \/ runReviewWithRetry
  \/ runDiagnosisConsult \/ draftWithJsonRetry \/ runPlanningDecision
  \/ RecordsSettle

\* As in ExecSettle: timers fire, SIGKILL works, events are delivered, and the
\* descendants of a child do not hold its pipes for ever.
ControlledSpec ==
  ControlledInit /\ [][CallNext]_all /\ Fairness /\ WF_vars(DescendantEnds)

-----------------------------------------------------------------------------
(* Properties *)

\* The log tells every call apart and tells how it ended: an id has one start
\* and at most one end after it; a call that got its answer left the reason of
\* its LAST command, however often it asked and whether it threw; and only a
\* call whose last command was killed for being idle ends as a timeout.
CallsAreTold ==
  /\ \A i, j \in DOMAIN log : i < j /\ log[i][2] = log[j][2] =>
       log[i][1] = "runner.started" /\ log[j][1] = "runner.settle"
  /\ step = "idle" /\ captured # "none" /\ answer \in {"ok", "failed", "timeout"} =>
       \E i \in DOMAIN log : log[i] = <<"runner.settle", callId, result.reason>>
  /\ answer = "timeout" => result.reason = "idle-timeout"

-----------------------------------------------------------------------------
(* The inductive invariant of the proofs *)

Steps == {"idle", "started", "prepare", "spawn", "exec", "settle"}
EventsOfCalls == {"runner.started", "runner.settle"}

CallTypeOK ==
  /\ site \in Site \cup {Plain} /\ step \in Steps /\ callId \in Nat
  /\ tries \in Nat /\ faults \in Nat /\ captured \in SettleReason \cup {"none"}
  /\ answer \in Answers
  /\ log \in Seq(EventsOfCalls \X Nat \X (SettleReason \cup {"none"}))

\* Every id of the log was counted by a start, and the call in hand is either
\* not in the log yet, or started and not told to have ended.
Counted == Cardinality(StartsOf(log))
Opened(id) == \A i \in DOMAIN log : log[i][2] = id => log[i][1] = "runner.started"
IdsAreCounted ==
  /\ \A i \in DOMAIN log : log[i][2] <= Counted
  /\ step = "started" => callId = Counted + 1
  /\ site # Plain /\ (\/ step \in {"prepare", "spawn", "exec"}
                      \/ step = "settle" /\ captured # "none") =>
       callId <= Counted /\ Opened(callId)

\* What was captured is the reason of the last command, once that has settled.
CapturedIsLast ==
  /\ site = Plain => captured = "none" /\ step \notin {"started", "prepare", "settle"}
  /\ step \in {"started", "prepare"} => captured = "none"
  /\ step \in {"idle", "settle"} /\ captured # "none" => captured = result.reason
  /\ step = "exec" /\ settled /\ site # Plain => captured = result.reason
  /\ step # "exec" => settled
  /\ step \notin {"idle", "settle"} => answer = "none"
  /\ step = "settle" => answer \in {"ok", "failed", "error"}

CallInv == IdsAreCounted /\ CapturedIsLast /\ CallsAreTold

=============================================================================
