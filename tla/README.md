# Verification of the ticket loop

The repository is an unattended loop: a Node process (`src/src/*.ts`) takes tickets from a
backlog, has a model build each one in a git worktree of its own, verifies it with a command
of the repository, has another model review it, closes it, pushes it and hands it to a merge
gate. The backlog itself is drafted and released by a second unattended process, autoplan.
Both run for hours without anybody watching, on top of subprocesses that hang, die or fail,
and are expected to be killed and started again. This directory holds TLA+ models of them,
the TLC runs that check them on small instances, and TLAPS proofs of the properties that
matter most. Line references are to `src/src/` unless another directory is named.

## 1. The system

| component | source | state | operations | works with |
|---|---|---|---|---|
| orchestrator | `orchestrator.ts` | skipped tickets, count, budget in memory | boot, resume, refinement pass, the loop over tickets, stop, complete | everything below |
| loop kernel | `loopKernel.ts`, `loopState.ts` | the current phase, in `state.json` | `advance`: legal? guard? write, append, in this order | run store, budget guard |
| run store | `runStore.ts`, `runState.ts` | `.agent/runs/<id>/state.json`, `events.jsonl`, artifacts | create, write (atomic rename), append, read, newest resumable run | kernel, resume, retention |
| resume | `resume.ts` | - | which run, which phase, which worktree | run store, git |
| ticket run | `ticketStart.ts`, `ticketExecutionGate.ts`, `ticketReviewClose.ts`, `ticketRunContext.ts` | mirror of the phase | the path of a ticket from StartTicket to the merge gate | kernel, git, runners |
| ticket failure | `ticketFailure.ts` | - | flag with retries, read the persisted phase, route to Flagged and back | kernel, run store |
| build and verify loop | `executePlan.ts`, `diagnosis.ts` | direction, signatures, consults used | attempts, diagnosis, second opinion, stall, give up | runners, preservation |
| review step | `reviewStep.ts`, `review.ts`, `buildReviewExecution.ts` | round, last findings | review twice if need be, read the verdict, fix, verify again | runners |
| merge gate | `mergeGateStep.ts`, `mergeGate.ts`, `autonomy.ts` | - | push, PR, decision, merge or escalate | git, CI observation |
| CI observation | `ci.ts` | polls, deadline | poll until settled | GitHub |
| run report | `runComprehension.ts`, `ticketOutcomes.ts`, `comprehension.ts`, `triageInbox.ts`, `explainRun.ts` | `outcomes.json`, `evidence.json`, the handoff | derive from the log, write, read back | run store |
| runners and exec | `runners.ts`, `controlledRunners.ts` | one child, three timers, two flags; runner events | id, start, spawn, feed, kill, settle, record | the operating system, run store |
| apply of a refinement | `applyRefinement.ts` | checkout, index, commit, log | read, write, stage, commit, record, roll back | git, run store |
| preservation and retention | `preserve.ts`, `retention.ts` | pointers, run directories | record a failed run; prune old ones | git, run store |
| budget, kill switch | `budget.ts`, `killSwitch.ts` | counters; a file | trip, guard, persisted views | orchestrator, kernel |
| planning | `planning.ts`, `autoplan.ts` | ticket, spec and plan files; the batch in memory | waves, draft, review, revise, decide, release, escalate | runners, ticket files |
| readiness | `scanTickets.ts`, `doctor.ts`, `discover.ts`, `printPlan.ts`, `structuralIntegrity.ts` | - (the ticket files) | what may be picked, what stops a start, what is said of it | planning, orchestrator |
| git and GitHub | `git.ts` | branches, worktrees, remote | worktree, close commit, push, PR, merge | a subprocess each |

Skills, installation, risk patterns, ticket allocation, the command line and the pre-push hook
keep no state that the loop reads back; `PROJECT.json` lists them with the reason each is left out.

What is hard. The process may die between any two durable effects, and what is durable is
spread over state.json, a log, git, the main checkout and GitHub, with no transaction over
any two of them. Any write, append, command or model call may fail, and the handler of the
failure uses the same store. A later process takes over a run from what it finds. Timers and
events of a child race. Checks register, finish and run again between two polls. Several
tickets are planned at once on files that an operator and a loop change as well. Humans merge
and pull in between. Nothing of this shows in a unit test that fakes the store and the runners.

What makes the parts correct:

* a ticket: what is closed was verified and reviewed as it is; what is merged was closed,
  approved, green when last looked at, and allowed by the policy; nobody edits it afterwards;
  dependencies come first;
* a run: its log never claims more than happened, it never lets go of a ticket without an
  entry, it ends, once it is over it stays over, and its report says what its log says;
* the kernel: no illegal move is asked for, no guard denies a move the loop did not stop before;
* the attempts and the rounds: a stall or a plan given up rests on what the rules say, a
  direction on the failure it is given for, caps hold, no fix is spent twice on the same
  findings, both end;
* exec and the runners over it: one answer, no timer left, no killed child taken for a success,
  an answer in the end, and a log that tells each call apart and how it ended;
* a refinement: what the log calls applied is committed, what it calls failed is gone, what
  was there before is back;
* planning: what is released is one draft, reviewed as it stands, on plans that exist; budgets
  hold; a batch ends; what the doctor promises is what the loop takes;
* retention: nothing young, recent or current is deleted, the number of old directories is
  bounded, a preserved worktree stays findable.

## 2. The modules

| module | models | proofs |
|---|---|---|
| `LoopState` | transition table, terminal states, failure routes, guard exemptions | |
| `MergeGate` | `decideMerge`, `resolveAutonomy`, `applyAutonomy` over the values they tell apart | |
| `TicketDelivery` | abstract: the life of one ticket, with the evidence each stage needs | |
| `LoopRun` | loop processes over one repository; extends the first two, implements the third | `LoopRunSafety`, `LoopRunLog` |
| `ExecutePlan` | the attempts of one ticket, in the detail `LoopRun` leaves out | `ExecutePlanProofs` |
| `ReviewRounds` | the rounds of one review | |
| `ObserveCi` | the checks of a pull request and the poll loop | |
| `RunReport` | what the report, the evidence and the inbox make of a log | |
| `Shipping` | from a verified tree to a report; extends `ReviewRounds`, `ObserveCi`, `RunReport`, `MergeGate` | `ShippingProofs` (of all four) |
| `ExecSettle` | one call of `exec` | |
| `ControlledRunners` | the runners over exec, call after call; extends `ExecSettle` | `ControlledRunnersProofs` (of both) |
| `EpicPlanning` | autoplan over the files of one epic | |
| `Readiness` | what scan, doctor, discovery and the printed plan say of a ticket | |
| `Backlog` | autoplan, the loop and the operator on one backlog; extends the last two | `BacklogProofs` |
| `ApplyRefinement` | passes of `runApplyRefinement` over one checkout | `ApplyRefinementProofs` |
| `Retention` | a row of runs, the worktrees they leave, pruning | `RetentionProofs` |
| `MC*` | sets and symmetries for TLC | |

**LoopRun.** The granularity is what another party can see: one action per durable write,
append, git or GitHub effect, or end of a runner. `pc` is the place in the code, and the
actions keep its names. `Move` is `advance` of the kernel with its four ends: refused by the
table, refused by the guard, a write that fails, an append that fails after the write.
`Throw` and `Escape` are the catches, from the inside out: that of `runTicket`, which flags the
ticket again, that of the resume ("resume skipped"), and that of the loop, which turns two
kinds of error into a structured stop and lets the rest out. `Reset` is a process that knows
nothing: a new one, or the state after `Crash`. Run store, repository and remote are
variables that outlive it. `verified`, `approved` and `blind` are history: what is true of the
tree of a ticket as it now is, whatever the code believes. Fault stands for any failing write,
append, command or runner; a command may fail before or after its effect where the code can
not tell. "Verified" in `LoopRun` means that `runVerification` said so; `ExecSettle` says what
that rests on, and finding `exec_signal` is the gap between the two.

**ExecutePlan.** Outputs are their signatures, diagnoses their `planWorkable`, a direction
the attempt it came from and the brains it quotes. One action per awaited call, with its
failure. `diagnostic` and `hasCodex` are chosen at the start. The preservation is three
actions, of which the third may fail silently and the first two may throw.

**Shipping.** One run with one ticket, entered in Review, one process at a time. The rounds
of `ReviewRounds` (two attempts of an invocation, the message file the first one may leave
behind, the verdict read from it, the stall on repeated findings), the polls of `ObserveCi`
against checks that move between them, and then the steps of the gate, the flag, the end of
the run and the three writes of its report, on a log that is a sequence because the report
reads it in order. A flag is retried in the code; the model has the outage that outlasts the
retries as one fault. The checks are forgotten once the gate is done with them. Keeping the
first attempt's message file is what the codex reviewer does.

**ExecSettle and ControlledRunners.** One child, its pipes, which descendants may hold, three
timers, the two last events of Node in both orders, and the latch. Options are a constant set
of records. Output is counted in a few chunks; the idle timer may fire between any two.
`ControlledRunners` puts the wrapper around it: the id read from the log, the start record,
one or two commands, what each runner makes of an exit code, and the settle record written on
every way out. exec's steps are `ExecSettle`'s own, started anew for each command.

**EpicPlanning, Readiness and Backlog.** A file is known by the batch and the round that
drafted it, or as nothing, the operator's, or torn. Waves follow Kahn's algorithm over the
batch; inside a wave any interleaving up to `MaxConcurrent` is possible. The three writes of
an approved ticket and the one of an escalated one may fail, whole or half-way, and the
process may die at any of them. `Readiness` is a set of operators on what the files say: four
readers of the same files, which `Backlog` compares in every state. The operator plans, takes
or releases a ticket; the loop delivers one that its own preflight and pick allow.

**ApplyRefinement.** A file's content is the set of passes whose edits it holds, or `Absent`. A
write that throws, or in which the process dies, leaves any part of what it was given and `Cut`
for the rest; a file with `Cut` is torn, may still read as a ticket, and stays torn when a later
pass edits it. A pass reads, writes file by file, stages, commits, records; each step may fail or
be the last one before a crash. It takes the answers of exec as true.

**Retention.** Several runs over days. A pass scans, sorts with ties either way, and prunes
one worktree and one directory at a time. Worktree paths and branches are one per ticket, so a
pointer may be stale. Humans remove worktrees to have a ticket tried again.

**How they compose.** `LoopRun` extends the table and the decision and is shown to implement
`TicketDelivery` by a refinement mapping (`StageOf`, `EvidenceOf`). `Shipping` composes the
review, CI, the decision and the report into the tail of a ticket's run, `ControlledRunners`
composes the wrapper with exec, `Backlog` composes autoplan, the loop's pick and the operator;
in each the parts share their variables. `ExecutePlan`, `Shipping`, `ControlledRunners`,
`ApplyRefinement` and `Retention` each open something that is atomic in `LoopRun`: its loop
of `Build` and `Verify`, its answers of a reviewer and of CI, the call behind every step that
runs a command, `Refining`, and the pass inside `OpenRun`. They share no variables with
`LoopRun`; what connects them is the answer they give, which `LoopRun` takes as any of the
possible ones.

## 3. The runs

| run | instance | what it shows |
|---|---|---|
| `recovery` | 1 ticket, 2 runs, 2 faults, 2 crashes, 2 attempts, 2 rounds, remote, autopilot ceiling; 1,008,681 states | everything about interruption: safety of close and merge, log against repository, legality of moves, and the refinement of `TicketDelivery` |
| `tickets` | 2 tickets, the second a refactor that needs the first; refinement on; 1 fault; fair | dependencies, no second start, the process ends, every start gets an outcome |
| `attempts` | 5 attempts, 2 signatures, 2 consults; fair | stall, give-up, direction, cap, end |
| `shipping` | 4 rounds, 2 findings, 2 checks, 3 polls, 1 check run again, 3 faults, 1 resume, with and without a remote; fair | green merges, no wasted fix, nothing unsettled, a true report, an end |
| `exec` | 2 calls of any runner or of exec with any options, 2 faults, 3 chunks; fair; 272,423 states | one answer, no timer left, kills are no successes, answers come, the log tells |
| `backlog` | 2 tickets (a chain, a cycle, or at once), 2 batches, 1 round and its revision, 1 edit of the operator (at once: in place of a batch), 2 workers; fair; 278,675 states | reviewed releases, existing plans, budgets, agreement of the readers, an end |
| `passes` | 3 passes, 2 files, 2 faults, 1 crash; 899,815 states | log, checkout, index and commit agree |
| `pruning` | 3 runs, 3 days, 1 directory kept, 2 tickets, 1 fault, 1 crash; 4.2 million states | what may be deleted, what is bounded, what stays findable |
| `ironlaw`, `staged`, `unapproved`, `exec_signal` | as small as the counterexample | the findings, section 6 |

Why the bounds are enough. Two faults in `recovery`: the deepest recovery path in the code is
a failing move followed by a failing read of the state it left (`ticketFailure.ts:77`); with
one fault the second half of `RefusalsExplained` would say nothing. Two crashes: a resume and
an interruption of the resumed run, with a second run opened after it. Two attempts and two
rounds make a first, a last and a retry. Five attempts: a stall takes three, a second one
after another failure, A A B A A, five. Two signatures may alternate, a third behaves as the
second. Two consults may be used up before the attempts are. Four rounds: two findings may
alternate, repeat and come back before the last. Three polls: a grace poll, one that decides,
and one after a check came back. Three faults in `shipping`: a step that throws, a flag that is
lost, and a write of the report. Three chunks: before, between and after the timers and the
completion signal. Two calls: ids differ, and the second finds the log of the first. Two
batches: the second inherits the files of one that died. Three passes: one that fails, one
that inherits, one that commits what it inherited. Three runs in `pruning`: one kept, one
pruned, one current; two tickets, so that a pass could take a worktree that is not the one it
points at. Age is in days because the rule compares days.

Every property of a passing run has a mutant of the code in `PROJECT.json` that breaks it:
the dropped write, the swapped order, the counter that is not raised.

Fairness.

* `LoopRun`: weak fairness of `ProcessStep`, because a started process runs on and every
  await in it comes back or throws. Strong fairness of the trip of the budget:
  a wall-clock ceiling, once past, is past at every later look, so a loop that comes back to that look
  for ever trips. Nothing is assumed of humans, of CI or of the kill switch. `ProcessEnds`
  therefore rests on a configured ceiling; without one a ticket whose dependency is never
  landed is polled for as long as the process lives.
* `ExecutePlan`: weak fairness of its steps, which is that the calls return. That is
  `BoundedSettles` of `ExecSettle` where a call has a timeout, and an assumption where it has none.
* `Shipping`: weak fairness of `Process`, the same. Nothing is assumed of the checks, which may stay
  pending or run again for ever, nor of a human who starts the loop again.
* `Backlog`: weak fairness of `Works`, one step of the batch at a time. Nothing is assumed of
  autoplan's start, of deaths, of the operator or of the loop.
* `ExecSettle`, `ControlledRunners`: timers fire, SIGKILL works, events are delivered.
  Nothing is assumed of a child. That descendants end is assumed as well; without it a
  descendant that holds the pipes keeps the call pending past its timeout (`runners.ts:97`).
* `ApplyRefinement`, `Retention`: safety only.

Deadlock checking is off in every configuration: a loop process ends, a call is answered, and the bounds
on runs, faults, batches and days are used up.

## 4. The properties

`LoopRun`: `ClosedVerifiedUnlessBlind` (the Iron Law as far as the code keeps it),
`MergedIsGated`, `ClosedTreeFrozen`, `AuditTrail`, `NoTicketDropped`, `TerminalEventIsFinal`,
`FinalIsFinal`, `RefusalsExplained`, `DependenciesFirst`, `FlaggedNotRestarted`, `ProcessEnds`,
`StartedGetsOutcome`, `ImplementsDelivery`. `TerminalEventIsFinal` has one exception: a
refinement whose roll-back fails appends run.stopped and leaves state.json "running"
(`applyRefinement.ts:332`). `StartedGetsOutcome` has one, `Abandoned`: the log is read between
ticket.started and `runTicket` (`orchestrator.ts:261`), and when that read throws nothing flags the
ticket. `MergedIsGated` is about review, close and ceiling; that CI was green is
`GreenUnlessLate` of `Shipping`.

`ExecutePlan`: `StallWasInformed`, `UnworkableIsAgreed`, `DirectionIsFresh`,
`ConsultsWithinCap`, `Returns`, and `ReturnsArePreserved` as a part of `IndInv`. The stall
rule is weaker than its comment suggests: the mark of a repeat is not taken back when the
failure changes, so A A B A A stalls at once on the second pair. `StallWasInformed` says what
does hold.

`Shipping`: `GreenUnlessLate`, `FixesConverge`, `CompletedIsSettled`, `ReportIsTrue`,
`ShippingEnds`. "Late" is a check that registered or ran again after the list that decided:
`gh pr merge` names no head and asks for no checks. In `ReportIsTrue` a lost flag is an exception, since the
decision is appended before the merge is tried, and a report may be older than the run, since a
resume that fails writes none. It covers
the three files: outcomes.json, evidence.json and the copy for the conductor. An escalation
is settled by its triage item and not by the comment on the pull request, which is best
effort; cleanup counts as done also where git refused.

`ControlledRunners` and `ExecSettle`: `SettledOnce`, `KilledIsNotSuccess`, `AnnouncedNotIdle`,
`BoundedSettles`, `CallsAreTold`. A call with `allowFail` that the wall-clock timer kills
settles with reason "clean" and a non-zero code, although the comment at `runners.ts:100-101`
speaks of "error"; the callers look at the code. A slash command succeeds by its sentinel
line alone, whatever its exit code. A call killed for being idle resolves with code 124; it is
an error only where the runner makes one of it.

`Backlog`: `ReleasedIsReviewed`, `DraftedOnPlans`, `WithinBudget`, `ReadinessAgrees`,
`BatchEnds`. The exceptions in `ReadinessAgrees` are in the code: a dropped dependency
satisfies the doctor and discovery but not the loop, a superseded one discovery alone; a torn
ticket stops the doctor and autoplan, but not the loop; and the printed plan shows of the stops only
the ones tickets cause. A torn spec or plan counts as existing, for its own ticket and for its
dependents: `DraftedOnPlans` says "exists" and no more.

`ApplyRefinement`: `AppliedIsCommitted`, `FailedIsUndone`, `FoundIsRestored`. They have one
exception in common: a write that throws half-way leaves a torn file that the roll-back does not
know of (`applyRefinement.ts:318-320`). It may hold a part of the failed pass's edit, and may
have lost a part of earlier ones; a later pass edits and commits it as it is. The damage is in
that one file, and `FailedIsUndone` and `FoundIsRestored` say so. `FailedIsNotCommitted`, of the
run `staged`, leaves torn files out, so that its counterexample is about the index.

`Retention`: `PrunedIsOldAndBeyond`, `BoundedAfterPass`, `PreservedIsFindable`,
`RobbedOnlyAfterReclaim`. The exceptions are in the statements: a refusal of git, which
`allowFail` hides, a pointer torn by a crash in its write, a directory a failure made the
pass leave.

## 5. The proofs

TLAPS proves for every value of the constants:

| module | theorem | says |
|---|---|---|
| `LoopRunSafety` | `TypeCorrect`, `Inductive`, `ClosedIsAccounted`, `MergesAreGated`, `ClosedIsFrozen`, `LoopDelivers` | the types with what the process has in hand, `IndInv`, the three properties that follow, and that the loop implements `TicketDelivery` |
| `LoopRunLog` | `LogIsTrue`, `LogHasEvidence`, `TicketsAreAccounted`, `LastWordIsFinal`, `RunsStayOver`, `FlaggedStaysFlagged`, `DependenciesLanded`, `RefusalsHaveReasons` | `LogInv`, the properties about logs, runs and held tickets, and why no move is refused |
| `ExecutePlanProofs` | `Inductive`, `StallsAreInformed`, `GivenUpInAgreement`, `DirectionsAreFresh`, `ConsultsAreCapped`, `AttemptsCountDown` | `IndInv`, its properties, and a measure every step lowers |
| `ShippingProofs` | `ShippingInvariant`, `ShippingIsTyped`, `ShippingMergesGreen`, `ShippingFixesConverge`, `ShippingSettles`, `ShippingReportsTruly`, `ShippingCountsDown` | `IndInv`, the types, the four safety properties, and a measure every step of the process lowers |
| `ControlledRunnersProofs` | `Inductive`, `ControlledInductive`, `KillsAreNotSuccesses`, `AnsweredOnce`, `CompletionIsNotIdle`, `CallsTold` | `IndInv` of one call and of any number of calls, and the safety properties of `exec` |
| `BacklogProofs` | `Inductive`, `ReleasesAreReviewed`, `DraftsRestOnPlans`, `RoundsAreBounded`, `ReadinessAlwaysAgrees` | `IndInv`, and its properties |
| `ApplyRefinementProofs` | `Inductive`, `RecordsAreCommitted`, `FailuresAreUndone`, `RollbackRestores` | `IndInv`, and its properties |
| `RetentionProofs` | `Inductive`, `PreservedAreFindable`, `RobbedAreReclaimed`, `PrunedAreOldAndBeyond`, `PassesBound` | `IndInv`, and its properties |

The assumptions are those named in the modules: any set of tickets (finite where the code counts
them), any dependency relation over them, any configuration that `config.ts` accepts, any bound on
runs, faults and crashes. TLC evaluates the assumptions in the runs. The type invariants and the
inductive invariants were checked by TLC on the instances of the runs before they were
proved; being proved, they are not listed among the invariants of the configurations.

*LoopRun, trees.* `ClosedVerifiedUnlessBlind` is not inductive: nothing in it says that a run
resumed later does not hold a ticket somebody else has closed. `IndInv` says that a ticket
has one owner from its branch to its close. `Resumables`: a run that may be resumed (its phase
is a builder phase) holds a ticket with a branch and no close, and no two such runs hold the same.
`InHand`: the process holds the ticket its run holds, and no other run may
resume it. `Known`: the owner's place in the code says what is known of the tree. `Shipped`: what the remote has
at each place. The branch is what makes it work: `git worktree add -b` refuses a
second owner, and a failure leaves the builder phases before the next ticket is picked. The
refinement follows from `IndInv` and the frozen tree, action by action.

*LoopRun, logs.* `AuditTrail` and the properties like it relate the log to places the process
has left, also in another process. `LogInv` carries them: `Standing`, a run under way says so
and has no last word yet; `Remembers`, a fresh run still knows whom it flagged; `Trail`, what
the log has when a ticket is at a place, and what a run that may be resumed in Review has in
its log; `Owed`, a run between tickets holds none without an outcome; `Grounded`, dependencies
of the ticket that is started have landed. The proof sorts the steps by what they do to the
store: a step at a ticket appends one event of it or makes one move of its run (`AtWork`), a
step of the loop keeps the ticket of the run (`AtLoop`), an ending step takes the run out of the
live places (`Ending`). `Standing`, `Remembers` and `Owed` need no more than that (`Calm`);
`Trail` needs to know which places ask no more of the log than the one before (`Onward`), and the
steps that write the evidence are taken one by one.

*LoopRun, refusals.* `RefusalsExplained` speaks of one step; why it holds is where the run
stands. `RefusalInv` has two halves. `InPhase` says which phase the run is in at each place of the code,
and that the mirror in memory agrees with it; it holds until a second thing fails, and while it
holds every move asked for is in the table. The other half holds whatever fails: `Overdrawn`,
a run whose budget views show a trip is about to stop or is in a phase nobody resumes;
`Unbuilt`, the loop between tickets is never in a builder phase, and a builder works only
behind a mirror that is; `Fresh`, a run not yet opened knows nothing. So a run with a
tripped view makes no move but its stop, which the guard lets pass, and nobody takes it up again. TLC checked `RefusalInv` on the instance of
`recovery` with three faults and one crash, and on that of `tickets` with two faults: the part after the
second fault is reached there.

*ExecutePlan.* `Recorded` says which attempts have a failure and a diagnosis at each place,
`Carried` that what is carried is that of the attempt before, `Marked` that a marked failure
was repeated and retried with a direction, `Counted` that the counter is the number of
attempts that asked, `Ending` what was preserved at each place of the end. `Remaining` counts
the calls that are left: it is a natural number and every step lowers it (`AttemptsCountDown`).

*Shipping.* The properties relate the log to the world and a report to the log it was made
of, so the invariant has to say when each may lag behind. `RoundsInv`: the fixes are as many as
the rounds behind the process and what is compared next is what the last one was for.
`GreenInv`: nothing stands against a merge from the list that decided on, but what is `late`.
`PhaseInv`: the place of the process and the phase it persisted; `FreshInv`: what a resume in
Review may rely on not to have happened, which is why no merge decision is made twice.
`LogInv`: no event without its effect. `FlagInv`: the effects without an event, a merge that gh
refused after its decision and a pull request nobody decided about, are on their way to a flag, or
the flag was lost. `EndInv`: completed means settled. `OutcomesInv` and `EvidenceInv`: a report covers a prefix of the
log, and a step that could make it false has appended an event since, so it covers the log no
more. The report reads the log by position; `LastOf` is a choice of the greatest index, which
exists because the naturals are well-founded, and what it gives after an append is a lemma
(`AppendLast`, `AppendFlag`, `AppendReached`). TLC checked `IndInv` on the instance of `shipping` (1.27
million states) and on two with two resumes (2.39 million in autopilot, 1.6 million
in review mode).

That a process ends is proved as far as it can be without fairness: `StepsLeft` adds up the
invocations the review has left, the polls before the deadline, the steps made once and the one
return to the flag. It is a natural number, each step of the process lowers it, and the checks
and a death do not raise it; a resume alone does (`ShippingCountsDown`). `ShippingEnds` adds the
fairness, and that the report is there, on the instance.

*ControlledRunners.* Of one call of exec: only a timer sends SIGKILL, the grace timer is set
in grace mode alone, the promise is settled by one of two events, after which nothing is armed.
A step of the wrapper leaves exec alone or starts it anew, so the same holds of a sequence of
calls. Over it, `IdsAreCounted`: every id in the log is at most the number of starts, and the
call in hand has started and not ended; `CapturedIsLast`: what was captured is the reason of
the last command once that has settled.

*Backlog.* `WaitingIsUnreleased`: a ticket the batch is not done with is not released, and a
sketch points at no files; `WritesApproved`: at each write, what has been written is the draft
that was approved; `ApprovedHaveFiles`, `CountersStartAtZero`. The agreement of the readers
needs no invariant but the types.

*ApplyRefinement.* Where the running pass stands (`Standing`), nothing on disk is from a
later pass (`NoneFromLater`), and what the log says of earlier passes stays true
(`AppliedStays`, `FailedStays`). A pass restores from what it read, so what a failed pass left in a
torn file has to be followed there too: `FailedStays` says that tree and `original` hold it in the
same one file. `StepTree` is the lemma it rests on: a step changes a file only to parts of what the
running pass found in it and of its own edit, and what it does not keep whole is torn.

*Retention.* The run of the process has its directory (`CurrentStays`), what a pass is about to delete
is too old and the newest stay (`CandidatesAreBeyond`), what it will leave is kept, young or out
of reach (`RestIsSeenTo`), a pointer is to a worktree of its own run (`PointersAreOwn`).

Only model-checked: liveness (`ProcessEnds`, `StartedGetsOutcome`, `Returns`, `BoundedSettles`,
`BatchEnds`, `ShippingEnds`), which needs ENABLED and the rule that a falling measure ends,
and neither is in the prover's reach. For `Returns` and `ShippingEnds` the measure itself is proved;
`ProcessEnds` has none, since polling for a dependency ends by the budget's clock alone, and
`BoundedSettles` rests on timers of the operating system. Every other property of the
passing runs has its theorem. What a recursive definition computes
is not proved either, since the library's induction theorems take operators; least elements
and induction over the steps of a behaviour do instead.

## 6. What the runs found

Each has a run with a counterexample and an entry under "findings" with the sentence it
contradicts.

1. `ironlaw`: a crash in the fix turn of a review, then a resume in Review, closes a tree that
   no verification passed.
2. `staged`: a refused commit leaves the edits staged; the next pass commits them, after they
   were reported as failed.
3. `unapproved`: a ticket is drafted on a dependency that the same batch escalated, because both
   files of the dependency were left by a release that failed.
4. `exec_signal`: a child that a signal from outside ends has no exit code, and no code counts as 0.

Met on the way, and part of the models as the code has it: a refinement whose roll-back fails
says run.stopped in the log and "running" in state.json (`applyRefinement.ts:332`); a Done
advance that fails on the store escapes the structured stop and leaves the run "running"
(`orchestrator.ts:309`); a read of the log that fails after ticket.started escapes as well
(`orchestrator.ts:261`, thrown on at line 310), and the run says "running" in SelectTicket, which
nobody resumes; a file whose write throws half-way is not rolled back, although the comments speak of a
clean tree and of "a not-yet-written file" that is "already at its original content"
(`applyRefinement.ts:313-314`, and 325); a descendant that holds the pipes delays a call past its timeout (`runners.ts:97`).

## 7. Not modelled, and the plan

Abstracted within the models: the content of diffs, reviews, plans and proposals; the four
budget counters, to whether one trips; parsing; provisioning of worktrees; wording.

Known to matter and not covered by a property, each listed under "hazards":

* a line of events.jsonl torn by a crash makes `readEvents` throw for good (`runStore.ts:169`);
  a log is a set or a sequence of whole events here;
* two loop processes over one repository: nothing locks a run (`orchestrator.ts:88`), and one
  process at a time is assumed in `LoopRun` and `Shipping`;
* planning's concurrent calls read the log for their ids and may get the same one
  (`controlledRunners.ts:144`; `maxPlanningConcurrency` is 4 by default);
* `loop.baseCommit` is shared by all worktrees (`git.ts:112`), and diffs are abstracted to their verdict.

Further, without a property: untracked files are not in the diff a review sees (`git.ts:241`); a
refusal to remove a worktree is hidden (`git.ts:173`; `Retention` has it as the exception of
`PreservedIsFindable`); the run that autoplan opens says "running" for ever and, being newer,
hides an interrupted loop run from `latestResumableRun` (`autoplan.ts:369`, `runStore.ts:257`); a
ticket the operator drops while a batch drafts it is released all the same when the draft is
approved (`autoplan.ts:325`, and so in `EpicPlanning`); the scoring of an escalation is not passed
on (`controlledRunners.ts:328`); two sessions that allocate ticket numbers before either pushes
get the same ones.

Next, in this order:

1. `RunFiles`: state.json and events.jsonl as files with torn appends and stray temporary files,
   under the readers of `Shipping` and `LoopRun`.
2. Concurrent calls in `ControlledRunners`, under the waves of `EpicPlanning`: which start and which settle
   belong together.
3. `RunOwnership`: two processes over one repository, with the shared configuration.
4. `BudgetGuard`: the four counters with their persisted views, composed with `ExecutePlan`.
5. Proofs: measures for a batch of `EpicPlanning` and for a call of `ExecSettle`, as `Shipping` and
   `ExecutePlan` have them, and the invariants of the modules above.
