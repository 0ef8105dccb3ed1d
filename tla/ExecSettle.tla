------------------------------ MODULE ExecSettle ------------------------------
(***************************************************************************)
(* One call of exec (src/src/runners.ts): a child process, the pipes its   *)
(* output comes through, three timers, and a promise that is settled once. *)
(*                                                                         *)
(* The actions are the callbacks Node runs one at a time: a chunk of       *)
(* output, a timer, the "error" event of a child that was not spawned, and *)
(* "close", which comes when the child has ended AND nobody holds its      *)
(* pipes any more.  A child may leave descendants that hold them; SIGKILL  *)
(* reaches the child alone.  Durations are abstracted: an armed timer may  *)
(* fire before or after anything else.                                     *)
(***************************************************************************)
EXTENDS Naturals

CONSTANTS
  Calls,     \* the options exec is called with
  MaxChunks  \* bound: chunks of output

\* allowFail: resolve whatever the exit code; wall, idle, grace: the timeouts
\* that are set; signals: a completion signal is set.
Options == [allowFail : BOOLEAN, wall : BOOLEAN, idle : BOOLEAN,
            grace : BOOLEAN, signals : BOOLEAN]

ASSUME CallsAssumption == Calls \subseteq Options
ASSUME ChunksAssumption == MaxChunks \in Nat

VARIABLES
  opts,         \* of this call
  child,        \* "running", or how it ended
  pipeHeld,     \* a descendant of the child holds its pipes
  chunks,       \* chunks that came
  errorEvent,   \* the "error" event was emitted
  closeEvent,   \* the "close" event was emitted
  armed,        \* the timers that are set
  timedOut, idleKilled, graceKilled,
  inGraceMode,  \* the completion signal was seen
  settled,      \* the latch
  result        \* what the caller got: the reason, and how the promise ended

world == <<child, pipeHeld, chunks>>
flags == <<timedOut, idleKilled, graceKilled, inGraceMode>>
vars == <<opts, world, errorEvent, closeEvent, armed, flags, settled, result>>

Timers == {"wall", "idle", "grace"}
Endings == {"zero", "nonzero", "killed", "signalled"}
Children == {"running", "dying", "unspawned"} \cup Endings
SettleReason == {"clean", "idle-timeout", "completion-grace", "error"}
Outcomes == {"zero", "nonzero", "rejected"}
Unsettled == [reason |-> "none", outcome |-> "none"]

\* A timer that is set when its option is.
Arm(timer, option) == IF option THEN armed \cup {timer} ELSE armed \ {timer}

Init ==
  /\ opts \in Calls
  /\ child \in {"running", "unspawned"}
  /\ pipeHeld = FALSE /\ chunks = 0
  /\ errorEvent = FALSE /\ closeEvent = FALSE
  /\ armed = (IF opts.wall THEN {"wall"} ELSE {})
             \cup (IF opts.idle THEN {"idle"} ELSE {})
  /\ timedOut = FALSE /\ idleKilled = FALSE /\ graceKilled = FALSE
  /\ inGraceMode = FALSE /\ settled = FALSE /\ result = Unsettled

-----------------------------------------------------------------------------
(* The child and its descendants *)

\* The child ends on its own, or a signal from outside ends it.
Ends == /\ child = "running"
        /\ child' \in {"zero", "nonzero", "signalled"}
        /\ UNCHANGED <<opts, pipeHeld, chunks, errorEvent, closeEvent, armed,
                       flags, settled, result>>

\* The SIGKILL of a timer arrives.
Dies == /\ child = "dying" /\ child' = "killed"
        /\ UNCHANGED <<opts, pipeHeld, chunks, errorEvent, closeEvent, armed,
                       flags, settled, result>>

\* The child starts something that inherits its pipes; that ends.
Forks == /\ child = "running" /\ ~pipeHeld /\ pipeHeld' = TRUE
         /\ UNCHANGED <<opts, child, chunks, errorEvent, closeEvent, armed,
                        flags, settled, result>>
DescendantEnds ==
  /\ pipeHeld /\ pipeHeld' = FALSE
  /\ UNCHANGED <<opts, child, chunks, errorEvent, closeEvent, armed, flags,
                 settled, result>>

-----------------------------------------------------------------------------
(* The callbacks *)

\* Mutant: no latch.
done_NoLatch(reason, outcome) ==
  /\ settled' = TRUE /\ armed' = {}
  /\ result' = [reason |-> reason, outcome |-> outcome]

\* Mutant: the timers are left to run.
done_KeepsTimers(reason, outcome) ==
  /\ settled' = TRUE /\ UNCHANGED armed
  /\ result' = IF settled THEN result
               ELSE [reason |-> reason, outcome |-> outcome]

\* The latch: the first caller clears the timers and reports; later ones do
\* nothing.
done(reason, outcome) ==
  \/ settled /\ UNCHANGED <<settled, armed, result>>
  \/ /\ ~settled
     /\ settled' = TRUE /\ armed' = {}
     /\ result' = [reason |-> reason, outcome |-> outcome]

\* Mutant: the flag is set and the child is left alone.
kill_Missing == UNCHANGED child

\* SIGKILL: nothing happens to a child that is gone.
kill == child' = IF child = "running" THEN "dying" ELSE child

\* Mutant: the signal leaves the idle timer armed.
onData_KeepsIdle ==
  /\ ~closeEvent /\ child # "unspawned" /\ chunks < MaxChunks
  /\ chunks' = chunks + 1
  /\ \/ opts.signals /\ inGraceMode' = TRUE /\ armed' = Arm("grace", opts.grace)
     \/ UNCHANGED <<inGraceMode, armed>>
  /\ UNCHANGED <<opts, child, pipeHeld, errorEvent, closeEvent, timedOut,
                 idleKilled, graceKilled, settled, result>>

\* A chunk: the completion signal switches from the idle timer to the grace
\* timer; any other chunk sets the timer of the mode again.
onData ==
  /\ ~closeEvent /\ child # "unspawned" /\ chunks < MaxChunks
  /\ chunks' = chunks + 1
  /\ \/ /\ ~inGraceMode /\ opts.signals
        /\ inGraceMode' = TRUE
        /\ armed' = Arm("grace", opts.grace) \ {"idle"}
     \/ /\ UNCHANGED inGraceMode
        /\ armed' = IF inGraceMode THEN Arm("grace", opts.grace)
                    ELSE Arm("idle", opts.idle)
  /\ UNCHANGED <<opts, child, pipeHeld, errorEvent, closeEvent, timedOut,
                 idleKilled, graceKilled, settled, result>>

Fires(timer) == /\ timer \in armed /\ armed' = armed \ {timer} /\ kill
                /\ UNCHANGED <<opts, pipeHeld, chunks, errorEvent, closeEvent,
                               inGraceMode, settled, result>>

WallFires  == Fires("wall")  /\ timedOut' = TRUE
              /\ UNCHANGED <<idleKilled, graceKilled>>
IdleFires  == Fires("idle")  /\ idleKilled' = TRUE
              /\ UNCHANGED <<timedOut, graceKilled>>
GraceFires == Fires("grace") /\ graceKilled' = TRUE
              /\ UNCHANGED <<timedOut, idleKilled>>

\* Without allowFail a failing call rejects.
Failing == IF opts.allowFail THEN "nonzero" ELSE "rejected"

\* A spawn failure: the first of its two events.
onError ==
  /\ child = "unspawned" /\ ~errorEvent
  /\ errorEvent' = TRUE
  /\ done("error", Failing)
  /\ UNCHANGED <<opts, world, closeEvent, flags>>

\* The exit code, where "no code", which is what a signal leaves, counts as 0
\* unless the wall-clock timer fired.
finalCode == IF timedOut \/ child \in {"nonzero", "unspawned"} THEN "nonzero"
             ELSE "zero"

\* Mutant: an idle kill is settled like an exit.
onClose_IdleIsExit ==
  /\ child \in Endings /\ ~pipeHeld /\ ~closeEvent /\ closeEvent' = TRUE
  /\ IF graceKilled THEN done("completion-grace", "zero")
     ELSE done("clean", finalCode)
  /\ UNCHANGED <<opts, world, errorEvent, flags>>

onClose ==
  /\ child \in Endings \cup {"unspawned"} /\ ~pipeHeld
  /\ child = "unspawned" => errorEvent
  /\ ~closeEvent /\ closeEvent' = TRUE
  /\ \/ graceKilled /\ done("completion-grace", "zero")
     \/ ~graceKilled /\ idleKilled /\ done("idle-timeout", Failing)
     \/ /\ ~graceKilled /\ ~idleKilled
        /\ \/ /\ finalCode = "zero" \/ opts.allowFail
              /\ done("clean", finalCode)
           \/ /\ finalCode # "zero" /\ ~opts.allowFail
              /\ done("error", "rejected")
  /\ UNCHANGED <<opts, world, errorEvent, flags>>

Next == \/ Ends \/ Dies \/ Forks \/ DescendantEnds \/ onData
        \/ WallFires \/ IdleFires \/ GraceFires \/ onError \/ onClose

Spec == Init /\ [][Next]_vars

\* Timers fire, SIGKILL works, events are delivered.  Nothing is assumed of a
\* child: it may run for ever.
Fairness == /\ WF_vars(Dies) /\ WF_vars(onError) /\ WF_vars(onClose)
            /\ WF_vars(WallFires) /\ WF_vars(IdleFires) /\ WF_vars(GraceFires)
FairSpec == Spec /\ Fairness

\* And the descendants of a child do not outlive it for ever.
OrderlySpec == FairSpec /\ WF_vars(DescendantEnds)

-----------------------------------------------------------------------------
(* Properties *)

TypeOK ==
  /\ opts \in Options /\ child \in Children /\ pipeHeld \in BOOLEAN
  /\ chunks \in Nat /\ errorEvent \in BOOLEAN /\ closeEvent \in BOOLEAN
  /\ armed \subseteq Timers
  /\ timedOut \in BOOLEAN /\ idleKilled \in BOOLEAN /\ graceKilled \in BOOLEAN
  /\ inGraceMode \in BOOLEAN /\ settled \in BOOLEAN
  /\ result \in [reason : SettleReason, outcome : Outcomes] \cup {Unsettled}

\* No timer is left behind that could kill or report after the answer.
NoTimerAfterSettle == settled => armed = {}

\* The caller gets one answer and one reason, whatever fires afterwards: the
\* "close" that follows an "error" changes nothing, and no timer is left behind
\* that could kill or report.
SettledOnce ==
  [][settled => armed = {} /\ (settled' => UNCHANGED result)]_vars

\* A child that a timer killed counts as a success only when it had announced
\* its completion; otherwise success is the exit code 0, or the missing exit
\* code of a child that a signal from outside ended.
KilledIsNotSuccess ==
  result.outcome = "zero" =>
    \/ child \in {"zero", "signalled"}
    \/ inGraceMode /\ result.reason = "completion-grace"

\* A run that announced its completion is never killed for being idle.
AnnouncedNotIdle == [][inGraceMode /\ idleKilled' => idleKilled]_vars

\* A call with a timeout is answered when descendants do not hold the pipes for
\* ever; with a completion signal the grace timer has to be set too.
Bounded == opts.wall \/ (opts.idle /\ (opts.signals => opts.grace))
BoundedSettles == Bounded ~> settled

\* What a passing command is: it exited with code 0.
PassedMeansExitedZero ==
  result = [reason |-> "clean", outcome |-> "zero"] => child = "zero"

-----------------------------------------------------------------------------
(* The inductive invariant of the proofs *)

\* Only a timer sends SIGKILL; the grace timer is set in grace mode alone; the
\* promise is settled by one of the two events, after which nothing runs.
IndInv ==
  /\ child \in {"dying", "killed"} => timedOut \/ idleKilled \/ graceKilled
  /\ "grace" \in armed \/ graceKilled => inGraceMode
  /\ inGraceMode => "idle" \notin armed
  /\ settled => (errorEvent \/ closeEvent) /\ child \notin {"running", "dying"}
  /\ settled = (result # Unsettled)
  /\ errorEvent => child = "unspawned" /\ settled
  /\ NoTimerAfterSettle /\ KilledIsNotSuccess
=============================================================================
