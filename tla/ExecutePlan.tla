------------------------------ MODULE ExecutePlan ------------------------------
(***************************************************************************)
(* The attempts at one ticket (executePlan, src/src/executePlan.ts;        *)
(* src/src/diagnosis.ts; src/src/preserve.ts): a builder turn, the verify  *)
(* command, and after a failure a diagnosis by the local model, a second   *)
(* opinion where it is called for, and the decision to try again with or   *)
(* without their direction, or to stop early.                              *)
(*                                                                         *)
(* Texts are abstracted to what the loop tells apart: an output to its     *)
(* failure signature, a diagnosis to planWorkable, a direction to the      *)
(* attempt it was drawn from and the brains it quotes.                     *)
(***************************************************************************)
EXTENDS Integers, Sequences, FiniteSets

CONSTANTS
  Signatures,    \* normalised failures of the verify command
  MaxAttempts,   \* maxIterationsPerTicket
  MaxConsults,   \* maxConsultsPerTicket
  NoSignature    \* null

ASSUME AttemptsAssumption == MaxAttempts \in Nat \ {0}
ASSUME ConsultsAssumption == MaxConsults \in Nat
ASSUME SignatureAssumption == NoSignature \notin Signatures

Attempts == 1 .. MaxAttempts
PlanWorkable == {"yes", "uncertain", "no"}
Answers == PlanWorkable \cup {"null"}   \* a diagnosis, or none was to be had
Returned == {"verified", "exhausted", "stalled", "plan-unworkable"}

\* combinedDir: the attempt a direction was drawn from, 0 for none.
Directions == [from : 0 .. MaxAttempts, brains : SUBSET {"local", "codex"}]
Blind == [from |-> 0, brains |-> {}]

VARIABLES
  diagnostic, hasCodex,           \* options: diagnosticRetryEnabled, env.hasCodex
  pc, attempt,
  signature, prevSignature, stalledSignature,
  direction,                      \* carried into the next prompt
  prevOutput,                     \* the attempt whose output was last carried
  local, consult,                 \* this attempt's diagnoses
  consultsUsed,
  outcome,                        \* "none" while the attempts go on
  session, preserved,             \* a builder named its session; what was preserved
  failures, prompts, events       \* history, per attempt

options == <<diagnostic, hasCodex>>
stall == <<prevSignature, stalledSignature>>
carried == <<stall, direction, prevOutput>>
diagnosis == <<signature, local, consult, consultsUsed>>
saved == <<session, preserved>>
history == <<failures, prompts, events>>
vars == <<options, pc, attempt, diagnosis, carried, outcome, saved, history>>

Init ==
  /\ diagnostic \in BOOLEAN /\ hasCodex \in BOOLEAN
  /\ pc = "build" /\ attempt = 1
  /\ signature = NoSignature /\ prevSignature = NoSignature
  /\ stalledSignature = NoSignature
  /\ direction = Blind /\ prevOutput = 0
  /\ local = "null" /\ consult = "null" /\ consultsUsed = 0
  /\ outcome = "none" /\ session = FALSE /\ preserved = {}
  /\ failures = [a \in Attempts |-> NoSignature]
  /\ prompts = [a \in Attempts |-> Blind]
  /\ events = [a \in Attempts |-> <<>>]

\* The local "no" is the sole gate; a second opinion confirms or overturns it.
isPlanUnworkable(mine, codex) == mine = "no" /\ codex \in {"null", "no"}

\* Both brains are quoted when both answered.
combinedDirection(a, codex) ==
  [from |-> a,
   brains |-> IF codex = "null" THEN {"local"} ELSE {"local", "codex"}]

Log(event) == events' = [events EXCEPT ![attempt] = Append(@, event)]

\* The source a diagnosis event names.
Source == IF consult = "null" THEN "local" ELSE "local+consult"

signatureRepeated == prevSignature # NoSignature /\ signature = prevSignature
isFinalAttempt == attempt = MaxAttempts

\* The loop head: another attempt, or it is over and the work is preserved.
NextAttempt ==
  IF isFinalAttempt
    THEN pc' = "pointer" /\ outcome' = "exhausted" /\ UNCHANGED attempt
    ELSE pc' = "build" /\ attempt' = attempt + 1 /\ UNCHANGED outcome

-----------------------------------------------------------------------------
(* Build and verify *)

\* A builder's exit code is not looked at; some report a session.
Builds ==
  /\ pc = "build" /\ pc' = "verify"
  /\ prompts' = [prompts EXCEPT ![attempt] = direction]
  /\ session' \in {session, TRUE}
  /\ UNCHANGED <<options, attempt, diagnosis, carried, outcome, preserved,
                 failures, events>>

Verifies ==
  /\ pc = "verify" /\ pc' = "done" /\ outcome' = "verified"
  /\ UNCHANGED <<options, attempt, diagnosis, carried, saved, history>>

\* Mutant: a blind retry is not counted.
VerificationFails_Uncounted(failure) ==
  /\ pc = "verify"
  /\ failures' = [failures EXCEPT ![attempt] = failure]
  /\ IF diagnostic THEN pc' = "diagnose" /\ signature' = failure
     ELSE pc' = "build" /\ UNCHANGED signature
  /\ UNCHANGED <<options, attempt, local, consult, consultsUsed, carried, outcome,
                 saved, prompts, events>>

VerificationFails(failure) ==
  /\ pc = "verify"
  /\ failures' = [failures EXCEPT ![attempt] = failure]
  /\ IF diagnostic
       THEN /\ pc' = "diagnose" /\ signature' = failure
            /\ UNCHANGED <<attempt, outcome, prevOutput>>
       ELSE NextAttempt /\ prevOutput' = attempt /\ UNCHANGED signature
  /\ UNCHANGED <<options, local, consult, consultsUsed, stall, direction,
                 saved, prompts, events>>

-----------------------------------------------------------------------------
(* Diagnosis *)

\* Mutant: the direction of an earlier failure is kept.
LocalUnavailable_KeepsDirection ==
  /\ pc = "diagnose" /\ Log("unavailable")
  /\ prevSignature' = signature /\ prevOutput' = attempt
  /\ NextAttempt
  /\ UNCHANGED <<options, diagnosis, direction, stalledSignature, saved,
                 failures, prompts>>

\* No skill, no answer or no valid one: the next attempt is a blind retry.
LocalUnavailable ==
  /\ pc = "diagnose" /\ Log("unavailable")
  /\ direction' = Blind /\ prevSignature' = signature /\ prevOutput' = attempt
  /\ NextAttempt
  /\ UNCHANGED <<options, diagnosis, stalledSignature, saved, failures, prompts>>

Stalled == signatureRepeated /\ signature = stalledSignature

\* Mutant: the final attempt asks for a second opinion too.
WhereNext_Final(answer) ==
  IF Stalled THEN "stalled"
  ELSE IF /\ signatureRepeated \/ answer # "yes"
          /\ consultsUsed < MaxConsults /\ hasCodex
         THEN "consult" ELSE "record"

\* A repeat that had its informed retry is a stall.  A repeat, or a plan that may
\* not work, calls for a second opinion, while there are some left and an attempt
\* to use it.
WhereNext(answer) ==
  IF Stalled THEN "stalled"
  ELSE IF /\ signatureRepeated \/ answer # "yes"
          /\ consultsUsed < MaxConsults /\ hasCodex /\ ~isFinalAttempt
         THEN "consult" ELSE "record"

LocalDiagnosis(answer) ==
  /\ pc = "diagnose" /\ local' = answer /\ consult' = "null"
  /\ pc' = WhereNext(answer)
  /\ UNCHANGED <<options, attempt, signature, consultsUsed, carried, outcome,
                 saved, history>>

\* Mutant: only a second opinion that answers counts against the cap.
Consults_OnlyAnswers(answer) ==
  /\ pc = "consult" /\ pc' = "record"
  /\ consult' = answer
  /\ consultsUsed' = IF answer = "null" THEN consultsUsed ELSE consultsUsed + 1
  /\ Log("consult")
  /\ UNCHANGED <<options, attempt, signature, local, carried, outcome, saved,
                 failures, prompts>>

\* A second opinion that fails counts against the cap as well.
Consults(answer) ==
  /\ pc = "consult" /\ pc' = "record"
  /\ consult' = answer /\ consultsUsed' = consultsUsed + 1
  /\ Log("consult")
  /\ UNCHANGED <<options, attempt, signature, local, carried, outcome, saved,
                 failures, prompts>>

RecordsStall ==
  /\ pc = "stalled" /\ pc' = "pointer" /\ outcome' = "stalled"
  /\ Log(Source)
  /\ UNCHANGED <<options, attempt, diagnosis, carried, saved, failures, prompts>>

\* Mutant: the plan is given up although the second opinion disagrees.
Records_LocalOnly ==
  /\ pc = "record"
  /\ Log(Source)
  /\ IF ~isFinalAttempt /\ local = "no"
       THEN /\ pc' = "pointer" /\ outcome' = "plan-unworkable"
            /\ UNCHANGED <<attempt, carried>>
       ELSE /\ direction' = combinedDirection(attempt, consult)
            /\ stalledSignature' = IF signatureRepeated THEN signature
                                   ELSE stalledSignature
            /\ prevSignature' = signature /\ prevOutput' = attempt
            /\ NextAttempt
  /\ UNCHANGED <<options, diagnosis, saved, failures, prompts>>

\* Mutant: any informed retry makes the next repeat a stall.
Records_MarksAll ==
  /\ pc = "record"
  /\ Log(Source)
  /\ IF ~isFinalAttempt /\ isPlanUnworkable(local, consult)
       THEN /\ pc' = "pointer" /\ outcome' = "plan-unworkable"
            /\ UNCHANGED <<attempt, carried>>
       ELSE /\ direction' = combinedDirection(attempt, consult)
            /\ stalledSignature' = signature
            /\ prevSignature' = signature /\ prevOutput' = attempt
            /\ NextAttempt
  /\ UNCHANGED <<options, diagnosis, saved, failures, prompts>>

\* The diagnosis is recorded.  Then the plan is given up, never on the final
\* attempt, or its direction is carried on and a first repeat is marked.
Records ==
  /\ pc = "record"
  /\ Log(Source)
  /\ IF ~isFinalAttempt /\ isPlanUnworkable(local, consult)
       THEN /\ pc' = "pointer" /\ outcome' = "plan-unworkable"
            /\ UNCHANGED <<attempt, carried>>
       ELSE /\ direction' = combinedDirection(attempt, consult)
            /\ stalledSignature' = IF signatureRepeated THEN signature
                                   ELSE stalledSignature
            /\ prevSignature' = signature /\ prevOutput' = attempt
            /\ NextAttempt
  /\ UNCHANGED <<options, diagnosis, saved, failures, prompts>>

-----------------------------------------------------------------------------
(* Preservation of a failed run (src/src/preserve.ts) *)

Saves(at, what, next) ==
  /\ pc = at /\ pc' = next
  /\ preserved' = preserved \cup {what}
  /\ UNCHANGED <<options, attempt, diagnosis, carried, outcome, session, history>>

PreservesPointer == Saves("pointer", "worktree.json", "floor")

\* Without a session the transcript means nothing.
PreservesFloor ==
  Saves("floor", "turn.json", IF session THEN "transcript" ELSE "done")

\* The transcript is best effort: not there, not readable, not to be written.
PreservesTranscript ==
  \/ Saves("transcript", "real.jsonl", "done")
  \/ /\ pc = "transcript" /\ pc' = "done"
     /\ UNCHANGED <<options, attempt, diagnosis, carried, outcome, saved, history>>

\* Any other call may throw: a spawn that fails, a silent child, a log or an
\* artifact that is not written, the artifact after the event.
Throws ==
  /\ pc \notin {"done", "transcript"}
  /\ pc' = "done" /\ outcome' = "threw"
  /\ UNCHANGED <<options, attempt, diagnosis, carried, saved, failures, prompts>>
  /\ \/ UNCHANGED events
     \/ pc \in {"stalled", "record"} /\ Log(Source)

Step ==
  \/ Builds \/ Verifies \/ LocalUnavailable \/ RecordsStall \/ Records
  \/ PreservesPointer \/ PreservesFloor \/ PreservesTranscript
  \/ \E failure \in Signatures : VerificationFails(failure)
  \/ \E answer \in PlanWorkable : LocalDiagnosis(answer)
  \/ \E answer \in Answers : Consults(answer)

Next == Step \/ Throws

Spec == Init /\ [][Next]_vars

\* Every call comes back or throws: those to models and commands by their time
\* limits (ExecSettle).
FairSpec == Spec /\ WF_vars(Step)

-----------------------------------------------------------------------------
(* Properties *)

Phases == {"build", "verify", "diagnose", "consult", "stalled", "record",
           "pointer", "floor", "transcript", "done"}
Stories == {<<>>, <<"unavailable">>, <<"local">>, <<"consult">>,
            <<"consult", "local">>, <<"consult", "local+consult">>}

\* The variables range over what the code keeps in them.
TypeOK ==
  /\ diagnostic \in BOOLEAN /\ hasCodex \in BOOLEAN
  /\ pc \in Phases /\ attempt \in Attempts
  /\ {signature, prevSignature, stalledSignature} \subseteq Signatures \cup {NoSignature}
  /\ direction \in Directions /\ prevOutput \in 0 .. MaxAttempts
  /\ local \in Answers /\ consult \in Answers /\ consultsUsed \in Nat
  /\ outcome \in Returned \cup {"none", "threw"}
  /\ session \in BOOLEAN
  /\ preserved \subseteq {"worktree.json", "turn.json", "real.jsonl"}
  /\ failures \in [Attempts -> Signatures \cup {NoSignature}]
  /\ prompts \in [Attempts -> Directions]
  /\ events \in [Attempts -> Stories]

Built(a) == failures[a] # NoSignature \/ (a = attempt /\ pc = "verify")

\* A stall is called only on a failure that came twice in a row, got a retry
\* with a direction drawn from its repeat, and then came twice in a row again or
\* went on: never on a first repeat, never after blind retries alone.
StallWasInformed ==
  outcome = "stalled" =>
    /\ failures[attempt - 1] = failures[attempt]
    /\ \E k \in 2 .. attempt - 1 :
         /\ failures[k - 1] = failures[attempt] /\ failures[k] = failures[attempt]
         /\ prompts[k + 1].from = k

\* A plan is given up early only, by the local model, and only when the second
\* opinion agrees, failed, or could not be asked for.
UnworkableIsAgreed ==
  outcome = "plan-unworkable" =>
    /\ attempt < MaxAttempts /\ local = "no"
    /\ \/ events[attempt] = <<"local">> /\ (hasCodex => consultsUsed >= MaxConsults)
       \/ events[attempt] = <<"consult", Source>> /\ consult \in {"null", "no"}

\* What a builder is told comes from the failure it has to fix: the direction is
\* that of the attempt just before, with codex quoted exactly if it answered;
\* there is none exactly when no diagnosis was to be had.  The local model
\* compares a failure with the one just before.
DirectionIsFresh ==
  /\ \A a \in Attempts : a > 1 /\ Built(a) =>
       IF ~diagnostic \/ events[a - 1] = <<"unavailable">>
         THEN prompts[a] = Blind
         ELSE /\ prompts[a].from = a - 1
              /\ "codex" \in prompts[a].brains <=>
                   events[a - 1] = <<"consult", "local+consult">>
  /\ pc = "diagnose" => prevOutput = attempt - 1

Consulted(a) == events[a] # <<>> /\ Head(events[a]) = "consult"

\* The calls to codex stay under the cap, also those that fail; none is made for
\* the final attempt, which nothing would follow, or without codex.
ConsultsWithinCap ==
  /\ Cardinality({a \in Attempts : Consulted(a)}) <= MaxConsults
  /\ \A a \in Attempts : Consulted(a) => hasCodex /\ a < MaxAttempts

\* An outcome other than verified is returned with the pointer to the worktree
\* and the floor in the run store; a verified one leaves neither.
ReturnsArePreserved ==
  pc = "done" /\ outcome # "threw" =>
    IF outcome = "verified" THEN preserved = {}
    ELSE {"worktree.json", "turn.json"} \subseteq preserved

\* The attempts come to an end.
Returns == <>(pc = "done")

-----------------------------------------------------------------------------
(* The inductive invariant of the proofs *)

Deciding == pc \in {"diagnose", "consult", "stalled", "record"}
Trying == pc \in {"build", "verify"} \/ Deciding

\* What is known of each attempt at each step of the loop.
Recorded ==
  /\ \A a \in Attempts : a < attempt => failures[a] # NoSignature
  /\ Deciding => failures[attempt] = signature /\ signature # NoSignature
  /\ \A a \in Attempts : a > attempt =>
       failures[a] = NoSignature /\ prompts[a] = Blind /\ events[a] = <<>>
  /\ pc \in {"build", "verify"} => failures[attempt] = NoSignature
  /\ pc = "build" => prompts[attempt] = Blind
  /\ pc \in {"build", "verify", "diagnose", "consult", "stalled"} =>
       events[attempt] = <<>>
  /\ pc = "record" => \/ events[attempt] = <<>> /\ consult = "null"
                      \/ events[attempt] = <<"consult">>
  /\ pc = "stalled" => consult = "null"
  /\ Deciding => diagnostic

\* What one attempt carries to the next.
Carried ==
  Trying =>
    /\ prevOutput = attempt - 1
    /\ attempt = 1 => prevSignature = NoSignature /\ direction = Blind
    /\ attempt > 1 /\ diagnostic => prevSignature = failures[attempt - 1]
    /\ direction.from # 0 => direction.from = attempt - 1
    /\ pc # "build" => prompts[attempt] = direction
    /\ attempt > 1 =>
         IF ~diagnostic \/ events[attempt - 1] = <<"unavailable">>
           THEN direction = Blind
           ELSE /\ direction.from = attempt - 1
                /\ "codex" \in direction.brains <=>
                     events[attempt - 1] = <<"consult", "local+consult">>

\* A marked failure was repeated, and the retry after it had a direction.
Marked ==
  /\ Trying /\ stalledSignature # NoSignature =>
       \E k \in 2 .. attempt - 1 :
         /\ failures[k - 1] = stalledSignature /\ failures[k] = stalledSignature
         /\ IF k + 1 = attempt THEN direction.from = k ELSE prompts[k + 1].from = k
  /\ pc = "stalled" => Stalled

\* The counter is the number of consults; the next one is still under the cap.
Counted ==
  /\ consultsUsed = Cardinality({a \in Attempts : Consulted(a)})
  /\ consultsUsed <= MaxConsults
  /\ pc = "consult" => hasCodex /\ attempt < MaxAttempts /\ consultsUsed < MaxConsults
  /\ \A a \in Attempts : Consulted(a) => hasCodex /\ a < MaxAttempts
  /\ /\ pc = "record" /\ ~Consulted(attempt) /\ local # "yes"
     /\ attempt < MaxAttempts /\ hasCodex
     => consultsUsed >= MaxConsults

Ending ==
  /\ pc \in {"pointer", "floor", "transcript"} =>
       outcome \in {"exhausted", "stalled", "plan-unworkable"}
  /\ Trying => outcome = "none" /\ preserved = {}
  /\ pc = "pointer" => preserved = {}
  /\ pc = "floor" => "worktree.json" \in preserved
  /\ pc = "transcript" => {"worktree.json", "turn.json"} \subseteq preserved
  /\ pc = "done" => outcome # "none"

IndInv == /\ TypeOK /\ Recorded /\ Carried /\ Marked /\ Counted /\ Ending
          /\ StallWasInformed /\ UnworkableIsAgreed /\ DirectionIsFresh
          /\ ReturnsArePreserved

-----------------------------------------------------------------------------
(* Why the attempts come to an end *)

\* The calls one attempt can still make, and the preservation after it.
CallsLeft ==
  CASE pc = "build" -> 9
    [] pc = "verify" -> 8
    [] pc = "diagnose" -> 7
    [] pc = "consult" -> 6
    [] pc \in {"stalled", "record"} -> 5
    [] pc = "pointer" -> 3
    [] pc = "floor" -> 2
    [] pc = "transcript" -> 1
    [] OTHER -> 0

Remaining == 9 * (MaxAttempts - attempt) + CallsLeft

\* Every call that comes back or throws leaves fewer to make: nothing retries
\* without an attempt of its own.
CountsDown == [][Remaining' < Remaining]_vars
=============================================================================
