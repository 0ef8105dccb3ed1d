--------------------------- MODULE ExecutePlanProofs ---------------------------
(***************************************************************************)
(* Proofs about ExecutePlan, for every set of failure signatures, every    *)
(* number of attempts and every cap on the consults.                       *)
(***************************************************************************)
EXTENDS ExecutePlan, TLAPS, SequenceTheorems, FiniteSetTheorems

USE AttemptsAssumption, ConsultsAssumption, SignatureAssumption
USE DEF Attempts

-----------------------------------------------------------------------------
(* The stories an attempt's events tell *)

LEMMA AppendToNone == ASSUME NEW x PROVE Append(<<>>, x) = <<x>>
OBVIOUS

LEMMA AppendToOne == ASSUME NEW x, NEW y PROVE Append(<<x>>, y) = <<x, y>>
<1> DEFINE s == Append(<<x>>, y)
           t == <<x, y>>
<1>1. <<x>> \in Seq({x, y}) /\ Len(<<x>>) = 1 /\ <<x>>[1] = x
  OBVIOUS
<1>2. s \in Seq({x, y}) /\ Len(s) = 2 /\ s[1] = x /\ s[2] = y
  BY <1>1
<1>3. t \in Seq({x, y}) /\ Len(t) = 2 /\ t[1] = x /\ t[2] = y
  OBVIOUS
<1> HIDE DEF s, t
<1>4. Len(s) = Len(t) /\ \A i \in 1 .. Len(s) : s[i] = t[i]
  <2> SUFFICES ASSUME NEW i \in 1 .. 2 PROVE s[i] = t[i]
    BY <1>2, <1>3
  <2>1. i = 1 \/ i = 2
    OBVIOUS
  <2> QED BY <2>1, <1>2, <1>3
<1>5. s = t
  BY <1>2, <1>3, <1>4, SeqEqual
<1> QED BY <1>5 DEF s, t

LEMMA LogsUnavailable ==
  ASSUME TypeOK, Recorded, LocalUnavailable
  PROVE  events' = [events EXCEPT ![attempt] = <<"unavailable">>]
BY AppendToNone DEF TypeOK, Recorded, LocalUnavailable, Log

LEMMA LogsConsult ==
  ASSUME TypeOK, Recorded, NEW answer, Consults(answer)
  PROVE  events' = [events EXCEPT ![attempt] = <<"consult">>]
BY AppendToNone DEF TypeOK, Recorded, Consults, Log

\* What the diagnosis event makes of an attempt's story.
LEMMA LogsSource ==
  ASSUME TypeOK, Recorded, pc \in {"stalled", "record"}, Log(Source)
  PROVE  \/ /\ events[attempt] = <<>> /\ consult = "null"
            /\ events' = [events EXCEPT ![attempt] = <<"local">>]
         \/ /\ events[attempt] = <<"consult">> /\ pc = "record"
            /\ events' = [events EXCEPT ![attempt] = <<"consult", Source>>]
BY AppendToNone, AppendToOne DEF TypeOK, Recorded, Log, Source

-----------------------------------------------------------------------------
(* The invariant is inductive: types and records *)

LEMMA InitInv == Init => IndInv
<1> SUFFICES ASSUME Init PROVE IndInv
  OBVIOUS
<1>1. TypeOK
  <2>1. Blind \in Directions /\ <<>> \in Stories
    BY DEF Blind, Directions, Stories
  <2>2. session \in BOOLEAN /\ diagnostic \in BOOLEAN /\ hasCodex \in BOOLEAN
    BY Zenon DEF Init
  <2>3. /\ events \in [Attempts -> Stories] /\ prompts \in [Attempts -> Directions]
        /\ failures \in [Attempts -> Signatures \cup {NoSignature}]
    BY <2>1 DEF Init
  <2>4. /\ pc \in Phases /\ attempt \in Attempts /\ preserved = {}
        /\ signature = NoSignature /\ prevSignature = NoSignature
        /\ stalledSignature = NoSignature
        /\ prevOutput \in 0 .. MaxAttempts /\ consultsUsed \in Nat
        /\ local \in Answers /\ consult \in Answers /\ outcome = "none"
    BY DEF Init, Phases, Answers
  <2>5. direction \in Directions
    BY <2>1 DEF Init
  <2> QED BY <2>2, <2>3, <2>4, <2>5 DEF TypeOK
<1>2. Recorded /\ Carried /\ Marked /\ Ending
  BY DEF Init, Recorded, Carried, Marked, Ending, Trying, Deciding, Blind
<1>3. \A a \in Attempts : ~Consulted(a)
  BY DEF Init, Consulted
<1>4. Counted
  <2>1. {a \in Attempts : Consulted(a)} = {}
    BY <1>3
  <2>2. Cardinality({a \in Attempts : Consulted(a)}) = 0
    BY <2>1, FS_EmptySet
  <2>3. consultsUsed = 0 /\ pc = "build"
    BY DEF Init
  <2> QED BY <2>2, <2>3, <1>3 DEF Counted
<1>5. StallWasInformed /\ UnworkableIsAgreed /\ ReturnsArePreserved
  BY DEF Init, StallWasInformed, UnworkableIsAgreed, ReturnsArePreserved
<1>6. DirectionIsFresh
  BY DEF Init, DirectionIsFresh, Built
<1> QED BY <1>1, <1>2, <1>4, <1>5, <1>6 DEF IndInv

LEMMA NextTypeOK ==
  ASSUME TypeOK, Recorded, [Next]_vars
  PROVE  TypeOK'
<1> USE DEF TypeOK
<1> DEFINE Typed == events' \in [Attempts -> Stories]
<1>1. ASSUME Log(Source), pc \in {"stalled", "record"} PROVE Typed
  BY <1>1, LogsSource DEF Stories, Source
<1>2. CASE Builds
  BY <1>2 DEF Builds, options, diagnosis, carried, stall, saved, history, Phases
<1>3. CASE Verifies
  BY <1>3 DEF Verifies, options, diagnosis, carried, stall, saved, history, Phases, Returned
<1>4. ASSUME NEW f \in Signatures, VerificationFails(f) PROVE TypeOK'
  BY <1>4 DEF VerificationFails, NextAttempt, isFinalAttempt, options, stall, saved,
              Phases, Returned
<1>5. CASE LocalUnavailable
  <2>1. Typed
    BY <1>5, LogsUnavailable DEF Stories
  <2> QED BY <1>5, <2>1 DEF LocalUnavailable, NextAttempt, isFinalAttempt, options,
             diagnosis, saved, Phases, Returned, Blind, Directions
<1>6. ASSUME NEW w \in PlanWorkable, LocalDiagnosis(w) PROVE TypeOK'
  BY <1>6 DEF LocalDiagnosis, WhereNext, options, carried, stall, saved, history,
              Phases, Answers
<1>7. ASSUME NEW w \in Answers, Consults(w) PROVE TypeOK'
  <2>1. Typed
    BY <1>7, LogsConsult DEF Stories
  <2> QED BY <1>7, <2>1 DEF Consults, options, carried, stall, saved, Phases
<1>8. CASE RecordsStall
  <2>1. Typed
    BY <1>8, <1>1 DEF RecordsStall
  <2> QED BY <1>8, <2>1 DEF RecordsStall, options, diagnosis, carried, stall, saved,
             Phases, Returned
<1>9. CASE Records
  <2>1. Typed
    BY <1>9, <1>1 DEF Records
  <2>2. combinedDirection(attempt, consult) \in Directions
    BY DEF combinedDirection, Directions
  <2> QED BY <1>9, <2>1, <2>2 DEF Records, NextAttempt, isFinalAttempt, options,
             diagnosis, carried, stall, saved, Phases, Returned
<1>10. CASE PreservesPointer
  BY <1>10 DEF PreservesPointer, Saves, options, diagnosis, carried, stall, history, Phases
<1>11. CASE PreservesFloor
  BY <1>11 DEF PreservesFloor, Saves, options, diagnosis, carried, stall, history, Phases
<1>12. CASE PreservesTranscript
  BY <1>12 DEF PreservesTranscript, Saves, options, diagnosis, carried, stall, saved,
               history, Phases
<1>13. CASE Throws
  <2>1. Typed
    BY <1>13, <1>1 DEF Throws
  <2> QED BY <1>13, <2>1 DEF Throws, options, diagnosis, carried, stall, saved, Phases
<1>14. CASE UNCHANGED vars
  BY <1>14 DEF vars, options, diagnosis, carried, stall, saved, history
<1> QED BY <1>2, <1>3, <1>4, <1>5, <1>6, <1>7, <1>8, <1>9, <1>10, <1>11, <1>12, <1>13,
           <1>14 DEF Next, Step

LEMMA NextRecorded ==
  ASSUME TypeOK, Recorded, [Next]_vars
  PROVE  Recorded'
<1> USE DEF TypeOK, Recorded, Deciding
<1>2. CASE Builds
  BY <1>2 DEF Builds, options, diagnosis, carried, stall, saved, history
<1>3. CASE Verifies
  BY <1>3 DEF Verifies, options, diagnosis, carried, stall, saved, history
<1>4. ASSUME NEW f \in Signatures, VerificationFails(f) PROVE Recorded'
  BY <1>4 DEF VerificationFails, NextAttempt, isFinalAttempt, options, stall, saved
<1>5. CASE LocalUnavailable
  BY <1>5, LogsUnavailable DEF LocalUnavailable, NextAttempt, isFinalAttempt, options,
     diagnosis, saved
<1>6. ASSUME NEW w \in PlanWorkable, LocalDiagnosis(w) PROVE Recorded'
  BY <1>6 DEF LocalDiagnosis, WhereNext, options, carried, stall, saved, history
<1>7. ASSUME NEW w \in Answers, Consults(w) PROVE Recorded'
  BY <1>7, LogsConsult DEF Consults, options, carried, stall, saved
<1>8. CASE RecordsStall
  BY <1>8, LogsSource DEF RecordsStall, options, diagnosis, carried, stall, saved
<1>9. CASE Records
  BY <1>9, LogsSource DEF Records, NextAttempt, isFinalAttempt, options, diagnosis,
     carried, stall, saved
<1>10. CASE PreservesPointer
  BY <1>10 DEF PreservesPointer, Saves, options, diagnosis, carried, stall, history
<1>11. CASE PreservesFloor
  BY <1>11 DEF PreservesFloor, Saves, options, diagnosis, carried, stall, history
<1>12. CASE PreservesTranscript
  BY <1>12 DEF PreservesTranscript, Saves, options, diagnosis, carried, stall, saved,
               history
<1>13. CASE Throws
  BY <1>13, LogsSource DEF Throws, options, diagnosis, carried, stall, saved
<1>14. CASE UNCHANGED vars
  BY <1>14 DEF vars, options, diagnosis, carried, stall, saved, history
<1> QED BY <1>2, <1>3, <1>4, <1>5, <1>6, <1>7, <1>8, <1>9, <1>10, <1>11, <1>12, <1>13,
           <1>14 DEF Next, Step

-----------------------------------------------------------------------------
(* What is carried, marked, counted and returned *)

LEMMA NextEnding ==
  ASSUME TypeOK, Recorded, Ending, [Next]_vars
  PROVE  Ending'
<1> USE DEF TypeOK, Recorded, Deciding, Ending, Trying
<1>2. CASE Builds
  BY <1>2 DEF Builds, options, diagnosis, carried, stall, saved, history
<1>3. CASE Verifies
  BY <1>3 DEF Verifies, options, diagnosis, carried, stall, saved, history
<1>4. ASSUME NEW f \in Signatures, VerificationFails(f) PROVE Ending'
  BY <1>4 DEF VerificationFails, NextAttempt, isFinalAttempt, options, stall,
     saved
<1>5. CASE LocalUnavailable
  BY <1>5 DEF LocalUnavailable, NextAttempt, isFinalAttempt, options, diagnosis,
     saved
<1>6. ASSUME NEW w \in PlanWorkable, LocalDiagnosis(w) PROVE Ending'
  BY <1>6 DEF LocalDiagnosis, WhereNext, options, carried, stall, saved, history
<1>7. ASSUME NEW w \in Answers, Consults(w) PROVE Ending'
  BY <1>7 DEF Consults, options, carried, stall, saved
<1>8. CASE RecordsStall
  BY <1>8 DEF RecordsStall, options, diagnosis, carried, stall, saved
<1>9. CASE Records
  BY <1>9 DEF Records, NextAttempt, isFinalAttempt, options, diagnosis, carried,
     stall, saved
<1>10. CASE PreservesPointer
  BY <1>10 DEF PreservesPointer, Saves, options, diagnosis, carried, stall,
     history, Trying
<1>11. CASE PreservesFloor
  BY <1>11 DEF PreservesFloor, Saves, options, diagnosis, carried, stall,
     history
<1>12. CASE PreservesTranscript
  BY <1>12 DEF PreservesTranscript, Saves, options, diagnosis, carried, stall,
     saved, history
<1>13. CASE Throws
  BY <1>13 DEF Throws, options, diagnosis, carried, stall, saved
<1>14. CASE UNCHANGED vars
  BY <1>14 DEF vars, options, diagnosis, carried, stall, saved, history
<1> QED BY <1>2, <1>3, <1>4, <1>5, <1>6, <1>7, <1>8, <1>9, <1>10, <1>11, <1>12, <1>13,
           <1>14 DEF Next, Step

LEMMA NextReturns ==
  ASSUME TypeOK, Recorded, Ending, ReturnsArePreserved, [Next]_vars
  PROVE  ReturnsArePreserved'
<1> USE DEF TypeOK, Recorded, Deciding, Ending, Trying, ReturnsArePreserved
<1>2. CASE Builds
  BY <1>2 DEF Builds, options, diagnosis, carried, stall, saved, history
<1>3. CASE Verifies
  BY <1>3 DEF Verifies, options, diagnosis, carried, stall, saved, history
<1>4. ASSUME NEW f \in Signatures, VerificationFails(f) PROVE ReturnsArePreserved'
  BY <1>4 DEF VerificationFails, NextAttempt, isFinalAttempt, options, stall,
     saved
<1>5. CASE LocalUnavailable
  BY <1>5 DEF LocalUnavailable, NextAttempt, isFinalAttempt, options, diagnosis,
     saved
<1>6. ASSUME NEW w \in PlanWorkable, LocalDiagnosis(w) PROVE ReturnsArePreserved'
  BY <1>6 DEF LocalDiagnosis, WhereNext, options, carried, stall, saved, history
<1>7. ASSUME NEW w \in Answers, Consults(w) PROVE ReturnsArePreserved'
  BY <1>7 DEF Consults, options, carried, stall, saved
<1>8. CASE RecordsStall
  BY <1>8 DEF RecordsStall, options, diagnosis, carried, stall, saved
<1>9. CASE Records
  BY <1>9 DEF Records, NextAttempt, isFinalAttempt, options, diagnosis, carried,
     stall, saved
<1>10. CASE PreservesPointer
  BY <1>10 DEF PreservesPointer, Saves, options, diagnosis, carried, stall,
     history
<1>11. CASE PreservesFloor
  BY <1>11 DEF PreservesFloor, Saves, options, diagnosis, carried, stall,
     history
<1>12. CASE PreservesTranscript
  BY <1>12 DEF PreservesTranscript, Saves, options, diagnosis, carried, stall,
     saved, history
<1>13. CASE Throws
  BY <1>13 DEF Throws, options, diagnosis, carried, stall, saved
<1>14. CASE UNCHANGED vars
  BY <1>14 DEF vars, options, diagnosis, carried, stall, saved, history
<1> QED BY <1>2, <1>3, <1>4, <1>5, <1>6, <1>7, <1>8, <1>9, <1>10, <1>11, <1>12, <1>13,
           <1>14 DEF Next, Step

LEMMA NextCarried ==
  ASSUME TypeOK, Recorded, Carried, [Next]_vars
  PROVE  Carried'
<1> USE DEF TypeOK, Recorded, Deciding, Carried, Trying
<1>2. CASE Builds
  BY <1>2 DEF Builds, options, diagnosis, carried, stall, saved, history, Blind
<1>3. CASE Verifies
  BY <1>3 DEF Verifies, options, diagnosis, carried, stall, saved, history
<1>4. ASSUME NEW f \in Signatures, VerificationFails(f) PROVE Carried'
  BY <1>4 DEF VerificationFails, NextAttempt, isFinalAttempt, options, stall,
     saved, Blind
<1>5. CASE LocalUnavailable
  <2>1. CASE isFinalAttempt
    BY <1>5, <2>1 DEF LocalUnavailable, NextAttempt
  <2>2. CASE ~isFinalAttempt
    <3>1. /\ pc' = "build" /\ attempt' = attempt + 1 /\ direction' = Blind
          /\ prevSignature' = signature /\ prevOutput' = attempt
          /\ failures' = failures /\ diagnostic' = diagnostic
      BY <1>5, <2>2 DEF LocalUnavailable, NextAttempt, options
    <3>2. events'[attempt] = <<"unavailable">> /\ failures[attempt] = signature
      BY <1>5, LogsUnavailable DEF LocalUnavailable
    <3>3. direction'.from = 0 /\ attempt' > 1 /\ attempt' - 1 = attempt
      BY <3>1 DEF Blind
    <3> QED BY <3>1, <3>2, <3>3
  <2> QED BY <2>1, <2>2
<1>6. ASSUME NEW w \in PlanWorkable, LocalDiagnosis(w) PROVE Carried'
  BY <1>6 DEF LocalDiagnosis, WhereNext, options, carried, stall, saved, history
<1>7. ASSUME NEW w \in Answers, Consults(w) PROVE Carried'
  BY <1>7, LogsConsult DEF Consults, options, carried, stall, saved
<1>8. CASE RecordsStall
  BY <1>8, LogsSource DEF RecordsStall, options, diagnosis, carried, stall,
     saved
<1>9. CASE Records
  BY <1>9, LogsSource DEF Records, NextAttempt, isFinalAttempt, options,
     diagnosis, carried, stall, saved, combinedDirection, Source
<1>10. CASE PreservesPointer
  BY <1>10 DEF PreservesPointer, Saves, options, diagnosis, carried, stall,
     history
<1>11. CASE PreservesFloor
  BY <1>11 DEF PreservesFloor, Saves, options, diagnosis, carried, stall,
     history
<1>12. CASE PreservesTranscript
  BY <1>12 DEF PreservesTranscript, Saves, options, diagnosis, carried, stall,
     saved, history
<1>13. CASE Throws
  BY <1>13, LogsSource DEF Throws, options, diagnosis, carried, stall, saved
<1>14. CASE UNCHANGED vars
  BY <1>14 DEF vars, options, diagnosis, carried, stall, saved, history
<1> QED BY <1>2, <1>3, <1>4, <1>5, <1>6, <1>7, <1>8, <1>9, <1>10, <1>11, <1>12, <1>13,
           <1>14 DEF Next, Step

\* A step that only adds to the story of the attempt under way.
LEMMA FreshKept ==
  ASSUME TypeOK, Recorded, DirectionIsFresh, pc # "build", pc' # "diagnose",
         \A a \in Attempts : a < attempt => events'[a] = events[a],
         UNCHANGED <<prompts, diagnostic, failures>>, attempt' \in {attempt, attempt + 1},
         pc' = "verify" => pc = "verify" /\ attempt' = attempt
  PROVE  DirectionIsFresh'
<1>1. ASSUME NEW a \in Attempts, a > 1, Built(a)'
      PROVE  a <= attempt /\ Built(a) /\ a - 1 \in Attempts /\ events'[a - 1] = events[a - 1]
  BY <1>1 DEF TypeOK, Recorded, Built
<1> QED BY <1>1 DEF DirectionIsFresh

LEMMA NextFresh ==
  ASSUME TypeOK, Recorded, Carried, DirectionIsFresh, [Next]_vars
  PROVE  DirectionIsFresh'
<1> USE DEF TypeOK, Recorded, Deciding, Carried, Trying, DirectionIsFresh, Built
<1>2. CASE Builds
  BY <1>2 DEF Builds, options, diagnosis, carried, stall, saved, history
<1>3. CASE Verifies
  BY <1>3 DEF Verifies, options, diagnosis, carried, stall, saved, history
<1>4. ASSUME NEW f \in Signatures, VerificationFails(f) PROVE DirectionIsFresh'
  BY <1>4 DEF VerificationFails, NextAttempt, isFinalAttempt, options, stall,
     saved
<1>5. CASE LocalUnavailable
  BY <1>5, LogsUnavailable, FreshKept DEF LocalUnavailable, NextAttempt, options
<1>6. ASSUME NEW w \in PlanWorkable, LocalDiagnosis(w) PROVE DirectionIsFresh'
  BY <1>6 DEF LocalDiagnosis, WhereNext, options, carried, stall, saved, history
<1>7. ASSUME NEW w \in Answers, Consults(w) PROVE DirectionIsFresh'
  BY <1>7, LogsConsult, FreshKept DEF Consults, options
<1>8. CASE RecordsStall
  BY <1>8, LogsSource, FreshKept DEF RecordsStall, options
<1>9. CASE Records
  BY <1>9, LogsSource, FreshKept DEF Records, NextAttempt, options
<1>10. CASE PreservesPointer
  BY <1>10 DEF PreservesPointer, Saves, options, diagnosis, carried, stall,
     history
<1>11. CASE PreservesFloor
  BY <1>11 DEF PreservesFloor, Saves, options, diagnosis, carried, stall,
     history
<1>12. CASE PreservesTranscript
  BY <1>12 DEF PreservesTranscript, Saves, options, diagnosis, carried, stall,
     saved, history
<1>13. CASE Throws
  BY <1>13, LogsSource, FreshKept DEF Throws, options
<1>14. CASE UNCHANGED vars
  BY <1>14 DEF vars, options, diagnosis, carried, stall, saved, history
<1> QED BY <1>2, <1>3, <1>4, <1>5, <1>6, <1>7, <1>8, <1>9, <1>10, <1>11, <1>12, <1>13,
           <1>14 DEF Next, Step

\* The retry that a mark stands for is past, so that it stays as it was.
LEMMA MarkKept ==
  ASSUME TypeOK, Marked, Carried, Trying, stalledSignature # NoSignature,
         stalledSignature' = stalledSignature,
         UNCHANGED <<prompts, diagnostic>>,
         \A a \in Attempts : a < attempt => failures'[a] = failures[a],
         \/ attempt' = attempt /\ direction' = direction
         \/ attempt' = attempt + 1 /\ pc # "build"
  PROVE  \E k \in 2 .. attempt' - 1 :
           /\ failures'[k - 1] = stalledSignature /\ failures'[k] = stalledSignature
           /\ IF k + 1 = attempt' THEN direction'.from = k ELSE prompts'[k + 1].from = k
<1>1. PICK k \in 2 .. attempt - 1 :
        /\ failures[k - 1] = stalledSignature /\ failures[k] = stalledSignature
        /\ IF k + 1 = attempt THEN direction.from = k ELSE prompts[k + 1].from = k
  BY DEF Marked
<1>2. k \in 2 .. attempt' - 1 /\ k \in Attempts /\ k - 1 \in Attempts /\ k < attempt
  BY DEF TypeOK
<1>3. failures'[k - 1] = stalledSignature /\ failures'[k] = stalledSignature
  BY <1>1, <1>2 DEF TypeOK
<1>4. CASE attempt' = attempt /\ direction' = direction
  BY <1>1, <1>2, <1>3, <1>4
<1>5. CASE attempt' = attempt + 1 /\ pc # "build"
  <2>1. prompts[attempt] = direction
    BY <1>5 DEF Carried
  <2>2. k + 1 # attempt'
    BY <1>2, <1>5 DEF TypeOK
  <2>3. prompts'[k + 1].from = k
    BY <1>1, <2>1
  <2> QED BY <1>2, <1>3, <2>2, <2>3
<1> QED BY <1>4, <1>5

LEMMA NextMarked ==
  ASSUME TypeOK, Recorded, Carried, Marked, [Next]_vars
  PROVE  Marked'
<1> USE DEF TypeOK, Deciding, Trying
<1>2. CASE Builds
  <2>1. UNCHANGED <<attempt, stalledSignature, failures, direction>>
    BY <1>2 DEF Builds, diagnosis, carried, stall
  <2>2. prompts' = [prompts EXCEPT ![attempt] = direction] /\ pc = "build" /\ pc' = "verify"
    BY <1>2 DEF Builds
  <2>3. SUFFICES ASSUME stalledSignature # NoSignature
        PROVE  \E k \in 2 .. attempt - 1 :
                 /\ failures[k - 1] = stalledSignature /\ failures[k] = stalledSignature
                 /\ IF k + 1 = attempt THEN direction.from = k
                    ELSE prompts'[k + 1].from = k
    BY <2>1, <2>2 DEF Marked
  <2>4. PICK k \in 2 .. attempt - 1 :
          /\ failures[k - 1] = stalledSignature /\ failures[k] = stalledSignature
          /\ IF k + 1 = attempt THEN direction.from = k ELSE prompts[k + 1].from = k
    BY <2>2, <2>3 DEF Marked
  <2>5. k + 1 # attempt => prompts'[k + 1] = prompts[k + 1]
    BY <2>2
  <2> QED BY <2>4, <2>5
<1>3. CASE Verifies
  BY <1>3 DEF Verifies, Marked
<1>4. ASSUME NEW f \in Signatures, VerificationFails(f) PROVE Marked'
  <2>1. UNCHANGED <<prompts, diagnostic, direction, stalledSignature>> /\ pc = "verify"
    BY <1>4 DEF VerificationFails, options, stall
  <2>2. \A a \in Attempts : a < attempt => failures'[a] = failures[a]
    BY <1>4 DEF VerificationFails
  <2>3. attempt' \in {attempt, attempt + 1}
    BY <1>4 DEF VerificationFails, NextAttempt
  <2>4. pc' # "stalled"
    BY <1>4 DEF VerificationFails, NextAttempt
  <2> QED BY <2>1, <2>2, <2>3, <2>4, MarkKept DEF Marked
<1>5. CASE LocalUnavailable
  <2>1. UNCHANGED <<prompts, diagnostic, failures, stalledSignature>> /\ pc = "diagnose"
    BY <1>5 DEF LocalUnavailable, options
  <2>2. \/ attempt' = attempt + 1 /\ pc' = "build"
        \/ pc' = "pointer"
    BY <1>5 DEF LocalUnavailable, NextAttempt
  <2> QED BY <2>1, <2>2, MarkKept DEF Marked
<1>6. ASSUME NEW w \in PlanWorkable, LocalDiagnosis(w) PROVE Marked'
  <2>1. UNCHANGED <<prompts, diagnostic, failures, stalledSignature, attempt, direction,
                    signature, prevSignature>>
    BY <1>6 DEF LocalDiagnosis, options, carried, stall, history
  <2>2. pc = "diagnose" /\ (pc' = "stalled" => Stalled)
    BY <1>6 DEF LocalDiagnosis, WhereNext
  <2>3. Stalled' <=> Stalled
    BY <2>1 DEF Stalled, signatureRepeated
  <2> QED BY <2>1, <2>2, <2>3, MarkKept DEF Marked
<1>7. ASSUME NEW w \in Answers, Consults(w) PROVE Marked'
  <2>1. UNCHANGED <<prompts, diagnostic, failures, stalledSignature, attempt, direction>>
    BY <1>7 DEF Consults, options, carried, stall
  <2> QED BY <1>7, <2>1, MarkKept DEF Marked, Consults
<1>8. CASE RecordsStall
  BY <1>8 DEF RecordsStall, Marked
<1>9. CASE Records
  <2>1. pc' \in {"pointer", "build"} /\ (pc' = "build" => attempt' = attempt + 1)
    BY <1>9 DEF Records, NextAttempt
  <2>2. UNCHANGED <<prompts, diagnostic, failures>> /\ pc = "record"
    BY <1>9 DEF Records, options
  <2>3. CASE pc' = "build" /\ signatureRepeated
    <3>1. stalledSignature' = signature /\ direction'.from = attempt
      BY <1>9, <2>3 DEF Records, NextAttempt, isFinalAttempt, combinedDirection
    <3>2. attempt > 1 /\ failures[attempt] = signature /\ failures[attempt - 1] = signature
      BY <2>2, <2>3 DEF Recorded, Carried, signatureRepeated
    <3>3. attempt \in 2 .. attempt' - 1 /\ attempt + 1 = attempt'
      BY <2>1, <2>3, <3>2
    <3> QED BY <2>2, <2>3, <3>1, <3>2, <3>3 DEF Marked
  <2>4. CASE pc' = "build" /\ ~signatureRepeated
    <3>1. stalledSignature' = stalledSignature
      BY <1>9, <2>4 DEF Records, carried, stall
    <3> QED BY <2>1, <2>2, <2>4, <3>1, MarkKept DEF Marked
  <2> QED BY <2>1, <2>3, <2>4 DEF Marked
<1>10. CASE PreservesPointer
  BY <1>10 DEF PreservesPointer, Saves, Marked
<1>11. CASE PreservesFloor
  BY <1>11 DEF PreservesFloor, Saves, Marked
<1>12. CASE PreservesTranscript
  BY <1>12 DEF PreservesTranscript, Saves, Marked
<1>13. CASE Throws
  BY <1>13 DEF Throws, Marked
<1>14. CASE UNCHANGED vars
  <2>1. Stalled' <=> Stalled
    BY <1>14 DEF vars, Stalled, signatureRepeated, diagnosis, carried, stall
  <2> QED BY <1>14, <2>1 DEF vars, options, diagnosis, carried, stall, saved, history, Marked
<1> QED BY <1>2, <1>3, <1>4, <1>5, <1>6, <1>7, <1>8, <1>9, <1>10, <1>11, <1>12, <1>13,
           <1>14 DEF Next, Step

\* Once the attempts are over the record of them stays.
LEMMA Over ==
  ASSUME TypeOK, Ending, [Next]_vars, outcome # "none", outcome' # "threw"
  PROVE  UNCHANGED <<outcome, attempt, options, diagnosis, history>>
<1> USE DEF Ending, Trying, Deciding
<1>1. pc \in {"pointer", "floor", "transcript", "done"}
  BY DEF TypeOK, Phases
<1>2. ~Builds /\ ~Verifies /\ ~LocalUnavailable /\ ~RecordsStall /\ ~Records
  BY <1>1 DEF Builds, Verifies, LocalUnavailable, RecordsStall, Records
<1>3. /\ \A f \in Signatures : ~VerificationFails(f)
      /\ \A w \in Answers : ~LocalDiagnosis(w) /\ ~Consults(w)
  BY <1>1 DEF VerificationFails, LocalDiagnosis, Consults
<1>4. ~Throws
  BY DEF Throws
<1>5. PreservesPointer \/ PreservesFloor \/ PreservesTranscript \/ UNCHANGED vars
  BY <1>2, <1>3, <1>4 DEF Next, Step, Answers
<1> QED BY <1>5 DEF PreservesPointer, PreservesFloor, PreservesTranscript, Saves, vars

\* The steps that set an outcome of their own.
LEMMA Decides ==
  ASSUME TypeOK, Ending, [Next]_vars, outcome = "none",
         outcome' \in {"stalled", "plan-unworkable"}
  PROVE  \/ RecordsStall /\ outcome' = "stalled"
         \/ Records /\ outcome' = "plan-unworkable"
<1>1. ~Builds /\ ~Verifies /\ ~LocalUnavailable /\ ~Throws
  BY DEF Builds, Verifies, LocalUnavailable, NextAttempt, Throws
<1>2. /\ \A f \in Signatures : ~VerificationFails(f)
      /\ \A w \in Answers : ~LocalDiagnosis(w) /\ ~Consults(w)
  BY DEF VerificationFails, NextAttempt, LocalDiagnosis, Consults
<1>3. ~PreservesPointer /\ ~PreservesFloor /\ ~PreservesTranscript /\ ~UNCHANGED vars
  BY DEF PreservesPointer, PreservesFloor, PreservesTranscript, Saves, vars
<1>4. RecordsStall => outcome' = "stalled"
  BY DEF RecordsStall
<1>5. Records => outcome' = "plan-unworkable"
  BY DEF Records, NextAttempt
<1> QED BY <1>1, <1>2, <1>3, <1>4, <1>5 DEF Next, Step, Answers

LEMMA NextStall ==
  ASSUME TypeOK, Recorded, Carried, Marked, Ending, StallWasInformed, [Next]_vars
  PROVE  StallWasInformed'
<1> SUFFICES ASSUME outcome' = "stalled" PROVE StallWasInformed'
  BY DEF StallWasInformed
<1>1. CASE outcome # "none"
  BY <1>1, Over DEF StallWasInformed, history
<1>2. CASE outcome = "none"
  <2>1. RecordsStall
    BY <1>2, Decides
  <2>2. pc = "stalled" /\ UNCHANGED <<attempt, failures, prompts>>
    BY <2>1 DEF RecordsStall
  <2>3. signatureRepeated /\ signature = stalledSignature
    BY <2>2 DEF Marked, Stalled
  <2>4. /\ attempt > 1 /\ failures[attempt] = signature
        /\ failures[attempt - 1] = signature /\ signature # NoSignature
    BY <2>2, <2>3 DEF TypeOK, Recorded, Carried, Trying, Deciding, signatureRepeated
  <2>5. PICK k \in 2 .. attempt - 1 :
          /\ failures[k - 1] = signature /\ failures[k] = signature
          /\ IF k + 1 = attempt THEN direction.from = k ELSE prompts[k + 1].from = k
    BY <2>2, <2>3, <2>4 DEF Marked, Trying, Deciding
  <2>6. prompts[attempt] = direction
    BY <2>2 DEF Carried, Trying, Deciding
  <2>7. prompts[k + 1].from = k
    BY <2>5, <2>6
  <2> QED BY <2>2, <2>4, <2>5, <2>7 DEF StallWasInformed
<1> QED BY <1>1, <1>2

LEMMA NextUnworkable ==
  ASSUME TypeOK, Recorded, Counted, Ending, UnworkableIsAgreed, [Next]_vars
  PROVE  UnworkableIsAgreed'
<1> SUFFICES ASSUME outcome' = "plan-unworkable" PROVE UnworkableIsAgreed'
  BY DEF UnworkableIsAgreed
<1>1. CASE outcome # "none"
  BY <1>1, Over DEF UnworkableIsAgreed, history, diagnosis, options, Source
<1>2. CASE outcome = "none"
  <2>1. Records
    BY <1>2, Decides
  <2>2. /\ pc = "record" /\ ~isFinalAttempt /\ isPlanUnworkable(local, consult)
        /\ UNCHANGED <<attempt, local, consult, consultsUsed, hasCodex>>
    BY <1>2, <2>1 DEF Records, NextAttempt, diagnosis, options
  <2>3. attempt < MaxAttempts /\ local = "no" /\ consult \in {"null", "no"}
    BY <2>2 DEF TypeOK, isFinalAttempt, isPlanUnworkable
  <2>4. \/ events[attempt] = <<>> /\ events'[attempt] = <<"local">>
        \/ events'[attempt] = <<"consult", Source>>
    BY <2>1, <2>2, LogsSource DEF Records, TypeOK
  <2>5. events[attempt] = <<>> => ~Consulted(attempt)
    BY DEF Consulted
  <2>6. events[attempt] = <<>> => (hasCodex => consultsUsed >= MaxConsults)
    BY <2>2, <2>3, <2>5 DEF Counted
  <2>7. Source' = Source
    BY <2>2 DEF Source
  <2> QED BY <2>2, <2>3, <2>4, <2>6, <2>7 DEF UnworkableIsAgreed
<1> QED BY <1>1, <1>2

-----------------------------------------------------------------------------
(* The count of the consults *)

ConsultedSet == {a \in Attempts : Consulted(a)}

LEMMA ConsultedIsFinite == IsFiniteSet(ConsultedSet)
<1>1. IsFiniteSet(1 .. MaxAttempts)
  BY FS_Interval
<1>2. ConsultedSet \in SUBSET (1 .. MaxAttempts)
  BY DEF ConsultedSet
<1> QED BY <1>1, <1>2, FS_Subset

\* Only a consult adds to the attempts with one; a diagnosis after it does not
\* take it away.

\* Whether a story has a consult in it.
LEMMA StoryHeads ==
  /\ Head(<<"unavailable">>) # "consult" /\ Head(<<"local">>) # "consult"
  /\ Head(<<"consult">>) = "consult" /\ <<"consult">> # <<>>
  /\ \A x : Head(<<"consult", x>>) = "consult" /\ <<"consult", x>> # <<>>
OBVIOUS

\* Only a consult adds to the attempts with one; a diagnosis after it does not
\* take it away.
LEMMA DiagnosisKeepsConsulted ==
  ASSUME TypeOK, Recorded, Log(Source), pc \in {"stalled", "record"}
  PROVE  \A a \in Attempts : Consulted(a)' <=> Consulted(a)
<1> SUFFICES ASSUME NEW a \in Attempts PROVE Consulted(a)' <=> Consulted(a)
  OBVIOUS
<1>1. CASE a # attempt
  <2>1. events'[a] = events[a]
    BY <1>1 DEF TypeOK, Log
  <2> QED BY <2>1 DEF Consulted
<1>2. CASE a = attempt
  <2>1. \/ events[a] = <<>> /\ events'[a] = <<"local">>
        \/ events[a] = <<"consult">> /\ events'[a] = <<"consult", Source>>
    BY <1>2, LogsSource DEF TypeOK
  <2> QED BY <2>1, StoryHeads DEF Consulted
<1> QED BY <1>1, <1>2

LEMMA OtherEvents ==
  ASSUME TypeOK, Recorded, [Next]_vars, \A w \in Answers : ~Consults(w)
  PROVE  \A a \in Attempts : Consulted(a)' <=> Consulted(a)
<1>1. CASE UNCHANGED events
  BY <1>1 DEF Consulted
<1>2. CASE LocalUnavailable
  <2> SUFFICES ASSUME NEW a \in Attempts PROVE Consulted(a)' <=> Consulted(a)
    OBVIOUS
  <2>1. IF a = attempt THEN events[a] = <<>> /\ events'[a] = <<"unavailable">>
        ELSE events'[a] = events[a]
    BY <1>2, LogsUnavailable DEF TypeOK, Recorded, LocalUnavailable
  <2> QED BY <2>1, StoryHeads DEF Consulted
<1>3. CASE Log(Source) /\ pc \in {"stalled", "record"}
  BY <1>3, DiagnosisKeepsConsulted
<1>4. \/ UNCHANGED events \/ LocalUnavailable
      \/ Log(Source) /\ pc \in {"stalled", "record"}
  <2>1. CASE Builds \/ Verifies \/ PreservesPointer \/ PreservesFloor \/ PreservesTranscript
    BY <2>1 DEF Builds, Verifies, PreservesPointer, PreservesFloor, PreservesTranscript,
                Saves, history
  <2>2. CASE \E f \in Signatures : VerificationFails(f)
    BY <2>2 DEF VerificationFails
  <2>3. CASE \E w \in PlanWorkable : LocalDiagnosis(w)
    BY <2>3 DEF LocalDiagnosis, history
  <2>4. CASE RecordsStall \/ Records \/ Throws
    BY <2>4 DEF RecordsStall, Records, Throws
  <2>5. CASE UNCHANGED vars
    BY <2>5 DEF vars, history
  <2> QED BY <2>1, <2>2, <2>3, <2>4, <2>5 DEF Next, Step
<1> QED BY <1>1, <1>2, <1>3, <1>4

\* Where the loop asks for a second opinion and where it does without.
LEMMA Asks ==
  ASSUME TypeOK, Recorded, Counted, NEW w \in PlanWorkable, LocalDiagnosis(w)
  PROVE  /\ pc' = "consult" => hasCodex /\ attempt < MaxAttempts /\ consultsUsed < MaxConsults
         /\ pc' = "record" /\ local' # "yes" /\ attempt < MaxAttempts /\ hasCodex
              => consultsUsed >= MaxConsults
BY DEF TypeOK, LocalDiagnosis, WhereNext, isFinalAttempt

LEMMA CountKept ==
  ASSUME TypeOK, Counted, UNCHANGED <<consultsUsed, hasCodex>>,
         \A a \in Attempts : Consulted(a)' <=> Consulted(a),
         pc' # "consult", pc' # "record"
  PROVE  Counted'
<1>1. {a \in Attempts : Consulted(a)}' = {a \in Attempts : Consulted(a)}
  OBVIOUS
<1> QED BY <1>1 DEF Counted

LEMMA ConsultCounts ==
  ASSUME TypeOK, Recorded, Counted, NEW w \in Answers, Consults(w)
  PROVE  Counted'
<1>1. /\ events' = [events EXCEPT ![attempt] = <<"consult">>]
      /\ consultsUsed' = consultsUsed + 1 /\ pc = "consult" /\ pc' = "record"
      /\ UNCHANGED <<attempt, hasCodex>>
  BY LogsConsult DEF Consults, options
<1>2. attempt \in Attempts /\ events[attempt] = <<>> /\ ~Consulted(attempt)
  BY <1>1 DEF TypeOK, Recorded, Consulted
<1>3. \A a \in Attempts : Consulted(a)' <=> a = attempt \/ Consulted(a)
  <2> SUFFICES ASSUME NEW a \in Attempts
               PROVE  Consulted(a)' <=> a = attempt \/ Consulted(a)
    OBVIOUS
  <2>1. IF a = attempt THEN events'[a] = <<"consult">> ELSE events'[a] = events[a]
    BY <1>1 DEF TypeOK
  <2> QED BY <2>1, StoryHeads DEF Consulted
<1>4. ConsultedSet' = ConsultedSet \cup {attempt} /\ attempt \notin ConsultedSet
  BY <1>2, <1>3 DEF ConsultedSet
<1>5. Cardinality(ConsultedSet') = Cardinality(ConsultedSet) + 1
  BY <1>4, ConsultedIsFinite, FS_AddElement
<1>6. /\ consultsUsed = Cardinality(ConsultedSet) /\ hasCodex
      /\ attempt < MaxAttempts /\ consultsUsed < MaxConsults
      /\ \A a \in Attempts : Consulted(a) => hasCodex /\ a < MaxAttempts
  BY <1>1 DEF Counted, ConsultedSet
<1>7. consultsUsed' = Cardinality(ConsultedSet') /\ consultsUsed' <= MaxConsults
  BY <1>1, <1>5, <1>6 DEF TypeOK
<1>8. \A a \in Attempts : Consulted(a)' => hasCodex' /\ a < MaxAttempts
  BY <1>1, <1>3, <1>6
<1>9. Consulted(attempt)'
  BY <1>1, <1>2, <1>3
<1> QED BY <1>1, <1>7, <1>8, <1>9 DEF Counted, ConsultedSet

\* The fields the count rests on stay, except for a consult.
LEMMA CountFrame ==
  ASSUME [Next]_vars, \A w \in Answers : ~Consults(w)
  PROVE  UNCHANGED <<consultsUsed, hasCodex>>
<1>1. CASE Builds \/ Verifies
  BY <1>1 DEF Builds, Verifies, options, diagnosis
<1>2. CASE \E f \in Signatures : VerificationFails(f)
  BY <1>2 DEF VerificationFails, options
<1>3. CASE LocalUnavailable
  BY <1>3 DEF LocalUnavailable, options, diagnosis
<1>4. CASE \E w \in PlanWorkable : LocalDiagnosis(w)
  BY <1>4 DEF LocalDiagnosis, options
<1>5. CASE RecordsStall \/ Records
  BY <1>5 DEF RecordsStall, Records, options, diagnosis
<1>6. CASE PreservesPointer \/ PreservesFloor \/ PreservesTranscript
  BY <1>6 DEF PreservesPointer, PreservesFloor, PreservesTranscript, Saves, options, diagnosis
<1>7. CASE Throws
  BY <1>7 DEF Throws, options, diagnosis
<1>8. CASE UNCHANGED vars
  BY <1>8 DEF vars, options, diagnosis
<1> QED BY <1>1, <1>2, <1>3, <1>4, <1>5, <1>6, <1>7, <1>8 DEF Next, Step

LEMMA NextCounted ==
  ASSUME TypeOK, Recorded, Counted, [Next]_vars
  PROVE  Counted'
<1>1. CASE \E w \in Answers : Consults(w)
  BY <1>1, ConsultCounts
<1>2. CASE \A w \in Answers : ~Consults(w)
  <2>1. UNCHANGED <<consultsUsed, hasCodex>>
    BY <1>2, CountFrame
  <2>2. \A a \in Attempts : Consulted(a)' <=> Consulted(a)
    BY <1>2, OtherEvents
  <2>3. CASE pc' # "consult" /\ pc' # "record"
    BY <2>1, <2>2, <2>3, CountKept
  <2>4. ASSUME NEW w \in PlanWorkable, LocalDiagnosis(w) PROVE Counted'
    <3>1. UNCHANGED attempt
      BY <2>4 DEF LocalDiagnosis
    <3>2. {a \in Attempts : Consulted(a)}' = {a \in Attempts : Consulted(a)}
      BY <2>2
    <3>3. /\ pc' = "consult" =>
               hasCodex /\ attempt < MaxAttempts /\ consultsUsed < MaxConsults
          /\ pc' = "record" /\ local' # "yes" /\ attempt < MaxAttempts /\ hasCodex
               => consultsUsed >= MaxConsults
      BY <2>4, Asks
    <3> QED BY <2>1, <2>2, <3>1, <3>2, <3>3 DEF Counted
  <2>5. CASE UNCHANGED vars
    <3>1. {a \in Attempts : Consulted(a)}' = {a \in Attempts : Consulted(a)}
      BY <2>2
    <3>2. UNCHANGED <<pc, local, attempt>> /\ (Consulted(attempt)' <=> Consulted(attempt))
      BY <2>5 DEF vars, diagnosis, history, Consulted
    <3> QED BY <2>1, <2>2, <3>1, <3>2 DEF Counted
  <2>6. \/ pc' # "consult" /\ pc' # "record"
        \/ \E w \in PlanWorkable : LocalDiagnosis(w)
        \/ UNCHANGED vars
    BY <1>2 DEF Next, Step, Builds, Verifies, VerificationFails, NextAttempt,
            LocalUnavailable, RecordsStall, Records, PreservesPointer, PreservesFloor,
            PreservesTranscript, Saves, Throws
  <2> QED BY <2>3, <2>4, <2>5, <2>6
<1> QED BY <1>1, <1>2

-----------------------------------------------------------------------------
(* Theorems *)

\* The strengthened invariant holds in every reachable state of the attempts at a
\* ticket (executePlan).
THEOREM Inductive == Spec => []IndInv
<1>1. IndInv /\ [Next]_vars => IndInv'
  <2> SUFFICES ASSUME IndInv, [Next]_vars PROVE IndInv'
    OBVIOUS
  <2>1. TypeOK' /\ Recorded'
    BY NextTypeOK, NextRecorded DEF IndInv
  <2>2. Carried' /\ Marked'
    BY NextCarried, NextMarked DEF IndInv
  <2>3. Counted' /\ Ending'
    BY NextCounted, NextEnding DEF IndInv
  <2>4. StallWasInformed' /\ UnworkableIsAgreed'
    BY NextStall, NextUnworkable DEF IndInv
  <2>5. DirectionIsFresh' /\ ReturnsArePreserved'
    BY NextFresh, NextReturns DEF IndInv
  <2> QED BY <2>1, <2>2, <2>3, <2>4, <2>5 DEF IndInv
<1> QED BY InitInv, <1>1, PTL DEF Spec

\* A stall is called only after the repeat had its retry with a direction
\* (stalledSignature).
THEOREM StallsAreInformed == Spec => []StallWasInformed
<1>1. IndInv => StallWasInformed
  BY DEF IndInv
<1> QED BY <1>1, Inductive, PTL

\* A plan is given up early only, on a "no" that nobody overturned
\* (isPlanUnworkable and the gate before it).
THEOREM GivenUpInAgreement == Spec => []UnworkableIsAgreed
<1>1. IndInv => UnworkableIsAgreed
  BY DEF IndInv
<1> QED BY <1>1, Inductive, PTL

\* A builder is told what follows from the failure before it (combinedDir).
THEOREM DirectionsAreFresh == Spec => []DirectionIsFresh
<1>1. IndInv => DirectionIsFresh
  BY DEF IndInv
<1> QED BY <1>1, Inductive, PTL

\* The consults of a ticket stay under their cap (consultsUsed).
THEOREM ConsultsAreCapped == Spec => []ConsultsWithinCap
<1>1. IndInv => ConsultsWithinCap
  BY DEF IndInv, Counted, ConsultsWithinCap
<1> QED BY <1>1, Inductive, PTL

\* The number of calls that are left is never negative and every step lowers it:
\* the attempts end, if each call does, whatever they answer (the loop over
\* maxIterationsPerTicket).
THEOREM AttemptsCountDown == Spec => [](Remaining \in Nat) /\ CountsDown
<1>1. IndInv => Remaining \in Nat
  BY DEF IndInv, TypeOK, Remaining, CallsLeft
<1>2. IndInv /\ [Next]_vars => [Remaining' < Remaining]_vars
  <2> SUFFICES ASSUME TypeOK, Next PROVE Remaining' < Remaining
    BY DEF IndInv
  <2>0. attempt \in 1 .. MaxAttempts /\ pc \in Phases
    BY DEF TypeOK
  <2> USE DEF Remaining, CallsLeft, Phases
  <2>1. CASE Builds \/ Verifies \/ RecordsStall
    <3>1. /\ attempt' = attempt
          /\ \/ pc = "build" /\ pc' = "verify"
             \/ pc = "verify" /\ pc' = "done"
             \/ pc = "stalled" /\ pc' = "pointer"
      BY <2>1 DEF Builds, Verifies, RecordsStall
    <3> QED BY <2>0, <3>1
  <2>2. CASE LocalUnavailable \/ Records \/ (\E f \in Signatures : VerificationFails(f))
    <3>1. /\ pc \in {"verify", "diagnose", "record"}
          /\ \/ pc' = "diagnose" /\ pc = "verify" /\ attempt' = attempt
             \/ pc' = "pointer" /\ attempt' = attempt
             \/ pc' = "build" /\ attempt' = attempt + 1
      BY <2>2 DEF LocalUnavailable, Records, VerificationFails, NextAttempt
    <3> QED BY <2>0, <3>1
  <2>3. CASE \/ \E w \in PlanWorkable : LocalDiagnosis(w)
             \/ \E w \in Answers : Consults(w)
    BY <2>0, <2>3 DEF LocalDiagnosis, WhereNext, Consults
  <2>4. CASE PreservesPointer \/ PreservesFloor \/ PreservesTranscript
    BY <2>0, <2>4 DEF PreservesPointer, PreservesFloor, PreservesTranscript, Saves
  <2>5. CASE Throws
    BY <2>0, <2>5 DEF Throws
  <2> QED BY <2>1, <2>2, <2>3, <2>4, <2>5 DEF Next, Step
<1> QED BY <1>1, <1>2, Inductive, PTL DEF Spec, CountsDown
=============================================================================
