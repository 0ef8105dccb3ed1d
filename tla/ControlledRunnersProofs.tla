----------------------- MODULE ControlledRunnersProofs -----------------------
(***************************************************************************)
(* Proofs about ExecSettle and about ControlledRunners over it, for every  *)
(* set of options, any amount of output, and any number of calls and       *)
(* failures.  A step of the wrapper leaves exec alone, or starts it anew   *)
(* (Spawns), or is a step of exec; so what is inductive for one call of    *)
(* exec is inductive for a sequence of them.  What the log says of a call  *)
(* rests on the ids being counted (IdsAreCounted) and on what was captured *)
(* being the reason of the last command (CapturedIsLast).                  *)
(***************************************************************************)
EXTENDS ControlledRunners, FiniteSetTheorems, TLAPS

\* What done touches.
SettledType ==
  /\ settled \in BOOLEAN /\ armed \subseteq Timers
  /\ result \in [reason : SettleReason, outcome : Outcomes] \cup {Unsettled}

\* done, with a reason and an outcome of the code, keeps the types.
LEMMA DoneType ==
  ASSUME SettledType, NEW r \in SettleReason, NEW o \in Outcomes, done(r, o)
  PROVE  SettledType'
<1>1. CASE settled /\ UNCHANGED <<settled, armed, result>>
  BY <1>1 DEF SettledType
<1>2. CASE ~settled /\ settled' = TRUE /\ armed' = {}
           /\ result' = [reason |-> r, outcome |-> o]
  BY <1>2 DEF SettledType
<1> QED BY <1>1, <1>2 DEF done

\* The first done clears the timers and reports what it was given.
LEMMA DoneReports ==
  ASSUME ~settled, NEW r \in SettleReason, NEW o \in Outcomes, done(r, o)
  PROVE  /\ settled' = TRUE /\ armed' = {}
         /\ result'.outcome = o /\ result'.reason = r /\ result' # Unsettled
  BY DEF done, Unsettled, SettleReason

\* The variables of a call keep their types.
LEMMA TypeInit == Init => TypeOK
<1> SUFFICES ASSUME Init PROVE TypeOK
  OBVIOUS
<1>1. opts \in Options
  BY CallsAssumption DEF Init
<1>2. armed \subseteq Timers
  BY DEF Init, Timers
<1> QED BY <1>1, <1>2 DEF Init, TypeOK, Children

LEMMA TypeStep == TypeOK /\ [Next]_vars => TypeOK'
<1> SUFFICES ASSUME TypeOK, [Next]_vars PROVE TypeOK'
  OBVIOUS
<1> USE DEF TypeOK, Children, Endings
<1>1. CASE Ends           BY <1>1 DEF Ends, flags
<1>2. CASE Dies           BY <1>2 DEF Dies, flags
<1>3. CASE Forks          BY <1>3 DEF Forks, flags
<1>4. CASE DescendantEnds BY <1>4 DEF DescendantEnds, flags
<1>5. CASE onData
  <2>1. chunks' \in Nat
    BY <1>5 DEF onData
  <2>3. inGraceMode' \in BOOLEAN
    BY <1>5, Zenon DEF onData
  <2>2. armed' \subseteq Timers
    BY <1>5 DEF onData, Arm, Timers
  <2> QED BY <1>5, <2>1, <2>2, <2>3 DEF onData
<1>6. CASE WallFires      BY <1>6 DEF WallFires, Fires, kill
<1>7. CASE IdleFires      BY <1>7 DEF IdleFires, Fires, kill
<1>8. CASE GraceFires     BY <1>8 DEF GraceFires, Fires, kill
<1>9. CASE onError
  <2>1. \E r \in SettleReason, o \in Outcomes : done(r, o)
    BY <1>9 DEF onError, Failing, SettleReason, Outcomes
  <2>2. SettledType' BY <2>1, DoneType DEF SettledType
  <2> QED BY <1>9, <2>2 DEF onError, world, flags, SettledType
<1>10. CASE onClose
  <2>1. \E r \in SettleReason, o \in Outcomes : done(r, o)
    BY <1>10 DEF onClose, Failing, finalCode, SettleReason, Outcomes
  <2>2. SettledType' BY <2>1, DoneType DEF SettledType
  <2> QED BY <1>10, <2>2 DEF onClose, world, flags, SettledType
<1>11. CASE UNCHANGED vars BY <1>11 DEF vars, world, flags
<1> QED BY <1>1, <1>2, <1>3, <1>4, <1>5, <1>6, <1>7, <1>8, <1>9, <1>10, <1>11
        DEF Next

THEOREM TypeCorrect == Spec => []TypeOK
BY TypeInit, TypeStep, PTL DEF Spec

-----------------------------------------------------------------------------
(* The inductive invariant of exec *)

LEMMA IndInit == Init => IndInv
<1> SUFFICES ASSUME Init PROVE IndInv
  OBVIOUS
<1>1. "grace" \notin armed
  BY DEF Init
<1>2. result.outcome # "zero" /\ result = Unsettled
  BY DEF Init, Unsettled
<1> QED BY <1>1, <1>2
        DEF Init, IndInv, NoTimerAfterSettle, KilledIsNotSuccess

LEMMA IndStep == TypeOK /\ IndInv /\ [Next]_vars => IndInv'
<1> SUFFICES ASSUME TypeOK, IndInv, [Next]_vars PROVE IndInv'
  OBVIOUS
<1> USE DEF TypeOK, IndInv, NoTimerAfterSettle, KilledIsNotSuccess, Endings
<1>1. CASE Ends           BY <1>1 DEF Ends, flags
<1>2. CASE Dies           BY <1>2 DEF Dies, flags
<1>3. CASE Forks          BY <1>3 DEF Forks, flags
<1>4. CASE DescendantEnds BY <1>4 DEF DescendantEnds, flags
<1>5. CASE onData         BY <1>5 DEF onData, Arm
<1>6. CASE WallFires      BY <1>6 DEF WallFires, Fires, kill
<1>7. CASE IdleFires      BY <1>7 DEF IdleFires, Fires, kill
<1>8. CASE GraceFires     BY <1>8 DEF GraceFires, Fires, kill
<1>9. CASE onError
  <2>1. CASE settled
    BY <1>9, <2>1 DEF onError, done, world, flags
  <2>2. CASE ~settled
    <3>1. Failing \in Outcomes \ {"zero"} /\ "error" \in SettleReason
      BY DEF Failing, Outcomes, SettleReason
    <3>2. /\ settled' = TRUE /\ armed' = {}
          /\ result'.outcome # "zero" /\ result' # Unsettled
      BY <1>9, <2>2, <3>1, DoneReports DEF onError
    <3> QED BY <1>9, <3>2 DEF onError, world, flags
  <2> QED BY <2>1, <2>2
<1>10. CASE onClose
  <2>1. CASE settled
    BY <1>10, <2>1 DEF onClose, done, world, flags
  <2>2. CASE ~settled
    <3>1. PICK r \in SettleReason, o \in Outcomes :
            /\ done(r, o)
            /\ o = "zero" => \/ graceKilled /\ r = "completion-grace"
                             \/ /\ ~graceKilled /\ ~idleKilled
                                /\ finalCode = "zero"
      <4>1. CASE graceKilled
        <5>1. done("completion-grace", "zero")
          BY <1>10, <4>1 DEF onClose
        <5> QED BY <4>1, <5>1 DEF SettleReason, Outcomes
      <4>2. CASE ~graceKilled /\ idleKilled
        BY <1>10, <4>2 DEF onClose, Failing, SettleReason, Outcomes
      <4>3. CASE ~graceKilled /\ ~idleKilled
        <5>1. finalCode \in {"zero", "nonzero"}
          BY DEF finalCode
        <5> QED BY <1>10, <4>3, <5>1 DEF onClose, SettleReason, Outcomes
      <4> QED BY <4>1, <4>2, <4>3
    <3>2. /\ settled' = TRUE /\ armed' = {}
          /\ result'.outcome = o /\ result'.reason = r /\ result' # Unsettled
      BY <2>2, <3>1, DoneReports
    <3>3. child' = child /\ inGraceMode' = inGraceMode
      BY <1>10 DEF onClose, world, flags
    <3>4. KilledIsNotSuccess'
      BY <1>10, <3>1, <3>2, <3>3 DEF onClose, finalCode
    <3>5. /\ UNCHANGED <<timedOut, idleKilled, graceKilled, errorEvent>>
          /\ closeEvent' /\ child \notin {"running", "dying"}
      BY <1>10 DEF onClose, flags
    <3> QED BY <2>2, <3>2, <3>3, <3>4, <3>5
  <2> QED BY <2>1, <2>2
<1>11. CASE UNCHANGED vars BY <1>11 DEF vars, world, flags
<1> QED BY <1>1, <1>2, <1>3, <1>4, <1>5, <1>6, <1>7, <1>8, <1>9, <1>10, <1>11
        DEF Next

\* Only a timer kills, the grace timer belongs to a call that announced its
\* completion, and the answer comes with one of the two last events: from then
\* on no timer is armed and the child is gone.
THEOREM Inductive == Spec => []IndInv
BY IndInit, IndStep, TypeCorrect, PTL DEF Spec

-----------------------------------------------------------------------------
(* Calls, one after the other *)

\* exec is started anew.
LEMMA SpawnsOK == Spawns => TypeOK' /\ IndInv'
<1> SUFFICES ASSUME Spawns PROVE TypeOK' /\ IndInv'
  OBVIOUS
<1>1. opts' \in Options
  <2>1. resolveTimeoutPolicy \in Options BY DEF resolveTimeoutPolicy, Options
  <2>2. opts' \in Calls \/ opts' = resolveTimeoutPolicy BY DEF Spawns
  <2> QED BY <2>1, <2>2, CallsAssumption
<1>2. armed' \subseteq Timers /\ "grace" \notin armed' BY DEF Spawns, Timers
<1>3. result'.outcome # "zero" /\ result' = Unsettled BY DEF Spawns, Unsettled
<1> QED BY <1>1, <1>2, <1>3
        DEF Spawns, TypeOK, IndInv, Children, NoTimerAfterSettle, KilledIsNotSuccess

\* What a step of a call does to exec.
LEMMA CallSteps ==
  ASSUME CallNext PROVE Spawns \/ Next \/ UNCHANGED vars
BY DEF CallNext, CallsRunner, CallsExec, RecordsStart, Prepares, Runs, runExec,
       runCommand, runSlashCommand, writeRunLog, runReviewWithRetry,
       runDiagnosisConsult, draftWithJsonRetry, runPlanningDecision, Exited,
       RecordsSettle

LEMMA ControlledStep ==
  TypeOK /\ IndInv /\ [CallNext]_all => TypeOK' /\ IndInv'
<1> SUFFICES ASSUME TypeOK, IndInv, [CallNext]_all PROVE TypeOK' /\ IndInv'
  OBVIOUS
<1>1. CASE Spawns BY <1>1, SpawnsOK
<1>2. CASE [Next]_vars BY <1>2, TypeStep, IndStep
<1> QED BY <1>1, <1>2, CallSteps DEF all

LEMMA ControlledStart == ControlledInit => TypeOK /\ IndInv
<1> SUFFICES ASSUME ControlledInit PROVE TypeOK /\ IndInv
  OBVIOUS
<1>1. opts \in Options BY DEF ControlledInit, resolveTimeoutPolicy, Options
<1>2. result \in [reason : SettleReason, outcome : Outcomes] /\ result # Unsettled
  BY DEF ControlledInit, SettleReason, Outcomes, Unsettled
<1> QED BY <1>1, <1>2
        DEF ControlledInit, TypeOK, IndInv, Children, Endings, NoTimerAfterSettle,
            KilledIsNotSuccess

\* What holds of one call of exec holds of a sequence of them.
THEOREM ControlledInductive == ControlledSpec => [](TypeOK /\ IndInv)
BY ControlledStart, ControlledStep, PTL DEF ControlledSpec

\* A child that a timer killed counts as a success only if it had announced its
\* completion.
THEOREM KillsAreNotSuccesses == ControlledSpec => []KilledIsNotSuccess
<1>1. IndInv => KilledIsNotSuccess BY DEF IndInv
<1> QED BY <1>1, ControlledInductive, PTL

\* The caller is answered once: no timer is left and no later event changes the
\* answer, until another call is made.
THEOREM AnsweredOnce == ControlledSpec => SettledOnce
<1> DEFINE Once == settled => armed = {} /\ (settled' => UNCHANGED result)
<1>1. IndInv /\ settled => armed = {} BY DEF IndInv, NoTimerAfterSettle
<1>2. Next /\ settled => UNCHANGED result
  BY DEF Next, Ends, Dies, Forks, DescendantEnds, onData, WallFires, IdleFires,
         GraceFires, Fires, onError, onClose, done
<1>3. Spawns => ~settled' BY DEF Spawns
<1>4. IndInv /\ [CallNext]_all => [Once]_vars
  BY <1>1, <1>2, <1>3, CallSteps DEF all
<1> QED BY <1>4, ControlledInductive, PTL DEF ControlledSpec, SettledOnce

\* A run that announced its completion is not killed for being idle.
THEOREM CompletionIsNotIdle == ControlledSpec => AnnouncedNotIdle
<1> DEFINE Spared == inGraceMode /\ idleKilled' => idleKilled
<1>1. IndInv /\ inGraceMode => "idle" \notin armed BY DEF IndInv
<1>2. Next /\ "idle" \notin armed /\ idleKilled' => idleKilled
  BY DEF Next, Ends, Dies, Forks, DescendantEnds, onData, WallFires, IdleFires,
         GraceFires, Fires, onError, onClose, flags
<1>3. Spawns => idleKilled' = FALSE BY DEF Spawns
<1>4. TypeOK /\ IndInv /\ [CallNext]_all => [Spared]_vars
  BY <1>1, <1>2, <1>3, CallSteps DEF all
<1> QED BY <1>4, ControlledInductive, PTL DEF ControlledSpec, AnnouncedNotIdle

-----------------------------------------------------------------------------
(* What the log says of a call *)

EventSet == EventsOfCalls \X Nat \X (SettleReason \cup {"none"})

LEMMA Starts ==
  ASSUME log \in Seq(EventSet)
  PROVE  IsFiniteSet(StartsOf(log)) /\ Counted \in Nat
<1>1. IsFiniteSet(1 .. Len(log)) BY FS_Interval
<1>2. StartsOf(log) \in SUBSET (1 .. Len(log)) BY DEF StartsOf
<1> QED BY <1>1, <1>2, FS_Subset, FS_CardinalityType DEF Counted

\* A start raises the count, an end does not.
LEMMA Appending ==
  ASSUME log \in Seq(EventSet), NEW e \in EventSet, log' = Append(log, e)
  PROVE  /\ log' \in Seq(EventSet)
         /\ DOMAIN log' = DOMAIN log \cup {Len(log) + 1}
         /\ \A i \in DOMAIN log : log'[i] = log[i] /\ i < Len(log) + 1
         /\ log'[Len(log) + 1] = e /\ Len(log) + 1 \notin DOMAIN log
         /\ e[1] = "runner.started" => Counted' = Counted + 1
         /\ e[1] = "runner.settle" => Counted' = Counted
<1> DEFINE m == Len(log) + 1
<1>1. log' \in Seq(EventSet) OBVIOUS
<1>2. DOMAIN log' = DOMAIN log \cup {m} OBVIOUS
<1>3. \A i \in DOMAIN log : log'[i] = log[i] /\ i < m OBVIOUS
<1>4. log'[m] = e /\ m \notin DOMAIN log OBVIOUS
<1>5. CASE e[1] = "runner.started"
  <2>1. StartsOf(log') = StartsOf(log) \cup {m}
    BY <1>2, <1>3, <1>4, <1>5 DEF StartsOf
  <2>2. m \notin StartsOf(log) BY <1>4 DEF StartsOf
  <2>3. Cardinality(StartsOf(log) \cup {m}) = Cardinality(StartsOf(log)) + 1
    BY <2>2, Starts, FS_AddElement
  <2>4. Counted' = Counted + 1 BY <2>1, <2>3 DEF Counted
  <2> QED BY <1>1, <1>2, <1>3, <1>4, <1>5, <2>4
<1>6. CASE e[1] = "runner.settle"
  <2>1. StartsOf(log') = StartsOf(log)
    BY <1>2, <1>3, <1>4, <1>6 DEF StartsOf
  <2>2. Counted' = Counted BY <2>1 DEF Counted
  <2> QED BY <1>1, <1>2, <1>3, <1>4, <1>6, <2>2
<1>7. CASE e[1] \notin {"runner.started", "runner.settle"}
  BY <1>1, <1>2, <1>3, <1>4, <1>7
<1> QED BY <1>5, <1>6, <1>7

\* The ids of the log stand in order: a start, then at most one end.
Ordered ==
  \A i, j \in DOMAIN log : i < j /\ log[i][2] = log[j][2] =>
    log[i][1] = "runner.started" /\ log[j][1] = "runner.settle"

LEMMA StartAppended ==
  ASSUME log \in Seq(EventSet), Ordered, \A i \in DOMAIN log : log[i][2] <= Counted,
         log' = Append(log, <<"runner.started", Counted + 1, "none">>)
  PROVE  /\ log' \in Seq(EventSet) /\ Ordered' /\ Counted' = Counted + 1
         /\ \A i \in DOMAIN log' : log'[i][2] <= Counted'
         /\ \A i \in DOMAIN log' :
              log'[i][2] = Counted + 1 => log'[i][1] = "runner.started"
<1> DEFINE m == Len(log) + 1
           e == <<"runner.started", Counted + 1, "none">>
<1>0. Counted \in Nat BY Starts
<1>1. e \in EventSet BY <1>0 DEF EventSet, EventsOfCalls
<1>2. /\ log' \in Seq(EventSet) /\ DOMAIN log' = DOMAIN log \cup {m}
      /\ \A i \in DOMAIN log : log'[i] = log[i] /\ i < m
      /\ log'[m] = e /\ m \notin DOMAIN log
      /\ Counted' = Counted + 1
  BY <1>1, Appending
<1>3. \A i \in DOMAIN log : log[i][2] \in Nat /\ i \in Nat BY DEF EventSet
<1>4. Ordered'
  <2> SUFFICES ASSUME NEW i \in DOMAIN log', NEW j \in DOMAIN log', i < j,
                      log'[i][2] = log'[j][2]
               PROVE  log'[i][1] = "runner.started" /\ log'[j][1] = "runner.settle"
    BY DEF Ordered
  <2>1. CASE j = m
    <3>1. i \in DOMAIN log BY <1>2, <2>1
    <3>2. log[i][2] = Counted + 1 BY <1>2, <2>1, <3>1
    <3> QED BY <1>0, <1>3, <3>1, <3>2
  <2>2. CASE j # m
    <3>1. j \in DOMAIN log /\ i \in DOMAIN log BY <1>2, <1>3, <2>2
    <3> QED BY <1>2, <3>1 DEF Ordered
  <2> QED BY <2>1, <2>2
<1>5. ASSUME NEW i \in DOMAIN log'
      PROVE  /\ log'[i][2] <= Counted'
             /\ log'[i][2] = Counted + 1 => log'[i][1] = "runner.started"
  <2>1. CASE i = m BY <1>0, <1>2, <2>1
  <2>2. CASE i # m
    <3>1. i \in DOMAIN log /\ log'[i] = log[i] BY <1>2, <2>2
    <3>2. log[i][2] <= Counted /\ log[i][2] \in Nat BY <1>3, <3>1
    <3> QED BY <1>0, <1>2, <3>1, <3>2
  <2> QED BY <2>1, <2>2
<1> QED BY <1>2, <1>4, <1>5

LEMMA EndAppended ==
  ASSUME log \in Seq(EventSet), Ordered, NEW id \in Nat, Opened(id), id <= Counted,
         \A i \in DOMAIN log : log[i][2] <= Counted,
         NEW reason \in SettleReason, log' = Append(log, <<"runner.settle", id, reason>>)
  PROVE  /\ log' \in Seq(EventSet) /\ Ordered' /\ Counted' = Counted
         /\ \A i \in DOMAIN log' : log'[i][2] <= Counted'
         /\ \E i \in DOMAIN log' : log'[i] = <<"runner.settle", id, reason>>
<1> DEFINE m == Len(log) + 1
           e == <<"runner.settle", id, reason>>
<1>1. e \in EventSet BY DEF EventSet, EventsOfCalls
<1>2. /\ log' \in Seq(EventSet) /\ DOMAIN log' = DOMAIN log \cup {m}
      /\ \A i \in DOMAIN log : log'[i] = log[i] /\ i < m
      /\ log'[m] = e /\ m \notin DOMAIN log
      /\ Counted' = Counted
  BY <1>1, Appending
<1>3. \A i \in DOMAIN log : i \in Nat OBVIOUS
<1>4. Ordered'
  <2> SUFFICES ASSUME NEW i \in DOMAIN log', NEW j \in DOMAIN log', i < j,
                      log'[i][2] = log'[j][2]
               PROVE  log'[i][1] = "runner.started" /\ log'[j][1] = "runner.settle"
    BY DEF Ordered
  <2>1. CASE j = m
    <3>1. i \in DOMAIN log BY <1>2, <2>1
    <3>2. log[i][2] = id BY <1>2, <2>1, <3>1
    <3> QED BY <1>2, <2>1, <3>1, <3>2 DEF Opened
  <2>2. CASE j # m
    <3>1. j \in DOMAIN log /\ i \in DOMAIN log BY <1>2, <1>3, <2>2
    <3> QED BY <1>2, <3>1 DEF Ordered
  <2> QED BY <2>1, <2>2
<1>5. \A i \in DOMAIN log' : log'[i][2] <= Counted' BY <1>2
<1>6. \E i \in DOMAIN log' : log'[i] = e BY <1>2
<1> QED BY <1>2, <1>4, <1>5, <1>6


-----------------------------------------------------------------------------
(* Every call is told *)

\* What a step that writes nothing to the log leaves as it was.
LEMMA Untold ==
  ASSUME UNCHANGED log
  PROVE  Counted' = Counted /\ (Ordered' <=> Ordered)
BY DEF Counted, StartsOf, Ordered

\* A settled call of exec stays as it is.
LEMMA SettledStays ==
  ASSUME Next, settled PROVE settled' /\ UNCHANGED result
BY DEF Next, Ends, Dies, Forks, DescendantEnds, onData, WallFires, IdleFires,
       GraceFires, Fires, onError, onClose, done

LEMMA CallStart == ControlledInit => CallTypeOK /\ CallInv
<1> SUFFICES ASSUME ControlledInit PROVE CallTypeOK /\ CallInv
  OBVIOUS
<1>1. log = << >> /\ log \in Seq(EventSet) /\ DOMAIN log = {}
  BY DEF ControlledInit
<1>2. CallTypeOK
  BY <1>1 DEF CallTypeOK, ControlledInit, EventSet, Site, Plain, Steps, Answers
<1>3. IdsAreCounted /\ CapturedIsLast /\ CallsAreTold
  BY <1>1 DEF IdsAreCounted, CapturedIsLast, CallsAreTold, ControlledInit, Plain
<1> QED BY <1>2, <1>3 DEF CallInv

\* The steps that write no event.
LEMMA QuietSteps ==
  ASSUME TypeOK, IndInv, TypeOK', IndInv', CallTypeOK, CallInv, UNCHANGED log,
         \/ \E s \in Site : CallsRunner(s)
         \/ CallsExec \/ Prepares \/ Spawns \/ Runs
         \/ runExec \/ runCommand \/ runSlashCommand \/ writeRunLog
         \/ runReviewWithRetry \/ runDiagnosisConsult \/ draftWithJsonRetry
         \/ runPlanningDecision \/ UNCHANGED all
  PROVE  CallTypeOK' /\ CallInv'
<1> USE DEF CallTypeOK, Steps, Answers, CapturedIsLast
<1>u. Counted' = Counted /\ Counted \in Nat /\ Ordered /\ Ordered'
  BY Untold, Starts DEF EventSet, CallInv, CallsAreTold, Ordered
<1>i. /\ \A i \in DOMAIN log : log[i][2] <= Counted
      /\ \A i \in DOMAIN log' : log'[i][2] <= Counted'
  BY <1>u DEF CallInv, IdsAreCounted
<1>p. Plain \notin Site BY DEF Plain, Site, Commands, Asks
\* The parts of the invariant that say something of the call in hand.
<1> DEFINE Of == /\ step = "started" => callId = Counted + 1
                 /\ site # Plain /\ (\/ step \in {"prepare", "spawn", "exec"}
                                     \/ step = "settle" /\ captured # "none") =>
                      callId <= Counted /\ Opened(callId)
           Told == /\ step = "idle" /\ captured # "none"
                      /\ answer \in {"ok", "failed", "timeout"} =>
                        \E i \in DOMAIN log :
                          log[i] = <<"runner.settle", callId, result.reason>>
                   /\ answer = "timeout" => result.reason = "idle-timeout"
           Held == CallTypeOK /\ Of /\ CapturedIsLast /\ Told
<1>h. Held BY DEF CallInv, IdsAreCounted, CallsAreTold
<1>g. Held' => CallTypeOK' /\ CallInv'
  <2> SUFFICES ASSUME Held' PROVE CallTypeOK' /\ CallInv'
    OBVIOUS
  <2>1. CallTypeOK' /\ CapturedIsLast' OBVIOUS
  <2>2. IdsAreCounted' BY <1>i DEF IdsAreCounted
  <2>3. CallsAreTold' BY <1>u DEF CallsAreTold, Ordered
  <2> QED BY <2>1, <2>2, <2>3 DEF CallInv
<1>1. ASSUME NEW s \in Site, CallsRunner(s) PROVE Held'
  <2>1. CASE step' = "started"
    <3>1. callId' = Counted + 1 /\ answer' = "none" /\ captured' = "none"
      BY <1>1, <2>1 DEF CallsRunner, nextCallId, Counted
    <3>2. site' = s /\ s # Plain /\ step = "idle" /\ UNCHANGED <<settled, result>>
          /\ tries' = 0 /\ faults' = faults
      BY <1>1, <1>p, <2>1 DEF CallsRunner, Fine, vars
    <3> QED BY <1>h, <1>u, <2>1, <3>1, <3>2
  <2>2. CASE step' # "started"
    <3>1. /\ step' = "idle" /\ callId' = 0 /\ answer' = "error" /\ captured' = "none"
          /\ faults' = faults + 1
      BY <1>1, <2>2 DEF CallsRunner, Fault
    <3>2. site' = s /\ s # Plain /\ step = "idle" /\ UNCHANGED <<settled, result>>
          /\ tries' = 0
      BY <1>1, <1>p DEF CallsRunner, vars
    <3> QED BY <1>h, <1>u, <3>1, <3>2
  <2> QED BY <2>1, <2>2
<1>2. ASSUME CallsExec PROVE Held'
  <2>1. /\ step' = "spawn" /\ callId' = 0 /\ answer' = "none" /\ captured' = "none"
        /\ site' = Plain /\ tries' = 0 /\ faults' = faults /\ step = "idle"
        /\ UNCHANGED <<settled, result>>
    BY <1>2 DEF CallsExec, vars
  <2> QED BY <1>h, <2>1
<1>3. ASSUME Prepares PROVE Held'
  <2>1. /\ step = "prepare" /\ UNCHANGED <<settled, result, call, tries, captured>>
        /\ \/ step' = "spawn" /\ UNCHANGED answer
           \/ step' = "settle" /\ answer' \in {"failed", "error"}
    BY <1>3 DEF Prepares, vars
  <2>2. faults' \in Nat BY <1>3 DEF Prepares, Fine, Fault
  <2>3. site # Plain BY <1>h, <2>1
  <2> QED BY <1>h, <1>u, <2>1, <2>2, <2>3 DEF call, Opened
<1>4. ASSUME Spawns PROVE Held'
  <2>1. /\ step = "spawn" /\ step' = "exec" /\ settled' = FALSE /\ settled
        /\ tries' \in Nat /\ UNCHANGED <<call, captured, answer, faults>>
    BY <1>4, <1>h DEF Spawns
  <2> QED BY <1>h, <1>u, <2>1 DEF call, Opened
<1>5. ASSUME Runs PROVE Held'
  <2>1. Next /\ capture /\ UNCHANGED <<call, step, tries, answer, faults>>
    BY <1>5 DEF Runs
  <2>2. CASE settled
    <3>1. settled' /\ UNCHANGED <<result, captured>>
      BY <2>1, <2>2, SettledStays DEF capture
    <3> QED BY <1>h, <1>u, <2>1, <2>2, <3>1 DEF call, Opened
  <2>3. CASE ~settled /\ settled' /\ site # Plain
    <3>1. captured' = result'.reason /\ captured' \in SettleReason
      BY <2>1, <2>3 DEF capture, TypeOK, IndInv
    <3>2. step = "exec" BY <1>h, <2>3
    <3> QED BY <1>h, <1>u, <2>1, <2>3, <3>1, <3>2 DEF call, Opened
  <2>4. CASE ~settled /\ ~(settled' /\ site # Plain)
    <3>1. UNCHANGED captured BY <2>1, <2>4 DEF capture
    <3>2. step = "exec" BY <1>h, <2>4
    <3> QED BY <1>h, <1>u, <2>1, <2>4, <3>1, <3>2 DEF call, Opened
  <2> QED BY <2>2, <2>3, <2>4
<1>6. ASSUME runExec PROVE Held'
  <2>1. /\ step = "exec" /\ step' = "idle" /\ settled /\ site = Plain
        /\ UNCHANGED <<settled, result, call, captured, tries, faults>>
        /\ answer' \in {"error", "ok", "failed"}
    BY <1>6 DEF runExec, Exited, Fine, vars
  <2> QED BY <1>h, <2>1 DEF call
\* A runner's return, with an answer or for another command.
<1>7. ASSUME runCommand \/ runSlashCommand \/ writeRunLog \/ runReviewWithRetry
             \/ runDiagnosisConsult \/ draftWithJsonRetry \/ runPlanningDecision
      PROVE  Held'
  <2>1. /\ step = "exec" /\ settled /\ site \in Site
        /\ UNCHANGED <<settled, result, call, captured>>
    BY <1>7 DEF runCommand, runSlashCommand, writeRunLog, runReviewWithRetry,
         runDiagnosisConsult, draftWithJsonRetry, runPlanningDecision, Exited, vars,
         Site, Commands, Asks
  <2>2. UNCHANGED tries /\ faults' \in Nat
    BY <1>7 DEF runCommand, runSlashCommand, writeRunLog, runReviewWithRetry,
         runDiagnosisConsult, draftWithJsonRetry, runPlanningDecision, Returns, Again,
         Fine, Fault
  <2>3. \/ step' = "settle" /\ answer' \in {"ok", "failed", "error"}
        \/ step' = "spawn" /\ UNCHANGED answer
    BY <1>7 DEF runCommand, runSlashCommand, writeRunLog, runReviewWithRetry,
         runDiagnosisConsult, draftWithJsonRetry, runPlanningDecision, Returns, Again
  <2>4. site # Plain BY <1>p, <2>1
  <2> QED BY <1>h, <1>u, <2>1, <2>2, <2>3, <2>4 DEF call, Opened
<1>8. ASSUME UNCHANGED all PROVE Held'
  <2>1. UNCHANGED <<settled, result, call, step, tries, captured, answer, faults>>
    BY <1>8 DEF all, vars, wrapper
  <2> QED BY <1>h, <1>u, <2>1 DEF call, Opened
<1> QED BY <1>g, <1>1, <1>2, <1>3, <1>4, <1>5, <1>6, <1>7, <1>8

LEMMA StartTold ==
  ASSUME TypeOK, IndInv, CallTypeOK, CallInv, RecordsStart
  PROVE  CallTypeOK' /\ CallInv'
<1> DEFINE e == <<"runner.started", Counted + 1, "none">>
<1>1. /\ step = "started" /\ callId = Counted + 1 /\ captured = "none"
      /\ answer = "none" /\ settled /\ site # Plain
      /\ UNCHANGED <<site, callId, calls, tries, captured, settled, result>>
  BY DEF RecordsStart, CallInv, IdsAreCounted, CapturedIsLast, call, vars
<1>2. log \in Seq(EventSet) BY DEF CallTypeOK, EventSet
<1>3. Counted \in Nat BY <1>2, Starts
<1>4. log' = log \/ log' = Append(log, e)
  BY <1>1 DEF RecordsStart, Appends
<1>5. faults' \in Nat /\ (step' = "prepare" => log' = Append(log, e))
  BY <1>1 DEF RecordsStart, Appends, Appended, Fine, Fault, CallTypeOK
<1>6. \/ step' = "prepare" /\ answer' = "none"
      \/ step' = "settle" /\ answer' = "error"
  BY DEF RecordsStart
<1>7. Ordered /\ \A i \in DOMAIN log : log[i][2] <= Counted
  BY DEF CallInv, CallsAreTold, IdsAreCounted, Ordered
<1>8. /\ log' \in Seq(EventSet) /\ Ordered'
      /\ \A i \in DOMAIN log' : log'[i][2] <= Counted'
  BY <1>2, <1>4, <1>7, StartAppended, Untold
<1>9. step' = "prepare" => callId' <= Counted' /\ Opened(callId)'
  BY <1>1, <1>2, <1>3, <1>5, <1>7, StartAppended DEF Opened
<1>10. CallTypeOK'
  BY <1>1, <1>5, <1>6, <1>8 DEF CallTypeOK, EventSet, Steps, Answers
<1>11. IdsAreCounted' BY <1>1, <1>6, <1>8, <1>9 DEF IdsAreCounted
<1>12. CapturedIsLast' BY <1>1, <1>6 DEF CapturedIsLast
<1>13. CallsAreTold' BY <1>1, <1>6, <1>8 DEF CallsAreTold, Ordered
<1> QED BY <1>10, <1>11, <1>12, <1>13 DEF CallInv

LEMMA SettleTold ==
  ASSUME TypeOK, IndInv, CallTypeOK, CallInv, RecordsSettle
  PROVE  CallTypeOK' /\ CallInv'
<1> DEFINE e == <<"runner.settle", callId, captured>>
<1>1. /\ step = "settle" /\ step' = "idle" /\ settled /\ site # Plain
      /\ answer \in {"ok", "failed", "error"}
      /\ UNCHANGED <<site, callId, calls, tries, captured, settled, result>>
  BY DEF RecordsSettle, CallInv, CapturedIsLast, call, vars
<1>2. log \in Seq(EventSet) BY DEF CallTypeOK, EventSet
<1>3. /\ faults' \in Nat
      /\ log' = log \/ (captured # "none" /\ log' = Append(log, e))
      /\ captured # "none" /\ faults' = faults => log' = Append(log, e)
  BY DEF RecordsSettle, Appends, Fine, Fault, CallTypeOK
<1>4. /\ answer' \in {"ok", "failed", "error", "timeout"}
      /\ answer' # "error" => faults' = faults
      /\ answer' = "timeout" => captured = "idle-timeout"
  BY <1>1 DEF RecordsSettle, Appended
<1>5. Ordered /\ \A i \in DOMAIN log : log[i][2] <= Counted
  BY DEF CallInv, CallsAreTold, IdsAreCounted, Ordered
<1>6. captured # "none" =>
        /\ callId <= Counted /\ Opened(callId) /\ callId \in Nat
        /\ captured = result.reason /\ captured \in SettleReason
  BY <1>1 DEF CallInv, IdsAreCounted, CapturedIsLast, CallTypeOK
<1>7. ASSUME log' = Append(log, e), captured # "none"
      PROVE  /\ log' \in Seq(EventSet) /\ Ordered'
             /\ \A i \in DOMAIN log' : log'[i][2] <= Counted'
             /\ \E i \in DOMAIN log' : log'[i] = <<"runner.settle", callId, result.reason>>
  BY <1>2, <1>5, <1>6, <1>7, EndAppended
<1>8. /\ log' \in Seq(EventSet) /\ Ordered'
      /\ \A i \in DOMAIN log' : log'[i][2] <= Counted'
  BY <1>2, <1>3, <1>5, <1>7, Untold
<1>9. CallTypeOK'
  BY <1>1, <1>3, <1>4, <1>8 DEF CallTypeOK, EventSet, Steps, Answers
<1>10. IdsAreCounted' BY <1>1, <1>8 DEF IdsAreCounted
<1>11. CapturedIsLast'
  BY <1>1 DEF CapturedIsLast, CallInv
<1>12. CallsAreTold'
  BY <1>1, <1>3, <1>4, <1>6, <1>7, <1>8 DEF CallsAreTold, Ordered
<1> QED BY <1>9, <1>10, <1>11, <1>12 DEF CallInv

\* Every step of a call keeps the log in order.
LEMMA CallStep ==
  ASSUME TypeOK, IndInv, TypeOK', IndInv', CallTypeOK, CallInv, [CallNext]_all
  PROVE  CallTypeOK' /\ CallInv'
<1>1. CASE RecordsStart BY <1>1, StartTold
<1>2. CASE RecordsSettle BY <1>2, SettleTold
<1>3. CASE ~RecordsStart /\ ~RecordsSettle
  <2>1. UNCHANGED log
    BY <1>3 DEF CallNext, CallsRunner, CallsExec, Prepares, Spawns, Runs, runExec,
         runCommand, runSlashCommand, writeRunLog, runReviewWithRetry,
         runDiagnosisConsult, draftWithJsonRetry, runPlanningDecision, Exited, all,
         wrapper
  <2> QED BY <1>3, <2>1, QuietSteps DEF CallNext
<1> QED BY <1>1, <1>2, <1>3

\* The log tells every call apart and tells how it ended: an id has one start and
\* at most one end after it; a call that got its answer left the reason of its
\* last command; and only a call that was killed for being idle is a timeout.
THEOREM CallsTold == ControlledSpec => []CallsAreTold
<1>1. ControlledInit => CallTypeOK /\ CallInv BY CallStart
<1>2. /\ TypeOK /\ IndInv /\ (TypeOK /\ IndInv)' /\ CallTypeOK /\ CallInv
      /\ [CallNext]_all
      => (CallTypeOK /\ CallInv)'
  BY CallStep
<1>3. CallInv => CallsAreTold BY DEF CallInv
<1> QED BY <1>1, <1>2, <1>3, ControlledInductive, PTL DEF ControlledSpec
=============================================================================
