------------------------ MODULE ApplyRefinementProofs ------------------------
(***************************************************************************)
(* Proofs about ApplyRefinement, for every set of files and every number   *)
(* of passes, failures and crashes.                                        *)
(***************************************************************************)
EXTENDS ApplyRefinement, TLAPS

USE DEF Absent, Cut, IsTorn, Passes, Contents, Layers, Works, Fault, git, batch

\* A running pass writes events.
LEMMA EventIsTyped ==
  ASSUME TypeOK, pc # "idle", NEW type \in Kinds
  PROVE  Event(type) \in Events
BY DEF TypeOK, Event, Events

\* An append adds one event, or fails and ends the pass.
LEMMA AppendIsTyped ==
  ASSUME TypeOK, NEW event \in Events, NEW next, Append(event, next)
  PROVE  /\ log' \subseteq Events /\ faults' \in Nat /\ crashes' \in Nat
         /\ pc' \in {next, "idle"}
BY DEF Append, TypeOK

\* A part of a content is a content.
LEMMA TornIsTyped ==
  ASSUME NEW content \in Contents, NEW half \in Torn(content)
  PROVE  half \in Contents /\ half \subseteq content \cup {Cut} /\ IsTorn(half)
<1>1. PICK part \in SUBSET content : half = {Cut} \cup part BY DEF Torn
<1>2. Cut \in -1 .. MaxPasses BY PassesAssumption
<1> QED BY <1>1, <1>2

\* The variables keep their types.
THEOREM TypeCorrect == Spec => []TypeOK
<1> USE PassesAssumption
<1>1. Init => TypeOK
  BY SMT DEF Init, TypeOK
<1>2. TypeOK /\ [Next]_vars => TypeOK'
  <2> SUFFICES ASSUME TypeOK, [Next]_vars PROVE TypeOK'
    OBVIOUS
  <2> USE DEF TypeOK
  <2>1. CASE Skips
    <3>1. PICK type \in {"apply-skipped", "apply-summary"} :
            Append([type |-> type, pass |-> pass + 1, files |-> {}], "idle")
      BY <2>1 DEF Skips
    <3>2. [type |-> type, pass |-> pass + 1, files |-> {}] \in Events
      BY <2>1 DEF Skips, Begins, Events, Kinds
    <3>3. log' \subseteq Events /\ faults' \in Nat /\ crashes' \in Nat /\ pc' = "idle"
      BY <3>1, <3>2, AppendIsTyped
    <3> QED BY <2>1, <3>3 DEF Skips, Begins
  <2>2. CASE Reads BY <2>2 DEF Reads, Begins
  <2>3. ASSUME NEW f \in Files, Writes(f) PROVE TypeOK'
    BY <2>3 DEF Writes
  <2>4. ASSUME NEW f \in Files, WriteFails(f) PROVE TypeOK'
    <3>1. original[f] \cup {pass} \in Contents BY <2>4 DEF WriteFails
    <3>2. \A half \in Torn(original[f] \cup {pass}) : half \in Contents
      BY <3>1, TornIsTyped
    <3>3. tree' \in Layers BY <2>4, <3>2 DEF WriteFails
    <3> QED BY <2>4, <3>3 DEF WriteFails
  <2>5. CASE Adds BY <2>5 DEF Adds
  <2>6. CASE Commits BY <2>6 DEF Commits
  <2>7. ASSUME NEW f \in Files, Restores(f) PROVE TypeOK'
    BY <2>7 DEF Restores
  <2>8. ASSUME NEW f \in Files, RestoreFails(f) PROVE TypeOK'
    <3>1. Event("run.stopped") \in Events
      BY <2>8, EventIsTyped DEF RestoreFails, Kinds
    <3>2. original[f] \in Contents OBVIOUS
    <3>3. \A half \in Torn(original[f]) : half \in Contents BY <3>2, TornIsTyped
    <3>4. tree' \in Layers BY <2>8, <3>3 DEF RestoreFails
    <3> QED BY <2>8, <3>1, <3>4 DEF RestoreFails
  <2>9. CASE ReportsFailure
    <3>1. Event("apply-failed") \in Events
      BY <2>9, EventIsTyped DEF ReportsFailure, Kinds
    <3>2. /\ log' \subseteq Events /\ faults' \in Nat /\ crashes' \in Nat
          /\ pc' \in {"idle", "triage", "summary"}
      BY <2>9, <3>1, AppendIsTyped DEF ReportsFailure
    <3> QED BY <2>9, <3>2 DEF ReportsFailure
  <2>10. CASE RecordsEdits
    <3>1. Event("edit-applied") \in Events
      BY <2>10, EventIsTyped DEF RecordsEdits, Kinds
    <3>2. /\ log' \subseteq Events /\ faults' \in Nat /\ crashes' \in Nat
          /\ pc' \in {"idle", "triage", "summary"}
      BY <2>10, <3>1, AppendIsTyped DEF RecordsEdits
    <3> QED BY <2>10, <3>2 DEF RecordsEdits
  <2>11. CASE RecordsTriage
    <3>1. Event("triage") \in Events
      BY <2>11, EventIsTyped DEF RecordsTriage, Kinds
    <3>2. /\ log' \subseteq Events /\ faults' \in Nat /\ crashes' \in Nat
          /\ pc' \in {"idle", "triage", "summary"}
      BY <2>11, <3>1, AppendIsTyped DEF RecordsTriage
    <3> QED BY <2>11, <3>2 DEF RecordsTriage
  <2>12. CASE Summarises
    <3>1. Event("apply-summary") \in Events
      BY <2>12, EventIsTyped DEF Summarises, Kinds
    <3>2. /\ log' \subseteq Events /\ faults' \in Nat /\ crashes' \in Nat
          /\ pc' \in {"idle", "triage", "summary"}
      BY <2>12, <3>1, AppendIsTyped DEF Summarises
    <3> QED BY <2>12, <3>2 DEF Summarises
  <2>13. CASE Crash
    <3>1. \A f \in Files : /\ original[f] \in Contents
                           /\ original[f] \cup {pass} \in Contents
      BY <2>13 DEF Crash
    <3>2. \A f \in Files :
            /\ \A half \in Torn(original[f]) : half \in Contents
            /\ \A half \in Torn(original[f] \cup {pass}) : half \in Contents
      BY <3>1, TornIsTyped
    <3>3. \/ tree' = tree
          \/ \E f \in Files : \E half \in Contents : tree' = [tree EXCEPT ![f] = half]
      BY <2>13, <3>2 DEF Crash
    <3>4. tree' \in Layers BY <3>3
    <3> QED BY <2>13, <3>4 DEF Crash
  <2>14. CASE UNCHANGED vars BY <2>14 DEF vars
  <2> QED BY <2>1, <2>2, <2>3, <2>4, <2>5, <2>6, <2>7, <2>8, <2>9, <2>10, <2>11,
             <2>12, <2>13, <2>14 DEF Next
<1> QED BY <1>1, <1>2, PTL DEF Spec
-----------------------------------------------------------------------------

\* A half-written file holds parts of what was there and of the pass's edit.
LEMMA Halves ==
  ASSUME TypeOK, pc # "idle", NEW f \in Files
  PROVE  /\ \A half \in Torn(original[f]) :
              half \in SUBSET (original[f] \cup {pass, Cut}) /\ Cut \in half
         /\ \A half \in Torn(original[f] \cup {pass}) :
              half \in SUBSET (original[f] \cup {pass, Cut}) /\ Cut \in half
<1>1. original[f] \in Contents /\ original[f] \cup {pass} \in Contents BY DEF TypeOK
<1> QED BY <1>1, TornIsTyped

\* A step leaves a file alone, or puts there, whole or torn, what the running pass
\* found in it and its own edit; and what a pass finds is what there is.
LEMMA StepTree ==
  ASSUME TypeOK, Next
  PROVE  /\ \A f \in Files :
              \/ tree'[f] = tree[f]
              \/ /\ pc # "idle"
                 /\ \A q \in tree'[f] : q \in original[f] \/ q = pass \/ q = Cut
                 /\ Cut \in original[f] => Cut \in tree'[f]
                 /\ Cut \in tree'[f] \/ original[f] \subseteq tree'[f]
         /\ \/ UNCHANGED <<original, pass>> /\ pc # "idle"
            \/ original' = tree /\ pass' = pass + 1 /\ pc = "idle" /\ tree' = tree
<1> USE DEF TypeOK
<1>1. CASE Skips BY <1>1 DEF Skips, Begins
<1>2. CASE Reads BY <1>2 DEF Reads, Begins
<1>3. ASSUME NEW f \in Files, Writes(f)
      PROVE  /\ UNCHANGED <<original, pass>> /\ pc # "idle"
             /\ tree' = [tree EXCEPT ![f] = original[f] \cup {pass}]
  BY <1>3 DEF Writes
<1>4. ASSUME NEW f \in Files, WriteFails(f)
      PROVE  /\ UNCHANGED <<original, pass>> /\ pc # "idle"
             /\ \/ tree' = tree
                \/ \E half \in SUBSET (original[f] \cup {pass, Cut}) :
                     Cut \in half /\ tree' = [tree EXCEPT ![f] = half]
  BY <1>4, Halves DEF WriteFails
<1>5. ASSUME NEW f \in Files, Restores(f)
      PROVE  /\ UNCHANGED <<original, pass>> /\ pc # "idle"
             /\ tree' = [tree EXCEPT ![f] = original[f]]
  BY <1>5 DEF Restores
<1>6. ASSUME NEW f \in Files, RestoreFails(f)
      PROVE  /\ UNCHANGED <<original, pass>> /\ pc # "idle"
             /\ \/ tree' = tree
                \/ \E half \in SUBSET (original[f] \cup {pass, Cut}) :
                     Cut \in half /\ tree' = [tree EXCEPT ![f] = half]
  BY <1>6, Halves DEF RestoreFails
<1>7. CASE Crash
  <2>1. /\ UNCHANGED <<original, pass>> /\ pc # "idle"
        /\ \/ tree' = tree
           \/ \E f \in Files : \E half \in SUBSET (original[f] \cup {pass, Cut}) :
                Cut \in half /\ tree' = [tree EXCEPT ![f] = half]
    BY <1>7, Halves DEF Crash
  <2> QED BY <2>1
<1>8. CASE Adds \/ Commits \/ ReportsFailure \/ RecordsEdits \/ RecordsTriage \/ Summarises
  BY <1>8 DEF Adds, Commits, ReportsFailure, RecordsEdits, RecordsTriage, Summarises
<1>9. ASSUME NEW f \in Files,
             Writes(f) \/ WriteFails(f) \/ Restores(f) \/ RestoreFails(f)
      PROVE  /\ UNCHANGED <<original, pass>> /\ pc # "idle"
             /\ \/ tree' = tree
                \/ \E content \in SUBSET (original[f] \cup {pass, Cut}) :
                     /\ Cut \in content \/ original[f] \subseteq content
                     /\ tree' = [tree EXCEPT ![f] = content]
  <2>1. CASE Writes(f)
    <3>1. original[f] \cup {pass} \in SUBSET (original[f] \cup {pass, Cut}) OBVIOUS
    <3> QED BY <2>1, <3>1, <1>3
  <2>2. CASE WriteFails(f) BY <2>2, <1>4
  <2>3. CASE Restores(f)
    <3>1. original[f] \in SUBSET (original[f] \cup {pass, Cut}) OBVIOUS
    <3> QED BY <2>3, <3>1, <1>5
  <2>4. CASE RestoreFails(f) BY <2>4, <1>6
  <2> QED BY <1>9, <2>1, <2>2, <2>3, <2>4
<1>10. ASSUME NEW f \in Files, NEW content \in SUBSET (original[f] \cup {pass, Cut}),
              Cut \in content \/ original[f] \subseteq content,
              tree' = [tree EXCEPT ![f] = content]
       PROVE  \A g \in Files :
                \/ tree'[g] = tree[g]
                \/ /\ \A q \in tree'[g] : q \in original[g] \/ q = pass \/ q = Cut
                   /\ Cut \in original[g] => Cut \in tree'[g]
                   /\ Cut \in tree'[g] \/ original[g] \subseteq tree'[g]
  BY <1>10
<1>11. ASSUME NEW f \in Files,
              Writes(f) \/ WriteFails(f) \/ Restores(f) \/ RestoreFails(f)
       PROVE  /\ UNCHANGED <<original, pass>> /\ pc # "idle"
              /\ \A g \in Files :
                   \/ tree'[g] = tree[g]
                   \/ /\ \A q \in tree'[g] : q \in original[g] \/ q = pass \/ q = Cut
                      /\ Cut \in original[g] => Cut \in tree'[g]
                      /\ Cut \in tree'[g] \/ original[g] \subseteq tree'[g]
  BY <1>9, <1>10, <1>11
<1>12. CASE \E f \in Files : Writes(f) \/ WriteFails(f) \/ Restores(f) \/ RestoreFails(f)
  BY <1>11, <1>12
<1> QED BY <1>1, <1>2, <1>7, <1>8, <1>12 DEF Next

\* What a pass overwrote holds its edit, the rest is as it was found, but for the
\* file whose write threw.
LEMMA StepStanding ==
  ASSUME TypeOK, IndInv, Next
  PROVE  Standing'
<1> USE DEF TypeOK, IndInv, Standing, NoneFromLater, Kept
<1>1. CASE Skips BY <1>1, PassesAssumption DEF Skips, Append, Begins, Event
<1>2. CASE Reads BY <1>2, PassesAssumption DEF Reads, Begins
<1>3. ASSUME NEW f \in Files, Writes(f) PROVE Standing'
  BY <1>3, PassesAssumption DEF Writes
<1>4. ASSUME NEW f \in Files, WriteFails(f) PROVE Standing'
  <2>1. \A half \in Torn(original[f] \cup {pass}) : Cut \in half
    BY <1>4, Halves DEF WriteFails
  <2>2. \A g \in Files : Kept(g) BY <1>4 DEF WriteFails
  <2>3. \A g \in Files \ {f} : Kept(g)' BY <1>4, <2>2 DEF WriteFails
  <2>4. Kept(f)' \/ (f \in changed \ written /\ IsTorn(tree'[f]))
    BY <1>4, <2>1, <2>2 DEF WriteFails
  <2>5. pc' = "rollback" /\ UNCHANGED <<batch, written>> /\ pc # "idle"
    BY <1>4 DEF WriteFails
  <2>6. \A g \in Files : pass' \notin original'[g] BY <2>5
  <2>7. \A g, h \in Files : Kept(g)' \/ Kept(h)' \/ g = h BY <2>3
  <2>8. \A g \in Files : Kept(g)' \/ (g \in changed' \ written' /\ IsTorn(tree'[g]))
    BY <2>3, <2>4, <2>5
  <2> HIDE DEF Kept
  <2> QED BY <2>5, <2>6, <2>7, <2>8
<1>5. CASE Adds BY <1>5, PassesAssumption DEF Adds
<1>6. CASE Commits BY <1>6, PassesAssumption DEF Commits
<1>7. ASSUME NEW f \in Files, Restores(f) PROVE Standing'
  BY <1>7, PassesAssumption DEF Restores
<1>8. ASSUME NEW f \in Files, RestoreFails(f) PROVE Standing'
  BY <1>8, PassesAssumption DEF RestoreFails, Event
<1>9. CASE ReportsFailure BY <1>9, PassesAssumption DEF ReportsFailure, Append, Event
<1>10. CASE RecordsEdits BY <1>10, PassesAssumption DEF RecordsEdits, Append, Event
<1>11. CASE RecordsTriage BY <1>11, PassesAssumption DEF RecordsTriage, Append, Event
<1>12. CASE Summarises BY <1>12, PassesAssumption DEF Summarises, Append, Event
<1>13. CASE Crash BY <1>13, PassesAssumption DEF Crash
<1> QED BY <1>1, <1>2, <1>3, <1>4, <1>5, <1>6, <1>7,
          <1>8, <1>9, <1>10, <1>11, <1>12, <1>13 DEF Next

\* No content comes from a pass that has not begun.
LEMMA StepNoneFromLater ==
  ASSUME TypeOK, IndInv, Next
  PROVE  NoneFromLater'
<1> USE DEF TypeOK, IndInv, Standing, NoneFromLater
<1>1. CASE Skips BY <1>1, PassesAssumption DEF Skips, Append, Begins, Event
<1>2. CASE Reads BY <1>2, PassesAssumption DEF Reads, Begins
<1>3. ASSUME NEW f \in Files, Writes(f) PROVE NoneFromLater'
  BY <1>3, PassesAssumption DEF Writes
<1>4. ASSUME NEW f \in Files, WriteFails(f) PROVE NoneFromLater'
  BY <1>4, StepTree, PassesAssumption DEF WriteFails
<1>5. CASE Adds BY <1>5, PassesAssumption DEF Adds
<1>6. CASE Commits BY <1>6, PassesAssumption DEF Commits
<1>7. ASSUME NEW f \in Files, Restores(f) PROVE NoneFromLater'
  BY <1>7, PassesAssumption DEF Restores
<1>8. ASSUME NEW f \in Files, RestoreFails(f) PROVE NoneFromLater'
  BY <1>8, StepTree, PassesAssumption DEF RestoreFails, Event
<1>9. CASE ReportsFailure BY <1>9, PassesAssumption DEF ReportsFailure, Append, Event
<1>10. CASE RecordsEdits BY <1>10, PassesAssumption DEF RecordsEdits, Append, Event
<1>11. CASE RecordsTriage BY <1>11, PassesAssumption DEF RecordsTriage, Append, Event
<1>12. CASE Summarises BY <1>12, PassesAssumption DEF Summarises, Append, Event
<1>13. CASE Crash BY <1>13, StepTree, PassesAssumption DEF Crash
<1> QED BY <1>1, <1>2, <1>3, <1>4, <1>5, <1>6, <1>7,
          <1>8, <1>9, <1>10, <1>11, <1>12, <1>13 DEF Next

\* What was committed and recorded stays in the checkout, the index and the last
\* commit: a later pass stages what it read, and that holds the edit.
LEMMA StepAppliedStays ==
  ASSUME TypeOK, IndInv, Next
  PROVE  AppliedStays'
<1> USE DEF TypeOK, IndInv, Standing, NoneFromLater, AppliedStays, Logged, Events
<1>1. CASE Skips BY <1>1, PassesAssumption DEF Skips, Append, Begins, Event
<1>2. CASE Reads BY <1>2, PassesAssumption DEF Reads, Begins
<1>3. ASSUME NEW f \in Files, Writes(f) PROVE AppliedStays'
  BY <1>3, PassesAssumption DEF Writes
<1>4. ASSUME NEW f \in Files, WriteFails(f) PROVE AppliedStays'
  BY <1>4, StepTree, PassesAssumption DEF WriteFails
<1>5. CASE Adds BY <1>5, PassesAssumption DEF Adds
<1>6. CASE Commits BY <1>6, PassesAssumption DEF Commits
<1>7. ASSUME NEW f \in Files, Restores(f) PROVE AppliedStays'
  BY <1>7, PassesAssumption DEF Restores
<1>8. ASSUME NEW f \in Files, RestoreFails(f) PROVE AppliedStays'
  BY <1>8, StepTree, PassesAssumption DEF RestoreFails, Event
<1>9. CASE ReportsFailure BY <1>9, PassesAssumption DEF ReportsFailure, Append, Event
<1>10. CASE RecordsEdits BY <1>10, PassesAssumption DEF RecordsEdits, Append, Event
<1>11. CASE RecordsTriage BY <1>11, PassesAssumption DEF RecordsTriage, Append, Event
<1>12. CASE Summarises BY <1>12, PassesAssumption DEF Summarises, Append, Event
<1>13. CASE Crash BY <1>13, StepTree, PassesAssumption DEF Crash
<1> QED BY <1>1, <1>2, <1>3, <1>4, <1>5, <1>6, <1>7,
          <1>8, <1>9, <1>10, <1>11, <1>12, <1>13 DEF Next

\* What was rolled back does not come back to the checkout; what the write that
\* threw left of it stays where it is.
LEMMA StepFailedStays ==
  ASSUME TypeOK, IndInv, Next
  PROVE  FailedStays'
<1>1. ASSUME NEW e \in Events, e.pass \in Passes, e.pass <= pass,
             pc # "idle" => e.pass < pass,
             \A f, g \in Files : Holds(e.pass, f) /\ Holds(e.pass, g) => f = g,
             \A f \in Files :
               /\ Holds(e.pass, f) => f \in e.files
               /\ e.pass \in tree[f] => IsTorn(tree[f])
               /\ pc # "idle" /\ e.pass \in original[f] => IsTorn(original[f])
      PROVE  /\ e.pass <= pass' /\ (pc' # "idle" => e.pass < pass')
             /\ \A f, g \in Files : Holds(e.pass, f)' /\ Holds(e.pass, g)' => f = g
             /\ \A f \in Files :
                  /\ Holds(e.pass, f)' => f \in e.files
                  /\ e.pass \in tree'[f] => IsTorn(tree'[f])
                  /\ pc' # "idle" /\ e.pass \in original'[f] => IsTorn(original'[f])
  <2> DEFINE q == e.pass
  <2>1. q # Cut BY <1>1, PassesAssumption
  <2>2. q <= pass' /\ (pc' # "idle" => q < pass')
    BY <1>1, StepTree, PassesAssumption DEF TypeOK
  <2>3. ASSUME NEW f \in Files, Holds(q, f)' PROVE Holds(q, f)
    BY <1>1, <2>1, <2>3, StepTree DEF Holds
  <2>4. ASSUME NEW f \in Files, q \in tree'[f] PROVE IsTorn(tree'[f])
    BY <1>1, <2>1, <2>4, StepTree
  <2>5. ASSUME NEW f \in Files, pc' # "idle", q \in original'[f] PROVE IsTorn(original'[f])
    BY <1>1, <2>5, StepTree
  <2> QED BY <1>1, <2>2, <2>3, <2>4, <2>5
<1>2. ASSUME NEW e \in log', e.type = "apply-failed", e \notin log
      PROVE  e = Event("apply-failed") /\ ReportsFailure /\ pc' = "idle"
  <2>1. CASE Skips
    BY <1>2, <2>1 DEF Skips, Append
  <2>2. CASE RecordsEdits \/ RecordsTriage \/ Summarises
    BY <1>2, <2>2 DEF RecordsEdits, RecordsTriage, Summarises, Append, Event
  <2>3. CASE \E f \in Files : RestoreFails(f)
    BY <1>2, <2>3 DEF RestoreFails, Event
  <2>4. CASE ReportsFailure
    BY <1>2, <2>4 DEF ReportsFailure, Append
  <2>5. CASE \/ Reads \/ Adds \/ Commits \/ Crash
             \/ \E f \in Files : Writes(f) \/ WriteFails(f) \/ Restores(f)
    <3>1. log' = log
      BY <2>5 DEF Reads, Adds, Commits, Crash, Writes, WriteFails, Restores
    <3> QED BY <1>2, <3>1
  <2> QED BY <2>1, <2>2, <2>3, <2>4, <2>5 DEF Next
<1>3. ASSUME NEW e, e = Event("apply-failed"), ReportsFailure, pc' = "idle"
      PROVE  /\ e.pass <= pass'
             /\ \A f, g \in Files : Holds(e.pass, f)' /\ Holds(e.pass, g)' => f = g
             /\ \A f \in Files :
                  /\ Holds(e.pass, f)' => f \in e.files
                  /\ e.pass \in tree'[f] => IsTorn(tree'[f])
  BY <1>3 DEF ReportsFailure, Event, Holds, IndInv, Standing, Kept, TypeOK
<1>4. log \subseteq Events BY DEF TypeOK
<1>5. ASSUME NEW e \in log', e.type = "apply-failed"
      PROVE  /\ e.pass <= pass' /\ (pc' # "idle" => e.pass < pass')
             /\ \A f, g \in Files : Holds(e.pass, f)' /\ Holds(e.pass, g)' => f = g
             /\ \A f \in Files :
                  /\ Holds(e.pass, f)' => f \in e.files
                  /\ e.pass \in tree'[f] => IsTorn(tree'[f])
                  /\ pc' # "idle" /\ e.pass \in original'[f] => IsTorn(original'[f])
  <2>1. CASE e \in log
    <3>1. e \in Events /\ e.pass \in Passes BY <1>4, <2>1 DEF Events
    <3> QED BY <1>1, <1>5, <2>1, <3>1 DEF IndInv, FailedStays, Logged
  <2>2. CASE e \notin log
    <3>1. e = Event("apply-failed") /\ ReportsFailure /\ pc' = "idle"
      BY <1>2, <1>5, <2>2
    <3>2. /\ e.pass <= pass'
          /\ \A f, g \in Files : Holds(e.pass, f)' /\ Holds(e.pass, g)' => f = g
          /\ \A f \in Files : /\ Holds(e.pass, f)' => f \in e.files
                              /\ e.pass \in tree'[f] => IsTorn(tree'[f])
      BY <1>3, <3>1
    <3> QED BY <3>1, <3>2
  <2> QED BY <2>1, <2>2
<1> QED BY <1>5 DEF FailedStays, Logged

\* The invariant: Standing says where the running pass is, and the other parts
\* what the layers owe to the passes before it.
THEOREM Inductive == Spec => []IndInv
<1>1. Init => IndInv
  BY SMT DEF Init, IndInv, Standing, NoneFromLater, AppliedStays, FailedStays, Logged
<1>2. TypeOK /\ IndInv /\ [Next]_vars => IndInv'
  <2>1. ASSUME TypeOK, IndInv, Next PROVE IndInv'
    BY <2>1, StepStanding, StepNoneFromLater, StepAppliedStays, StepFailedStays
       DEF IndInv
  <2>2. ASSUME IndInv, UNCHANGED vars PROVE IndInv'
    BY <2>2 DEF vars, IndInv, Standing, NoneFromLater, AppliedStays, FailedStays,
                Logged, Kept, Holds
  <2> QED BY <2>1, <2>2
<1> QED BY <1>1, <1>2, TypeCorrect, PTL DEF Spec

\* What the log calls applied is in the last commit, in every one of its files
\* that no write has cut short, for good.
THEOREM RecordsAreCommitted == Spec => []AppliedIsCommitted
<1>1. IndInv => AppliedIsCommitted
  BY DEF IndInv, AppliedStays, AppliedIsCommitted
<1> QED BY <1>1, Inductive, PTL

\* What the log calls failed is gone from the checkout for good, but for a part
\* of it in the one file whose write threw.
THEOREM FailuresAreUndone == Spec => []FailedIsUndone
<1>1. IndInv => FailedIsUndone
  BY DEF IndInv, FailedStays, FailedIsUndone, Holds, Traces, AtMostOne
<1> QED BY <1>1, Inductive, PTL

\* A roll-back restores what the pass found, but for the one file whose write
\* threw.
THEOREM RollbackRestores == Spec => []FoundIsRestored
<1>1. TypeOK /\ IndInv => FoundIsRestored
  BY DEF TypeOK, IndInv, Standing, Kept, AtMostOne, FoundIsRestored
<1> QED BY <1>1, TypeCorrect, Inductive, PTL
=============================================================================
