--------------------------- MODULE RetentionProofs ---------------------------
(***************************************************************************)
(* Proofs about Retention, for every set of tickets, every policy and any  *)
(* number of runs, days, failures and deaths.                              *)
(***************************************************************************)
EXTENDS Retention, FiniteSetTheorems, TLAPS

USE PolicyAssumption, BoundsAssumption
USE DEF Runs, Days, Pointers, Fault, disk, git, pass, counters, told

\* Runs that were opened are runs.
LEMMA OpenedAreRuns ==
  ASSUME TypeOK
  PROVE  dirs \subseteq Runs /\ opened \in Nat /\ 0 .. opened \subseteq 0 .. MaxRuns
BY DEF TypeOK

\* A write in the run directory of the process.
LEMMA TouchIsTyped ==
  ASSUME TypeOK, Touch
  PROVE  mtime' \in [Runs -> Days]
BY DEF TypeOK, Touch

\* The variables keep their types, and a worktree has its branch.
THEOREM TypeCorrect == Spec => []TypeOK
<1>1. Init => TypeOK
  BY SMT DEF Init, TypeOK
<1>2. TypeOK /\ [Next]_vars => TypeOK'
  <2> SUFFICES ASSUME TypeOK, [Next]_vars PROVE TypeOK'
    OBVIOUS
  <2> USE DEF TypeOK
  <2>1. CASE Opens BY <2>1 DEF Opens
  <2>2. CASE Ends BY <2>2 DEF Ends
  <2>3. CASE Scans
    <3>1. PICK listed \in SUBSET dirs :
            /\ counters' = counters \/ Fault
            /\ missed' = dirs \ listed
            /\ keep' \subseteq listed
            /\ candidates' \subseteq listed
      BY <2>3 DEF Scans
    <3>2. missed' \subseteq Runs /\ keep' \subseteq Runs /\ candidates' \subseteq Runs
      BY <3>1, OpenedAreRuns
    <3>3. faults' \in 0 .. MaxFaults /\ crashes' \in 0 .. MaxCrashes
      BY <3>1
    <3>4. /\ pc' = "prune"
          /\ UNCHANGED <<today, opened, dirs, mtime, pointer, worktree, branch, owner,
                         current, lost, reclaimed, robbed>>
      BY <2>3 DEF Scans
    <3> QED BY <3>2, <3>3, <3>4
  <2>4. CASE Pruned BY <2>4 DEF Pruned
  <2>5. CASE Crash BY <2>5 DEF Crash
  <2>6. CASE DayPasses BY <2>6 DEF DayPasses
  <2>7. ASSUME NEW r \in Runs, Resumes(r) PROVE TypeOK'
    BY <2>7 DEF Resumes
  <2>8. ASSUME NEW r \in Runs, PrunesDir(r) PROVE TypeOK'
    BY <2>8 DEF PrunesDir, Pruning, Owned
  <2>9. ASSUME NEW r \in Runs, PrunesDirOnly(r) PROVE TypeOK'
    BY <2>9 DEF PrunesDirOnly, Pruning, Owned
  <2>10. ASSUME NEW r \in Runs, PruneFails(r) PROVE TypeOK'
    BY <2>10 DEF PruneFails, Pruning
  <2>11. ASSUME NEW r \in Runs, NEW t \in Tickets, PrunesWorktree(r, t) PROVE TypeOK'
    BY <2>11 DEF PrunesWorktree, Pruning
  <2>12. ASSUME NEW t \in Tickets, createWorktree(t) PROVE TypeOK'
    <3>1. mtime' \in [Runs -> Days]
      BY <2>12, TouchIsTyped DEF createWorktree
    <3>2. owner' \in [Tickets -> 0 .. MaxRuns]
      BY <2>12, OpenedAreRuns DEF createWorktree
    <3>3. worktree' \subseteq branch' /\ branch' \subseteq Tickets
      BY <2>12 DEF createWorktree
    <3> QED BY <2>12, <3>1, <3>2, <3>3 DEF createWorktree
  <2>13. ASSUME NEW t \in Tickets, preserveFailedRun(t) PROVE TypeOK'
    <3>1. mtime' \in [Runs -> Days]
      BY <2>13, TouchIsTyped DEF preserveFailedRun
    <3>2. PICK to \in Pointers : pointer' = [pointer EXCEPT ![current][t] = to]
      BY <2>13 DEF preserveFailedRun
    <3>3. pointer' \in [Runs -> [Tickets -> Pointers]]
      BY <3>2
    <3>4. pc' \in {"idle", "work"} /\ faults' = faults /\ crashes' \in 0 .. MaxCrashes
      BY <2>13 DEF preserveFailedRun
    <3>5. UNCHANGED <<today, opened, dirs, worktree, branch, owner, current, keep,
                      candidates, missed, lost, reclaimed, robbed>>
      BY <2>13 DEF preserveFailedRun
    <3> QED BY <3>1, <3>3, <3>4, <3>5
  <2>14. ASSUME NEW t \in Tickets, cleanupWorktree(t) PROVE TypeOK'
    <3>1. mtime' \in [Runs -> Days]
      BY <2>14, TouchIsTyped DEF cleanupWorktree
    <3>2. owner' \in [Tickets -> 0 .. MaxRuns] /\ worktree' \subseteq branch'
      BY <2>14 DEF cleanupWorktree
    <3> QED BY <2>14, <3>1, <3>2 DEF cleanupWorktree
  <2>15. ASSUME NEW t \in Tickets, Reclaims(t) PROVE TypeOK'
    BY <2>15 DEF Reclaims
  <2>16. CASE UNCHANGED vars BY <2>16 DEF vars
  <2> QED BY <2>1, <2>2, <2>3, <2>4, <2>5, <2>6, <2>7, <2>8, <2>9, <2>10, <2>11,
             <2>12, <2>13, <2>14, <2>15, <2>16 DEF Next
<1> QED BY <1>1, <1>2, PTL DEF Spec
-----------------------------------------------------------------------------

\* Sets of runs are finite, and a part of one is no larger.
LEMMA RunsAreFinite ==
  ASSUME NEW S \in SUBSET Runs, NEW T \in SUBSET S
  PROVE  /\ IsFiniteSet(S) /\ Cardinality(S) \in Nat /\ Cardinality(T) \in Nat
         /\ Cardinality(T) <= Cardinality(S)
         /\ Cardinality(T) = Cardinality(S) => T = S
<1>1. IsFiniteSet(Runs)
  BY FS_Interval
<1>2. IsFiniteSet(S)
  BY <1>1, FS_Subset
<1>3. IsFiniteSet(T)
  BY <1>2, FS_Subset
<1> QED BY <1>2, <1>3, FS_Subset, FS_CardinalityType

\* The process keeps its directory.
LEMMA StepCurrentStays ==
  ASSUME TypeOK, IndInv, Next
  PROVE  CurrentStays'
<1> USE DEF TypeOK, IndInv, CurrentStays, CandidatesAreBeyond
<1>1. CASE Opens BY <1>1 DEF Opens
<1>2. CASE Ends BY <1>2 DEF Ends
<1>3. CASE Scans BY <1>3 DEF Scans
<1>4. CASE Pruned BY <1>4 DEF Pruned
<1>5. CASE Crash BY <1>5 DEF Crash
<1>6. CASE DayPasses BY <1>6 DEF DayPasses
<1>7. ASSUME NEW r \in Runs, Resumes(r) PROVE CurrentStays'
  BY <1>7 DEF Resumes
<1>8. ASSUME NEW r \in Runs, PrunesDir(r) PROVE CurrentStays'
  BY <1>8 DEF PrunesDir, Pruning
<1>9. ASSUME NEW r \in Runs, PrunesDirOnly(r) PROVE CurrentStays'
  BY <1>9 DEF PrunesDirOnly, Pruning
<1>10. ASSUME NEW r \in Runs, PruneFails(r) PROVE CurrentStays'
  BY <1>10 DEF PruneFails, Pruning
<1>11. ASSUME NEW r \in Runs, NEW t \in Tickets, PrunesWorktree(r, t)
       PROVE CurrentStays'
  BY <1>11 DEF PrunesWorktree, Pruning
<1>12. ASSUME NEW t \in Tickets, createWorktree(t) PROVE CurrentStays'
  BY <1>12 DEF createWorktree
<1>13. ASSUME NEW t \in Tickets, preserveFailedRun(t) PROVE CurrentStays'
  BY <1>13 DEF preserveFailedRun
<1>14. ASSUME NEW t \in Tickets, cleanupWorktree(t) PROVE CurrentStays'
  BY <1>14 DEF cleanupWorktree
<1>15. ASSUME NEW t \in Tickets, Reclaims(t) PROVE CurrentStays'
  BY <1>15 DEF Reclaims
<1> QED BY <1>1, <1>2, <1>3, <1>4, <1>5, <1>6, <1>7, <1>8, <1>9, <1>10, <1>11,
           <1>12, <1>13, <1>14, <1>15 DEF Next

\* The list a pass sorted at its start is right for as long as the pass takes.
LEMMA StepPass ==
  ASSUME TypeOK, IndInv, Next
  PROVE  CandidatesAreBeyond' /\ RestIsSeenTo'
<1> USE DEF TypeOK, IndInv, CandidatesAreBeyond, RestIsSeenTo, NotOlder, Old
<1>1. CASE pc' # "prune" BY <1>1
<1>2. CASE Scans
  <2>1. PICK listed \in SUBSET dirs, kept \in SUBSET dirs :
          /\ kept \subseteq listed
          /\ missed' = dirs \ listed
          /\ Newest(kept, listed) /\ keep' = kept
          /\ candidates' = {r \in listed : Candidate(r)}
    BY <1>2 DEF Scans
  <2>2. /\ today' = today /\ dirs' = dirs /\ mtime' = mtime /\ current' = current
    BY <1>2 DEF Scans
  <2>3. listed \in SUBSET Runs /\ kept \in SUBSET listed
    BY <2>1
  <2>4. /\ Cardinality(listed) \in Nat /\ Cardinality(kept) \in Nat
        /\ Cardinality(kept) = Cardinality(listed) => kept = listed
    BY <2>3, RunsAreFinite
  <2>5. Cardinality(keep') <= MaxDirs
    BY <2>1, <2>4 DEF Newest
  <2>6. ASSUME NEW r \in candidates'
        PROVE  /\ r \in dirs' /\ r # current' /\ Old(r)'
               /\ keep' \subseteq NotOlder(r)' \ candidates'
               /\ Cardinality(keep') = MaxDirs
    <3>1. r \in listed /\ r # current /\ r \notin kept /\ Old(r)
      BY <2>1, <2>6 DEF Candidate
    <3>2. Cardinality(keep') = MaxDirs
      BY <2>1, <2>4, <3>1 DEF Newest
    <3>3. \A k \in kept : mtime[k] >= mtime[r]
      BY <2>1, <3>1 DEF Newest
    <3>4. kept \cap candidates' = {}
      BY <2>1 DEF Candidate
    <3>5. kept \subseteq dirs \ {r}
      BY <2>1, <3>1
    <3> QED BY <2>1, <2>2, <3>1, <3>2, <3>3, <3>4, <3>5
  <2>7. ASSUME NEW r \in dirs', Old(r)'
        PROVE  r \in keep' \cup candidates' \cup missed' \cup {current'}
    <3>1. r \in dirs /\ Old(r)
      BY <2>2, <2>7
    <3> QED BY <2>1, <2>2, <3>1 DEF Candidate
  <2> QED BY <2>5, <2>6, <2>7
<1>3. ASSUME NEW r \in Runs,
             PrunesDir(r) \/ PrunesDirOnly(r) \/ PruneFails(r)
                \/ \E t \in Tickets : PrunesWorktree(r, t)
      PROVE  CandidatesAreBeyond' /\ RestIsSeenTo'
  <2>1. /\ pc = "prune" /\ r \in candidates
        /\ today' = today /\ mtime' = mtime /\ current' = current /\ keep' = keep
    BY <1>3 DEF PrunesDir, PrunesDirOnly, PruneFails, PrunesWorktree, Pruning
  <2>2. \/ dirs' = dirs \ {r} /\ candidates' = candidates \ {r} /\ missed' = missed
        \/ dirs' = dirs /\ candidates' = candidates \ {r} /\ missed' = missed \cup {r}
        \/ dirs' = dirs /\ candidates' = candidates /\ missed' = missed
    BY <1>3 DEF PrunesDir, PrunesDirOnly, PruneFails, PrunesWorktree
  <2>3. r \notin keep
    BY <2>1
  <2> QED BY <2>1, <2>2, <2>3
<1>4. CASE Opens BY <1>1, <1>4 DEF Opens
<1>5. CASE Ends \/ Pruned \/ Crash
  BY <1>1, <1>5 DEF Ends, Pruned, Crash
<1>6. CASE DayPasses BY <1>1, <1>6 DEF DayPasses
<1>7. ASSUME NEW r \in Runs, Resumes(r) PROVE pc' # "prune"
  BY <1>7 DEF Resumes
<1>8. ASSUME NEW t \in Tickets,
             \/ createWorktree(t) \/ preserveFailedRun(t)
             \/ cleanupWorktree(t) \/ Reclaims(t)
      PROVE pc' # "prune"
  BY <1>8 DEF createWorktree, preserveFailedRun, cleanupWorktree, Reclaims
<1> QED BY <1>1, <1>2, <1>3, <1>4, <1>5, <1>6, <1>7, <1>8 DEF Next

\* Before another try can have a worktree at the same path, a human has removed
\* the branch.
LEMMA StepPointers ==
  ASSUME TypeOK, IndInv, Next
  PROVE  PointersAreOwn' /\ RobbedOnlyAfterReclaim'
<1> USE DEF TypeOK, IndInv, CurrentStays, PointersAreOwn, RobbedOnlyAfterReclaim
<1>1. CASE Opens BY <1>1 DEF Opens
<1>2. CASE Ends BY <1>2 DEF Ends
<1>3. CASE Scans BY <1>3 DEF Scans
<1>4. CASE Pruned BY <1>4 DEF Pruned
<1>5. CASE Crash BY <1>5 DEF Crash
<1>6. CASE DayPasses BY <1>6 DEF DayPasses
<1>7. ASSUME NEW r \in Runs, Resumes(r)
      PROVE PointersAreOwn' /\ RobbedOnlyAfterReclaim'
  BY <1>7 DEF Resumes
<1>8. ASSUME NEW r \in Runs, PrunesDir(r)
      PROVE PointersAreOwn' /\ RobbedOnlyAfterReclaim'
  BY <1>8 DEF PrunesDir
<1>9. ASSUME NEW r \in Runs, PrunesDirOnly(r)
      PROVE PointersAreOwn' /\ RobbedOnlyAfterReclaim'
  BY <1>9 DEF PrunesDirOnly
<1>10. ASSUME NEW r \in Runs, PruneFails(r)
       PROVE PointersAreOwn' /\ RobbedOnlyAfterReclaim'
  BY <1>10 DEF PruneFails
<1>11. ASSUME NEW r \in Runs, NEW t \in Tickets, PrunesWorktree(r, t)
       PROVE PointersAreOwn' /\ RobbedOnlyAfterReclaim'
  <2>1. pointer[r][t] # "none" /\ t \in worktree
    BY <1>11 DEF PrunesWorktree, Pointed
  <2>2. robbed' = IF owner[t] = r THEN robbed ELSE robbed \cup {t}
    BY <1>11 DEF PrunesWorktree
  <2>3. /\ UNCHANGED <<pointer, branch, reclaimed>>
        /\ worktree' = worktree \ {t} /\ owner' = [owner EXCEPT ![t] = 0]
    BY <1>11 DEF PrunesWorktree
  <2>4. owner[t] = r \/ t \in reclaimed
    BY <2>1
  <2> QED BY <2>1, <2>2, <2>3, <2>4
<1>12. ASSUME NEW t \in Tickets, createWorktree(t)
       PROVE PointersAreOwn' /\ RobbedOnlyAfterReclaim'
  BY <1>12 DEF createWorktree
<1>13. ASSUME NEW t \in Tickets, preserveFailedRun(t)
       PROVE PointersAreOwn' /\ RobbedOnlyAfterReclaim'
  <2>1. t \in branch /\ owner[t] = current /\ current # 0
    BY <1>13 DEF preserveFailedRun
  <2>2. \A r \in Runs, u \in Tickets :
          pointer'[r][u] # "none" => pointer[r][u] # "none" \/ (r = current /\ u = t)
    BY <1>13 DEF preserveFailedRun
  <2>3. UNCHANGED <<worktree, branch, owner, reclaimed, robbed>>
    BY <1>13 DEF preserveFailedRun
  <2> QED BY <2>1, <2>2, <2>3
<1>14. ASSUME NEW t \in Tickets, cleanupWorktree(t)
       PROVE PointersAreOwn' /\ RobbedOnlyAfterReclaim'
  BY <1>14 DEF cleanupWorktree
<1>15. ASSUME NEW t \in Tickets, Reclaims(t)
       PROVE PointersAreOwn' /\ RobbedOnlyAfterReclaim'
  BY <1>15 DEF Reclaims
<1> QED BY <1>1, <1>2, <1>3, <1>4, <1>5, <1>6, <1>7, <1>8, <1>9, <1>10, <1>11,
           <1>12, <1>13, <1>14, <1>15 DEF Next

\* A directory goes after the worktrees it points at, or git refused.
LEMMA StepFindable ==
  ASSUME TypeOK, IndInv, Next
  PROVE  PreservedIsFindable'
<1> USE DEF TypeOK, IndInv, CurrentStays, PreservedIsFindable
<1>1. CASE Opens BY <1>1 DEF Opens
<1>2. CASE Ends BY <1>2 DEF Ends
<1>3. CASE Scans BY <1>3 DEF Scans
<1>4. CASE Pruned BY <1>4 DEF Pruned
<1>5. CASE Crash BY <1>5 DEF Crash
<1>6. CASE DayPasses BY <1>6 DEF DayPasses
<1>7. ASSUME NEW r \in Runs, Resumes(r) PROVE PreservedIsFindable'
  BY <1>7 DEF Resumes
<1>8. ASSUME NEW r \in Runs, PrunesDir(r) PROVE PreservedIsFindable'
  BY <1>8 DEF PrunesDir, Pointed, Owned
<1>9. ASSUME NEW r \in Runs, PrunesDirOnly(r) PROVE PreservedIsFindable'
  BY <1>9 DEF PrunesDirOnly, Owned
<1>10. ASSUME NEW r \in Runs, PruneFails(r) PROVE PreservedIsFindable'
  BY <1>10 DEF PruneFails
<1>11. ASSUME NEW r \in Runs, NEW t \in Tickets, PrunesWorktree(r, t)
       PROVE PreservedIsFindable'
  BY <1>11 DEF PrunesWorktree
<1>12. ASSUME NEW t \in Tickets, createWorktree(t) PROVE PreservedIsFindable'
  BY <1>12 DEF createWorktree
<1>13. ASSUME NEW t \in Tickets, preserveFailedRun(t) PROVE PreservedIsFindable'
  BY <1>13 DEF preserveFailedRun
<1>14. ASSUME NEW t \in Tickets, cleanupWorktree(t) PROVE PreservedIsFindable'
  BY <1>14 DEF cleanupWorktree
<1>15. ASSUME NEW t \in Tickets, Reclaims(t) PROVE PreservedIsFindable'
  BY <1>15 DEF Reclaims
<1> QED BY <1>1, <1>2, <1>3, <1>4, <1>5, <1>6, <1>7, <1>8, <1>9, <1>10, <1>11,
           <1>12, <1>13, <1>14, <1>15 DEF Next

\* The invariant: what a pass found when it sorted stays true until it is over,
\* and a pointer is to the worktree of its own run.
THEOREM Inductive == Spec => []IndInv
<1>1. Init => IndInv
  BY SMT DEF Init, IndInv, CurrentStays, CandidatesAreBeyond, RestIsSeenTo,
             PointersAreOwn, PreservedIsFindable, RobbedOnlyAfterReclaim
<1>2. TypeOK /\ IndInv /\ [Next]_vars => IndInv'
  <2>1. ASSUME TypeOK, IndInv, Next PROVE IndInv'
    BY <2>1, StepCurrentStays, StepPass, StepPointers, StepFindable DEF IndInv
  <2>2. ASSUME IndInv, UNCHANGED vars PROVE IndInv'
    BY <2>2 DEF vars, IndInv, CurrentStays, CandidatesAreBeyond, RestIsSeenTo,
                PointersAreOwn, PreservedIsFindable, RobbedOnlyAfterReclaim,
                NotOlder, Old
  <2> QED BY <2>1, <2>2
<1> QED BY <1>1, <1>2, TypeCorrect, PTL DEF Spec

\* A worktree that was preserved can be found, for every policy.
THEOREM PreservedAreFindable == Spec => []PreservedIsFindable
<1>1. IndInv => PreservedIsFindable
  BY DEF IndInv
<1> QED BY <1>1, Inductive, PTL

\* A worktree goes with another run only where a human had made room for it.
THEOREM RobbedAreReclaimed == Spec => []RobbedOnlyAfterReclaim
<1>1. IndInv => RobbedOnlyAfterReclaim
  BY DEF IndInv
<1> QED BY <1>1, Inductive, PTL

\* Only a directory that is too old, not in use and beyond the newest goes.
THEOREM PrunedAreOldAndBeyond == Spec => PrunedIsOldAndBeyond
<1>1. ASSUME TypeOK, IndInv, Next, NEW r \in dirs \ dirs'
      PROVE  /\ r # current /\ Old(r)
             /\ Cardinality(NotOlder(r) \ candidates) >= MaxDirs
  <2>1. pc = "prune" /\ r \in candidates
    <3>1. ASSUME NEW d \in Runs, PrunesDir(d) \/ PrunesDirOnly(d)
          PROVE  pc = "prune" /\ r \in candidates
      BY <1>1, <3>1 DEF PrunesDir, PrunesDirOnly, Pruning
    <3>2. CASE dirs \subseteq dirs'
      BY <1>1, <3>2
    <3> QED BY <1>1, <3>1, <3>2 DEF Next, Opens, Ends, Scans, Pruned, Crash,
               DayPasses, Resumes, PruneFails, PrunesWorktree, createWorktree,
               preserveFailedRun, cleanupWorktree, Reclaims
  <2>2. /\ r # current /\ Old(r) /\ keep \subseteq NotOlder(r) \ candidates
        /\ Cardinality(keep) = MaxDirs
    BY <1>1, <2>1 DEF IndInv, CandidatesAreBeyond
  <2>3. NotOlder(r) \ candidates \in SUBSET Runs
    BY <1>1, OpenedAreRuns DEF NotOlder
  <2>4. /\ Cardinality(keep) <= Cardinality(NotOlder(r) \ candidates)
    BY <2>2, <2>3, RunsAreFinite
  <2> QED BY <2>2, <2>4
<1>2. TypeOK /\ IndInv /\ [Next]_vars =>
        [\A r \in dirs \ dirs' :
           /\ r # current /\ Old(r)
           /\ Cardinality(NotOlder(r) \ candidates) >= MaxDirs]_vars
  BY <1>1
<1> QED BY <1>2, TypeCorrect, Inductive, PTL DEF Spec, PrunedIsOldAndBeyond

\* The number of old directories a pass leaves is bounded by the policy.
THEOREM PassesBound == Spec => BoundedAfterPass
<1>1. ASSUME TypeOK, IndInv, Next, pc = "prune", pc' = "work"
      PROVE  Cardinality({r \in dirs \ (missed \cup {current}) : Old(r)}) <= MaxDirs
  <2> DEFINE Left == {r \in dirs \ (missed \cup {current}) : Old(r)}
  <2>1. candidates = {}
    BY <1>1 DEF Next, Opens, Ends, Scans, Pruned, Crash, DayPasses, Resumes,
                PrunesDir, PrunesDirOnly, PruneFails, PrunesWorktree,
                createWorktree, preserveFailedRun, cleanupWorktree, Reclaims
  <2>2. Left \subseteq keep /\ Cardinality(keep) <= MaxDirs
    BY <1>1, <2>1 DEF IndInv, RestIsSeenTo
  <2>3. keep \in SUBSET Runs
    BY <1>1 DEF TypeOK
  <2>4. /\ Cardinality(Left) \in Nat /\ Cardinality(keep) \in Nat
        /\ Cardinality(Left) <= Cardinality(keep)
    BY <2>2, <2>3, RunsAreFinite
  <2> QED BY <2>2, <2>4
<1>2. TypeOK /\ IndInv /\ [Next]_vars =>
        [pc = "prune" /\ pc' = "work" =>
           Cardinality({r \in dirs \ (missed \cup {current}) : Old(r)}) <= MaxDirs]_vars
  BY <1>1
<1> QED BY <1>2, TypeCorrect, Inductive, PTL DEF Spec, BoundedAfterPass
=============================================================================
