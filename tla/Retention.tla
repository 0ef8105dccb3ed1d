------------------------------- MODULE Retention -------------------------------
(***************************************************************************)
(* What a long row of runs leaves on disk and what retention takes away    *)
(* (runRetention, src/src/retention.ts): run directories under .agent/runs *)
(* with their pointers to preserved worktrees (src/src/preserve.ts), the   *)
(* worktrees themselves, one path per ticket, and their branches           *)
(* (src/src/git.ts).  A process opens a run, prunes, works on tickets and  *)
(* ends; or it resumes an interrupted run, without a pruning pass.         *)
(*                                                                         *)
(* A directory's age is that of the last write of its state.json, which is *)
(* a rename in it.                                                         *)
(***************************************************************************)
EXTENDS Integers, FiniteSets

CONSTANTS
  Tickets,
  MaxDirs, MaxAgeDays,   \* the policy
  MaxRuns, MaxDays,      \* bounds: runs opened, days that pass
  MaxFaults, MaxCrashes  \* bounds: failures in a pruning pass, deaths in one

ASSUME PolicyAssumption == MaxDirs \in Nat /\ MaxAgeDays \in Nat
ASSUME BoundsAssumption ==
  MaxRuns \in Nat /\ MaxDays \in Nat /\ MaxFaults \in Nat /\ MaxCrashes \in Nat

Runs == 1 .. MaxRuns
Days == 0 .. MaxDays
Pointers == {"none", "path", "malformed"}   \* tickets/<id>/worktree.json

VARIABLES
  today,
  opened,             \* runs opened so far; their directories are made in order
  dirs, mtime,        \* the run directories there are, and their last write
  pointer,            \* what each has in worktree.json for a ticket
  worktree, branch,   \* tickets with a worktree, with a branch loop/<id>
  owner,              \* history: the run that made the worktree, 0 for none
  pc, current,        \* the process and its run
  keep,               \* the newest MaxDirs directories, as the pass sorted them
  candidates,         \* the directories it has still to prune
  missed,             \* history: directories a failure made this pass leave
  lost,               \* history: tickets whose pointer went while git refused
                      \* or the pointer was not to be read
  reclaimed,          \* history: worktrees a human removed
  robbed,             \* history: tickets whose worktree went with another run
  faults, crashes

disk == <<dirs, mtime, pointer>>
git == <<worktree, branch, owner>>
pass == <<keep, candidates, missed>>
counters == <<faults, crashes>>
told == <<lost, reclaimed, robbed>>
vars == <<today, opened, disk, git, pc, current, pass, told, counters>>

Init ==
  /\ today = 0 /\ opened = 0 /\ dirs = {}
  /\ mtime = [r \in Runs |-> 0]
  /\ pointer = [r \in Runs |-> [t \in Tickets |-> "none"]]
  /\ worktree = {} /\ branch = {} /\ owner = [t \in Tickets |-> 0]
  /\ pc = "idle" /\ current = 0 /\ keep = {} /\ candidates = {} /\ missed = {}
  /\ lost = {} /\ reclaimed = {} /\ robbed = {}
  /\ faults = 0 /\ crashes = 0

Fault == faults < MaxFaults /\ faults' = faults + 1 /\ UNCHANGED crashes

Old(r) == today - mtime[r] > MaxAgeDays

-----------------------------------------------------------------------------
(* The process *)

Opens ==
  /\ pc = "idle" /\ opened < MaxRuns
  /\ opened' = opened + 1 /\ current' = opened + 1 /\ pc' = "scan"
  /\ dirs' = dirs \cup {opened + 1}
  /\ mtime' = [mtime EXCEPT ![opened + 1] = today]
  /\ UNCHANGED <<today, pointer, git, pass, told, counters>>

\* An interrupted run is taken up again; the worktree has to be there.
Resumes(r) ==
  /\ pc = "idle" /\ r \in dirs /\ \E t \in worktree : owner[t] = r
  /\ current' = r /\ pc' = "work"
  /\ mtime' = [mtime EXCEPT ![r] = today]
  /\ UNCHANGED <<today, opened, dirs, pointer, git, pass, told, counters>>

Ends ==
  /\ pc = "work" /\ pc' = "idle"
  /\ UNCHANGED <<today, opened, disk, git, current, pass, told, counters>>

Touch == mtime' = [mtime EXCEPT ![current] = today]

\* git worktree add -b: the branch of an earlier try is in the way.
createWorktree(t) ==
  /\ pc = "work" /\ t \notin branch /\ t \notin worktree
  /\ worktree' = worktree \cup {t} /\ branch' = branch \cup {t}
  /\ owner' = [owner EXCEPT ![t] = current]
  /\ Touch
  /\ UNCHANGED <<today, opened, dirs, pointer, pc, current, pass, told, counters>>

\* A builder-bearing failure: the worktree stays and is pointed at; a death in
\* the middle of the write leaves a pointer that is no JSON.
preserveFailedRun(t) ==
  /\ pc = "work" /\ t \in worktree /\ owner[t] = current
  /\ \/ /\ pointer' = [pointer EXCEPT ![current][t] = "path"]
        /\ UNCHANGED <<pc, counters>>
     \/ /\ pointer' = [pointer EXCEPT ![current][t] = "malformed"]
        /\ crashes < MaxCrashes /\ crashes' = crashes + 1 /\ UNCHANGED faults
        /\ pc' = "idle"
  /\ Touch
  /\ UNCHANGED <<today, opened, dirs, git, current, pass, told>>

\* The ticket is shipped: its worktree goes, its branch stays.
cleanupWorktree(t) ==
  /\ pc = "work" /\ t \in worktree /\ owner[t] = current
  /\ worktree' = worktree \ {t} /\ owner' = [owner EXCEPT ![t] = 0]
  /\ Touch
  /\ UNCHANGED <<today, opened, dirs, pointer, branch, pc, current, pass, told,
                 counters>>

-----------------------------------------------------------------------------
(* The pruning pass *)

\* Mutant: one directory too many is kept.
Newest_OneMore(kept, listed) ==
  /\ kept \subseteq listed
  /\ Cardinality(kept) = IF Cardinality(listed) <= MaxDirs THEN Cardinality(listed)
                         ELSE MaxDirs + 1
  /\ \A k \in kept, d \in listed \ kept : mtime[k] >= mtime[d]

\* The newest directories of those that could be looked at: equal times are
\* sorted either way.
Newest(kept, listed) ==
  /\ kept \subseteq listed
  /\ Cardinality(kept) = IF Cardinality(listed) < MaxDirs THEN Cardinality(listed)
                         ELSE MaxDirs
  /\ \A k \in kept, d \in listed \ kept : mtime[k] >= mtime[d]

\* Mutant: a directory is pruned when it is old, or beyond the count.
Candidate_Either(r) == r # current /\ (r \notin keep' \/ Old(r))

\* Beyond the count, too old, and not the run of this process.
Candidate(r) == r # current /\ r \notin keep' /\ Old(r)

\* readdir, lstat, sort.  A directory that cannot be looked at is passed over;
\* when the directory of the runs cannot be read, all of them are.
Scans ==
  /\ pc = "scan"
  /\ \E listed \in SUBSET dirs :
       /\ IF listed = dirs THEN UNCHANGED counters
          ELSE Fault /\ (listed = {} \/ Cardinality(dirs \ listed) = 1)
       /\ missed' = dirs \ listed
       /\ \E kept \in SUBSET listed : Newest(kept, listed) /\ keep' = kept
       /\ candidates' = {r \in listed : Candidate(r)}
  /\ pc' = "prune"
  /\ UNCHANGED <<today, opened, disk, git, current, told>>

Pruning(r) == pc = "prune" /\ r \in candidates

\* Mutant: every ticket's worktree is removed, whatever worktree.json says.
Pointed_All(r) == worktree

\* Tickets whose worktree the run points at and that are still there.
Pointed(r) == {t \in worktree : pointer[r][t] = "path"}

\* git worktree remove --force.  A worktree at the path a stale pointer names may
\* by now be that of another run.
PrunesWorktree(r, t) ==
  /\ Pruning(r) /\ t \in Pointed(r)
  /\ worktree' = worktree \ {t} /\ owner' = [owner EXCEPT ![t] = 0]
  /\ robbed' = IF owner[t] = r THEN robbed ELSE robbed \cup {t}
  /\ UNCHANGED <<today, opened, disk, branch, pc, current, pass, lost, reclaimed,
                 counters>>

Owned(r) == {t \in worktree : owner[t] = r}

\* Mutant: the directory goes before its worktrees.
PrunesDir_First(r) ==
  /\ Pruning(r)
  /\ dirs' = dirs \ {r} /\ candidates' = candidates \ {r}
  /\ lost' = lost \cup {t \in Owned(r) : pointer[r][t] = "malformed"}
  /\ UNCHANGED <<today, opened, mtime, pointer, git, pc, current, keep, missed,
                 reclaimed, robbed, counters>>

\* The directory goes once each worktree it points at was seen to; a pointer that
\* is no JSON is passed over and goes with it.
PrunesDir(r) ==
  /\ Pruning(r) /\ Pointed(r) = {}
  /\ dirs' = dirs \ {r} /\ candidates' = candidates \ {r}
  /\ lost' = lost \cup {t \in Owned(r) : pointer[r][t] = "malformed"}
  /\ UNCHANGED <<today, opened, mtime, pointer, git, pc, current, keep, missed,
                 reclaimed, robbed, counters>>

\* Git refuses to remove a worktree, which allowFail hides, or the tickets of the
\* run cannot be listed: the directory goes nonetheless.
PrunesDirOnly(r) ==
  /\ Pruning(r) /\ Pointed(r) # {} /\ Fault
  /\ dirs' = dirs \ {r} /\ candidates' = candidates \ {r}
  /\ lost' = lost \cup {t \in Owned(r) : pointer[r][t] # "none"}
  /\ UNCHANGED <<today, opened, mtime, pointer, git, pc, current, keep, missed,
                 reclaimed, robbed>>

\* A spawn or rm that throws is logged, and the pass goes on with the next.
PruneFails(r) ==
  /\ Pruning(r) /\ Fault
  /\ candidates' = candidates \ {r} /\ missed' = missed \cup {r}
  /\ UNCHANGED <<today, opened, disk, git, pc, current, keep, told>>

Pruned ==
  /\ pc = "prune" /\ candidates = {} /\ pc' = "work"
  /\ UNCHANGED <<today, opened, disk, git, current, pass, told, counters>>

-----------------------------------------------------------------------------
(* The world around *)

Crash ==
  /\ pc # "idle" /\ pc' = "idle"
  /\ crashes < MaxCrashes /\ crashes' = crashes + 1
  /\ UNCHANGED <<today, opened, disk, git, current, pass, told, faults>>

\* A human removes a worktree and its branch, so that the ticket can be tried
\* again from the start.
Reclaims(t) ==
  /\ t \in branch /\ pc = "idle"
  /\ worktree' = worktree \ {t} /\ branch' = branch \ {t}
  /\ owner' = [owner EXCEPT ![t] = 0]
  /\ reclaimed' = reclaimed \cup {t} /\ lost' = lost \ {t}
  /\ UNCHANGED <<today, opened, disk, pc, current, pass, robbed, counters>>

DayPasses ==
  /\ pc = "idle" /\ today < MaxDays /\ today' = today + 1
  /\ UNCHANGED <<opened, disk, git, pc, current, pass, told, counters>>

Next ==
  \/ Opens \/ Ends \/ Scans \/ Pruned \/ Crash \/ DayPasses
  \/ \E r \in Runs : Resumes(r) \/ PrunesDir(r) \/ PrunesDirOnly(r) \/ PruneFails(r)
  \/ \E r \in Runs, t \in Tickets : PrunesWorktree(r, t)
  \/ \E t \in Tickets :
       createWorktree(t) \/ preserveFailedRun(t) \/ cleanupWorktree(t) \/ Reclaims(t)

Spec == Init /\ [][Next]_vars

-----------------------------------------------------------------------------
(* Properties *)

\* The variables range over what the disk holds, and a worktree has its branch.
TypeOK ==
  /\ today \in Days /\ opened \in 0 .. MaxRuns
  /\ dirs \subseteq 1 .. opened /\ mtime \in [Runs -> Days]
  /\ pointer \in [Runs -> [Tickets -> Pointers]]
  /\ worktree \subseteq branch /\ branch \subseteq Tickets
  /\ owner \in [Tickets -> 0 .. MaxRuns]
  /\ pc \in {"idle", "scan", "prune", "work"} /\ current \in 0 .. opened
  /\ keep \subseteq Runs /\ candidates \subseteq Runs /\ missed \subseteq Runs
  /\ lost \subseteq Tickets /\ reclaimed \subseteq Tickets /\ robbed \subseteq Tickets
  /\ faults \in 0 .. MaxFaults /\ crashes \in 0 .. MaxCrashes

\* What a directory is worth: the ones that are there and not older.
NotOlder(r) == {d \in dirs \ {r} : mtime[d] >= mtime[r]}

\* A directory is deleted only when it is too old, not the run of the process,
\* and MaxDirs others that are as recent are there to stay: the pass works on the
\* list it sorted at its start, and what it deletes does not change the count.
PrunedIsOldAndBeyond ==
  [][\A r \in dirs \ dirs' :
       /\ r # current /\ Old(r)
       /\ Cardinality(NotOlder(r) \ candidates) >= MaxDirs]_vars

\* Retention bounds the directories: when a pass is over, no more than MaxDirs of
\* those it could see to are too old, next to the run of the process.
BoundedAfterPass ==
  [][pc = "prune" /\ pc' = "work" =>
       Cardinality({r \in dirs \ (missed \cup {current}) : Old(r)}) <= MaxDirs]_vars

\* A worktree is removed, or a run still tells where it is: the pointer goes last,
\* also when the process dies in between.  A refusal of git, which is not looked
\* at, and a torn pointer are the exceptions.
PreservedIsFindable ==
  \A t \in worktree : \A r \in Runs :
    owner[t] = r /\ pointer[r][t] # "none" => r \in dirs \/ t \in lost

\* A pruned run takes the worktree of another one with it only where a human had
\* made room for a second try at the same path.
RobbedOnlyAfterReclaim == robbed \subseteq reclaimed

-----------------------------------------------------------------------------
(* The inductive invariant *)

\* The run of the process has its directory, and no pass takes it.
CurrentStays == pc # "idle" => current \in dirs

\* What a pass is about to delete is too old, and the newest MaxDirs, which are
\* as recent, stay.
CandidatesAreBeyond ==
  pc = "prune" => \A r \in candidates :
    /\ r \in dirs /\ r # current /\ Old(r)
    /\ keep \subseteq NotOlder(r) \ candidates /\ Cardinality(keep) = MaxDirs

\* What a pass will leave is kept, not too old, or out of its reach.
RestIsSeenTo ==
  pc = "prune" =>
    /\ Cardinality(keep) <= MaxDirs
    /\ \A r \in dirs : Old(r) => r \in keep \cup candidates \cup missed \cup {current}

\* A pointer is to a worktree of its own run, as long as the branch of that try
\* is in the way of another.
PointersAreOwn ==
  /\ \A t \in worktree : owner[t] # 0
  /\ \A r \in Runs, t \in Tickets :
       pointer[r][t] # "none" =>
         t \in reclaimed \/ (t \in branch /\ owner[t] \in {0, r})

\* Together they carry the properties over every step.
IndInv ==
  /\ CurrentStays /\ CandidatesAreBeyond /\ RestIsSeenTo /\ PointersAreOwn
  /\ PreservedIsFindable /\ RobbedOnlyAfterReclaim
=============================================================================
