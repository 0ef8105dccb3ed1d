---------------------------- MODULE ApplyRefinement ----------------------------
(***************************************************************************)
(* The pass of an autopilot run that applies a refinement to the backlog   *)
(* (runApplyRefinement, src/src/applyRefinement.ts; commitPaths,           *)
(* src/src/git.ts): it reads ticket files of the main checkout, writes     *)
(* their new content, stages and commits them all at once, and rolls the   *)
(* files back when a write or the commit fails.                            *)
(*                                                                         *)
(* Passes follow one another, one per run, over one checkout: what a pass  *)
(* that failed or died leaves in the files, in git's index or in the log   *)
(* is what the next one starts from.                                       *)
(***************************************************************************)
EXTENDS Integers

CONSTANTS
  Files,       \* ticket files, those that do not exist yet included
  MaxPasses,   \* bound: passes
  MaxFaults,   \* bound: failures of a write, of git or of the log
  MaxCrashes   \* bound: deaths of the process

ASSUME PassesAssumption == MaxPasses \in Nat

\* The content of a file: the passes whose edits it holds, 0 for the file a
\* human wrote.  No file is {}.
Absent == {}
Passes == 1 .. MaxPasses
\* A write truncates the file first: one that stops half-way leaves a part of
\* the content it was given, and Cut for the rest.  Cut is never made up for:
\* later passes edit what they find.
Cut == -1
IsTorn(content) == Cut \in content
Torn(content) == {{Cut} \cup part : part \in SUBSET content}

Contents == SUBSET (-1 .. MaxPasses)
Layers == [Files -> Contents]

Kinds == {"apply-skipped", "apply-failed", "run.stopped", "edit-applied",
          "triage", "apply-summary"}
Events == [type : Kinds, pass : Passes, files : SUBSET Files]

VARIABLES
  tree, index, head,  \* the checkout, git's index, the last commit
  pass,               \* the pass that runs, or ran last
  pc,                 \* where it is
  changed,            \* the files it changes
  original,           \* their content when it read them
  written,            \* those that were overwritten and not restored
  log,                \* the events
  faults, crashes     \* counters for the bounds

git == <<index, head>>
batch == <<pass, changed, original>>
vars == <<tree, git, batch, pc, written, log, faults, crashes>>

Init ==
  /\ tree \in [Files -> {Absent, {0}}]
  /\ index = tree /\ head = tree
  /\ pass = 0 /\ pc = "idle" /\ changed = {} /\ original = tree
  /\ written = {} /\ log = {} /\ faults = 0 /\ crashes = 0

Event(type) == [type |-> type, pass |-> pass, files |-> changed]

Fault == /\ faults < MaxFaults /\ faults' = faults + 1
         /\ UNCHANGED crashes
Works == UNCHANGED <<faults, crashes>>

\* An event is appended and the pass goes on, or the append throws out of it.
Append(event, next) ==
  \/ Works /\ log' = log \cup {event} /\ pc' = next
  \/ Fault /\ UNCHANGED log /\ pc' = "idle"

-----------------------------------------------------------------------------
(* Reading *)

Begins == pc = "idle" /\ pass < MaxPasses /\ pass' = pass + 1

\* The mode, the kill switch or the budget refuses; or no edit changes a file.
Skips ==
  /\ Begins
  /\ changed' = {} /\ original' = tree /\ written' = {}
  /\ \E type \in {"apply-skipped", "apply-summary"} :
       Append([type |-> type, pass |-> pass + 1, files |-> {}], "idle")
  /\ UNCHANGED <<tree, git>>

\* Files that are there and can be read as tickets, and some to create.  A torn
\* file reads as a ticket when its frontmatter is whole.
Reads ==
  /\ Begins
  /\ changed' \in SUBSET Files \ {{}}
  /\ original' = tree /\ written' = {} /\ pc' = "write"
  /\ Works
  /\ UNCHANGED <<tree, git, log>>

-----------------------------------------------------------------------------
(* Write, stage, commit: one try *)

Writes(f) ==
  /\ pc = "write" /\ f \in changed \ written
  /\ tree' = [tree EXCEPT ![f] = original[f] \cup {pass}]
  /\ written' = written \cup {f}
  /\ Works
  /\ UNCHANGED <<git, batch, pc, log>>

\* A write that throws may leave a torn file, which is not among those that were
\* written.
WriteFails(f) ==
  /\ pc = "write" /\ f \in changed \ written
  /\ \/ UNCHANGED tree
     \/ \E half \in Torn(original[f] \cup {pass}) :
          tree' = [tree EXCEPT ![f] = half]
  /\ pc' = "rollback"
  /\ Fault
  /\ UNCHANGED <<git, batch, written, log>>

\* git add -- paths
Adds ==
  /\ pc = "write" /\ written = changed
  /\ \/ /\ Works /\ pc' = "commit"
        /\ index' = [f \in Files |-> IF f \in changed THEN tree[f] ELSE index[f]]
     \/ Fault /\ pc' = "rollback" /\ UNCHANGED index
  /\ UNCHANGED <<tree, head, batch, written, log>>

\* Mutant: a commit that was refused is taken for one that was made.
Commits_Unchecked ==
  /\ pc = "commit" /\ pc' = "applied"
  /\ \/ Works /\ head' = index
     \/ Fault /\ UNCHANGED head
  /\ UNCHANGED <<tree, index, batch, written, log>>

\* git commit -m: everything that is staged; a hook may refuse.
Commits ==
  /\ pc = "commit"
  /\ \/ Works /\ pc' = "applied" /\ head' = index
     \/ Fault /\ pc' = "rollback" /\ UNCHANGED head
  /\ UNCHANGED <<tree, index, batch, written, log>>

-----------------------------------------------------------------------------
(* Roll-back *)

\* Mutant: the roll-back only restores files, it deletes none.
Restores_NoDelete(f) ==
  /\ pc = "rollback" /\ f \in written
  /\ tree' = IF original[f] = Absent THEN tree
             ELSE [tree EXCEPT ![f] = original[f]]
  /\ written' = written \ {f}
  /\ Works
  /\ UNCHANGED <<git, batch, pc, log>>

\* Mutant: the roll-back takes the content from the last commit.
Restores_FromHead(f) ==
  /\ pc = "rollback" /\ f \in written
  /\ tree' = [tree EXCEPT ![f] = head[f]]
  /\ written' = written \ {f}
  /\ Works
  /\ UNCHANGED <<git, batch, pc, log>>

Restores(f) ==
  /\ pc = "rollback" /\ f \in written
  /\ tree' = [tree EXCEPT ![f] = original[f]]
  /\ written' = written \ {f}
  /\ Works
  /\ UNCHANGED <<git, batch, pc, log>>

\* run.stopped, where the log takes it, and an Error.
RestoreFails(f) ==
  /\ pc = "rollback" /\ f \in written
  /\ \/ UNCHANGED tree
     \/ /\ original[f] # Absent
        /\ \E half \in Torn(original[f]) : tree' = [tree EXCEPT ![f] = half]
  /\ Fault
  /\ log' \in {log, log \cup {Event("run.stopped")}}
  /\ pc' = "idle"
  /\ UNCHANGED <<git, batch, written>>

ReportsFailure ==
  /\ pc = "rollback" /\ written = {}
  /\ Append(Event("apply-failed"), "idle")
  /\ UNCHANGED <<tree, git, batch, written>>

-----------------------------------------------------------------------------
(* The record, after the commit *)

RecordsEdits ==
  /\ pc = "applied"
  /\ Append(Event("edit-applied"),
            IF \E f \in changed : original[f] = Absent THEN "triage"
            ELSE "summary")
  /\ UNCHANGED <<tree, git, batch, written>>

\* New tickets are for a human to wire into their epic.
RecordsTriage == /\ pc = "triage" /\ Append(Event("triage"), "summary")
                 /\ UNCHANGED <<tree, git, batch, written>>

Summarises == /\ pc = "summary" /\ Append(Event("apply-summary"), "idle")
              /\ UNCHANGED <<tree, git, batch, written>>

\* The process dies, perhaps in the middle of a write.
Crash ==
  /\ pc # "idle" /\ pc' = "idle"
  /\ crashes < MaxCrashes /\ crashes' = crashes + 1
  /\ \/ UNCHANGED tree
     \/ /\ pc = "write"
        /\ \E f \in changed \ written : \E half \in Torn(original[f] \cup {pass}) :
             tree' = [tree EXCEPT ![f] = half]
     \/ /\ pc = "rollback"
        /\ \E f \in written : \E half \in Torn(original[f]) :
             original[f] # Absent /\ tree' = [tree EXCEPT ![f] = half]
  /\ UNCHANGED <<git, batch, written, log, faults>>

Next ==
  \/ Skips \/ Reads \/ Adds \/ Commits \/ ReportsFailure
  \/ RecordsEdits \/ RecordsTriage \/ Summarises \/ Crash
  \/ \E f \in Files : Writes(f) \/ WriteFails(f) \/ Restores(f) \/ RestoreFails(f)

Spec == Init /\ [][Next]_vars

-----------------------------------------------------------------------------
(* Properties *)

\* The variables range over what the code keeps in them.
TypeOK ==
  /\ tree \in Layers /\ index \in Layers /\ head \in Layers
  /\ pass \in 0 .. MaxPasses /\ (pc # "idle" => pass \in Passes)
  /\ pc \in {"idle", "write", "commit", "rollback", "applied", "triage", "summary"}
  /\ changed \subseteq Files /\ original \in Layers /\ written \subseteq changed
  /\ log \subseteq Events
  /\ faults \in Nat /\ crashes \in Nat

Logged(types) == {e \in log : e.type \in types}

\* The files that hold a trace of a pass.
Traces(layer, q) == {f \in Files : q \in layer[f]}

\* Not more than one file: the one whose write threw.
AtMostOne(S) == \A f, g \in S : f = g

\* Record after commit: what the log calls applied, or asks a human to wire, is
\* in the last commit, in every one of its files, whatever passes came later
\* and whatever they left behind.  A file that a write cut short is the
\* exception: the pass that edits and commits it next commits the cut.
AppliedIsCommitted ==
  \A e \in Logged({"edit-applied", "triage"}) : \A f \in e.files :
    e.pass \in head[f] \/ IsTorn(head[f])

\* Of a pass that is reported as failed nothing is left in the checkout, then or
\* later, but for the one file whose write threw half-way: it is not among the
\* written ones, and the roll-back leaves in it what the write left, of this
\* pass's edit too.  That file is torn as long as it holds any of it.
FailedIsUndone ==
  \A e \in Logged({"apply-failed"}) :
    /\ AtMostOne(Traces(tree, e.pass))
    /\ \A f \in Traces(tree, e.pass) : f \in e.files /\ IsTorn(tree[f])

\* A pass that is about to report its failure has put back what it found, also
\* what an earlier pass that died had left uncommitted, but for the one file
\* whose write threw half-way.
FoundIsRestored ==
  pc = "rollback" /\ written = {} =>
    /\ AtMostOne({f \in Files : tree[f] # original[f]})
    /\ \A f \in Files : tree[f] = original[f] \/ (f \in changed /\ IsTorn(tree[f]))

\* The comment on runApplyRefinement: a failed pass is rolled back; so none of
\* its edits may be committed, but what a torn file holds of them.
FailedIsNotCommitted ==
  \A e \in Logged({"apply-failed"}) : \A f \in Files :
    e.pass \in head[f] => IsTorn(head[f])

-----------------------------------------------------------------------------
(* The inductive invariant of the proofs *)

\* A file is as the running pass wrote it, or found it.
Kept(f) ==
  tree[f] = IF f \in written THEN original[f] \cup {pass} ELSE original[f]

\* Where a pass stands: what it overwrote holds its edit, the rest is as it was
\* found, but for the file whose write threw.
Standing ==
  /\ pc # "idle" => \A f \in Files : pass \notin original[f]
  /\ pc \in {"write", "commit"} => \A f \in Files : Kept(f)
  /\ pc = "rollback" =>
       /\ \A f, g \in Files : Kept(f) \/ Kept(g) \/ f = g
       /\ \A f \in Files : Kept(f) \/ (f \in changed \ written /\ IsTorn(tree[f]))
  /\ pc = "commit" => \A f \in changed : f \in written /\ index[f] = tree[f]
  /\ pc \in {"applied", "triage", "summary"} =>
       \A f \in changed : pass \in tree[f] \cap index[f] \cap head[f]

\* Edits come from passes that began.
NoneFromLater ==
  \A f \in Files : \A q \in Passes :
    q > pass => q \notin tree[f] \cup index[f] \cup head[f] \cup original[f]

\* An applied edit is in every layer, or the layer's file is torn; what a pass
\* found does not lose it.
AppliedStays ==
  \A e \in Logged({"edit-applied", "triage"}) : \A f \in e.files :
    /\ e.pass <= pass
    /\ e.pass \in tree[f] \/ IsTorn(tree[f])
    /\ e.pass \in index[f] \/ IsTorn(index[f])
    /\ e.pass \in head[f] \/ IsTorn(head[f])
    /\ pc \in {"write", "commit", "rollback"} =>
         e.pass \in original[f] \/ IsTorn(original[f])

\* A file holds some of a pass's edit, or will when the running pass restores it.
Holds(q, f) == q \in tree[f] \/ (pc # "idle" /\ q \in original[f])

\* What is left of a failed pass is in one torn file.
FailedStays ==
  \A e \in Logged({"apply-failed"}) :
    /\ e.pass <= pass /\ (pc # "idle" => e.pass < pass)
    /\ \A f, g \in Files : Holds(e.pass, f) /\ Holds(e.pass, g) => f = g
    /\ \A f \in Files :
         /\ Holds(e.pass, f) => f \in e.files
         /\ e.pass \in tree[f] => IsTorn(tree[f])
         /\ pc # "idle" /\ e.pass \in original[f] => IsTorn(original[f])

IndInv == Standing /\ NoneFromLater /\ AppliedStays /\ FailedStays
=============================================================================
