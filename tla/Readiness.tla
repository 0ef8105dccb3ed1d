----------------------------- MODULE Readiness ------------------------------
(***************************************************************************)
(* What the parts of the loop make of the same backlog: the scan the loop  *)
(* picks from (src/src/scanTickets.ts), the stops of its preflight         *)
(* (src/src/preflight.ts), the doctor's report (src/src/doctor.ts), the    *)
(* printed plan (src/src/printPlan.ts) and discovery                       *)
(* (src/src/discover.ts).  A backlog is a function from the tickets of an  *)
(* epic to what their files say; a ticket that cannot be parsed is "torn". *)
(***************************************************************************)
EXTENDS Naturals

\* spec, plan: the pointer is there and so is the file it names.
View == [status : {"sketched", "planned", "in-progress", "done", "dropped",
                   "superseded", "torn"},
         loop : BOOLEAN, spec : BOOLEAN, plan : BOOLEAN]

startable(v) == v.status \in {"sketched", "planned"}
planned(v) == v.spec /\ v.plan

-----------------------------------------------------------------------------
(* The scan, and what the loop takes *)

\* The scanner does not know the status "superseded".
parsed(B) == {t \in DOMAIN B : B[t].status \notin {"superseded", "torn"}}

released(B) == {t \in parsed(B) : startable(B[t]) /\ B[t].loop}

loopReady(B) == {t \in released(B) : planned(B[t])}
needsPlanning(B) == released(B) \ loopReady(B)

\* The tickets pickNext chooses from.
pickable(B, deps) ==
  {t \in loopReady(B) : \A d \in deps[t] : B[d].status = "done"}

\* The loop does not start while a released ticket is not planned.
readinessStop(B) == needsPlanning(B) # {}

-----------------------------------------------------------------------------
(* The doctor *)

terminalStatus(v) == v.status \in {"done", "dropped", "superseded"}

\* Mutant: a dependency that cannot be parsed is passed over.
missingDeps_Torn(B, deps, t) ==
  {d \in deps[t] : d \in parsed(B) /\ ~terminalStatus(B[d])}

missingDeps(B, deps, t) ==
  {d \in deps[t] : d \notin parsed(B) \/ ~terminalStatus(B[d])}

doctorReadiness(B, deps, t) ==
  LET v == B[t] IN
  CASE terminalStatus(v) -> "closed"
    [] ~terminalStatus(v) /\ ~startable(v) -> "not_startable"
    [] startable(v) /\ ~v.loop -> "not_released"
    [] startable(v) /\ v.loop /\ ~v.spec /\ ~v.plan -> "needs_spec_and_plan"
    [] startable(v) /\ v.loop /\ ~v.spec /\ v.plan -> "needs_spec"
    [] startable(v) /\ v.loop /\ v.spec /\ ~v.plan -> "needs_plan"
    [] startable(v) /\ v.loop /\ planned(v) ->
         IF missingDeps(B, deps, t) # {} THEN "blocked" ELSE "loop_ready"

Doctor(B, deps, kinds) ==
  {t \in parsed(B) : doctorReadiness(B, deps, t) \in kinds}

\* A ticket whose frontmatter, and with it the id, is gone.
structuralStop(B) == \E t \in DOMAIN B : B[t].status = "torn"

debt == {"needs_spec_and_plan", "needs_spec", "needs_plan"}

\* The checks of the report that are about tickets.
doctorStops(B, deps) ==
  (IF Doctor(B, deps, debt) # {} THEN {"needs-planning"} ELSE {})
  \cup (IF Doctor(B, deps, {"blocked"}) # {} THEN {"dependencies-open"} ELSE {})
  \cup (IF readinessStop(B) THEN {"preflight"} ELSE {})
  \cup (IF structuralStop(B) THEN {"structural"} ELSE {})

\* The mode of the printed plan.
planMode(B, deps) ==
  LET blockedTickets == Doctor(B, deps, debt \cup {"blocked"})
      planningTickets == {t \in parsed(B) : B[t].status = "sketched"}
                         \ Doctor(B, deps, {"loop_ready"})
  IN CASE blockedTickets # {} -> "blocked"
       [] blockedTickets = {} /\ Doctor(B, deps, {"loop_ready"}) # {} ->
            "implementation"
       [] OTHER -> IF planningTickets # {} THEN "planning-only" ELSE "idle"

-----------------------------------------------------------------------------
(* Discovery *)

classifyTicket(v) ==
  CASE v.status \in {"superseded", "torn"} -> "invalid"
    [] v.status \in {"done", "dropped", "in-progress"} -> "inactive"
    [] startable(v) /\ ~planned(v) -> "planning-debt"
    [] startable(v) /\ planned(v) ->
         IF v.loop THEN "executable" ELSE "not-released"

\* applyDependencyBlocking
discoverReadiness(B, deps, t) ==
  IF classifyTicket(B[t]) = "executable"
       /\ \E d \in deps[t] : ~terminalStatus(B[d])
    THEN "blocked" ELSE classifyTicket(B[t])
=============================================================================
