------------------------------ MODULE MergeGate ------------------------------
(***************************************************************************)
(* The decision the merge gate takes about an open pull request            *)
(* (src/src/mergeGate.ts) and the autonomy policy that may only restrict   *)
(* it (src/src/autonomy.ts).  Reasons and findings are wording and are     *)
(* left out.                                                               *)
(***************************************************************************)
EXTENDS Naturals

CiStates == {"green", "red", "pending-timeout", "no-signal"}
Verdicts == {"APPROVE", "REQUEST_CHANGES", "ESCALATE"}
RiskLevels == {"low", "high"}
AutonomyModes == {"review", "autopilot"}

\* What an epic's frontmatter may say: nothing, a mode, or something else.
EpicRequests == AutonomyModes \cup {"absent", "invalid"}

autonomyRank(mode) == IF mode = "autopilot" THEN 1 ELSE 0

\* Mutant: the reviewer's verdict is not looked at.
decideMerge_NoVerdict(ci, verdict, risk) ==
  IF ci = "green" /\ risk = "low" THEN "auto-merge" ELSE "open-pr"

decideMerge(ci, verdict, risk) ==
  IF ci = "green" /\ verdict = "APPROVE" /\ risk = "low"
    THEN "auto-merge" ELSE "open-pr"

\* The effective mode of an epic under the project's default and ceiling.
resolveAutonomy(default, ceiling, request) ==
  CASE request = "absent"  -> default
    [] request = "invalid" -> "review"
    [] OTHER -> IF autonomyRank(request) > autonomyRank(ceiling)
                  THEN ceiling ELSE request

\* Policy never turns an escalation into a merge.
applyAutonomy(action, mode) == IF mode = "autopilot" THEN action ELSE "open-pr"

=============================================================================
