----------------------------- MODULE LoopRunLog -----------------------------
(***************************************************************************)
(* Why the event logs tell the truth: LogInv of LoopRun is inductive, and  *)
(* with it the properties about logs, runs and held tickets, for every     *)
(* value of the constants.                                                 *)
(*                                                                         *)
(* The steps are sorted by what they do to the store.  A step at a ticket  *)
(* (AtWork) appends an event of that ticket or makes one move of its run;  *)
(* a step of the loop (AtLoop) keeps the ticket of the run; an ending step *)
(* (Ending) takes the run out of the live places; a few are treated on     *)
(* their own.  Calm collects the parts of LogInv that need no more than    *)
(* that; Trail needs to know what each place owes to the log, and which    *)
(* places ask no more of it than the one before (Onward).                  *)
(*                                                                         *)
(* The last part is why the kernel refuses no move of a run that did not   *)
(* fail twice: RefusalInv is inductive, with what LogInv says of the runs. *)
(***************************************************************************)
EXTENDS LoopRunSafety

-----------------------------------------------------------------------------
(* What the steps of the process have in common *)

Stays == UNCHANGED <<cur, tk, resumed, skipped>>

\* The process gives up a run in hand, or ends.
Left ==
  \/ pc' \in {"resumeSkip", "structuredStop"} /\ Stays
  \/ pc' = "off" /\ resumed' = FALSE

Flagging == pc' = "flag" /\ Stays

LEMMA GiveUps ==
  /\ \A k : Escape(k) => Left
  /\ \A k : Throw(k) => Left \/ Flagging
  /\ \A to : Deny(to) => Left
  /\ \A p : Goto(p) => pc' = p /\ Stays
  /\ \A p : Again(p) => pc' = p /\ Stays
<1>1. \A k : Escape(k) => Left
  BY DEF Escape, Left, Stays, Goto, Reset, job, tally
<1>2. \A k : Throw(k) => Left \/ Flagging
  BY <1>1 DEF Throw, Flagging, Stays, job, tally
<1>3. \A to : Deny(to) => Left BY DEF Deny, Left, Stays, job, tally
<1>4. \A p : Goto(p) => pc' = p /\ Stays BY DEF Goto, Stays, job, tally
<1>5. \A p : Again(p) => pc' = p /\ Stays BY DEF Again, Stays, job, tally
<1> QED BY <1>1, <1>2, <1>3, <1>4, <1>5

\* What an append adds, and that it adds no more.
LEMMA Appended ==
  ASSUME TypeOK, NEW y, NEW t, Append(y, t)
  PROVE  \A r \in RunId : \A z, u :
           Has(r, z, u)' <=> (Has(r, z, u) \/ (r = cur /\ z = y /\ u = t))
<1>1. TAKE r \in RunId
<1>2. TAKE z, u
<1>3. log'[r] = IF r = cur THEN log[r] \cup {<<y, t>>} ELSE log[r]
  BY DEF Append, TypeOK, StoreOK
<1>4. <<z, u>> = <<y, t>> <=> (z = y /\ u = t) OBVIOUS
<1>5. <<z, u>> \in log'[r] <=> (<<z, u>> \in log[r] \/ (r = cur /\ <<z, u>> = <<y, t>>))
  BY <1>3
<1> QED BY <1>4, <1>5 DEF Has

LEMMA LogSame ==
  ASSUME UNCHANGED log
  PROVE  \A r \in RunId : \A z, u : Has(r, z, u)' <=> Has(r, z, u)
BY DEF Has

\* The events of a ticket.
TicketEvents == EventTypes \ {"run.completed", "run.stopped"}

\* A step at a ticket: it goes on with the ticket or gives it up; the store sees
\* one event of the ticket, or one move of its run, or nothing.
OnTicket == pc' \in TicketPCs \ {"start"} /\ Stays
Keeps == UNCHANGED <<status, phase, held>>
Moves ==
  \E to \in LoopStates \ TerminalStates, t \in {held[cur], tk, NoTicket} :
    Persist(to, t)
Tells == UNCHANGED log \/ \E y \in TicketEvents : Append(y, tk)
AtWork ==
  /\ pc \in TicketPCs
  /\ Left \/ OnTicket
  /\ (Keeps /\ Tells) \/ (Moves /\ UNCHANGED log)
  /\ UNCHANGED processed

LEMMA FlaggingIsOnTicket == Flagging => OnTicket
BY DEF Flagging, OnTicket, TicketPCs, PCs, NoRunPCs, RunPCs

LEMMA MoveAtWork ==
  ASSUME pc \in TicketPCs, NEW to \in LoopStates \ TerminalStates,
         NEW t \in {held[cur], tk, NoTicket}, NEW next \in TicketPCs \ {"start"},
         \/ Move(to, t, next, Throw("other")) /\ MoveRest
         \/ Move(to, t, next, Goto("flag")) /\ MoveRest
  PROVE  AtWork
<1>1. UNCHANGED <<log, processed>> BY DEF MoveRest
<1>2. (Throw("other") \/ Goto("flag") \/ Deny(to)) => (Left \/ OnTicket)
  BY GiveUps, FlaggingIsOnTicket DEF Flagging
<1>3. (pc' = next /\ UNCHANGED <<job, tally>>) => OnTicket
  BY DEF OnTicket, Stays, job, tally
<1>4. Persist(to, t) => Moves BY DEF Moves
<1>5. (Left \/ OnTicket) /\ (Keeps \/ Moves)
  BY <1>2, <1>3, <1>4 DEF Move, Keeps, job, tally
<1> QED BY <1>1, <1>5 DEF AtWork, Tells

LEMMA TicketPlaces ==
  TicketPCs = {"reattach", "start", "worktree", "slash", "enterExecute", "build",
               "verify", "recordPassed", "recordFailed", "recordUnworkable",
               "enterPlan", "plan", "enterReview", "review", "refix", "reverify",
               "reviewed", "enterClose", "close", "closedEvent", "push",
               "enterMergeGate", "pr", "gate", "merge", "escalate", "cleanup",
               "backToSelect", "ticketEnd", "flag", "route", "routeMirror"}
BY DEF TicketPCs, PCs, NoRunPCs, RunPCs

\* The moves of a ticket.
LEMMA EnterAtWork ==
  ASSUME EnterExecute \/ EnterPlan \/ EnterReview \/ EnterClose \/ EnterMergeGate
  PROVE  AtWork
<1>1. ASSUME NEW to \in LoopStates \ TerminalStates, NEW next \in TicketPCs \ {"start"},
             pc \in TicketPCs, Enter(to, next)
      PROVE  AtWork
  BY <1>1, MoveAtWork DEF Enter
<1>2. {"ExecutePlan", "PlanTicket", "Review", "Close", "MergeGate"}
        \subseteq LoopStates \ TerminalStates
  BY DEF LoopStates, TerminalStates
<1> QED BY <1>1, <1>2, TicketPlaces
        DEF EnterExecute, EnterPlan, EnterReview, EnterClose, EnterMergeGate, At

LEMMA SelectAtWork == ASSUME StartTicket \/ BackToSelect PROVE AtWork
<1>1. {"StartTicket", "SelectTicket"} \subseteq LoopStates \ TerminalStates
  BY DEF LoopStates, TerminalStates
<1>2. CASE StartTicket BY <1>1, <1>2, MoveAtWork, TicketPlaces DEF StartTicket, At
<1>3. CASE BackToSelect BY <1>1, <1>3, MoveAtWork, TicketPlaces DEF BackToSelect, At
<1> QED BY <1>2, <1>3

LEMMA RouteAtWork == ASSUME Route PROVE AtWork
<1>1. ASSUME NEW here \in {"route", "routeMirror"}, NEW at, RouteFrom(here, at)
      PROVE  AtWork
  <2>1. pc \in TicketPCs BY <1>1, TicketPlaces DEF RouteFrom, At
  <2>2. CASE at \in DOMAIN FailureRoute /\ Enter(FailureRoute[at], "backToSelect")
    <3>1. FailureRoute[at] \in LoopStates \ TerminalStates
      BY <2>2 DEF FailureRoute, LoopStates, TerminalStates
    <3> QED BY <2>1, <2>2, <3>1, MoveAtWork, TicketPlaces DEF Enter
  <2>3. CASE /\ Goto("ticketEnd") \/ Goto("backToSelect")
             /\ UNCHANGED <<runVars, repoVars, treeVars, envVars>>
    BY <2>1, <2>3, GiveUps, TicketPlaces DEF AtWork, OnTicket, Keeps, Tells, runVars
  <2> QED BY <1>1, <2>2, <2>3 DEF RouteFrom
<1> QED BY <1>1 DEF Route

\* The steps that tell nothing.
LEMMA SilentAtWork ==
  ASSUME \/ Reattach \/ CreateWorktree \/ SlashCommand \/ CloseTicket \/ MarkEscalated
         \/ CleanupWorktree \/ Push \/ CreatePr \/ MergePr
  PROVE  AtWork
<1> USE GiveUps, TicketPlaces, FlaggingIsOnTicket
        DEF AtWork, OnTicket, Keeps, Tells, runVars, At
<1>1. CASE Reattach BY <1>1 DEF Reattach
<1>2. CASE CreateWorktree BY <1>2 DEF CreateWorktree
<1>3. CASE SlashCommand BY <1>3 DEF SlashCommand
<1>4. CASE CloseTicket BY <1>4 DEF CloseTicket
<1>5. CASE MarkEscalated \/ CleanupWorktree BY <1>5 DEF MarkEscalated, CleanupWorktree
<1>6. CASE Push \/ CreatePr \/ MergePr BY <1>6 DEF Push, CreatePr, MergePr, Remotely
<1> QED BY <1>1, <1>2, <1>3, <1>4, <1>5, <1>6

LEMMA TicketTypes ==
  TicketEvents = {"ticket.started", "runner.started ExecutePlan",
                  "runner.started Review", "verification.passed", "review.result",
                  "ticket.flagged", "ticket.closed", "merge.decision"}
BY DEF TicketEvents, EventTypes

\* The steps that tell something.
LEMMA TellingAtWork ==
  ASSUME \/ Build \/ Refix \/ Verify \/ Reverify \/ RecordVerification \/ PlanTicket
         \/ Review \/ Reviewed \/ ClosedEvent \/ Gate \/ Flag
  PROVE  AtWork
<1>1. pc \in TicketPCs
  BY TicketPlaces
  DEF Build, Refix, BuilderTurn, Verify, Reverify, Verification, RecordVerification,
      PlanTicket, Review, Reviewed, ClosedEvent, Gate, Flag, At
<1>2. Left \/ OnTicket
  <2>1. ASSUME \/ Throw("other")
               \/ \E p \in TicketPCs \ {"start"} : Goto(p) \/ Again(p)
        PROVE  Left \/ OnTicket
    BY <2>1, GiveUps, FlaggingIsOnTicket DEF OnTicket
  <2>2. CASE Build \/ Refix
    <3>1. Throw("other") \/ Goto("verify") \/ Goto("reverify")
      BY <2>2 DEF Build, Refix, BuilderTurn
    <3> QED BY <2>1, <3>1, TicketPlaces
  <2>3. CASE Verify \/ Reverify
    <3>1. \/ Throw("other") \/ Goto("recordPassed") \/ Again("build")
          \/ Goto("recordFailed") \/ Goto("recordUnworkable") \/ Again("review")
          \/ Goto("flag")
      BY <2>3 DEF Verify, Reverify, Verification
    <3> QED BY <2>1, <3>1, TicketPlaces
  <2>4. CASE RecordVerification
    BY <2>4, GiveUps, TicketPlaces, FlaggingIsOnTicket
    DEF RecordVerification, OnTicket, Stays, job, tally
  <2>5. CASE Review
    <3>1. Throw("other") \/ Goto("refix") \/ Verdict("APPROVE") \/ Verdict("ESCALATE")
      BY <2>5 DEF Review
    <3>2. \A v : Verdict(v) => OnTicket
      BY TicketPlaces DEF Verdict, OnTicket, Stays, job, tally
    <3> QED BY <2>1, <3>1, <3>2, TicketPlaces
  <2>6. CASE PlanTicket \/ Reviewed \/ ClosedEvent \/ Gate \/ Flag
    BY <2>6, GiveUps, TicketPlaces, FlaggingIsOnTicket
    DEF PlanTicket, Reviewed, ClosedEvent, Gate, Flag, OnTicket
  <2> QED BY <2>2, <2>3, <2>4, <2>5, <2>6
<1>3. Keeps /\ UNCHANGED processed
  BY DEF Build, Refix, BuilderTurn, Verify, Reverify, Verification, RecordVerification,
     PlanTicket, Review, Reviewed, ClosedEvent, Gate, Flag, Keeps
<1>4. Tells
  <2> USE TicketTypes DEF Tells
  <2>1. CASE Build \/ Refix BY <2>1 DEF Build, Refix, BuilderTurn, Started
  <2>2. CASE Verify \/ Reverify BY <2>2 DEF Verify, Reverify, Verification, Started
  <2>3. CASE RecordVerification \/ Review BY <2>3 DEF RecordVerification, Review, Started
  <2>4. CASE PlanTicket \/ Reviewed \/ ClosedEvent \/ Gate \/ Flag
    BY <2>4 DEF PlanTicket, Reviewed, ClosedEvent, Gate, Flag
  <2> QED BY <2>1, <2>2, <2>3, <2>4
<1> QED BY <1>1, <1>2, <1>3, <1>4 DEF AtWork

\* What a step at a ticket leaves of the runs.
Grows == \A r \in RunId : \A y, t : Has(r, y, t) => Has(r, y, t)'
OthersKept ==
  \A r \in RunId \ {cur} :
    phase'[r] = phase[r] /\ held'[r] = held[r] /\ log'[r] = log[r]
OneFlag ==
  \A r \in RunId, t \in Ticket :
    Has(r, "ticket.flagged", t)' =>
      (Has(r, "ticket.flagged", t) \/ (r = cur /\ t = tk))
NoLastWord == \A r \in RunId : Terminal(r)' => Terminal(r)

LEMMA WorkKeeps ==
  ASSUME TypeOK, AtWork
  PROVE  /\ cur \in RunId /\ tk \in Ticket
         /\ UNCHANGED status /\ OthersKept
         /\ held'[cur] \in {held[cur], tk, NoTicket}
         /\ Grows /\ NoLastWord
         /\ OneFlag
<1>1. cur \in RunId /\ tk \in Ticket BY AtTicket DEF AtWork
<1>2. CASE Keeps /\ UNCHANGED log
  <2>1. OthersKept /\ UNCHANGED status /\ held'[cur] = held[cur]
    BY <1>2 DEF Keeps, OthersKept
  <2>2. Grows /\ NoLastWord
    BY <1>2, LogSame DEF Grows, NoLastWord, Terminal
  <2>3. OneFlag BY <1>2, LogSame DEF OneFlag
  <2> QED BY <1>1, <2>1, <2>2, <2>3
<1>3. ASSUME NEW y \in TicketEvents, Keeps, Append(y, tk)
      PROVE  /\ UNCHANGED status /\ OthersKept
             /\ held'[cur] \in {held[cur], tk, NoTicket}
             /\ Grows /\ NoLastWord
             /\ OneFlag
  <2>1. \A r \in RunId : \A z, u :
          Has(r, z, u)' <=> (Has(r, z, u) \/ (r = cur /\ z = y /\ u = tk))
    BY <1>3, Appended
  <2>2. log' = [log EXCEPT ![cur] = @ \cup {<<y, tk>>}] BY <1>3 DEF Append
  <2>3. OthersKept /\ UNCHANGED status /\ held'[cur] = held[cur]
    BY <1>3, <2>2 DEF Keeps, OthersKept, TypeOK, StoreOK
  <2>4. y # "run.stopped" /\ y # "run.completed" BY TicketTypes
  <2>5. Grows BY <2>1 DEF Grows
  <2>6. NoLastWord BY <2>1, <2>4 DEF NoLastWord, Terminal
  <2>7. OneFlag BY <2>1 DEF OneFlag
  <2> QED BY <2>3, <2>5, <2>6, <2>7
<1>4. ASSUME NEW to \in LoopStates \ TerminalStates, NEW t \in {held[cur], tk, NoTicket},
             Persist(to, t), UNCHANGED log
      PROVE  /\ UNCHANGED status /\ OthersKept
             /\ held'[cur] \in {held[cur], tk, NoTicket}
             /\ Grows /\ NoLastWord
             /\ OneFlag
  <2>1. OthersKept BY <1>4 DEF Persist, OthersKept, TypeOK, StoreOK
  <2>2. UNCHANGED status
    BY <1>1, <1>4 DEF Persist, TypeOK, StoreOK, TerminalStates
  <2>3. held'[cur] = t BY <1>1, <1>4 DEF Persist, TypeOK, StoreOK
  <2>4. Grows /\ NoLastWord BY <1>4, LogSame DEF Grows, NoLastWord, Terminal
  <2>5. OneFlag BY <1>4, LogSame DEF OneFlag
  <2> QED BY <2>1, <2>2, <2>3, <2>4, <2>5
<1> QED BY <1>1, <1>2, <1>3, <1>4 DEF AtWork, Moves, Tells

LEMMA WorkPlaces ==
  ASSUME AtWork
  PROVE  \/ pc' \in {"resumeSkip", "structuredStop"} /\ Stays
         \/ pc' = "off" /\ resumed' = FALSE
         \/ pc' \in TicketPCs \ {"start"} /\ Stays
BY DEF AtWork, Left, OnTicket

LEMMA StandingAtWork == ASSUME TypeOK, Standing, AtWork PROVE Standing'
<1>1. status[cur] = "running" /\ ~Terminal(cur) /\ cur \in RunId
  BY WorkKeeps DEF AtWork, Standing, LivePCs
<1>2. UNCHANGED status /\ OthersKept /\ NoLastWord BY WorkKeeps
<1>3. pc' \notin NoRunPCs => cur' = cur
  BY WorkPlaces DEF NoRunPCs, Stays
<1>4. pc' \notin {"resumeSkipEvent", "stopEvent", "complete", "refining"}
  BY WorkPlaces, TicketPlaces
<1>5. pc' \in LivePCs => pc' \notin NoRunPCs
  BY TicketPlaces DEF LivePCs, LoopPCs, NoRunPCs
<1>6. \A r \in RunId : Terminal(r)' => r # cur /\ Terminal(r)
  BY <1>1, <1>2 DEF NoLastWord
<1>7. pc' \in LivePCs => (status[cur] = "running" /\ ~Terminal(cur))'
  <2>1. PICK r \in RunId : r = cur BY <1>1
  <2>2. pc' \in LivePCs => cur' = r BY <1>3, <1>5, <2>1
  <2>3. ~Terminal(r)' BY <1>6, <2>1
  <2> QED BY <1>1, <1>2, <2>1, <2>2, <2>3 DEF Terminal
<1>8. \A r \in RunId : status'[r] = "absent" => log'[r] = {} /\ held'[r] = NoTicket
  BY <1>1, <1>2 DEF Standing, OthersKept
<1>9. TerminalEventIsFinal'
  <2>1. \A r \in RunId : Terminal(r) => status[r] # "running" \/ phase[r] = "RefineBacklog"
    BY DEF Standing, TerminalEventIsFinal, Terminal
  <2>2. \A r \in RunId :
          Terminal(r)' => status'[r] # "running" \/ phase'[r] = "RefineBacklog"
    BY <1>2, <1>6, <2>1 DEF OthersKept
  <2> QED BY <2>2 DEF TerminalEventIsFinal, Terminal
<1> QED BY <1>1, <1>2, <1>3, <1>4, <1>7, <1>8, <1>9 DEF Standing

LEMMA LoopPlaces ==
  /\ TicketPCs \cap (NoRunPCs \cup LoopPCs) = {}
  /\ {"resumeSkip", "structuredStop", "off", "open"} \cap
       (TicketPCs \cup LoopPCs \cup {"finish"}) = {}
  /\ "finish" \notin TicketPCs
BY TicketPlaces DEF LoopPCs, NoRunPCs

LEMMA RemembersAtWork == ASSUME TypeOK, Remembers, AtWork PROVE Remembers'
<1>1. cur \in RunId /\ tk \in Ticket /\ OneFlag /\ pc \in TicketPCs
  BY WorkKeeps DEF AtWork
<1>2. pc' \in NoRunPCs \cup LoopPCs \cup {"start"} => pc' = "off" /\ resumed' = FALSE
  BY WorkPlaces, LoopPlaces DEF NoRunPCs
<1>3. pc' \notin LoopPCs \cup {"start"} BY WorkPlaces, LoopPlaces
<1>4. ASSUME pc' \in TicketPCs, ~resumed'
      PROVE  \A t \in Ticket : Has(cur, "ticket.flagged", t)' => t \in skipped' \cup {tk'}
  <2>1. Stays BY <1>4, WorkPlaces, LoopPlaces
  <2>2. \A t \in Ticket : Has(cur, "ticket.flagged", t) => t \in skipped \cup {tk}
    BY <1>1, <1>4, <2>1 DEF Remembers, Stays
  <2>3. PICK r \in RunId : r = cur BY <1>1
  <2>4. \A t \in Ticket : Has(r, "ticket.flagged", t)' => t \in skipped \cup {tk}
    BY <1>1, <2>2, <2>3 DEF OneFlag
  <2> QED BY <2>1, <2>3, <2>4 DEF Stays, Has
<1>5. FlaggedNotRestarted' BY <1>3 DEF FlaggedNotRestarted, At
<1> QED BY <1>2, <1>3, <1>4, <1>5 DEF Remembers

LEMMA OwedAtWork == ASSUME TypeOK, Owed, AtWork PROVE Owed'
<1>1. /\ cur \in RunId /\ pc \in TicketPCs /\ Grows
      /\ held'[cur] \in {held[cur], tk, NoTicket}
  BY WorkKeeps DEF AtWork
<1>2. pc' \notin LoopPCs \cup {"start", "finish"} BY WorkPlaces, LoopPlaces
<1>3. ASSUME pc' \in TicketPCs
      PROVE  (held[cur] \in {NoTicket, tk} \/ Outcome(cur, held[cur]))'
  <2>1. Stays BY <1>3, WorkPlaces, LoopPlaces
  <2>2. PICK r \in RunId : r = cur BY <1>1
  <2>3. held[r] \in {NoTicket, tk} \/ Outcome(r, held[r]) BY <1>1, <2>2 DEF Owed
  <2>4. \A t : Outcome(r, t) => Outcome(r, t)' BY <1>1 DEF Grows, Outcome
  <2>5. held'[r] \in {NoTicket, tk} \/ (held'[r] = held[r] /\ Outcome(r, held[r]))
    BY <1>1, <2>2, <2>3
  <2>6. PICK h : h = held[r] OBVIOUS
  <2>7. held'[r] \in {NoTicket, tk} \/ (held'[r] = h /\ Outcome(r, h)')
    BY <2>4, <2>5, <2>6
  <2> QED BY <2>1, <2>2, <2>7 DEF Stays, Outcome, Has
<1> QED BY <1>2, <1>3 DEF Owed

-----------------------------------------------------------------------------
(* The loop between tickets *)

\* A step of the loop: the store sees at most a move that keeps the ticket.
LoopMoves ==
  \E to \in {"SelectTicket", "RefineBacklog"} :
    Persist(to, held[cur]) /\ (pc' = "refining" => to = "RefineBacklog")
AtLoop ==
  /\ pc \in LoopPCs
  /\ Left \/ (pc' \in LoopPCs \cup {"finish"} /\ Stays)
  /\ (Keeps /\ pc' # "refining") \/ LoopMoves
  /\ UNCHANGED <<log, processed>>

LEMMA AdvanceAtLoop ==
  ASSUME pc \in LoopPCs, NEW to \in {"SelectTicket", "RefineBacklog"},
         NEW next \in LoopPCs, Advance(to, next), next = "refining" => to = "RefineBacklog"
  PROVE  AtLoop
<1>1. UNCHANGED <<log, processed>> BY DEF Advance, MoveRest
<1>2. (Escape("other") \/ Deny(to)) => Left BY GiveUps
<1>3. (pc' = next /\ UNCHANGED <<job, tally>>) => (pc' = next /\ Stays)
  BY DEF Stays, job, tally
<1>4. Left => pc' # "refining" BY DEF Left
<1>5. \/ Keeps /\ Left
      \/ Persist(to, held[cur]) /\ (Left \/ (pc' = next /\ Stays))
  BY <1>2, <1>3 DEF Advance, Move, Keeps, job, tally
<1> QED BY <1>1, <1>4, <1>5 DEF AtLoop, LoopMoves

LEMMA RunAtLoop ==
  ASSUME \/ Refine \/ RefineSelect \/ RefineEnter \/ RefineBack \/ Top \/ Select
         \/ Budget \/ PickNone
  PROVE  AtLoop
<1> USE DEF At
<1>1. {"refine", "refineSelect", "refineEnter", "refining", "refineBack", "top",
       "killStop", "select", "budget", "trip", "pick"} = LoopPCs
  BY DEF LoopPCs
<1>3. CASE RefineSelect BY <1>1, <1>3, AdvanceAtLoop DEF RefineSelect
<1>4. CASE RefineEnter BY <1>1, <1>4, AdvanceAtLoop DEF RefineEnter
<1>5. CASE RefineBack BY <1>1, <1>5, AdvanceAtLoop DEF RefineBack
<1>6. CASE Select BY <1>1, <1>6, AdvanceAtLoop DEF Select
<1>7. CASE Refine \/ Top \/ Budget \/ PickNone
  <2>1. pc \in LoopPCs BY <1>1, <1>7 DEF Refine, Top, Budget, PickNone
  <2>2. Keeps /\ UNCHANGED <<log, processed>>
    BY <1>7 DEF Refine, Top, Budget, PickNone, Keeps, runVars
  <2>3. \/ Escape("other")
        \/ \E p \in {"top", "refineSelect", "finish", "killStop", "select", "budget",
                   "trip", "pick"} : Goto(p)
    BY <1>7 DEF Refine, Top, Budget, PickNone
  <2>4. Left \/ (pc' \in (LoopPCs \ {"refining"}) \cup {"finish"} /\ Stays)
    BY <1>1, <2>3, GiveUps
  <2>5. pc' # "refining" BY <2>4 DEF Left, LoopPCs
  <2> QED BY <2>1, <2>2, <2>4, <2>5 DEF AtLoop
<1> QED BY <1>3, <1>4, <1>5, <1>6, <1>7

LEMMA LoopKeeps ==
  ASSUME TypeOK, AtLoop
  PROVE  /\ cur \in RunId /\ UNCHANGED <<status, log>> /\ OthersKept
         /\ held'[cur] = held[cur]
         /\ pc' = "refining" => phase'[cur] = "RefineBacklog"
<1>1. cur \in RunId
  <2>1. pc \notin NoRunPCs BY DEF AtLoop, LoopPCs, NoRunPCs
  <2> QED BY <2>1, AtRun
<1>2. CASE Keeps /\ pc' # "refining" BY <1>1, <1>2 DEF AtLoop, Keeps, OthersKept
<1>3. ASSUME NEW to \in {"SelectTicket", "RefineBacklog"}, Persist(to, held[cur]),
             pc' = "refining" => to = "RefineBacklog"
      PROVE  /\ UNCHANGED <<status, log>> /\ OthersKept
             /\ held'[cur] = held[cur]
             /\ pc' = "refining" => phase'[cur] = "RefineBacklog"
  <2>1. status' = status BY <1>1, <1>3 DEF Persist, TypeOK, StoreOK, TerminalStates
  <2>2. /\ phase'[cur] = to /\ held'[cur] = held[cur]
        /\ \A r \in RunId \ {cur} : phase'[r] = phase[r] /\ held'[r] = held[r]
    BY <1>1, <1>3 DEF Persist, TypeOK, StoreOK, TerminalStates
  <2> QED BY <1>3, <2>1, <2>2 DEF AtLoop, OthersKept
<1> QED BY <1>1, <1>2, <1>3 DEF AtLoop, LoopMoves

LEMMA StandingAtLoop == ASSUME TypeOK, Standing, AtLoop PROVE Standing'
<1>1. status[cur] = "running" /\ ~Terminal(cur) BY DEF AtLoop, Standing, LivePCs
<1>2. /\ cur \in RunId /\ UNCHANGED <<status, log>> /\ OthersKept
      /\ pc' = "refining" => phase'[cur] = "RefineBacklog"
  BY LoopKeeps
<1>3. \/ pc' \in {"resumeSkip", "structuredStop"} /\ cur' = cur
      \/ pc' = "off"
      \/ pc' \in LoopPCs \cup {"finish"} /\ cur' = cur
  BY DEF AtLoop, Left, Stays
<1>4. /\ pc' \notin NoRunPCs => cur' = cur
      /\ pc' \in LivePCs => cur' = cur
      /\ pc' \notin {"resumeSkipEvent", "stopEvent", "complete"}
  BY <1>3, LoopPlaces DEF NoRunPCs, LivePCs, LoopPCs
<1>5. held'[cur] = held[cur] BY LoopKeeps
<1>6. \A r \in RunId : status'[r] = "absent" => log'[r] = {} /\ held'[r] = NoTicket
  BY <1>1, <1>2 DEF Standing, OthersKept
<1>7. TerminalEventIsFinal'
  <2>1. \A r \in RunId : Terminal(r) =>
          r # cur /\ (status[r] # "running" \/ phase[r] = "RefineBacklog")
    BY <1>1 DEF Standing, TerminalEventIsFinal, Terminal
  <2>2. \A r \in RunId : Terminal(r)' => Terminal(r) BY <1>2 DEF Terminal, Has
  <2>3. \A r \in RunId :
          Terminal(r)' => status'[r] # "running" \/ phase'[r] = "RefineBacklog"
    BY <1>2, <2>1, <2>2 DEF OthersKept
  <2> QED BY <2>3 DEF TerminalEventIsFinal, Terminal
<1>8. pc' \in LivePCs => (status[cur] = "running" /\ ~Terminal(cur))'
  BY <1>1, <1>2, <1>4 DEF Terminal, Has
<1> QED BY <1>1, <1>2, <1>3, <1>4, <1>6, <1>7, <1>8 DEF Standing, NoRunPCs, LoopPCs

LEMMA RemembersAtLoop == ASSUME TypeOK, Remembers, AtLoop PROVE Remembers'
<1>1. /\ ~resumed /\ pc \in LoopPCs /\ UNCHANGED log
      /\ \A t \in Ticket : Has(cur, "ticket.flagged", t) => t \in skipped
  BY DEF AtLoop, Remembers
<1>2. \/ pc' \in LoopPCs \cup {"finish", "resumeSkip", "structuredStop"} /\ Stays
      \/ pc' = "off" /\ ~resumed'
  BY DEF AtLoop, Left
<1>3. pc' \notin TicketPCs BY <1>2, LoopPlaces DEF NoRunPCs
<1>4. ~resumed' BY <1>1, <1>2 DEF Stays
<1>5. pc' \in LoopPCs \cup {"start"} =>
        \A t \in Ticket : (Has(cur, "ticket.flagged", t) => t \in skipped)'
  BY <1>1, <1>2, <1>3, LoopPlaces, TicketPlaces DEF Stays, Has
<1>6. FlaggedNotRestarted' BY <1>3, TicketPlaces DEF FlaggedNotRestarted, At
<1> QED BY <1>3, <1>4, <1>5, <1>6 DEF Remembers

LEMMA OwedAtLoop == ASSUME TypeOK, Owed, AtLoop PROVE Owed'
<1>1. held'[cur] = held[cur] /\ UNCHANGED log BY LoopKeeps
<1>2. held[cur] = NoTicket \/ Outcome(cur, held[cur]) BY DEF AtLoop, Owed
<1>3. \/ pc' \in LoopPCs \cup {"finish", "resumeSkip", "structuredStop"} /\ cur' = cur
      \/ pc' = "off"
  BY DEF AtLoop, Left, Stays
<1>4. pc' \notin TicketPCs BY <1>3, LoopPlaces DEF NoRunPCs
<1>5. pc' \in LoopPCs \cup {"start", "finish"} => cur' = cur
  BY <1>3, LoopPlaces, TicketPlaces DEF LoopPCs
<1> QED BY <1>1, <1>2, <1>4, <1>5 DEF Owed, Outcome, Has

-----------------------------------------------------------------------------
(* The end of a run *)

\* A step that leaves the run for good, or is on its way out of it.
Final(r) == status[r] # "running" \/ phase[r] = "RefineBacklog"
StatusKept == \A r \in RunId \ {cur} : status'[r] = status[r]
Ending ==
  /\ pc \notin NoRunPCs /\ pc' \notin LivePCs
  /\ pc' \in NoRunPCs => ~resumed'
  /\ pc' \notin NoRunPCs => cur' = cur
  /\ OthersKept /\ StatusKept /\ UNCHANGED processed
  /\ status'[cur] # "absent"
  /\ pc' \in {"resumeSkipEvent", "stopEvent", "complete"} => status'[cur] # "running"
  /\ \A r \in RunId : r = cur /\ Terminal(r)' => Final(r)'

LEMMA StandingEnds == ASSUME TypeOK, Standing, Ending PROVE Standing'
<1>1. cur \in RunId BY AtRun DEF Ending
<1>2. pc' # "refining" BY DEF Ending, LivePCs, LoopPCs
<1>3. pc' \notin NoRunPCs => status'[cur'] # "absent" BY DEF Ending
<1>4. {"resumeSkipEvent", "stopEvent", "complete"} \cap NoRunPCs = {} BY DEF NoRunPCs
<1>5. \A r \in RunId : status'[r] = "absent" => log'[r] = {} /\ held'[r] = NoTicket
  BY DEF Standing, Ending, StatusKept, OthersKept
<1>6. TerminalEventIsFinal'
  <2>1. \A r \in RunId : Terminal(r) => Final(r)
    BY DEF Standing, TerminalEventIsFinal, Terminal, Final
  <2>2. \A r \in RunId \ {cur} : Terminal(r)' => Final(r)'
    BY <2>1 DEF Ending, OthersKept, StatusKept, Terminal, Has, Final
  <2>3. \A r \in RunId : Terminal(r)' => Final(r)' BY <2>2 DEF Ending
  <2> QED BY <2>3 DEF TerminalEventIsFinal, Terminal, Final
<1>7. pc' \in {"resumeSkipEvent", "stopEvent", "complete"} => status'[cur'] # "running"
  BY <1>4 DEF Ending
<1>8. pc' \notin LivePCs BY DEF Ending
<1> QED BY <1>2, <1>3, <1>5, <1>6, <1>7, <1>8 DEF Standing

LEMMA RemembersEnds ==
  ASSUME pc' \notin LivePCs, pc' \in NoRunPCs => ~resumed' PROVE Remembers'
<1>1. pc' \notin LoopPCs \cup TicketPCs \cup {"start"}
  BY TicketPlaces DEF LivePCs
<1>2. FlaggedNotRestarted' BY <1>1 DEF FlaggedNotRestarted, At
<1> QED BY <1>1, <1>2 DEF Remembers

LEMMA OwedEnds == ASSUME pc' \notin LivePCs PROVE Owed'
<1>1. pc' \notin LoopPCs \cup TicketPCs \cup {"start", "finish"}
  BY TicketPlaces DEF LivePCs
<1> QED BY <1>1 DEF Owed

LEMMA EndPlaces ==
  /\ {"resumeSkip", "resumeSkipEvent", "structuredStop", "stopEvent", "complete",
      "off", "open"} \cap LivePCs = {}
  /\ NoRunPCs = {"off", "open"}
BY TicketPlaces DEF LivePCs, LoopPCs, NoRunPCs

\* A live run has no last word, so a move cannot leave one behind it.
LEMMA MoveEnds ==
  ASSUME TypeOK, Standing, pc \in LivePCs, NEW to \in TerminalStates,
         NEW next \in {"stopEvent", "complete"}, Advance(to, next)
  PROVE  Ending
<1>1. pc \notin NoRunPCs BY EndPlaces
<1>2. cur \in RunId BY <1>1, AtRun
<1>3. status[cur] = "running" /\ ~Terminal(cur) BY DEF Standing
<1>4. UNCHANGED <<log, processed>> BY DEF Advance, MoveRest
<1>5. (Escape("other") \/ Deny(to)) => Left BY GiveUps
<1>6. \/ Keeps /\ Left
      \/ Persist(to, held[cur]) /\ (Left \/ (pc' = next /\ cur' = cur))
  BY <1>5 DEF Advance, Move, Keeps, job
<1>7. OthersKept /\ StatusKept /\ status'[cur] # "absent"
  BY <1>2, <1>3, <1>4, <1>6
  DEF Keeps, Persist, OthersKept, StatusKept, TypeOK, StoreOK
<1>8. pc' = next => status'[cur] # "running"
  BY <1>2, <1>6 DEF Persist, TypeOK, StoreOK, Left, TerminalStates
<1>9. \A r \in RunId : r = cur => ~Terminal(r)' BY <1>3, <1>4 DEF Terminal, Has
<1>10. Left => /\ pc' \notin LivePCs /\ (pc' \in NoRunPCs => ~resumed')
               /\ (pc' \notin NoRunPCs => cur' = cur)
               /\ pc' \notin {"resumeSkipEvent", "stopEvent", "complete"}
  BY EndPlaces DEF Left, Stays
<1> QED BY <1>1, <1>4, <1>6, <1>7, <1>8, <1>9, <1>10, EndPlaces DEF Ending

LEMMA StopEnds ==
  ASSUME TypeOK, Standing,
         \/ KillStop \/ Trip \/ Finish \/ Complete \/ StructuredStop \/ StopEvent
         \/ ResumeSkip \/ ResumeSkipEvent
  PROVE  Ending
<1>0. pc \notin NoRunPCs
  BY EndPlaces
  DEF KillStop, Trip, Finish, Complete, StructuredStop, StopEvent, ResumeSkip,
      ResumeSkipEvent, At
<1>1. CASE Trip
  <2>1. {"BudgetExceeded", "NoProgress"} \subseteq TerminalStates BY DEF TerminalStates
  <2> QED BY <1>1, <2>1, MoveEnds DEF Trip, At, LivePCs, LoopPCs
<1>2. CASE Finish
  BY <1>2, MoveEnds DEF Finish, At, LivePCs, TerminalStates
<1>3. cur \in RunId /\ status[cur] # "absent" BY <1>0, AtRun DEF Standing
<1>4. \A r \in RunId : Terminal(r) => Final(r)
  BY DEF Standing, TerminalEventIsFinal, Terminal, Final
<1>5. CASE KillStop
  <2>1. OthersKept /\ StatusKept /\ UNCHANGED processed
    BY <1>3, <1>5 DEF KillStop, SetStatus, OthersKept, StatusKept, TypeOK, StoreOK
  <2>2. CASE SetStatus("stopped") /\ Goto("stopEvent")
    BY <1>0, <1>3, <2>1, <2>2, EndPlaces, GiveUps
    DEF Ending, SetStatus, Stays, Final, TypeOK, StoreOK
  <2>3. CASE Escape("other") /\ UNCHANGED <<status, phase, held, log>>
    <3>1. \A r \in RunId : r = cur /\ Terminal(r)' => Final(r)'
      BY <1>4, <2>3 DEF Terminal, Has, Final
    <3>2. Left BY <2>3, GiveUps
    <3> QED BY <1>0, <1>3, <2>1, <2>3, <3>1, <3>2, EndPlaces DEF Ending, Left, Stays
  <2> QED BY <1>5, <2>2, <2>3 DEF KillStop
<1>6. CASE StructuredStop \/ ResumeSkip
  <2>1. OthersKept /\ StatusKept /\ UNCHANGED processed
    BY <1>3, <1>6
    DEF StructuredStop, ResumeSkip, SetStatus, OthersKept, StatusKept, TypeOK, StoreOK
  <2>2. CASE /\ SetStatus("stopped")
             /\ Goto("stopEvent") \/ Goto("resumeSkipEvent")
    BY <1>0, <1>3, <2>1, <2>2, EndPlaces, GiveUps
    DEF Ending, SetStatus, Stays, Final, TypeOK, StoreOK
  <2>3. CASE /\ UNCHANGED <<status, phase, held, log>>
             /\ Reset("off") \/ Reset("open")
    <3>1. \A r \in RunId : r = cur /\ Terminal(r)' => Final(r)'
      BY <1>4, <2>3 DEF Terminal, Has, Final
    <3> QED BY <1>0, <1>3, <2>1, <2>3, <3>1, EndPlaces DEF Ending, Reset
  <2> QED BY <1>6, <2>2, <2>3 DEF StructuredStop, ResumeSkip
<1>7. CASE Complete \/ StopEvent \/ ResumeSkipEvent
  <2>1. status[cur] # "running"
    BY <1>7 DEF Standing, Complete, StopEvent, ResumeSkipEvent, At
  <2>2. UNCHANGED <<status, phase, held, processed>>
    BY <1>7 DEF Complete, StopEvent, ResumeSkipEvent
  <2>3. OthersKept /\ StatusKept
    BY <1>3, <1>7, <2>2
    DEF Complete, StopEvent, ResumeSkipEvent, Append, OthersKept, StatusKept, TypeOK,
        StoreOK
  <2>5. \A r \in RunId : r = cur => Final(r)' BY <2>1, <2>2 DEF Final
  <2>6. Left \/ Reset("off") \/ Reset("open")
    BY <1>7, GiveUps DEF Complete, StopEvent, ResumeSkipEvent
  <2> QED BY <1>0, <1>3, <2>2, <2>3, <2>5, <2>6, EndPlaces DEF Ending, Left, Stays, Reset
<1> QED BY <1>1, <1>2, <1>5, <1>6, <1>7

-----------------------------------------------------------------------------
(* The other steps, and the first three parts of the invariant *)

Calm == Standing /\ Remembers /\ Owed

LEMMA EndingCalm == ASSUME TypeOK, Calm, Ending PROVE Calm'
<1>1. pc' \notin LivePCs /\ (pc' \in NoRunPCs => ~resumed') BY DEF Ending
<1> QED BY <1>1, StandingEnds, RemembersEnds, OwedEnds DEF Calm

LEMMA WorkCalm == ASSUME TypeOK, Calm, AtWork PROVE Calm'
BY StandingAtWork, RemembersAtWork, OwedAtWork DEF Calm

LEMMA LoopCalm == ASSUME TypeOK, Calm, AtLoop PROVE Calm'
BY StandingAtLoop, RemembersAtLoop, OwedAtLoop DEF Calm

\* The process lets go, the store stays as it is.
LEMMA QuitCalm ==
  ASSUME TypeOK, Calm, UNCHANGED runVars, pc' \in NoRunPCs, ~resumed' PROVE Calm'
<1>1. pc' \notin LivePCs \cup {"resumeSkipEvent", "stopEvent", "complete", "refining"}
  BY EndPlaces DEF LivePCs, LoopPCs
<1>2. Standing'
  BY <1>1 DEF Calm, Standing, TerminalEventIsFinal, runVars, Has, Terminal
<1> QED BY <1>1, <1>2, RemembersEnds, OwedEnds DEF Calm

LEMMA CrashCalm == ASSUME TypeOK, Calm, Crash PROVE Calm'
BY QuitCalm DEF Crash, Reset, NoRunPCs

\* The roll-back that failed: the run's last word while it says "running".
LEMMA RefiningCalm == ASSUME TypeOK, Calm, Refining PROVE Calm'
<1>1. pc = "refining" BY DEF Refining, At
<1>2. CASE UNCHANGED log
  <2>1. AtLoop
    <3>1. Escape("other") \/ Goto("refineBack") BY DEF Refining
    <3>2. Left \/ (pc' = "refineBack" /\ Stays) BY <3>1, GiveUps
    <3>3. Keeps /\ UNCHANGED <<log, processed>> BY <1>2 DEF Refining, Keeps
    <3>4. pc' # "refining" BY <3>2 DEF Left
    <3> QED BY <1>1, <3>2, <3>3, <3>4 DEF AtLoop, LoopPCs
  <2> QED BY <2>1, LoopCalm
<1>3. CASE Append("run.stopped", NoTicket) /\ Escape("other")
  <2>1. pc \notin NoRunPCs BY <1>1 DEF NoRunPCs
  <2>2. cur \in RunId BY <2>1, AtRun
  <2>3. phase[cur] = "RefineBacklog" /\ status[cur] # "absent"
    BY <1>1, <2>1 DEF Calm, Standing
  <2>4. UNCHANGED <<status, phase, held, processed>> BY DEF Refining
  <2>5. OthersKept /\ StatusKept
    BY <1>3, <2>4 DEF Append, OthersKept, StatusKept, TypeOK, StoreOK
  <2>6. \A r \in RunId : r = cur => Final(r)' BY <2>3, <2>4 DEF Final
  <2>7. Left BY <1>3, GiveUps
  <2>8. Ending BY <2>1, <2>3, <2>4, <2>5, <2>6, <2>7, EndPlaces DEF Ending, Left, Stays
  <2> QED BY <2>8, EndingCalm
<1> QED BY <1>2, <1>3 DEF Refining

LEMMA OpenRunCalm == ASSUME TypeOK, Calm, OpenRun PROVE Calm'
<1>1. ~resumed BY DEF OpenRun, At, Calm, Remembers, NoRunPCs
<1>2. CASE Reset("off") /\ UNCHANGED status
  BY <1>2, QuitCalm DEF OpenRun, Reset, NoRunPCs, runVars
<1>3. ASSUME NEW r \in RunId, status[r] = "absent",
             status' = [status EXCEPT ![r] = "running"],
             \/ pc' = "refine" /\ cur' = r /\ UNCHANGED <<tk, resumed>>
             \/ Reset("off")
      PROVE  Calm'
  <2>1. UNCHANGED <<phase, held, log>> BY DEF OpenRun
  <2>2. status'[r] = "running" /\ \A q \in RunId \ {r} : status'[q] = status[q]
    BY <1>3 DEF TypeOK, StoreOK
  <2>3. log[r] = {} /\ held[r] = NoTicket BY <1>3 DEF Calm, Standing
  <2>4. ~Terminal(r)' BY <2>1, <2>3 DEF Terminal, Has
  <2>5. pc' \in {"refine", "off"} /\ (pc' = "refine" => cur' = r)
    BY <1>3 DEF Reset
  <2>6. TerminalEventIsFinal'
    <3>1. \A q \in RunId : Terminal(q) => Final(q)
      BY DEF Calm, Standing, TerminalEventIsFinal, Terminal, Final
    <3>2. \A q \in RunId : Terminal(q)' => q # r /\ Terminal(q)
      BY <2>1, <2>4 DEF Terminal, Has
    <3>3. \A q \in RunId : Terminal(q)' => Final(q)'
      BY <2>1, <2>2, <3>1, <3>2 DEF Final
    <3> QED BY <3>3 DEF TerminalEventIsFinal, Terminal, Final
  <2>7. Standing'
    <3>1. \A q \in RunId : status'[q] = "absent" => log'[q] = {} /\ held'[q] = NoTicket
      BY <2>1, <2>2 DEF Calm, Standing
    <3>2. pc' \in LivePCs => (status[cur] = "running" /\ ~Terminal(cur))'
      BY <2>2, <2>4, <2>5, EndPlaces DEF Terminal, Has
    <3>3. pc' \notin NoRunPCs => status'[cur'] # "absent"
      BY <2>2, <2>5 DEF NoRunPCs
    <3> QED BY <2>5, <2>6, <3>1, <3>2, <3>3 DEF Standing
  <2>8. Remembers'
    <3>1. ~resumed' BY <1>1, <1>3 DEF Reset
    <3>2. pc' \in LoopPCs \cup {"start"} =>
            \A t \in Ticket : (Has(cur, "ticket.flagged", t) => t \in skipped)'
      BY <2>1, <2>3, <2>5, LoopPlaces, TicketPlaces DEF Has
    <3>3. pc' \notin TicketPCs BY <2>5, TicketPlaces
    <3>4. FlaggedNotRestarted' BY <2>5 DEF FlaggedNotRestarted, At
    <3> QED BY <3>1, <3>2, <3>3, <3>4 DEF Remembers
  <2>9. Owed'
    <3>1. pc' \notin TicketPCs BY <2>5, TicketPlaces
    <3>2. pc' \in LoopPCs \cup {"start", "finish"} => held'[cur'] = NoTicket
      BY <2>1, <2>3, <2>5, LoopPlaces, TicketPlaces
    <3> QED BY <3>1, <3>2 DEF Owed
  <2> QED BY <2>7, <2>8, <2>9 DEF Calm
<1>4. \/ Reset("off") /\ UNCHANGED status
      \/ \E r \in RunId :
           /\ status[r] = "absent" /\ status' = [status EXCEPT ![r] = "running"]
           /\ \/ pc' = "refine" /\ cur' = r /\ UNCHANGED <<tk, resumed>>
              \/ Reset("off")
  BY DEF OpenRun
<1> QED BY <1>2, <1>3, <1>4

\* A resumed run says "running", has no last word, and holds the ticket.
LEMMA BootCalm == ASSUME TypeOK, Calm, Boot PROVE Calm'
<1>1. UNCHANGED runVars BY DEF Boot
<1>2. CASE Reset("open") BY <1>1, <1>2, QuitCalm DEF Reset, NoRunPCs
<1>3. ASSUME NEW r \in RunId, IsNewest(r), Resumable(r), pc' = "reattach", cur' = r,
             tk' = held[r], resumed' = TRUE
      PROVE  Calm'
  <2>1. status[r] = "running" /\ ~Terminal(r)
    BY <1>3 DEF IsNewest, Running, Resumable, Terminal
  <2>2. pc' \in TicketPCs /\ pc' \notin NoRunPCs \cup LoopPCs \cup {"start", "finish"}
    BY <1>3, TicketPlaces, LoopPlaces
  <2>3. Standing'
    BY <1>1, <1>3, <2>1
    DEF Calm, Standing, TerminalEventIsFinal, runVars, Has, Terminal
  <2>4. FlaggedNotRestarted' BY <1>3 DEF FlaggedNotRestarted, At
  <2>5. Remembers' BY <1>3, <2>2, <2>4 DEF Remembers
  <2>6. held'[cur'] = tk' BY <1>1, <1>3 DEF runVars
  <2>7. Owed' BY <2>2, <2>6 DEF Owed
  <2> QED BY <2>3, <2>5, <2>7 DEF Calm
<1> QED BY <1>2, <1>3 DEF Boot

LEMMA PickCalm == ASSUME TypeOK, Calm, Pick PROVE Calm'
<1>1. pc = "pick" /\ pc \in LoopPCs /\ pc \notin NoRunPCs
  BY DEF Pick, At, LoopPCs, NoRunPCs
<1>2. cur \in RunId BY <1>1, AtRun
<1>3. CASE UNCHANGED log /\ Escape("other")
  <2>1. AtLoop
    BY <1>1, <1>3, GiveUps DEF Pick, AtLoop, Keeps, Left
  <2> QED BY <2>1, LoopCalm
<1>4. ASSUME NEW t \in Ready, Append("ticket.started", t), pc' = "start", tk' = t,
             UNCHANGED <<cur, resumed, skipped>>
      PROVE  Calm'
  <2>1. \A r \in RunId : \A z, u :
          Has(r, z, u)' <=> (Has(r, z, u) \/ (r = cur /\ z = "ticket.started" /\ u = t))
    BY <1>4, Appended
  <2>2. UNCHANGED <<status, phase, held>> BY DEF Pick
  <2>3. \A r \in RunId : Terminal(r)' <=> Terminal(r) BY <2>1 DEF Terminal
  <2>4. \A r \in RunId : \A u :
          Has(r, "ticket.flagged", u)' <=> Has(r, "ticket.flagged", u)
    BY <2>1
  <2>5. \A r \in RunId : \A u : Outcome(r, u)' <=> Outcome(r, u) BY <2>1 DEF Outcome
  <2>6. status[cur] = "running" /\ ~Terminal(cur)
    BY <1>1 DEF Calm, Standing, LivePCs
  <2>7. Standing'
    <3>1. TerminalEventIsFinal'
      BY <2>2, <2>3 DEF Calm, Standing, TerminalEventIsFinal, Terminal
    <3>2. \A r \in RunId : status'[r] = "absent" => log'[r] = {} /\ held'[r] = NoTicket
      BY <1>4, <2>2, <2>6 DEF Calm, Standing, Append, TypeOK, StoreOK
    <3>3. PICK r \in RunId : r = cur BY <1>2
    <3>4. (status[cur] = "running" /\ ~Terminal(cur))'
      BY <1>4, <2>2, <2>3, <2>6, <3>3 DEF Terminal, Has
    <3> QED BY <1>4, <3>1, <3>2, <3>4 DEF Standing
  <2>8. /\ ~resumed /\ t \notin skipped
        /\ \A u \in Ticket : Has(cur, "ticket.flagged", u) => u \in skipped
    BY <1>1, <1>4 DEF Calm, Remembers, Ready, Eligible
  <2>9. \A u \in Ticket : (Has(cur, "ticket.flagged", u) => u \in skipped)'
    <3>1. PICK r \in RunId : r = cur BY <1>2
    <3> QED BY <1>4, <2>4, <2>8, <3>1 DEF Has
  <2>10. t \in Ticket BY DEF Ready, Eligible, LoopReady
  <2>11. Remembers'
    <3>1. FlaggedNotRestarted'
      BY <1>4, <2>8, <2>9, <2>10 DEF FlaggedNotRestarted
    <3> QED BY <1>4, <2>8, <2>9, <3>1 DEF Remembers
  <2>12. (held[cur] = NoTicket \/ Outcome(cur, held[cur]))'
    <3>1. PICK r \in RunId : r = cur BY <1>2
    <3>2. held[r] = NoTicket \/ Outcome(r, held[r]) BY <1>1, <3>1 DEF Calm, Owed
    <3>3. PICK h : h = held[r] OBVIOUS
    <3>4. held'[r] = h /\ (h = NoTicket \/ Outcome(r, h)') BY <2>2, <2>5, <3>2, <3>3
    <3> QED BY <1>4, <3>1, <3>4 DEF Outcome, Has
  <2>13. Owed' BY <2>12 DEF Owed
  <2> QED BY <2>7, <2>11, <2>13 DEF Calm
<1>5. ASSUME NEW t \in Ready, Append("ticket.started", t), Escape("other") PROVE Calm'
  <2>1. \A r \in RunId : \A z, u :
          Has(r, z, u)' <=> (Has(r, z, u) \/ (r = cur /\ z = "ticket.started" /\ u = t))
    BY <1>5, Appended
  <2>2. UNCHANGED <<status, phase, held>> BY DEF Pick
  <2>3. \A r \in RunId : Terminal(r)' <=> Terminal(r) BY <2>1 DEF Terminal
  <2>4. Reset("off") BY <1>1, <1>5 DEF Escape, Calm, Remembers
  <2>5. TerminalEventIsFinal'
    BY <2>2, <2>3 DEF Calm, Standing, TerminalEventIsFinal, Terminal
  <2>6. status[cur] = "running" BY <1>1 DEF Calm, Standing, LivePCs
  <2>7. \A r \in RunId : status'[r] = "absent" => log'[r] = {} /\ held'[r] = NoTicket
    BY <1>5, <2>2, <2>6 DEF Calm, Standing, Append, TypeOK, StoreOK
  <2>8. /\ pc' \in NoRunPCs /\ ~resumed'
        /\ pc' \notin LivePCs \cup {"resumeSkipEvent", "stopEvent", "complete", "refining"}
    BY <2>4, EndPlaces DEF Reset, NoRunPCs, LivePCs, LoopPCs
  <2>9. Standing' BY <2>5, <2>7, <2>8 DEF Standing
  <2> QED BY <2>8, <2>9, RemembersEnds, OwedEnds DEF Calm
<1>6. \/ UNCHANGED log /\ Escape("other")
      \/ \E t \in Ready : Append("ticket.started", t) /\ Escape("other")
      \/ \E t \in Ready : /\ Append("ticket.started", t) /\ pc' = "start" /\ tk' = t
                          /\ UNCHANGED <<cur, resumed, skipped>>
  BY DEF Pick, tally
<1> QED BY <1>3, <1>4, <1>5, <1>6

\* What was flagged is skipped from now on, and the ticket has its outcome.
LEMMA TicketEndCalm ==
  ASSUME TypeOK, Calm, TicketEnd, Outcome(cur, tk) PROVE Calm'
<1>1. pc = "ticketEnd" /\ pc \in TicketPCs /\ pc \notin NoRunPCs
  BY TicketPlaces DEF TicketEnd, At, NoRunPCs
<1>2. cur \in RunId BY <1>1, AtRun
<1>3. UNCHANGED <<status, phase, held, log>> BY DEF TicketEnd
<1>4. status[cur] = "running" /\ ~Terminal(cur) BY <1>1 DEF Calm, Standing, LivePCs
<1>5. \/ pc' \in {"resumeSkip", "structuredStop"} /\ cur' = cur
      \/ pc' = "off" /\ ~resumed'
      \/ resumed /\ pc' = "finish" /\ cur' = cur
      \/ /\ ~resumed /\ pc' = "top" /\ UNCHANGED <<cur, tk, resumed>>
         /\ skipped' = skipped \cup {t \in {tk} : Has(cur, "ticket.flagged", t)}
  <2>1. Left \/ ~Escape("other") BY GiveUps
  <2> QED BY <2>1, GiveUps DEF TicketEnd, Left, Stays, job
<1>6. Standing'
  BY <1>3, <1>4, <1>5, EndPlaces, LoopPlaces
  DEF Calm, Standing, TerminalEventIsFinal, Terminal, Has
<1>7. Remembers'
  <2>1. CASE pc' = "top"
    <3>1. \A t \in Ticket : Has(cur, "ticket.flagged", t) => t \in skipped \cup {tk}
      BY <1>1, <1>5, <2>1 DEF Calm, Remembers
    <3>2. \A t \in Ticket : Has(cur, "ticket.flagged", t) => t \in skipped'
      BY <1>5, <2>1, <3>1
    <3>3. \A t \in Ticket : (Has(cur, "ticket.flagged", t) => t \in skipped)'
      BY <1>3, <1>5, <2>1, <3>2 DEF Has
    <3>4. pc' \notin TicketPCs BY <2>1, TicketPlaces
    <3> QED BY <1>5, <2>1, <3>3, <3>4 DEF Remembers, FlaggedNotRestarted, At
  <2>2. CASE pc' # "top"
    <3>1. pc' \notin LoopPCs \cup TicketPCs \cup {"start"}
      BY <1>5, <2>2, LoopPlaces, TicketPlaces DEF LoopPCs, NoRunPCs
    <3>2. pc' \in NoRunPCs => ~resumed' BY <1>5, <2>2 DEF NoRunPCs
    <3> QED BY <3>1, <3>2 DEF Remembers, FlaggedNotRestarted, At
  <2> QED BY <2>1, <2>2
<1>8. Owed'
  <2>1. held[cur] = NoTicket \/ Outcome(cur, held[cur])
    BY <1>1 DEF Calm, Owed
  <2>2. pc' \notin TicketPCs BY <1>5, LoopPlaces, TicketPlaces
  <2>3. pc' \in LoopPCs \cup {"start", "finish"} => cur' = cur
    BY <1>5, LoopPlaces, TicketPlaces
  <2> QED BY <1>3, <2>1, <2>2, <2>3 DEF Owed, Outcome, Has
<1> QED BY <1>6, <1>7, <1>8 DEF Calm

LEMMA SameCalm ==
  ASSUME Calm, UNCHANGED runVars, UNCHANGED <<pc, cur, tk, resumed, skipped>> PROVE Calm'
<1>1. Standing'
  BY DEF Calm, Standing, TerminalEventIsFinal, Terminal, Has, runVars
<1>2. Remembers' BY DEF Calm, Remembers, FlaggedNotRestarted, At, Has, runVars
<1>3. Owed' BY DEF Calm, Owed, Outcome, Has, runVars
<1> QED BY <1>1, <1>2, <1>3 DEF Calm

LEMMA CalmStep == ASSUME TypeOK, Calm, Trail, [Next]_vars PROVE Calm'
<1>1. CASE TicketEnd
  <2>1. Outcome(cur, tk) BY <1>1 DEF TicketEnd, At, Trail
  <2> QED BY <1>1, <2>1, TicketEndCalm
<1>2. CASE \/ EnterExecute \/ EnterPlan \/ EnterReview \/ EnterClose \/ EnterMergeGate
           \/ StartTicket \/ BackToSelect \/ Route
  BY <1>2, EnterAtWork, SelectAtWork, RouteAtWork, WorkCalm
<1>3. CASE \/ Reattach \/ CreateWorktree \/ SlashCommand \/ CloseTicket \/ MarkEscalated
           \/ CleanupWorktree \/ Push \/ CreatePr \/ MergePr
  BY <1>3, SilentAtWork, WorkCalm
<1>4. CASE \/ Build \/ Refix \/ Verify \/ Reverify \/ RecordVerification \/ PlanTicket
           \/ Review \/ Reviewed \/ ClosedEvent \/ Gate \/ Flag
  BY <1>4, TellingAtWork, WorkCalm
<1>5. CASE \/ Refine \/ RefineSelect \/ RefineEnter \/ RefineBack \/ Top \/ Select
           \/ Budget \/ PickNone
  BY <1>5, RunAtLoop, LoopCalm
<1>6. CASE \/ KillStop \/ Trip \/ Finish \/ Complete \/ StructuredStop \/ StopEvent
           \/ ResumeSkip \/ ResumeSkipEvent
  <2>1. Standing BY DEF Calm
  <2> QED BY <1>6, <2>1, StopEnds, EndingCalm
<1>7. CASE Refining \/ OpenRun \/ Boot \/ Pick \/ Crash
  BY <1>7, RefiningCalm, OpenRunCalm, BootCalm, PickCalm, CrashCalm
<1>8. CASE HumanPull BY <1>8, SameCalm DEF HumanPull, procVars, job, tally
<1>9. CASE UNCHANGED vars BY <1>9, SameCalm DEF vars, procVars, job, tally
<1> QED BY <1>1, <1>2, <1>3, <1>4, <1>5, <1>6, <1>7, <1>8, <1>9 DEF Next, ProcessStep

LEMMA CalmInit == Init => Calm
<1> SUFFICES ASSUME Init PROVE Calm OBVIOUS
<1>1. pc = "off" /\ ~resumed BY DEF Init
<1>2. pc \notin LivePCs \cup {"resumeSkipEvent", "stopEvent", "complete", "refining"}
  BY <1>1, EndPlaces
<1>3. pc \notin LoopPCs \cup TicketPCs \cup {"start", "finish"}
  BY <1>1, LoopPlaces, TicketPlaces
<1>4. TerminalEventIsFinal BY DEF Init, TerminalEventIsFinal, Has
<1>5. Standing BY <1>1, <1>2, <1>4 DEF Init, Standing, NoRunPCs
<1>6. Remembers BY <1>1, <1>3 DEF Remembers, FlaggedNotRestarted, At
<1>7. Owed BY <1>3 DEF Owed
<1> QED BY <1>5, <1>6, <1>7 DEF Calm

-----------------------------------------------------------------------------
(* The trail of a ticket in the log of its run *)

\* What the log has of ticket t when run r is at place p with it.
TrailAt(p, r, t) ==
  /\ p \in PassedPCs => Has(r, "verification.passed", t)
  /\ p \in {"enterClose", "close", "closedEvent"} => Has(r, "review.result", t)
  /\ p \in ShippingPCs => Has(r, "ticket.closed", t)
  /\ p \in {"route", "routeMirror"} => Has(r, "ticket.flagged", t)
  /\ p \in {"backToSelect", "ticketEnd"} => Outcome(r, t)
ReviewBacked ==
  \A r \in RunId : phase[r] = "Review" => Has(r, "verification.passed", held[r])

TrailPCs == PassedPCs \cup ShippingPCs
            \cup {"route", "routeMirror", "backToSelect", "ticketEnd"}

LEMMA TrailParts == Trail <=> TrailAt(pc, cur, tk) /\ ReviewBacked /\ AuditTrail
BY DEF Trail, TrailAt, ReviewBacked

LEMMA NoTrail == \A p, r, t : p \notin TrailPCs => TrailAt(p, r, t)
BY DEF TrailAt, TrailPCs, PassedPCs

LEMMA TrailPlaces == /\ TrailPCs \subseteq TicketPCs
                     /\ {"start", "flag", "off", "resumeSkip", "structuredStop"}
                          \cap TrailPCs = {}
BY TicketPlaces DEF TrailPCs, PassedPCs, ShippingPCs

\* The places at which the log needs no more than it had at the one before.
Onward ==
  { <<"enterReview", "review">>, <<"review", "reviewed">>, <<"review", "refix">>,
    <<"refix", "reverify">>, <<"reverify", "review">>, <<"enterClose", "close">>,
    <<"close", "closedEvent">>, <<"push", "enterMergeGate">>,
    <<"enterMergeGate", "pr">>, <<"pr", "gate">>, <<"gate", "merge">>,
    <<"gate", "escalate">>, <<"merge", "cleanup">>, <<"escalate", "cleanup">>,
    <<"cleanup", "backToSelect">>, <<"route", "backToSelect">>,
    <<"route", "ticketEnd">>, <<"routeMirror", "backToSelect">>,
    <<"routeMirror", "ticketEnd">>, <<"backToSelect", "ticketEnd">> }

LEMMA TrailCarries ==
  ASSUME Grows, NEW r \in RunId, NEW t, NEW p, NEW q, <<p, q>> \in Onward, TrailAt(p, r, t)
  PROVE  TrailAt(q, r, t)'
<1>1. \A y : Has(r, y, t) => Has(r, y, t)' BY DEF Grows
<1>2. Outcome(r, t) => Outcome(r, t)' BY <1>1 DEF Outcome
<1>3. Has(r, "ticket.flagged", t) \/ Has(r, "ticket.closed", t) => Outcome(r, t)'
  BY <1>1 DEF Outcome
<1>4. CASE p \in {"enterReview", "review", "refix", "reverify"}
  <2>1. Has(r, "verification.passed", t)' BY <1>1, <1>4 DEF TrailAt, PassedPCs
  <2>2. q \in {"review", "reviewed", "refix", "reverify"} BY <1>4 DEF Onward
  <2> QED BY <2>1, <2>2 DEF TrailAt, ShippingPCs
<1>5. CASE p \in {"enterClose", "close"}
  <2>1. Has(r, "verification.passed", t)' /\ Has(r, "review.result", t)'
    BY <1>1, <1>5 DEF TrailAt, PassedPCs
  <2>2. q \in {"close", "closedEvent"} BY <1>5 DEF Onward
  <2> QED BY <2>1, <2>2 DEF TrailAt, ShippingPCs
<1>6. CASE p \in ShippingPCs
  <2>1. Has(r, "ticket.closed", t)' /\ Outcome(r, t)'
    BY <1>1, <1>3, <1>6 DEF TrailAt
  <2>2. q \in ShippingPCs \cup {"backToSelect"} BY <1>6 DEF Onward, ShippingPCs
  <2>3. q \notin PassedPCs \cup {"route", "routeMirror"}
    BY <2>2 DEF ShippingPCs, PassedPCs
  <2> QED BY <2>1, <2>2, <2>3 DEF TrailAt, PassedPCs
<1>7. CASE p \in {"route", "routeMirror", "backToSelect"}
  <2>1. Outcome(r, t)' BY <1>2, <1>3, <1>7 DEF TrailAt
  <2>2. q \in {"backToSelect", "ticketEnd"} BY <1>7 DEF Onward
  <2> QED BY <2>1, <2>2 DEF TrailAt, PassedPCs, ShippingPCs
<1>8. p \in {"enterReview", "review", "refix", "reverify", "enterClose", "close"}
             \cup ShippingPCs \cup {"route", "routeMirror", "backToSelect"}
  BY DEF Onward, ShippingPCs
<1> QED BY <1>4, <1>5, <1>6, <1>7, <1>8

\* A step at a ticket keeps the trail when the log has what the next place needs.
LEMMA TrailFrame ==
  ASSUME TypeOK, AtWork, ReviewBacked', AuditTrail',
         \/ pc' \notin TrailPCs
         \/ \E p \in TrailPCs, r \in RunId, t \in Ticket :
              p = pc' /\ r = cur /\ t = tk /\ TrailAt(p, r, t)'
  PROVE  Trail'
<1>1. CASE pc' \notin TrailPCs
  <2>1. TrailAt(pc, cur, tk)' BY <1>1 DEF TrailAt, TrailPCs, PassedPCs
  <2> QED BY <2>1, TrailParts DEF Trail, TrailAt, ReviewBacked
<1>2. ASSUME NEW p \in TrailPCs, NEW r \in RunId, NEW t \in Ticket, p = pc', r = cur,
             t = tk, TrailAt(p, r, t)'
      PROVE  Trail'
  <2>1. Stays BY <1>2, WorkPlaces, TrailPlaces
  <2>2. cur' = r /\ tk' = t /\ pc' = p BY <1>2, <2>1 DEF Stays
  <2>3. TrailAt(pc, cur, tk)' BY <1>2, <2>2 DEF TrailAt, Has, Outcome
  <2> QED BY <2>3 DEF Trail, TrailAt, ReviewBacked
<1> QED BY <1>1, <1>2

\* The claims of the log stand as long as nothing they rest on goes.
NoClaim ==
  \A r \in RunId, t \in Ticket :
    /\ Has(r, "ticket.closed", t)' => Has(r, "ticket.closed", t)
    /\ Has(r, "merge.decision", t)' => Has(r, "merge.decision", t)
RemoteStays ==
  \A t \in Ticket : remote[t] \in {"pr", "merged"} => remote'[t] \in {"pr", "merged"}

LEMMA AuditKept ==
  ASSUME AuditTrail, Grows, NoClaim, RemoteStays, closed \subseteq closed',
         UNCHANGED processed
  PROVE  AuditTrail'
<1>1. ASSUME NEW r \in RunId, NEW t \in Ticket
      PROVE  /\ Has(r, "ticket.closed", t)' =>
                  /\ Has(r, "verification.passed", t)' /\ Has(r, "review.result", t)'
                  /\ t \in closed'
             /\ Has(r, "merge.decision", t)' =>
                  Has(r, "ticket.closed", t)' /\ remote'[t] \in {"pr", "merged"}
             /\ t \in processed'[r] =>
                  Has(r, "ticket.flagged", t)' \/ Has(r, "ticket.closed", t)'
  <2>1. \A y : Has(r, y, t) => Has(r, y, t)' BY DEF Grows
  <2> QED BY <2>1 DEF AuditTrail, NoClaim, RemoteStays
<1> QED BY <1>1 DEF AuditTrail

LEMMA ReviewKept ==
  ASSUME ReviewBacked, Grows,
         \A r \in RunId : phase'[r] = "Review" => phase[r] = "Review" /\ held'[r] = held[r]
  PROVE  ReviewBacked'
<1>1. ASSUME NEW r \in RunId, phase'[r] = "Review"
      PROVE  Has(r, "verification.passed", held[r])'
  <2>1. PICK h : h = held[r] OBVIOUS
  <2>2. held'[r] = h /\ Has(r, "verification.passed", h)
    BY <1>1, <2>1 DEF ReviewBacked
  <2>3. Has(r, "verification.passed", h)' BY <2>2 DEF Grows
  <2> QED BY <2>2, <2>3 DEF Has
<1> QED BY <1>1 DEF ReviewBacked

\* Everything but a ticket's own steps.
LEMMA TrailElsewhere ==
  ASSUME Trail, pc' \notin TrailPCs, Grows, NoClaim, RemoteStays,
         closed \subseteq closed', UNCHANGED processed,
         \A r \in RunId : phase'[r] = "Review" => phase[r] = "Review" /\ held'[r] = held[r]
  PROVE  Trail'
<1>1. ReviewBacked' /\ AuditTrail' BY TrailParts, ReviewKept, AuditKept
<1>2. TrailAt(pc, cur, tk)' BY DEF TrailAt, TrailPCs, PassedPCs
<1> QED BY <1>1, <1>2 DEF Trail, TrailAt, ReviewBacked

ReviewStays ==
  \A r \in RunId : phase'[r] = "Review" => phase[r] = "Review" /\ held'[r] = held[r]

LEMMA MovesPast ==
  ASSUME TypeOK, NEW to, to # "Review", NEW t, Persist(to, t) PROVE ReviewStays
BY DEF Persist, ReviewStays, TypeOK, StoreOK

LEMMA LogQuiet ==
  ASSUME TypeOK,
         \/ UNCHANGED log
         \/ \E y \in EventTypes, t \in Ticket \cup {NoTicket} :
              y \notin {"ticket.closed", "merge.decision"} /\ Append(y, t)
  PROVE  Grows /\ NoClaim
<1>1. CASE UNCHANGED log BY <1>1, LogSame DEF Grows, NoClaim
<1>2. ASSUME NEW y, NEW t, y \notin {"ticket.closed", "merge.decision"}, Append(y, t)
      PROVE  Grows /\ NoClaim
  <2>1. \A r \in RunId : \A z, u :
          Has(r, z, u)' <=> (Has(r, z, u) \/ (r = cur /\ z = y /\ u = t))
    BY <1>2, Appended
  <2> QED BY <1>2, <2>1 DEF Grows, NoClaim
<1> QED BY <1>1, <1>2

\* The repository as it is.
LEMMA RepoStays == UNCHANGED repoVars => RemoteStays /\ closed \subseteq closed'
BY DEF repoVars, RemoteStays

LEMMA LoopTrail ==
  ASSUME TypeOK, Trail,
         \/ Refine \/ RefineSelect \/ RefineEnter \/ RefineBack \/ Top \/ Select
         \/ Budget \/ PickNone
  PROVE  Trail'
<1>1. AtLoop BY RunAtLoop
<1>2. pc' \notin TrailPCs
  BY <1>1, TrailPlaces, LoopPlaces DEF AtLoop, Left
<1>3. Grows /\ NoClaim /\ UNCHANGED processed BY <1>1, LogQuiet DEF AtLoop
<1>4. ReviewStays
  <2>1. CASE Keeps BY <2>1 DEF Keeps, ReviewStays
  <2>2. CASE LoopMoves BY <2>2, MovesPast DEF LoopMoves
  <2> QED BY <1>1, <2>1, <2>2 DEF AtLoop
<1>5. UNCHANGED repoVars
  BY DEF Refine, RefineSelect, RefineEnter, RefineBack, Top, Select, Budget, PickNone,
         Advance, MoveRest
<1> QED BY <1>2, <1>3, <1>4, <1>5, RepoStays, TrailElsewhere DEF ReviewStays

LEMMA EndTrail ==
  ASSUME TypeOK, Standing, Trail,
         \/ KillStop \/ Trip \/ Finish \/ Complete \/ StructuredStop \/ StopEvent
         \/ ResumeSkip \/ ResumeSkipEvent
  PROVE  Trail'
<1>1. Ending BY StopEnds
<1>2. pc' \notin TrailPCs /\ UNCHANGED processed
  BY <1>1, TrailPlaces DEF Ending, LivePCs
<1>3. Grows /\ NoClaim
  <2>1. \/ UNCHANGED log
        \/ Append("run.stopped", NoTicket)
        \/ Append("run.completed", NoTicket)
    BY DEF KillStop, Trip, Finish, Complete, StructuredStop, StopEvent, ResumeSkip,
           ResumeSkipEvent, Advance, MoveRest
  <2>2. {"run.stopped", "run.completed"} \subseteq EventTypes BY DEF EventTypes
  <2> QED BY <2>1, <2>2, LogQuiet
<1>4. ReviewStays
  <2>1. CASE Trip \/ Finish
    <3>1. UNCHANGED <<phase, held>>
          \/ \E to \in TerminalStates : Persist(to, held[cur])
      BY <2>1 DEF Trip, Finish, Advance, Move, TerminalStates
    <3>2. "Review" \notin TerminalStates BY DEF TerminalStates
    <3> QED BY <3>1, <3>2, MovesPast DEF ReviewStays
  <2>2. CASE KillStop
    BY <2>2 DEF KillStop, ReviewStays, TypeOK, StoreOK
  <2>3. CASE Complete \/ StructuredStop \/ StopEvent \/ ResumeSkip \/ ResumeSkipEvent
    BY <2>3
    DEF Complete, StructuredStop, StopEvent, ResumeSkip, ResumeSkipEvent, ReviewStays
  <2> QED BY <2>1, <2>2, <2>3
<1>5. UNCHANGED repoVars
  BY DEF KillStop, Trip, Finish, Complete, StructuredStop, StopEvent, ResumeSkip,
         ResumeSkipEvent, Advance, MoveRest
<1> QED BY <1>2, <1>3, <1>4, <1>5, RepoStays, TrailElsewhere DEF ReviewStays

LEMMA StartTrail ==
  ASSUME TypeOK, Trail, Boot \/ OpenRun \/ Refining \/ Pick \/ Crash
  PROVE  Trail'
<1>1. pc' \notin TrailPCs
  <2>1. \/ pc' \in {"open", "off", "refine", "refineBack", "reattach", "start"}
        \/ Escape("other")
    BY DEF Boot, OpenRun, Refining, Pick, Crash, Reset, Goto
  <2>2. {"open", "off", "refine", "refineBack", "reattach", "start"} \cap TrailPCs = {}
    BY DEF TrailPCs, PassedPCs, ShippingPCs
  <2> QED BY <2>1, <2>2, GiveUps, TrailPlaces DEF Left
<1>2. Grows /\ NoClaim
  <2>1. UNCHANGED log \/ Append("run.stopped", NoTicket)
        \/ \E t \in Ready : Append("ticket.started", t)
    BY DEF Boot, OpenRun, Refining, Pick, Crash, runVars
  <2>2. {"run.stopped", "ticket.started"} \subseteq EventTypes BY DEF EventTypes
  <2>3. Ready \subseteq Ticket BY DEF Ready, Eligible, LoopReady
  <2> QED BY <2>1, <2>2, <2>3, LogQuiet
<1>3. ReviewStays /\ UNCHANGED processed
  BY DEF Boot, OpenRun, Refining, Pick, Crash, runVars, ReviewStays
<1>4. UNCHANGED repoVars BY DEF Boot, OpenRun, Refining, Pick, Crash
<1> QED BY <1>1, <1>2, <1>3, <1>4, RepoStays, TrailElsewhere DEF ReviewStays

\* The queue counts the ticket, whose outcome is in the log.
LEMMA TicketEndTrail == ASSUME TypeOK, Trail, TicketEnd PROVE Trail'
<1>1. pc = "ticketEnd" /\ Outcome(cur, tk) BY DEF TicketEnd, At, Trail
<1>2. cur \in RunId /\ tk \in Ticket BY <1>1, AtTicket, TicketPlaces
<1>3. UNCHANGED <<status, phase, held, log>> /\ UNCHANGED repoVars BY DEF TicketEnd
<1>4. pc' \notin TrailPCs
  <2>1. Escape("other") \/ pc' \in {"finish", "top"} BY DEF TicketEnd, Goto
  <2>2. {"finish", "top"} \cap TrailPCs = {} BY DEF TrailPCs, PassedPCs, ShippingPCs
  <2> QED BY <2>1, <2>2, GiveUps, TrailPlaces DEF Left
<1>5. \A r \in RunId : processed'[r] \subseteq processed[r] \cup {t \in {tk} : r = cur}
  BY <1>2 DEF TicketEnd, TypeOK, StoreOK
<1>6. AuditTrail'
  <2>1. \A r \in RunId, t \in Ticket :
          t \in processed'[r] => Has(r, "ticket.flagged", t) \/ Has(r, "ticket.closed", t)
    BY <1>1, <1>5 DEF Trail, AuditTrail, Outcome
  <2> QED BY <1>3, <2>1 DEF Trail, AuditTrail, Has, repoVars
<1>7. ReviewBacked' BY <1>3, TrailParts DEF ReviewBacked, Has
<1>8. TrailAt(pc, cur, tk)' BY <1>4 DEF TrailAt, TrailPCs, PassedPCs
<1> QED BY <1>6, <1>7, <1>8 DEF Trail, TrailAt, ReviewBacked

LEMMA SameTrail ==
  ASSUME Trail, UNCHANGED runVars, UNCHANGED <<closed, remote, pc, cur, tk>> PROVE Trail'
<1>1. AuditTrail' BY DEF Trail, AuditTrail, Has, runVars
<1> QED BY <1>1 DEF Trail, Has, Outcome, runVars

LEMMA TrailGoes ==
  ASSUME TypeOK, Trail, AtWork, NoClaim, RemoteStays, ReviewStays,
         closed \subseteq closed',
         pc' \notin TrailPCs \/ <<pc, pc'>> \in Onward
  PROVE  Trail'
<1>1. Grows /\ cur \in RunId /\ tk \in Ticket BY WorkKeeps
<1>2. UNCHANGED processed BY DEF AtWork
<1>3. ReviewBacked' /\ AuditTrail'
  BY <1>1, <1>2, TrailParts, ReviewKept, AuditKept DEF ReviewStays
<1>4. CASE pc' \in TrailPCs
  <2>1. PICK p \in TrailPCs, r \in RunId, t \in Ticket : p = pc' /\ r = cur /\ t = tk
    BY <1>1, <1>4
  <2>2. PICK o : o = pc OBVIOUS
  <2>3. <<o, p>> \in Onward /\ TrailAt(o, r, t) BY <1>4, <2>1, <2>2, TrailParts
  <2>4. TrailAt(p, r, t)' BY <1>1, <2>3, TrailCarries
  <2> QED BY <1>3, <2>1, <2>4, TrailFrame
<1> QED BY <1>3, <1>4, TrailFrame

LEMMA Strays ==
  /\ Left => pc' \notin TrailPCs
  /\ Flagging => pc' \notin TrailPCs
  /\ Goto("flag") => pc' \notin TrailPCs
BY GiveUps, TrailPlaces DEF Left, Flagging

\* A move of a ticket other than the one into Review.
LEMMA MoveTrail ==
  ASSUME TypeOK, Trail, AtWork, NEW to, to # "Review", NEW t, NEW next,
         \/ Move(to, t, next, Throw("other"))
         \/ Move(to, t, next, Goto("flag")),
         MoveRest, next \notin TrailPCs \/ <<pc, next>> \in Onward
  PROVE  Trail'
<1>1. (Throw("other") \/ Goto("flag") \/ Deny(to)) => pc' \notin TrailPCs
  BY GiveUps, Strays
<1>2. pc' \notin TrailPCs \/ pc' = next BY <1>1 DEF Move
<1>3. ReviewStays
  <2>1. UNCHANGED <<phase, held>> \/ Persist(to, t) BY DEF Move
  <2> QED BY <2>1, MovesPast DEF ReviewStays
<1>4. NoClaim BY LogQuiet DEF MoveRest
<1>5. RemoteStays /\ closed \subseteq closed' BY RepoStays DEF MoveRest
<1> QED BY <1>2, <1>3, <1>4, <1>5, TrailGoes

LEMMA EntersTrail ==
  ASSUME TypeOK, Trail,
         \/ EnterExecute \/ EnterPlan \/ EnterClose \/ EnterMergeGate \/ StartTicket
         \/ BackToSelect
  PROVE  Trail'
<1>1. AtWork BY EnterAtWork, SelectAtWork
<1>2. {"build", "plan", "worktree"} \cap TrailPCs = {}
  BY DEF TrailPCs, PassedPCs, ShippingPCs
<1>3. {<<"enterClose", "close">>, <<"enterMergeGate", "pr">>,
       <<"backToSelect", "ticketEnd">>} \subseteq Onward
  BY DEF Onward
<1> USE <1>1, <1>2, <1>3, MoveTrail DEF At, Enter
<1>4. CASE EnterExecute BY <1>4 DEF EnterExecute
<1>5. CASE EnterPlan BY <1>5 DEF EnterPlan
<1>6. CASE EnterClose BY <1>6 DEF EnterClose
<1>7. CASE EnterMergeGate BY <1>7 DEF EnterMergeGate
<1>8. CASE StartTicket BY <1>8 DEF StartTicket
<1>9. CASE BackToSelect BY <1>9 DEF BackToSelect
<1> QED BY <1>4, <1>5, <1>6, <1>7, <1>8, <1>9

LEMMA RouteTrail == ASSUME TypeOK, Trail, Route PROVE Trail'
<1>1. AtWork BY RouteAtWork
<1>2. ASSUME NEW here \in {"route", "routeMirror"}, NEW at, RouteFrom(here, at)
      PROVE  Trail'
  <2>1. /\ <<pc, "backToSelect">> \in Onward /\ <<pc, "ticketEnd">> \in Onward
    BY <1>2 DEF RouteFrom, At, Onward
  <2>2. CASE at \in DOMAIN FailureRoute /\ Enter(FailureRoute[at], "backToSelect")
    <3>1. FailureRoute[at] # "Review" BY <2>2 DEF FailureRoute
    <3> QED BY <1>1, <2>1, <2>2, <3>1, MoveTrail DEF Enter
  <2>3. CASE /\ Goto("ticketEnd") \/ Goto("backToSelect")
             /\ UNCHANGED <<runVars, repoVars, treeVars, envVars>>
    <3>1. <<pc, pc'>> \in Onward BY <2>1, <2>3, GiveUps
    <3>2. NoClaim /\ ReviewStays BY <2>3, LogQuiet DEF runVars, ReviewStays
    <3>3. RemoteStays /\ closed \subseteq closed' BY <2>3, RepoStays
    <3> QED BY <1>1, <3>1, <3>2, <3>3, TrailGoes
  <2> QED BY <1>2, <2>2, <2>3 DEF RouteFrom
<1> QED BY <1>2 DEF Route

\* The steps that add nothing to what the trail says.
LEMMA PlainTrail ==
  ASSUME TypeOK, Trail,
         \/ CreateWorktree \/ SlashCommand \/ MarkEscalated \/ CleanupWorktree
         \/ CloseTicket \/ Build \/ Refix \/ Verify \/ Reverify \/ Review
  PROVE  Trail'
<1>1. AtWork BY SilentAtWork, TellingAtWork
<1>2. RemoteStays /\ closed \subseteq closed' /\ ReviewStays
  BY DEF CreateWorktree, SlashCommand, MarkEscalated, CleanupWorktree, CloseTicket,
         Build, Refix, BuilderTurn, Verify, Reverify, Verification, Review, runVars,
         repoVars, RemoteStays, ReviewStays
<1>3. NoClaim
  <2>1. \/ UNCHANGED log
        \/ Append("runner.started ExecutePlan", tk)
        \/ Append("runner.started Review", tk)
    BY DEF CreateWorktree, SlashCommand, MarkEscalated, CleanupWorktree, CloseTicket,
           Build, Refix, BuilderTurn, Verify, Reverify, Verification, Review, Started,
           runVars
  <2>2. {"runner.started ExecutePlan", "runner.started Review"} \subseteq EventTypes
    BY DEF EventTypes
  <2>3. tk \in Ticket BY <1>1, AtTicket DEF AtWork
  <2> QED BY <2>1, <2>2, <2>3, LogQuiet
<1>4. {"slash", "enterExecute", "verify", "recordPassed", "build", "recordFailed",
       "recordUnworkable"} \cap TrailPCs = {}
  BY DEF TrailPCs, PassedPCs, ShippingPCs
<1>5. pc' \notin TrailPCs \/ <<pc, pc'>> \in Onward
  <2>1. CASE CreateWorktree \/ SlashCommand
    <3>1. \/ Goto("flag") \/ Goto("slash") \/ Goto("enterExecute") \/ Throw("other")
      BY <2>1 DEF CreateWorktree, SlashCommand
    <3> QED BY <1>4, <3>1, GiveUps, Strays
  <2>2. CASE MarkEscalated \/ CleanupWorktree \/ CloseTicket
    <3>1. \/ Throw("other")
          \/ pc = "escalate" /\ Goto("cleanup")
          \/ pc = "cleanup" /\ Goto("backToSelect")
          \/ pc = "close" /\ Goto("closedEvent")
      BY <2>2 DEF MarkEscalated, CleanupWorktree, CloseTicket, At
    <3> QED BY <3>1, GiveUps, Strays DEF Onward
  <2>3. CASE Build \/ Refix
    <3>1. \/ Throw("other") \/ Goto("verify")
          \/ pc = "refix" /\ Goto("reverify")
      BY <2>3 DEF Build, Refix, BuilderTurn, At
    <3> QED BY <1>4, <3>1, GiveUps, Strays DEF Onward
  <2>4. CASE Verify \/ Reverify
    <3>1. \/ Throw("other") \/ Goto("recordPassed") \/ Again("build")
          \/ Goto("recordFailed") \/ Goto("recordUnworkable") \/ Goto("flag")
          \/ pc = "reverify" /\ Again("review")
      BY <2>4 DEF Verify, Reverify, Verification, At
    <3> QED BY <1>4, <3>1, GiveUps, Strays DEF Onward
  <2>5. CASE Review
    <3>1. \/ Throw("other")
          \/ pc = "review" /\ (Goto("refix") \/ Verdict("APPROVE") \/ Verdict("ESCALATE"))
      BY <2>5 DEF Review, At
    <3>2. \A v : Verdict(v) => pc' = "reviewed" BY DEF Verdict
    <3> QED BY <3>1, <3>2, GiveUps, Strays DEF Onward
  <2> QED BY <2>1, <2>2, <2>3, <2>4, <2>5
<1> QED BY <1>1, <1>2, <1>3, <1>5, TrailGoes

\* What a decision rests on stays on the remote.
LEMMA ShipTrail == ASSUME TypeOK, IndInv, Trail, Push \/ CreatePr \/ MergePr PROVE Trail'
<1>1. AtWork BY SilentAtWork
<1>2. UNCHANGED <<log, phase, held, closed>>
  BY DEF Push, CreatePr, MergePr, Remotely, runVars
<1>3. NoClaim /\ ReviewStays BY <1>2, LogQuiet DEF ReviewStays
<1>4. RemoteStays
  <2>1. CASE Push
    <3>1. remote[tk] = "none" BY <2>1 DEF Push, Remotely, At, IndInv, Shipped
    <3> QED BY <2>1, <3>1 DEF Push, Remotely, RemoteStays, TypeOK, RepoOK
  <2>2. CASE CreatePr \/ MergePr
    BY <2>2 DEF CreatePr, MergePr, Remotely, RemoteStays, TypeOK, RepoOK
  <2> QED BY <2>1, <2>2
<1>5. \/ Throw("other")
      \/ pc = "push" /\ Goto("enterMergeGate")
      \/ pc = "pr" /\ Goto("gate")
      \/ pc = "merge" /\ Goto("cleanup")
  BY DEF Push, CreatePr, MergePr, Remotely, At
<1>6. pc' \notin TrailPCs \/ <<pc, pc'>> \in Onward
  BY <1>5, GiveUps, Strays DEF Onward
<1> QED BY <1>1, <1>2, <1>3, <1>4, <1>6, TrailGoes

\* The steps that put the next piece of evidence into the log.
LEMMA EvidenceTrail ==
  ASSUME TypeOK, Trail, AtWork, NEW y \in EventTypes \ {"ticket.closed", "merge.decision"},
         Append(y, tk), UNCHANGED repoVars, UNCHANGED <<phase, held>>,
         \/ pc' \notin TrailPCs
         \/ y = "verification.passed" /\ pc' = "enterReview"
         \/ y = "ticket.flagged" /\ pc' \in {"backToSelect", "route", "routeMirror"}
         \/ y = "review.result" /\ pc = "reviewed" /\ pc' = "enterClose"
  PROVE  Trail'
<1>1. PICK r \in RunId, t \in Ticket : r = cur /\ t = tk BY WorkKeeps
<1>2. Grows /\ NoClaim BY <1>1, LogQuiet
<1>3. ReviewBacked' /\ AuditTrail'
  <2>1. UNCHANGED processed BY DEF AtWork
  <2> QED BY <1>2, <2>1, TrailParts, ReviewKept, AuditKept, RepoStays
<1>4. Has(r, y, t)' BY <1>1, Appended
<1>5. PICK p : p = pc' OBVIOUS
<1>6. CASE p \notin TrailPCs BY <1>3, <1>5, <1>6, TrailFrame
<1>7. CASE p \in TrailPCs
  <2>1. \/ y = "verification.passed" /\ p = "enterReview"
        \/ y = "ticket.flagged" /\ p \in {"backToSelect", "route", "routeMirror"}
        \/ y = "review.result" /\ pc = "reviewed" /\ p = "enterClose"
    BY <1>5, <1>7
  <2>2. TrailAt(p, r, t)'
    <3>1. CASE y = "verification.passed" /\ p = "enterReview"
      BY <1>4, <3>1 DEF TrailAt, ShippingPCs
    <3>2. CASE y = "ticket.flagged" /\ p \in {"backToSelect", "route", "routeMirror"}
      <4>1. Outcome(r, t)' BY <1>4, <3>2 DEF Outcome
      <4>2. p \notin PassedPCs \cup ShippingPCs \cup {"enterClose", "close", "closedEvent"}
        BY <3>2 DEF PassedPCs, ShippingPCs
      <4> QED BY <1>4, <3>2, <4>1, <4>2 DEF TrailAt
    <3>3. CASE y = "review.result" /\ pc = "reviewed" /\ p = "enterClose"
      <4>1. Has(r, "verification.passed", t) BY <1>1, <3>3 DEF Trail, PassedPCs
      <4>2. Has(r, "verification.passed", t)' BY <1>2, <4>1 DEF Grows
      <4> QED BY <1>4, <3>3, <4>2 DEF TrailAt, ShippingPCs
    <3> QED BY <2>1, <3>1, <3>2, <3>3
  <2> QED BY <1>1, <1>3, <1>5, <1>7, <2>2, TrailFrame
<1> QED BY <1>6, <1>7

LEMMA SilentTrail ==
  ASSUME TypeOK, Trail, AtWork, UNCHANGED <<log, phase, held>>, UNCHANGED repoVars,
         pc' \notin TrailPCs \/ <<pc, pc'>> \in Onward
  PROVE  Trail'
<1>1. NoClaim /\ ReviewStays BY LogQuiet DEF ReviewStays
<1> QED BY <1>1, RepoStays, TrailGoes

LEMMA RecordVerificationTrail ==
  ASSUME TypeOK, Trail, RecordVerification PROVE Trail'
<1>1. AtWork BY TellingAtWork
<1>2. UNCHANGED repoVars /\ UNCHANGED <<phase, held>> BY DEF RecordVerification
<1>3. "enterPlan" \notin TrailPCs BY DEF TrailPCs, PassedPCs, ShippingPCs
<1>4. \/ UNCHANGED log /\ (Goto("flag") \/ Goto("enterPlan") \/ Throw("other"))
      \/ /\ Append("verification.passed", tk)
         /\ pc' = "enterReview" \/ Goto("flag") \/ Throw("other")
  BY DEF RecordVerification
<1>5. (Goto("flag") \/ Goto("enterPlan") \/ Throw("other")) => pc' \notin TrailPCs
  BY <1>3, GiveUps, Strays
<1>6. CASE UNCHANGED log /\ (Goto("flag") \/ Goto("enterPlan") \/ Throw("other"))
  BY <1>1, <1>2, <1>5, <1>6, SilentTrail
<1>7. CASE /\ Append("verification.passed", tk)
           /\ pc' = "enterReview" \/ Goto("flag") \/ Throw("other")
  <2>1. "verification.passed" \in EventTypes \ {"ticket.closed", "merge.decision"}
    BY DEF EventTypes
  <2>2. pc' \notin TrailPCs \/ pc' = "enterReview" BY <1>5, <1>7
  <2> QED BY <1>1, <1>2, <1>7, <2>1, <2>2, EvidenceTrail
<1> QED BY <1>4, <1>6, <1>7

LEMMA PlanTicketTrail == ASSUME TypeOK, Trail, PlanTicket PROVE Trail'
<1>1. AtWork BY TellingAtWork
<1>2. UNCHANGED repoVars /\ UNCHANGED <<phase, held>> BY DEF PlanTicket
<1>3. \/ UNCHANGED log /\ Throw("other")
      \/ Append("ticket.flagged", tk) /\ Goto("backToSelect")
  BY DEF PlanTicket
<1>4. CASE UNCHANGED log /\ Throw("other")
  BY <1>1, <1>2, <1>4, GiveUps, Strays, SilentTrail
<1>5. CASE Append("ticket.flagged", tk) /\ Goto("backToSelect")
  <2>1. "ticket.flagged" \in EventTypes \ {"ticket.closed", "merge.decision"}
    BY DEF EventTypes
  <2> QED BY <1>1, <1>2, <1>5, <2>1, GiveUps, EvidenceTrail
<1> QED BY <1>3, <1>4, <1>5

LEMMA ReviewedTrail == ASSUME TypeOK, Trail, Reviewed PROVE Trail'
<1>1. AtWork BY TellingAtWork
<1>2. UNCHANGED repoVars /\ UNCHANGED <<phase, held>> /\ pc = "reviewed"
  BY DEF Reviewed, At
<1>3. \/ UNCHANGED log /\ Throw("other")
      \/ Append("review.result", tk) /\ Goto("enterClose")
  BY DEF Reviewed
<1>4. CASE UNCHANGED log /\ Throw("other")
  BY <1>1, <1>2, <1>4, GiveUps, Strays, SilentTrail
<1>5. CASE Append("review.result", tk) /\ Goto("enterClose")
  <2>1. "review.result" \in EventTypes \ {"ticket.closed", "merge.decision"}
    BY DEF EventTypes
  <2> QED BY <1>1, <1>2, <1>5, <2>1, GiveUps, EvidenceTrail
<1> QED BY <1>3, <1>4, <1>5

LEMMA FlagTrail == ASSUME TypeOK, Trail, Flag PROVE Trail'
<1>1. AtWork BY TellingAtWork
<1>2. UNCHANGED repoVars /\ UNCHANGED <<phase, held>> BY DEF Flag
<1>3. \/ UNCHANGED log /\ Throw("flagRecord")
      \/ Append("ticket.flagged", tk) /\ (Goto("route") \/ Goto("routeMirror"))
  BY DEF Flag
<1>4. CASE UNCHANGED log /\ Throw("flagRecord")
  BY <1>1, <1>2, <1>4, GiveUps, Strays, SilentTrail
<1>5. CASE Append("ticket.flagged", tk) /\ (Goto("route") \/ Goto("routeMirror"))
  <2>1. "ticket.flagged" \in EventTypes \ {"ticket.closed", "merge.decision"}
    BY DEF EventTypes
  <2> QED BY <1>1, <1>2, <1>5, <2>1, GiveUps, EvidenceTrail
<1> QED BY <1>3, <1>4, <1>5

\* The log says "closed" once the commit is there, with its evidence before it.
LEMMA ClosedEventTrail == ASSUME TypeOK, IndInv, Trail, ClosedEvent PROVE Trail'
<1>1. AtWork BY TellingAtWork
<1>2. UNCHANGED repoVars /\ UNCHANGED <<phase, held, processed>> /\ pc = "closedEvent"
  BY DEF ClosedEvent, At
<1>3. \/ UNCHANGED log /\ Throw("other")
      \/ Append("ticket.closed", tk) /\ (Goto("push") \/ Goto("backToSelect"))
  BY DEF ClosedEvent
<1>4. CASE UNCHANGED log /\ Throw("other")
  BY <1>1, <1>2, <1>4, GiveUps, Strays, SilentTrail
<1>5. CASE Append("ticket.closed", tk) /\ (Goto("push") \/ Goto("backToSelect"))
  <2>1. PICK r \in RunId, t \in Ticket : r = cur /\ t = tk BY <1>1, WorkKeeps
  <2>2. \A q \in RunId : \A z, u :
          Has(q, z, u)' <=> (Has(q, z, u) \/ (q = r /\ z = "ticket.closed" /\ u = t))
    BY <1>5, <2>1, Appended
  <2>3. t \in closed BY <1>2, <2>1 DEF IndInv, InHand, ClosedPCs
  <2>4. Has(r, "verification.passed", t) /\ Has(r, "review.result", t)
    BY <1>2, <2>1 DEF Trail, PassedPCs
  <2>5. UNCHANGED <<closed, remote>> BY <1>2 DEF repoVars
  <2>6. ASSUME NEW q \in RunId, NEW u \in Ticket
        PROVE  /\ Has(q, "ticket.closed", u)' =>
                    /\ Has(q, "verification.passed", u)' /\ Has(q, "review.result", u)'
                    /\ u \in closed
               /\ Has(q, "merge.decision", u)' =>
                    Has(q, "ticket.closed", u)' /\ remote[u] \in {"pr", "merged"}
               /\ u \in processed[q] =>
                    Has(q, "ticket.flagged", u)' \/ Has(q, "ticket.closed", u)'
    BY <2>2, <2>3, <2>4 DEF Trail, AuditTrail
  <2>7. AuditTrail' BY <1>2, <2>5, <2>6 DEF AuditTrail
  <2>8. Grows BY <2>2 DEF Grows
  <2>9. ReviewBacked' BY <1>2, <2>8, TrailParts, ReviewKept
  <2>10. PICK p \in {"push", "backToSelect"} : p = pc' BY <1>5, GiveUps
  <2>11. p \in TrailPCs /\ p \notin PassedPCs /\ p \notin {"route", "routeMirror"}
    BY <2>10 DEF TrailPCs, PassedPCs, ShippingPCs
  <2>12. Has(r, "ticket.closed", t)' BY <2>2
  <2>13. TrailAt(p, r, t)' BY <2>11, <2>12 DEF TrailAt, Outcome, PassedPCs
  <2> QED BY <1>1, <2>1, <2>7, <2>9, <2>10, <2>11, <2>13, TrailFrame
<1> QED BY <1>3, <1>4, <1>5

\* A decision is about a closed ticket with its pull request.
LEMMA GateTrail == ASSUME TypeOK, IndInv, Trail, Gate PROVE Trail'
<1>1. AtWork BY TellingAtWork
<1>2. UNCHANGED repoVars /\ UNCHANGED <<phase, held, processed>> /\ pc = "gate"
  BY DEF Gate, At
<1>3. \/ UNCHANGED log /\ Throw("other")
      \/ Append("merge.decision", tk) /\ (Goto("merge") \/ Goto("escalate"))
  BY DEF Gate
<1>4. CASE UNCHANGED log /\ Throw("other")
  BY <1>1, <1>2, <1>4, GiveUps, Strays, SilentTrail
<1>5. CASE Append("merge.decision", tk) /\ (Goto("merge") \/ Goto("escalate"))
  <2>1. PICK r \in RunId, t \in Ticket : r = cur /\ t = tk BY <1>1, WorkKeeps
  <2>2. \A q \in RunId : \A z, u :
          Has(q, z, u)' <=> (Has(q, z, u) \/ (q = r /\ z = "merge.decision" /\ u = t))
    BY <1>5, <2>1, Appended
  <2>3. remote[t] = "pr" BY <1>2, <2>1 DEF IndInv, Shipped
  <2>4. Has(r, "ticket.closed", t) BY <1>2, <2>1 DEF Trail, ShippingPCs
  <2>5. UNCHANGED <<closed, remote>> BY <1>2 DEF repoVars
  <2>6. ASSUME NEW q \in RunId, NEW u \in Ticket
        PROVE  /\ Has(q, "ticket.closed", u)' =>
                    /\ Has(q, "verification.passed", u)' /\ Has(q, "review.result", u)'
                    /\ u \in closed
               /\ Has(q, "merge.decision", u)' =>
                    Has(q, "ticket.closed", u)' /\ remote[u] \in {"pr", "merged"}
               /\ u \in processed[q] =>
                    Has(q, "ticket.flagged", u)' \/ Has(q, "ticket.closed", u)'
    BY <2>2, <2>3, <2>4 DEF Trail, AuditTrail
  <2>7. AuditTrail' BY <1>2, <2>5, <2>6 DEF AuditTrail
  <2>8. Grows BY <2>2 DEF Grows
  <2>9. ReviewBacked' BY <1>2, <2>8, TrailParts, ReviewKept
  <2>10. PICK p \in {"merge", "escalate"} : p = pc' BY <1>5, GiveUps
  <2>11. p \in TrailPCs /\ <<"gate", p>> \in Onward
    BY <2>10 DEF TrailPCs, ShippingPCs, Onward
  <2>12. TrailAt("gate", r, t) BY <1>2, <2>1, TrailParts
  <2>13. TrailAt(p, r, t)' BY <2>8, <2>11, <2>12, TrailCarries
  <2> QED BY <1>1, <2>1, <2>7, <2>9, <2>10, <2>11, <2>13, TrailFrame
<1> QED BY <1>3, <1>4, <1>5

\* A run resumed in Review has its passing verification behind it.
LEMMA ReattachTrail == ASSUME TypeOK, IndInv, Trail, Reattach PROVE Trail'
<1>1. AtWork BY SilentAtWork
<1>2. UNCHANGED runVars /\ UNCHANGED repoVars /\ pc = "reattach" BY DEF Reattach, At
<1>3. NoClaim /\ Grows BY <1>2, LogQuiet DEF runVars
<1>4. ReviewBacked' /\ AuditTrail'
  BY <1>2, <1>3, TrailParts, ReviewKept, AuditKept, RepoStays DEF runVars
<1>5. \/ Escape("other") \/ Goto("flag") \/ Goto("build")
      \/ phase[cur] = "Review" /\ Goto("review")
  BY DEF Reattach
<1>6. "build" \notin TrailPCs BY DEF TrailPCs, PassedPCs, ShippingPCs
<1>7. CASE Escape("other") \/ Goto("flag") \/ Goto("build")
  <2>1. pc' \notin TrailPCs BY <1>6, <1>7, GiveUps, Strays
  <2> QED BY <1>1, <1>4, <2>1, TrailFrame
<1>8. CASE phase[cur] = "Review" /\ Goto("review")
  <2>1. PICK r \in RunId, t \in Ticket : r = cur /\ t = tk BY <1>1, WorkKeeps
  <2>2. held[r] = t BY <1>2, <2>1 DEF IndInv, InHand
  <2>3. Has(r, "verification.passed", t) BY <1>8, <2>1, <2>2 DEF Trail
  <2>4. Has(r, "verification.passed", t)' BY <1>3, <2>3 DEF Grows
  <2>5. TrailAt("review", r, t)' BY <2>4 DEF TrailAt, ShippingPCs
  <2>6. "review" \in TrailPCs /\ pc' = "review"
    BY <1>8, GiveUps DEF TrailPCs, PassedPCs
  <2> QED BY <1>1, <1>4, <2>1, <2>5, <2>6, TrailFrame
<1> QED BY <1>5, <1>7, <1>8

LEMMA EnterReviewTrail == ASSUME TypeOK, IndInv, Trail, EnterReview PROVE Trail'
<1>1. AtWork BY EnterAtWork
<1>2. UNCHANGED <<log, processed>> /\ UNCHANGED repoVars /\ pc = "enterReview"
  BY DEF EnterReview, Enter, MoveRest, At
<1>3. NoClaim /\ Grows BY <1>2, LogQuiet
<1>4. AuditTrail' BY <1>2, <1>3, TrailParts, AuditKept, RepoStays
<1>5. PICK r \in RunId, t \in Ticket : r = cur /\ t = tk BY <1>1, WorkKeeps
<1>6. held[r] = t BY <1>2, <1>5 DEF IndInv, InHand, BuildingPCs
<1>7. Has(r, "verification.passed", t) /\ TrailAt("enterReview", r, t)
  BY <1>2, <1>5, TrailParts DEF Trail, PassedPCs
<1>8. UNCHANGED <<phase, held>> \/ Persist("Review", t)
  BY <1>5, <1>6 DEF EnterReview, Enter, Move
<1>9. ReviewBacked'
  <2>1. CASE UNCHANGED <<phase, held>> BY <1>3, <2>1, TrailParts, ReviewKept
  <2>2. CASE Persist("Review", t)
    <3>1. ASSUME NEW q \in RunId, phase'[q] = "Review"
          PROVE  Has(q, "verification.passed", held[q])'
      <4>1. held'[q] = IF q = r THEN t ELSE held[q]
        BY <1>5, <2>2 DEF Persist, TypeOK, StoreOK, TerminalStates
      <4>2. q # r => phase[q] = "Review"
        BY <1>5, <2>2, <3>1 DEF Persist, TypeOK, StoreOK
      <4>3. PICK h : h = held'[q] OBVIOUS
      <4>4. Has(q, "verification.passed", h) BY <1>7, <4>1, <4>2, <4>3 DEF Trail
      <4> QED BY <1>2, <4>3, <4>4 DEF Has
    <3> QED BY <3>1 DEF ReviewBacked
  <2> QED BY <1>8, <2>1, <2>2
<1>10. pc' \notin TrailPCs \/ pc' = "review"
  <2>1. Throw("other") \/ Deny("Review") \/ pc' = "review"
    BY DEF EnterReview, Enter, Move
  <2> QED BY <2>1, GiveUps, Strays
<1>11. CASE pc' \notin TrailPCs BY <1>1, <1>4, <1>9, <1>11, TrailFrame
<1>12. CASE pc' = "review"
  <2>1. "review" \in TrailPCs /\ <<"enterReview", "review">> \in Onward
    BY DEF TrailPCs, PassedPCs, Onward
  <2>2. TrailAt("review", r, t)' BY <1>3, <1>7, <2>1, TrailCarries
  <2> QED BY <1>1, <1>4, <1>5, <1>9, <1>12, <2>1, <2>2, TrailFrame
<1> QED BY <1>10, <1>11, <1>12

LEMMA TrailStep == ASSUME TypeOK, IndInv, Standing, Trail, [Next]_vars PROVE Trail'
<1>1. CASE \/ EnterExecute \/ EnterPlan \/ EnterClose \/ EnterMergeGate \/ StartTicket
           \/ BackToSelect
  BY <1>1, EntersTrail
<1>2. CASE EnterReview \/ Reattach \/ Gate \/ ClosedEvent
  BY <1>2, EnterReviewTrail, ReattachTrail, GateTrail, ClosedEventTrail
<1>3. CASE Route \/ Flag \/ PlanTicket \/ Reviewed \/ RecordVerification \/ TicketEnd
  BY <1>3, RouteTrail, FlagTrail, PlanTicketTrail, ReviewedTrail,
     RecordVerificationTrail, TicketEndTrail
<1>4. CASE \/ CreateWorktree \/ SlashCommand \/ MarkEscalated \/ CleanupWorktree
           \/ CloseTicket \/ Build \/ Refix \/ Verify \/ Reverify \/ Review
  BY <1>4, PlainTrail
<1>5. CASE Push \/ CreatePr \/ MergePr BY <1>5, ShipTrail
<1>6. CASE \/ Refine \/ RefineSelect \/ RefineEnter \/ RefineBack \/ Top \/ Select
           \/ Budget \/ PickNone
  BY <1>6, LoopTrail
<1>7. CASE \/ KillStop \/ Trip \/ Finish \/ Complete \/ StructuredStop \/ StopEvent
           \/ ResumeSkip \/ ResumeSkipEvent
  BY <1>7, EndTrail
<1>8. CASE Refining \/ OpenRun \/ Boot \/ Pick \/ Crash BY <1>8, StartTrail
<1>9. CASE HumanPull BY <1>9, SameTrail DEF HumanPull, procVars, job
<1>10. CASE UNCHANGED vars BY <1>10, SameTrail DEF vars, procVars, job, repoVars
<1> QED BY <1>1, <1>2, <1>3, <1>4, <1>5, <1>6, <1>7, <1>8, <1>9, <1>10
        DEF Next, ProcessStep

LEMMA TrailInit == Init => Trail
<1> SUFFICES ASSUME Init PROVE Trail OBVIOUS
<1>1. pc = "off" BY DEF Init
<1>2. TrailAt(pc, cur, tk) BY <1>1, TrailPlaces, NoTrail
<1>3. ReviewBacked BY DEF Init, ReviewBacked
<1>4. AuditTrail BY DEF Init, AuditTrail, Has
<1> QED BY <1>2, <1>3, <1>4, TrailParts

-----------------------------------------------------------------------------
(* Dependencies *)

\* A picked ticket is on its way to its branch.
Bound == {"start", "worktree"}

\* Nothing but a pick sends the process there, and nothing takes a landed
\* dependency away.
Uninvolved == pc' \notin Bound /\ UNCHANGED <<branch, done>>

LEMMA Unbound ==
  /\ \A k : Escape(k) => pc' \notin Bound
  /\ \A k : Throw(k) => pc' \notin Bound
  /\ \A to : Deny(to) => pc' \notin Bound
  /\ \A p : p \notin Bound /\ Goto(p) => pc' \notin Bound
  /\ \A p : p \notin Bound /\ Again(p) => pc' \notin Bound
BY GiveUps DEF Bound, Left, Flagging

LEMMA MoveUnbound ==
  ASSUME NEW to, NEW t, NEW next, next \notin Bound,
         Move(to, t, next, Throw("other")) \/ Move(to, t, next, Escape("other"))
  PROVE  pc' \notin Bound
<1>1. (Throw("other") \/ Escape("other") \/ Deny(to)) => pc' \notin Bound BY Unbound
<1>2. pc' = next \/ Throw("other") \/ Escape("other") \/ Deny(to) BY DEF Move
<1> QED BY <1>1, <1>2

LEMMA MovesAreUninvolved ==
  ASSUME \/ RefineSelect \/ RefineEnter \/ RefineBack \/ Select \/ Trip \/ Finish
         \/ EnterExecute \/ EnterPlan \/ EnterReview \/ EnterClose \/ EnterMergeGate
         \/ BackToSelect \/ Route
  PROVE  Uninvolved
<1>1. UNCHANGED <<branch, done>>
  BY DEF RefineSelect, RefineEnter, RefineBack, Select, Trip, Finish, EnterExecute,
         EnterPlan, EnterReview, EnterClose, EnterMergeGate, BackToSelect, Route,
         RouteFrom, Advance, Enter, MoveRest, repoVars
<1>2. {"refineEnter", "refining", "top", "budget", "stopEvent", "complete", "build",
       "plan", "review", "close", "pr", "ticketEnd", "backToSelect"} \cap Bound = {}
  BY DEF Bound
<1>3. \A to, next : next \notin Bound /\ (Advance(to, next) \/ Enter(to, next)) =>
        pc' \notin Bound
  BY MoveUnbound DEF Advance, Enter
<1>4. CASE RefineSelect \/ RefineEnter \/ RefineBack \/ Select \/ Trip \/ Finish
  BY <1>1, <1>2, <1>3, <1>4
  DEF Uninvolved, RefineSelect, RefineEnter, RefineBack, Select, Trip, Finish
<1>5. CASE EnterExecute \/ EnterPlan \/ EnterReview \/ EnterClose \/ EnterMergeGate
  BY <1>1, <1>2, <1>3, <1>5
  DEF Uninvolved, EnterExecute, EnterPlan, EnterReview, EnterClose, EnterMergeGate
<1>6. CASE BackToSelect
  BY <1>1, <1>2, <1>6, MoveUnbound DEF Uninvolved, BackToSelect
<1>7. CASE Route
  <2>1. \/ \E to : Enter(to, "backToSelect")
        \/ Goto("ticketEnd") \/ Goto("backToSelect")
    BY <1>7 DEF Route, RouteFrom
  <2> QED BY <1>1, <1>2, <1>3, <2>1, Unbound DEF Uninvolved
<1> QED BY <1>4, <1>5, <1>6, <1>7

LEMMA RunsAreUninvolved ==
  ASSUME \/ Boot \/ ResumeSkip \/ ResumeSkipEvent \/ OpenRun \/ Refine \/ Refining
         \/ Top \/ KillStop \/ Budget \/ StopEvent \/ PickNone \/ TicketEnd
         \/ Complete \/ StructuredStop \/ Crash
  PROVE  Uninvolved
<1>1. UNCHANGED <<branch, done>>
  BY DEF Boot, ResumeSkip, ResumeSkipEvent, OpenRun, Refine, Refining, Top, KillStop,
         Budget, StopEvent, PickNone, TicketEnd, Complete, StructuredStop, Crash,
         repoVars
<1>2. {"reattach", "open", "off", "resumeSkipEvent", "refine", "top", "refineSelect",
       "refineBack", "finish", "killStop", "select", "budget", "stopEvent", "trip",
       "pick"} \cap Bound = {}
  BY DEF Bound
<1>3. \A p : Reset(p) => pc' = p BY DEF Reset
<1> USE <1>1, <1>2, <1>3, Unbound
<1>4. CASE Boot \/ ResumeSkip \/ ResumeSkipEvent \/ OpenRun \/ Crash
  BY <1>4 DEF Uninvolved, Boot, ResumeSkip, ResumeSkipEvent, OpenRun, Crash
<1>5. CASE Refine \/ Top \/ KillStop \/ Budget \/ PickNone
  BY <1>5 DEF Uninvolved, Refine, Top, KillStop, Budget, PickNone
<1>6. CASE Refining \/ StopEvent \/ TicketEnd \/ Complete \/ StructuredStop
  <2>1. \/ Goto("refineBack") \/ Escape("other") \/ Reset("off")
        \/ Goto("finish") \/ pc' = "top" \/ Goto("stopEvent")
    BY <1>6 DEF Refining, StopEvent, TicketEnd, Complete, StructuredStop
  <2> QED BY <2>1 DEF Uninvolved
<1> QED BY <1>4, <1>5, <1>6

LEMMA WorkIsUninvolved ==
  ASSUME \/ Reattach \/ SlashCommand \/ Build \/ Refix \/ Verify \/ Reverify
         \/ RecordVerification \/ PlanTicket \/ Review \/ Reviewed \/ CloseTicket
         \/ ClosedEvent \/ Push \/ CreatePr \/ MergePr \/ Gate \/ MarkEscalated
         \/ CleanupWorktree \/ Flag
  PROVE  Uninvolved
<1>1. UNCHANGED <<branch, done>>
  BY DEF Reattach, SlashCommand, Build, Refix, BuilderTurn, Verify, Reverify,
         Verification, RecordVerification, PlanTicket, Review, Reviewed, CloseTicket,
         ClosedEvent, Push, CreatePr, MergePr, Remotely, Gate, MarkEscalated,
         CleanupWorktree, Flag, repoVars
<1>2. {"flag", "review", "build", "enterExecute", "verify", "reverify", "recordPassed",
       "recordFailed", "recordUnworkable", "enterReview", "enterPlan", "backToSelect",
       "refix", "reviewed", "enterClose", "closedEvent", "push", "enterMergeGate",
       "gate", "cleanup", "merge", "escalate", "route", "routeMirror"}
        \cap Bound = {}
  BY DEF Bound
<1>3. \A v : Verdict(v) => pc' = "reviewed" BY DEF Verdict
<1> USE <1>1, <1>2, <1>3, Unbound
<1>4. CASE Reattach \/ SlashCommand BY <1>4 DEF Uninvolved, Reattach, SlashCommand
<1>5. CASE Build \/ Refix BY <1>5 DEF Uninvolved, Build, Refix, BuilderTurn
<1>6. CASE Verify \/ Reverify
  BY <1>6 DEF Uninvolved, Verify, Reverify, Verification
<1>7. CASE RecordVerification \/ PlanTicket \/ Reviewed \/ ClosedEvent \/ Gate \/ Flag
  <2>1. \/ pc' \in {"enterReview"} \/ Goto("flag") \/ Throw("other")
        \/ Goto("enterPlan") \/ Goto("backToSelect") \/ Goto("enterClose")
        \/ Goto("push") \/ Goto("merge") \/ Goto("escalate") \/ Goto("route")
        \/ Goto("routeMirror") \/ Throw("flagRecord")
    BY <1>7 DEF RecordVerification, PlanTicket, Reviewed, ClosedEvent, Gate, Flag
  <2> QED BY <2>1 DEF Uninvolved
<1>8. CASE Review BY <1>8 DEF Uninvolved, Review
<1>9. CASE CloseTicket \/ MarkEscalated \/ CleanupWorktree
  BY <1>9 DEF Uninvolved, CloseTicket, MarkEscalated, CleanupWorktree
<1>10. CASE Push \/ CreatePr \/ MergePr
  BY <1>10 DEF Uninvolved, Push, CreatePr, MergePr, Remotely
<1> QED BY <1>4, <1>5, <1>6, <1>7, <1>8, <1>9, <1>10

LEMMA GroundedStep == ASSUME TypeOK, Grounded, [Next]_vars PROVE Grounded'
<1>1. CASE Uninvolved BY <1>1 DEF Uninvolved, Grounded, DependenciesFirst, Bound
<1>2. CASE Pick
  <2>1. UNCHANGED <<branch, done>> BY <1>2 DEF Pick, repoVars
  <2>2. (\E t \in Ready : pc' = "start" /\ tk' = t) \/ pc' \notin Bound
    BY <1>2, Unbound DEF Pick
  <2>3. pc' \in Bound => DependsOn[tk'] \subseteq done BY <2>2 DEF Ready
  <2> QED BY <2>1, <2>3 DEF Grounded, DependenciesFirst, Bound
<1>3. CASE StartTicket
  <2>1. UNCHANGED <<branch, done>> /\ pc = "start"
    BY <1>3 DEF StartTicket, At, MoveRest, repoVars
  <2>2. tk' = tk \/ pc' \notin Bound
    <3>1. (Goto("flag") \/ Deny("StartTicket")) => pc' \notin Bound
      BY Unbound DEF Bound
    <3> QED BY <1>3, <3>1 DEF StartTicket, Move, job
  <2> QED BY <2>1, <2>2 DEF Grounded, DependenciesFirst, Bound
<1>4. CASE CreateWorktree
  <2>1. pc = "worktree" /\ UNCHANGED done /\ branch' \subseteq branch \cup {tk}
    BY <1>4 DEF CreateWorktree, At
  <2>2. pc' \notin Bound
    <3>1. Goto("flag") \/ Goto("slash") BY <1>4 DEF CreateWorktree
    <3> QED BY <3>1, Unbound DEF Bound
  <2> QED BY <2>1, <2>2 DEF Grounded, DependenciesFirst, Bound
<1>5. CASE HumanPull
  <2>1. UNCHANGED <<branch, pc, tk>> /\ done \subseteq done'
    BY <1>5 DEF HumanPull, procVars, job
  <2> QED BY <2>1 DEF Grounded, DependenciesFirst
<1>6. CASE UNCHANGED vars
  BY <1>6 DEF vars, procVars, job, repoVars, Grounded, DependenciesFirst
<1> QED BY <1>1, <1>2, <1>3, <1>4, <1>5, <1>6, MovesAreUninvolved, RunsAreUninvolved,
           WorkIsUninvolved DEF Next, ProcessStep

-----------------------------------------------------------------------------
(* What follows for every run *)

LEMMA LogInit == Init => LogInv
<1> SUFFICES ASSUME Init PROVE LogInv OBVIOUS
<1>1. Calm /\ Trail BY CalmInit, TrailInit
<1>2. Grounded BY DEF Init, Grounded, DependenciesFirst
<1> QED BY <1>1, <1>2 DEF LogInv, Calm

LEMMA LogStep == TypeOK /\ IndInv /\ LogInv /\ [Next]_vars => LogInv'
<1> SUFFICES ASSUME TypeOK, IndInv, LogInv, [Next]_vars PROVE LogInv' OBVIOUS
<1>1. Calm /\ Standing /\ Trail /\ Grounded BY DEF LogInv, Calm
<1>2. Calm' BY <1>1, CalmStep
<1>3. Trail' BY <1>1, TrailStep
<1>4. Grounded' BY <1>1, GroundedStep
<1> QED BY <1>2, <1>3, <1>4 DEF LogInv, Calm

\* The five parts of LogInv hold together at every step, whatever crashes, faults
\* and resumes there were.
THEOREM LogIsTrue == Spec => []LogInv
<1>1. Init => LogInv BY LogInit
<1>2. TypeOK /\ IndInv /\ LogInv /\ [Next]_vars => LogInv' BY LogStep
<1> QED BY <1>1, <1>2, TypeCorrect, Inductive, PTL DEF Spec

\* Whatever processes wrote a log, a close in it has its verification, its review
\* and its commit, a merge decision its close and its pull request, and a
\* processed ticket its outcome.
THEOREM LogHasEvidence == Spec => []AuditTrail
<1>1. LogInv => AuditTrail BY DEF LogInv, Trail
<1> QED BY <1>1, LogIsTrue, PTL

\* A log with a last word belongs to a run that is over, but for a failed roll-back.
THEOREM LastWordIsFinal == Spec => []TerminalEventIsFinal
<1>1. LogInv => TerminalEventIsFinal BY DEF LogInv, Standing
<1> QED BY <1>1, LogIsTrue, PTL

\* A run never starts a ticket that it flagged.
THEOREM FlaggedStaysFlagged == Spec => []FlaggedNotRestarted
<1>1. LogInv => FlaggedNotRestarted BY DEF LogInv, Remembers
<1> QED BY <1>1, LogIsTrue, PTL

\* A branch exists only for a ticket whose dependencies have landed.
THEOREM DependenciesLanded == Spec => []DependenciesFirst
<1>1. LogInv => DependenciesFirst BY DEF LogInv, Grounded
<1> QED BY <1>1, LogIsTrue, PTL

LEMMA OverStaysOver ==
  ASSUME TypeOK, LogInv, [Next]_vars
  PROVE  \A r \in RunId :
           /\ status[r] \in {"stopped", "completed"} => status'[r] # "running"
           /\ status[r] = "stopped" => status'[r] = "stopped"
<1>0. Standing BY DEF LogInv
<1>1. CASE UNCHANGED status BY <1>1
<1>2. CASE KillStop \/ Trip \/ Finish
  <2>1. pc \in LivePCs
    BY <1>2, TicketPlaces DEF KillStop, Trip, Finish, At, LivePCs, LoopPCs
  <2>2. status[cur] = "running" BY <1>0, <2>1 DEF Standing
  <2>3. Ending BY <1>0, <1>2, StopEnds
  <2> QED BY <2>2, <2>3 DEF Ending, StatusKept
<1>3. CASE StructuredStop \/ ResumeSkip
  BY <1>3 DEF StructuredStop, ResumeSkip, SetStatus, TypeOK, StoreOK
<1>4. CASE OpenRun BY <1>4 DEF OpenRun, TypeOK, StoreOK
<1>5. CASE \/ AtWork \/ AtLoop BY <1>1, <1>5, WorkKeeps, LoopKeeps
<1>6. CASE \/ Complete \/ StopEvent \/ ResumeSkipEvent \/ Refining \/ Pick \/ TicketEnd
           \/ Boot \/ Crash \/ HumanPull \/ UNCHANGED vars
  BY <1>1, <1>6
  DEF Complete, StopEvent, ResumeSkipEvent, Refining, Pick, TicketEnd, Boot, Crash,
      HumanPull, vars, runVars
<1> QED BY <1>2, <1>3, <1>4, <1>5, <1>6, EnterAtWork, SelectAtWork, RouteAtWork,
           SilentAtWork, TellingAtWork, RunAtLoop DEF Next, ProcessStep

\* No crash, resume or late write brings a run back that is over.
THEOREM RunsStayOver == Spec => FinalIsFinal
<1> DEFINE Over == \A r \in RunId :
             /\ status[r] \in {"stopped", "completed"} => status'[r] # "running"
             /\ status[r] = "stopped" => status'[r] = "stopped"
<1>1. TypeOK /\ LogInv /\ [Next]_vars => [Over]_vars BY OverStaysOver
<1> QED BY <1>1, TypeCorrect, LogIsTrue, PTL DEF Spec, FinalIsFinal

\* A step at a ticket other than the way back to SelectTicket.
LEMMA WorkHolds ==
  ASSUME TypeOK,
         \/ StartTicket \/ EnterExecute \/ EnterPlan \/ EnterReview \/ EnterClose
         \/ EnterMergeGate \/ Route
  PROVE  held'[cur] \in {held[cur], tk}
<1>1. ASSUME NEW to \in LoopStates \ TerminalStates, NEW t, Persist(to, t), cur \in RunId
      PROVE  held'[cur] = t
  BY <1>1 DEF Persist, TypeOK, StoreOK
<1>2. cur \in RunId BY EnterAtWork, SelectAtWork, RouteAtWork, AtTicket DEF AtWork
<1>3. {"StartTicket", "ExecutePlan", "PlanTicket", "Review", "Close", "MergeGate"}
        \subseteq LoopStates \ TerminalStates
  BY DEF LoopStates, TerminalStates
<1>4. \A to \in LoopStates \ TerminalStates : \A next :
        Enter(to, next) => held'[cur] = held[cur]
  BY <1>1, <1>2 DEF Enter, Move
<1>5. CASE StartTicket BY <1>1, <1>2, <1>3, <1>5 DEF StartTicket, Move
<1>6. CASE EnterExecute \/ EnterPlan \/ EnterReview \/ EnterClose \/ EnterMergeGate
  BY <1>3, <1>4, <1>6
  DEF EnterExecute, EnterPlan, EnterReview, EnterClose, EnterMergeGate
<1>7. CASE Route
  <2>1. \A at \in DOMAIN FailureRoute :
          FailureRoute[at] \in LoopStates \ TerminalStates
    BY DEF FailureRoute, LoopStates, TerminalStates
  <2>2. \/ \E at \in DOMAIN FailureRoute : Enter(FailureRoute[at], "backToSelect")
        \/ UNCHANGED runVars
    BY <1>7 DEF Route, RouteFrom
  <2> QED BY <1>4, <2>1, <2>2 DEF runVars
<1> QED BY <1>5, <1>6, <1>7

LEMMA LetsGoOnlyWithOutcome ==
  ASSUME TypeOK, LogInv, [Next]_vars,
         NEW r \in RunId, held[r] # NoTicket, held'[r] # held[r]
  PROVE  Outcome(r, held[r])
<1>0. Standing /\ Owed /\ Trail BY DEF LogInv
<1>1. CASE UNCHANGED held BY <1>1
<1>2. CASE \/ StartTicket \/ EnterExecute \/ EnterPlan \/ EnterReview \/ EnterClose
           \/ EnterMergeGate \/ Route
  <2>1. AtWork BY <1>2, EnterAtWork, SelectAtWork, RouteAtWork
  <2>2. r = cur BY <2>1, WorkKeeps DEF OthersKept
  <2>3. held'[cur] \in {held[cur], tk} BY <1>2, WorkHolds
  <2>4. held[cur] \in {NoTicket, tk} \/ Outcome(cur, held[cur])
    BY <1>0, <2>1 DEF Owed, AtWork
  <2> QED BY <2>2, <2>3, <2>4
<1>3. CASE BackToSelect
  <2>1. AtWork /\ pc = "backToSelect" BY <1>3, SelectAtWork DEF BackToSelect, At
  <2>2. r = cur BY <2>1, WorkKeeps DEF OthersKept
  <2>3. held[cur] \in {NoTicket, tk} \/ Outcome(cur, held[cur])
    BY <1>0, <2>1 DEF Owed, AtWork
  <2>4. Outcome(cur, tk) BY <1>0, <2>1 DEF Trail
  <2> QED BY <2>2, <2>3, <2>4
<1>4. CASE KillStop \/ Trip \/ Finish
  <2>1. pc \in LoopPCs \cup {"finish"}
    BY <1>4 DEF KillStop, Trip, Finish, At, LoopPCs
  <2>2. Ending BY <1>0, <1>4, StopEnds
  <2>3. r = cur BY <2>2 DEF Ending, OthersKept
  <2> QED BY <1>0, <2>1, <2>3 DEF Owed
<1>5. CASE AtLoop
  <2>1. r # cur => held'[r] = held[r] BY <1>5, LoopKeeps DEF OthersKept
  <2> QED BY <1>5, <2>1, LoopKeeps
<1>6. CASE \/ Reattach \/ CreateWorktree \/ SlashCommand \/ CloseTicket \/ MarkEscalated
           \/ CleanupWorktree \/ Push \/ CreatePr \/ MergePr \/ Build \/ Refix \/ Verify
           \/ Reverify \/ RecordVerification \/ PlanTicket \/ Review \/ Reviewed
           \/ ClosedEvent \/ Gate \/ Flag
  BY <1>1, <1>6
  DEF Reattach, CreateWorktree, SlashCommand, CloseTicket, MarkEscalated,
      CleanupWorktree, Push, CreatePr, MergePr, Remotely, Build, Refix, BuilderTurn,
      Verify, Reverify, Verification, RecordVerification, PlanTicket, Review, Reviewed,
      ClosedEvent, Gate, Flag, runVars
<1>7. CASE \/ Complete \/ StopEvent \/ ResumeSkipEvent \/ StructuredStop \/ ResumeSkip
           \/ Refining \/ Pick \/ TicketEnd \/ OpenRun \/ Boot \/ Crash \/ HumanPull
           \/ UNCHANGED vars
  BY <1>1, <1>7
  DEF Complete, StopEvent, ResumeSkipEvent, StructuredStop, ResumeSkip, Refining, Pick,
      TicketEnd, OpenRun, Boot, Crash, HumanPull, vars, runVars
<1> QED BY <1>2, <1>3, <1>4, <1>5, <1>6, <1>7, RunAtLoop DEF Next, ProcessStep

\* A run that lets go of the ticket it holds has said in its log what became of it.
THEOREM TicketsAreAccounted == Spec => NoTicketDropped
<1> DEFINE Accounted == \A r \in RunId : held[r] # NoTicket /\ held'[r] # held[r] =>
                          \/ Has(r, "ticket.flagged", held[r])
                          \/ Has(r, "ticket.closed", held[r])
<1>1. TypeOK /\ LogInv /\ [Next]_vars => [Accounted]_vars
  BY LetsGoOnlyWithOutcome DEF Outcome
<1> QED BY <1>1, TypeCorrect, LogIsTrue, PTL DEF Spec, NoTicketDropped

-----------------------------------------------------------------------------
(* Why no move is refused *)

\* Where a run is, in the words of the invariant.
Where == Unbuilt /\ (faults < 2 => InPhase)

\* A step that refuses nothing, and one more failure at most.
Unrefused == refused' \in {"no", refused}
Counts == faults' \in {faults, faults + 1}

LEMMA Unrefusing ==
  /\ \A k : Escape(k) \/ Throw(k) => Unrefused
  /\ \A p : Goto(p) \/ Reset(p) \/ Again(p) => Unrefused
  /\ \A v : Verdict(v) => Unrefused
  /\ Fault \/ Fine => Counts
BY DEF Escape, Throw, Goto, Reset, Again, Verdict, Unrefused, Fault, Fine, Counts

LEMMA RefusedKept ==
  ASSUME TypeOK, RefusalsExplained, Unrefused, Counts
  PROVE  RefusalsExplained'
BY DEF RefusalsExplained, Unrefused, Counts, TypeOK, EnvOK

\* The mirror survives what does not move.
LEMMA MirrorKept ==
  /\ \A k : Throw(k) => Left \/ (Flagging /\ mirror' = mirror)
  /\ \A p : Goto(p) \/ Again(p) => mirror' = mirror
  /\ \A v : Verdict(v) => mirror' = mirror /\ pc' = "reviewed" /\ Stays
<1>1. \A k : Throw(k) => Left \/ (Flagging /\ mirror' = mirror)
  BY GiveUps DEF Throw, Flagging, Stays, job, tally
<1>2. \A p : Goto(p) \/ Again(p) => mirror' = mirror BY DEF Goto, Again, turn
<1>3. \A v : Verdict(v) => mirror' = mirror /\ pc' = "reviewed" /\ Stays
  BY DEF Verdict, Stays, job, tally
<1> QED BY <1>1, <1>2, <1>3

\* Nothing is claimed outside the live places.
LEMMA Nowhere == ASSUME pc' \notin LivePCs PROVE Where'
<1>1. Unbuilt' BY TicketPlaces DEF Unbuilt, LivePCs
<1>2. InPhase' BY TicketPlaces DEF InPhase, LivePCs, LoopPCs
<1> QED BY <1>1, <1>2 DEF Where

LEMMA LeftNowhere == Left => Where'
BY Nowhere, EndPlaces DEF Left

\* The phases a ticket is flagged in.
LEMMA FlaggablePhases ==
  /\ FlagPhases = {"SelectTicket", "StartTicket", "ExecutePlan", "PlanTicket",
                   "Review", "Close", "MergeGate", "Blocked",
                   "VerificationFailed", "ReviewRejected", "RefineBacklog"}
  /\ WayBack = {"RefineBacklog", "PlanTicket", "Close", "MergeGate", "Blocked",
                "VerificationFailed", "ReviewRejected"}
<1>1. WayBack = {"RefineBacklog", "PlanTicket", "Close", "MergeGate", "Blocked",
                "VerificationFailed", "ReviewRejected"}
  BY DEF WayBack, LoopStates, CanTransition, Transitions
<1>2. DOMAIN FailureRoute = {"StartTicket", "ExecutePlan", "Review"}
  BY DEF FailureRoute
<1> QED BY <1>1, <1>2 DEF FlagPhases

LEMMA TicketPhases ==
  ASSUME InPhase, pc \in TicketPCs PROVE phase[cur] \in FlagPhases
BY FlaggablePhases, TicketPlaces DEF InPhase, BuilderPhases

\* An error at a ticket: the ticket is flagged in the phase it may have reached,
\* with a mirror that may be one move behind.
LEMMA FlaggedWhere ==
  ASSUME TypeOK, Where, pc \in TicketPCs,
         Left \/ (Flagging /\ mirror' = mirror), faults' = faults + 1,
         mirror = "SelectTicket" => phase'[cur] \notin BuilderPhases,
         faults < 2 => phase'[cur] \in FlagPhases
  PROVE  Where'
<1>1. CASE Left BY <1>1, LeftNowhere
<1>2. CASE Flagging /\ mirror' = mirror
  <2>1. pc' = "flag" /\ cur' = cur BY <1>2 DEF Flagging, Stays
  <2>2. Unbuilt' BY <1>2, <2>1 DEF Unbuilt, LoopPCs
  <2>3. faults \in Nat BY DEF TypeOK, EnvOK
  <2>4. ASSUME faults' < 2 PROVE InPhase'
    <3>1. phase'[cur] \in FlagPhases BY <2>3, <2>4
    <3>2. faults' > 0 BY <2>3
    <3> QED BY <2>1, <3>1, <3>2 DEF InPhase
  <2> QED BY <2>2, <2>4 DEF Where
<1> QED BY <1>1, <1>2

LEMMA ThrownWhere ==
  ASSUME TypeOK, Where, pc \in TicketPCs, NEW k, Throw(k), Fault, UNCHANGED phase
  PROVE  Where'
<1>1. Left \/ (Flagging /\ mirror' = mirror) BY MirrorKept
<1>2. mirror = "SelectTicket" => phase'[cur] \notin BuilderPhases
  BY DEF Where, Unbuilt
<1>3. faults < 2 => phase'[cur] \in FlagPhases BY TicketPhases DEF Where
<1> QED BY <1>1, <1>2, <1>3, FlaggedWhere DEF Fault

\* The places of a ticket that share a phase.
Starting == {"worktree", "slash", "enterExecute"}
Building == {"build", "verify", "recordPassed", "recordFailed", "recordUnworkable",
             "enterPlan", "enterReview"}
Reviewing == {"review", "refix", "reverify", "reviewed", "enterClose"}
Closing == {"close", "closedEvent", "push", "enterMergeGate"}
Merging == {"pr", "gate", "merge", "escalate", "cleanup"}

\* A step of a ticket that is no move: it stays in the phase, flags the ticket,
\* or leaves the phase for the way back.
Walks == UNCHANGED <<cur, phase, mirror>> /\ Counts
LEMMA WalkedWhere ==
  ASSUME TypeOK, Where, Walks,
         \/ \E S \in {Starting, Building, Reviewing, Closing, Merging} : {pc, pc'} \subseteq S
         \/ pc \in TicketPCs \ {"flag", "route", "backToSelect", "ticketEnd"} /\ pc' = "flag"
         \/ pc \in {"plan", "closedEvent", "cleanup"} /\ pc' = "backToSelect"
  PROVE  Where'
<1> USE DEF Walks, Starting, Building, Reviewing, Closing, Merging
<1>1. Unbuilt' BY TicketPlaces DEF Where, Unbuilt, LoopPCs
<1>0. faults \in Nat BY DEF TypeOK, EnvOK
<1>2. ASSUME InPhase PROVE InPhase'
  <2>1. CASE {pc, pc'} \subseteq Starting
    BY <1>2, <2>1, TicketPlaces DEF InPhase
  <2>2. CASE {pc, pc'} \subseteq Building
    BY <1>2, <2>2, TicketPlaces DEF InPhase
  <2>3. CASE {pc, pc'} \subseteq Reviewing
    BY <1>2, <2>3, TicketPlaces DEF InPhase
  <2>4. CASE {pc, pc'} \subseteq Closing
    BY <1>2, <2>4, TicketPlaces DEF InPhase
  <2>5. CASE {pc, pc'} \subseteq Merging
    BY <1>2, <2>5, TicketPlaces DEF InPhase
  <2>6. CASE /\ pc \in TicketPCs \ {"flag", "route", "backToSelect", "ticketEnd"}
             /\ pc' = "flag"
    BY <1>0, <1>2, <2>6, TicketPhases DEF InPhase
  <2>7. CASE pc \in {"plan", "closedEvent", "cleanup"} /\ pc' = "backToSelect"
    BY <1>2, <2>7, FlaggablePhases, TicketPlaces DEF InPhase
  <2> QED BY <2>1, <2>2, <2>3, <2>4, <2>5, <2>6, <2>7
<1>3. faults' < 2 => faults < 2 BY <1>0 DEF Counts
<1> QED BY <1>1, <1>2, <1>3 DEF Where

LEMMA Walking ==
  ASSUME TypeOK, Where, UNCHANGED phase, Fault \/ Fine, NEW p,
         Goto(p) \/ Again(p),
         \/ \E S \in {Starting, Building, Reviewing, Closing, Merging} : {pc, p} \subseteq S
         \/ pc \in TicketPCs \ {"flag", "route", "backToSelect", "ticketEnd"} /\ p = "flag"
         \/ pc \in {"plan", "closedEvent", "cleanup"} /\ p = "backToSelect"
  PROVE  Where'
<1>1. pc' = p /\ Stays /\ mirror' = mirror BY GiveUps, MirrorKept
<1> QED BY <1>1, WalkedWhere, Unrefusing DEF Walks, Stays

LEMMA BuildsWhere ==
  ASSUME TypeOK, Where,
         \/ CreateWorktree \/ SlashCommand \/ Build \/ Refix \/ Verify \/ Reverify
  PROVE  Where'
<1> USE ThrownWhere, Walking, TicketPlaces
        DEF At, Starting, Building, Reviewing, runVars
<1>1. CASE CreateWorktree BY <1>1 DEF CreateWorktree
<1>2. CASE SlashCommand BY <1>2 DEF SlashCommand
<1>3. CASE Build \/ Refix BY <1>3 DEF Build, Refix, BuilderTurn
<1>4. CASE Verify
  <2>1. CASE Fault /\ Throw("other") BY <1>4, <2>1 DEF Verify, Verification
  <2>2. CASE /\ Fine
             /\ \/ Goto("recordPassed") \/ Again("build") \/ Goto("recordFailed")
                \/ Goto("recordUnworkable")
    BY <1>4, <2>2 DEF Verify, Verification
  <2> QED BY <1>4, <2>1, <2>2 DEF Verify, Verification
<1>5. CASE Reverify
  <2>1. CASE Fault /\ Throw("other") BY <1>5, <2>1 DEF Reverify, Verification
  <2>2. CASE Fine /\ (Again("review") \/ Goto("flag"))
    BY <1>5, <2>2 DEF Reverify, Verification
  <2> QED BY <1>5, <2>1, <2>2 DEF Reverify, Verification
<1> QED BY <1>1, <1>2, <1>3, <1>4, <1>5

LEMMA ReviewsWhere ==
  ASSUME TypeOK, Where,
         \/ PlanTicket \/ Review \/ Reviewed \/ CloseTicket \/ ClosedEvent
  PROVE  Where'
<1> USE ThrownWhere, Walking, TicketPlaces
        DEF At, Reviewing, Closing, runVars
<1>1. CASE PlanTicket BY <1>1 DEF PlanTicket
<1>2. CASE Review
  <2>1. CASE Fault /\ Throw("other") BY <1>2, <2>1 DEF Review
  <2>2. CASE Fine /\ Goto("refix") BY <1>2, <2>2 DEF Review
  <2>3. CASE Fine /\ (Verdict("APPROVE") \/ Verdict("ESCALATE"))
    <3>1. Walks /\ pc' = "reviewed" BY <1>2, <2>3, MirrorKept, Unrefusing DEF Review, Walks, Stays
    <3> QED BY <1>2, <3>1, WalkedWhere DEF Review
  <2> QED BY <1>2, <2>1, <2>2, <2>3 DEF Review
<1>3. CASE Reviewed BY <1>3 DEF Reviewed
<1>4. CASE CloseTicket BY <1>4 DEF CloseTicket
<1>5. CASE ClosedEvent BY <1>5 DEF ClosedEvent
<1> QED BY <1>1, <1>2, <1>3, <1>4, <1>5

LEMMA ShipsWhere ==
  ASSUME TypeOK, Where,
         Push \/ CreatePr \/ MergePr \/ Gate \/ MarkEscalated \/ CleanupWorktree
  PROVE  Where'
<1> USE ThrownWhere, Walking, TicketPlaces DEF At, Closing, Merging, runVars
<1>1. CASE Push BY <1>1 DEF Push, Remotely
<1>2. CASE CreatePr BY <1>2 DEF CreatePr, Remotely
<1>3. CASE MergePr BY <1>3 DEF MergePr, Remotely
<1>4. CASE Gate BY <1>4 DEF Gate
<1>5. CASE MarkEscalated BY <1>5 DEF MarkEscalated
<1>6. CASE CleanupWorktree
  BY <1>6 DEF CleanupWorktree
<1> QED BY <1>1, <1>2, <1>3, <1>4, <1>5, <1>6

LEMMA RecordsWhere == ASSUME TypeOK, Where, RecordVerification PROVE Where'
<1> USE ThrownWhere, Walking, TicketPlaces DEF At, Building
<1>1. CASE Fault /\ Throw("other") BY <1>1 DEF RecordVerification
<1>2. CASE Fine /\ (Goto("flag") \/ Goto("enterPlan")) BY <1>2 DEF RecordVerification
<1>3. CASE /\ At("recordPassed") /\ Fine /\ pc' = "enterReview" /\ n' = 1
           /\ UNCHANGED <<job, catching, mirror, verdict, tally, refused>>
  <2>1. Walks BY <1>3, Unrefusing DEF RecordVerification, Walks, job
  <2> QED BY <1>3, <2>1, WalkedWhere
<1> QED BY <1>1, <1>2, <1>3 DEF RecordVerification

LEMMA ReattachWhere == ASSUME TypeOK, Where, Reattach PROVE Where'
<1>1. pc = "reattach" /\ UNCHANGED phase BY DEF Reattach, At, runVars
<1>2. CASE Escape("other") BY <1>2, GiveUps, LeftNowhere
<1>3. CASE Fine /\ Goto("flag") BY <1>1, <1>3, Walking, TicketPlaces
<1>4. CASE /\ Fine
           /\ Goto(IF phase[cur] = "Review" THEN "review" ELSE "build")
  <2>1. pc' = (IF phase[cur] = "Review" THEN "review" ELSE "build")
        /\ cur' = cur /\ mirror' = mirror /\ faults' = faults
    BY <1>4, GiveUps, MirrorKept DEF Stays, Fine
  <2>2. Unbuilt' BY <1>1, <2>1, TicketPlaces DEF Where, Unbuilt, LoopPCs
  <2>3. ASSUME InPhase PROVE InPhase'
    BY <1>1, <2>1, <2>3, TicketPlaces DEF InPhase, BuilderPhases
  <2> QED BY <2>1, <2>2, <2>3 DEF Where
<1> QED BY <1>2, <1>3, <1>4 DEF Reattach

\* A read that fails at the flag is the second failure when the mirror is behind.
LEMMA FlagWhere == ASSUME TypeOK, Where, Flag PROVE Where'
<1>1. pc = "flag" /\ UNCHANGED phase BY DEF Flag, At
<1>2. CASE Fault /\ Throw("flagRecord")
  BY <1>1, <1>2, ThrownWhere, TicketPlaces
<1>3. CASE Goto("route") \/ Goto("routeMirror")
  <2>1. pc' \in {"route", "routeMirror"} /\ cur' = cur /\ mirror' = mirror
    BY <1>3, GiveUps, MirrorKept DEF Stays
  <2>2. Unbuilt' BY <1>1, <2>1, TicketPlaces DEF Where, Unbuilt, LoopPCs
  <2>3. faults \in Nat BY DEF TypeOK, EnvOK
  <2>4. pc' = "routeMirror" => faults' = faults + 1
    BY <1>2, <2>1, GiveUps DEF Flag, Fault, Throw, Escape, Goto, Reset
  <2>5. faults' \in {faults, faults + 1} BY DEF Flag, Fault, Fine
  <2>6. ASSUME InPhase, faults' < 2 PROVE InPhase'
    <3>1. phase[cur] \in FlagPhases BY <1>1, <2>6, TicketPhases, TicketPlaces
    <3>2. pc' = "routeMirror" => mirror = phase[cur]
      BY <1>1, <2>3, <2>4, <2>6 DEF InPhase
    <3> QED BY <1>1, <2>1, <3>1, <3>2, TicketPlaces DEF InPhase
  <2> QED BY <2>2, <2>3, <2>5, <2>6 DEF Where
<1> QED BY <1>2, <1>3 DEF Flag

LEMMA TicketEndWhere == ASSUME TypeOK, Where, TicketEnd PROVE Where'
<1>1. pc = "ticketEnd" /\ UNCHANGED phase BY DEF TicketEnd, At
<1>2. CASE Escape("other") BY <1>2, GiveUps, LeftNowhere
<1>3. CASE pc' \in {"finish", "top"} /\ cur' = cur /\ Fine
  <2>1. Unbuilt' BY <1>1, <1>3, TicketPlaces DEF Where, Unbuilt
  <2>2. ASSUME InPhase PROVE InPhase'
    BY <1>1, <1>3, <2>2, TicketPlaces DEF InPhase
  <2> QED BY <1>3, <2>1, <2>2 DEF Where, Fine
<1> QED BY <1>2, <1>3, GiveUps DEF TicketEnd, Stays, job

-----------------------------------------------------------------------------
(* The moves: none is denied, and an illegal one takes two failures *)

Lands(to, next) ==
  pc' = next /\ cur' = cur /\ mirror' = to /\ phase'[cur] = to /\ faults' = faults

\* A ticket is on no run whose views show a trip.
LEMMA NotOver ==
  ASSUME TypeOK, Overdrawn,
         pc \notin NoRunPCs \cup StopPCs
  PROVE  cur \in RunId /\ ~over[cur]
BY AtRun DEF Overdrawn

LEMMA DeniesNothing ==
  ASSUME TypeOK, RefusalsExplained, NEW to, Illegal(to) \/ Denied(to),
         ~Denied(to), Fine, Deny(to), faults < 2 => ~Illegal(to)
  PROVE  RefusalsExplained'
BY DEF Deny, Fine, RefusalsExplained, TypeOK, EnvOK

LEMMA MovedWhere ==
  ASSUME TypeOK, Where, Overdrawn, RefusalsExplained, pc \in TicketPCs,
         NEW to \in LoopStates \ TerminalStates, NEW t, NEW next,
         \/ Move(to, t, next, Throw("other"))
         \/ Move(to, t, next, Goto("flag")),
         faults < 2 => ~Illegal(to) /\ to \in FlagPhases,
         mirror = "SelectTicket" => to \notin BuilderPhases,
         Lands(to, next) => Where'
  PROVE  Where' /\ RefusalsExplained'
<1>1. cur \in RunId /\ ~over[cur]
  <2>1. pc \notin NoRunPCs \cup StopPCs BY TicketPlaces DEF NoRunPCs, StopPCs
  <2> QED BY <2>1, NotOver
<1>2. ~Denied(to) BY <1>1 DEF Denied
<1>3. CASE Fault /\ (Throw("other") \/ Goto("flag"))
           /\ (UNCHANGED phase \/ Persist(to, t))
  <2>1. Left \/ (Flagging /\ mirror' = mirror) BY <1>3, GiveUps, MirrorKept DEF Flagging
  <2>2. phase'[cur] \in {phase[cur], to} BY <1>1, <1>3 DEF Persist, TypeOK, StoreOK
  <2>3. mirror = "SelectTicket" => phase'[cur] \notin BuilderPhases
    BY <2>2 DEF Where, Unbuilt
  <2>4. faults < 2 => phase'[cur] \in FlagPhases
    BY <2>2, TicketPhases DEF Where
  <2>5. Where' BY <1>3, <2>1, <2>3, <2>4, FlaggedWhere DEF Fault
  <2> QED BY <1>3, <2>5, Unrefusing, RefusedKept
<1>4. CASE Illegal(to) /\ Fine /\ Deny(to)
  BY <1>2, <1>4, DeniesNothing, GiveUps, LeftNowhere
<1>5. CASE /\ Persist(to, t) /\ Fine /\ pc' = next /\ mirror' = to
           /\ UNCHANGED <<job, catching, n, verdict, tally, refused>>
  <2>1. phase'[cur] = to BY <1>1, <1>5 DEF Persist, TypeOK, StoreOK
  <2>2. Lands(to, next) BY <1>5, <2>1 DEF Lands, Fine, job
  <2> QED BY <1>5, <2>2, RefusedKept, Unrefusing DEF Unrefused
<1> QED BY <1>2, <1>3, <1>4, <1>5 DEF Move

\* The moves the phases allow.
LEMMA Allowed ==
  /\ CanTransition("Idle", "SelectTicket")
  /\ CanTransition("SelectTicket", "RefineBacklog")
  /\ CanTransition("RefineBacklog", "SelectTicket")
  /\ CanTransition("SelectTicket", "StartTicket")
  /\ CanTransition("SelectTicket", "BudgetExceeded")
  /\ CanTransition("SelectTicket", "NoProgress")
  /\ CanTransition("SelectTicket", "Done")
  /\ CanTransition("StartTicket", "ExecutePlan")
  /\ CanTransition("ExecutePlan", "PlanTicket")
  /\ CanTransition("ExecutePlan", "Review")
  /\ CanTransition("Review", "Close")
  /\ CanTransition("Close", "MergeGate")
  /\ \A p \in DOMAIN FailureRoute : CanTransition(p, FailureRoute[p])
  /\ \A p \in WayBack : CanTransition(p, "SelectTicket")
BY DEF CanTransition, Transitions, FailureRoute, WayBack

LEMMA StartsWhere ==
  ASSUME TypeOK, Where, Overdrawn, RefusalsExplained, StartTicket \/ BackToSelect
  PROVE  Where' /\ RefusalsExplained'
<1>0. {"StartTicket", "SelectTicket"} \subseteq LoopStates \ TerminalStates
  BY DEF LoopStates, TerminalStates
<1>1. CASE StartTicket
  <2>1. pc = "start" /\ pc \in TicketPCs BY <1>1, TicketPlaces DEF StartTicket, At
  <2>2. faults < 2 => ~Illegal("StartTicket") /\ "StartTicket" \in FlagPhases
    BY <2>1, Allowed, FlaggablePhases DEF Where, InPhase, Illegal
  <2>3. Lands("StartTicket", "worktree") => Where'
    BY TicketPlaces DEF Lands, Where, Unbuilt, InPhase, LoopPCs
  <2> QED BY <1>0, <1>1, <2>1, <2>2, <2>3, MovedWhere DEF StartTicket, BuilderPhases
<1>2. CASE BackToSelect
  <2>1. pc = "backToSelect" /\ pc \in TicketPCs BY <1>2, TicketPlaces DEF BackToSelect, At
  <2>2. faults < 2 => ~Illegal("SelectTicket") /\ "SelectTicket" \in FlagPhases
    BY <2>1, Allowed, FlaggablePhases DEF Where, InPhase, Illegal
  <2>3. Lands("SelectTicket", "ticketEnd") => Where'
    BY TicketPlaces DEF Lands, Where, Unbuilt, InPhase, LoopPCs, BuilderPhases
  <2> QED BY <1>0, <1>2, <2>1, <2>2, <2>3, MovedWhere DEF BackToSelect, BuilderPhases
<1> QED BY <1>1, <1>2

LEMMA EnteredWhere ==
  ASSUME TypeOK, Where, Overdrawn, RefusalsExplained,
         EnterExecute \/ EnterPlan \/ EnterReview \/ EnterClose \/ EnterMergeGate
  PROVE  Where' /\ RefusalsExplained'
<1> USE DEF At, Enter
<1>0. {"ExecutePlan", "PlanTicket", "Review", "Close", "MergeGate"}
        \subseteq (LoopStates \ TerminalStates) \cap FlagPhases
  BY FlaggablePhases DEF LoopStates, TerminalStates
<1>1. pc \in {"enterExecute", "enterPlan", "enterReview", "enterClose", "enterMergeGate"}
      /\ pc \in TicketPCs
  BY TicketPlaces DEF EnterExecute, EnterPlan, EnterReview, EnterClose, EnterMergeGate
<1>2. mirror # "SelectTicket" BY <1>1 DEF Where, Unbuilt
<1>3. faults < 2 => /\ pc = "enterExecute" => ~Illegal("ExecutePlan")
                    /\ pc = "enterPlan" => ~Illegal("PlanTicket")
                    /\ pc = "enterReview" => ~Illegal("Review")
                    /\ pc = "enterClose" => ~Illegal("Close")
                    /\ pc = "enterMergeGate" => ~Illegal("MergeGate")
  BY Allowed DEF Where, InPhase, Illegal
<1>4. \/ Lands("ExecutePlan", "build") \/ Lands("PlanTicket", "plan")
      \/ Lands("Review", "review") \/ Lands("Close", "close") \/ Lands("MergeGate", "pr")
      => Where'
  BY TicketPlaces DEF Lands, Where, Unbuilt, InPhase, LoopPCs
<1>5. CASE EnterExecute BY <1>0, <1>1, <1>2, <1>3, <1>4, <1>5, MovedWhere DEF EnterExecute
<1>6. CASE EnterPlan BY <1>0, <1>1, <1>2, <1>3, <1>4, <1>6, MovedWhere DEF EnterPlan
<1>7. CASE EnterReview BY <1>0, <1>1, <1>2, <1>3, <1>4, <1>7, MovedWhere DEF EnterReview
<1>8. CASE EnterClose BY <1>0, <1>1, <1>2, <1>3, <1>4, <1>8, MovedWhere DEF EnterClose
<1>9. CASE EnterMergeGate
  BY <1>0, <1>1, <1>2, <1>3, <1>4, <1>9, MovedWhere DEF EnterMergeGate
<1> QED BY <1>5, <1>6, <1>7, <1>8, <1>9

\* Through the failure state of the phase that was read, or of the mirror.
LEMMA RouteWhere ==
  ASSUME TypeOK, Where, Overdrawn, RefusalsExplained, Route
  PROVE  Where' /\ RefusalsExplained'
<1>1. ASSUME NEW here \in {"route", "routeMirror"}, NEW at, RouteFrom(here, at),
             at = IF here = "route" THEN phase[cur] ELSE mirror
      PROVE  Where' /\ RefusalsExplained'
  <2>1. pc = here /\ pc \in TicketPCs BY <1>1, TicketPlaces DEF RouteFrom, At
  <2>2. faults < 2 => at = phase[cur] /\ phase[cur] \in FlagPhases
    BY <1>1, <2>1, TicketPhases, TicketPlaces DEF Where, InPhase
  <2>3. CASE at \in DOMAIN FailureRoute /\ Enter(FailureRoute[at], "backToSelect")
    <3>1. /\ FailureRoute[at] \in {"Blocked", "VerificationFailed", "ReviewRejected"}
          /\ FailureRoute[at] \in LoopStates \ TerminalStates
      BY <2>3 DEF FailureRoute, LoopStates, TerminalStates
    <3>2. FailureRoute[at] \in FlagPhases /\ FailureRoute[at] \notin BuilderPhases
          /\ FailureRoute[at] \in WayBack /\ FailureRoute[at] # "SelectTicket"
      BY <3>1, FlaggablePhases DEF BuilderPhases
    <3>3. faults < 2 => ~Illegal(FailureRoute[at]) BY <2>2, <2>3, Allowed DEF Illegal
    <3>4. Lands(FailureRoute[at], "backToSelect") => Where'
      BY <3>2, TicketPlaces DEF Lands, Where, Unbuilt, InPhase, LoopPCs
    <3> QED BY <2>1, <2>3, <3>1, <3>2, <3>3, <3>4, MovedWhere DEF Enter
  <2>4. CASE /\ at \notin DOMAIN FailureRoute
             /\ Goto(IF at = "SelectTicket" THEN "ticketEnd" ELSE "backToSelect")
             /\ UNCHANGED <<runVars, repoVars, treeVars, envVars>>
    <3>1. /\ pc' = (IF at = "SelectTicket" THEN "ticketEnd" ELSE "backToSelect")
          /\ UNCHANGED <<cur, mirror, phase, faults>>
      BY <2>4, GiveUps, MirrorKept DEF Stays, runVars, envVars
    <3>2. Unbuilt'
      BY <1>1, <2>1, <3>1, TicketPlaces DEF Where, Unbuilt, LoopPCs, BuilderPhases
    <3>3. faults < 2 => InPhase'
      BY <2>2, <2>4, <3>1, TicketPlaces DEF InPhase, FlagPhases
    <3>4. Unrefused /\ Counts BY <2>4, Unrefusing DEF envVars, Counts
    <3> QED BY <3>1, <3>2, <3>3, <3>4, RefusedKept DEF Where
  <2> QED BY <1>1, <2>3, <2>4 DEF RouteFrom
<1> QED BY <1>1 DEF Route

\* A move of the loop between tickets.
LEMMA AdvancedWhere ==
  ASSUME TypeOK, Where, Overdrawn, RefusalsExplained, pc \in LoopPCs \cup {"finish"},
         NEW to \in LoopStates, NEW next, Advance(to, next),
         pc = "trip" => to \in GuardExemptTargets,
         faults < 2 => ~Illegal(to), Lands(to, next) => Where'
  PROVE  Where' /\ RefusalsExplained'
<1>1. cur \in RunId BY AtRun DEF LoopPCs, NoRunPCs
<1>2. ~Denied(to)
  <2>1. CASE pc = "trip" BY <2>1 DEF Denied
  <2>2. CASE pc # "trip" BY <2>2, NotOver DEF LoopPCs, NoRunPCs, StopPCs, Denied
  <2> QED BY <2>1, <2>2
<1>3. CASE Fault /\ Escape("other")
  BY <1>3, GiveUps, LeftNowhere, Unrefusing, RefusedKept
<1>4. CASE Illegal(to) /\ Fine /\ Deny(to)
  BY <1>2, <1>4, DeniesNothing, GiveUps, LeftNowhere
<1>5. CASE /\ Persist(to, held[cur]) /\ Fine /\ pc' = next /\ mirror' = to
           /\ UNCHANGED <<job, catching, n, verdict, tally, refused>>
  <2>1. phase'[cur] = to BY <1>1, <1>5 DEF Persist, TypeOK, StoreOK
  <2>2. Lands(to, next) BY <1>5, <2>1 DEF Lands, Fine, job
  <2> QED BY <1>5, <2>2, RefusedKept, Unrefusing DEF Unrefused
<1> QED BY <1>2, <1>3, <1>4, <1>5 DEF Advance, Move

LEMMA LoopMovesWhere ==
  ASSUME TypeOK, Where, Overdrawn, RefusalsExplained,
         RefineSelect \/ RefineEnter \/ RefineBack \/ Select \/ Trip \/ Finish
  PROVE  Where' /\ RefusalsExplained'
<1> USE DEF At, LoopPCs
<1>0. {"SelectTicket", "RefineBacklog", "BudgetExceeded", "NoProgress", "Done"}
        \subseteq LoopStates
  BY DEF LoopStates
<1>1. CASE RefineSelect
  <2>1. faults < 2 => ~Illegal("SelectTicket")
    BY <1>1, Allowed DEF RefineSelect, Where, InPhase, Illegal
  <2>2. Lands("SelectTicket", "refineEnter") => Where'
    BY TicketPlaces DEF Lands, Where, Unbuilt, InPhase, BuilderPhases
  <2> QED BY <1>0, <1>1, <2>1, <2>2, AdvancedWhere DEF RefineSelect
<1>2. CASE RefineEnter
  <2>1. faults < 2 => ~Illegal("RefineBacklog")
    BY <1>2, Allowed DEF RefineEnter, Where, InPhase, Illegal
  <2>2. Lands("RefineBacklog", "refining") => Where'
    BY TicketPlaces DEF Lands, Where, Unbuilt, InPhase, BuilderPhases
  <2> QED BY <1>0, <1>2, <2>1, <2>2, AdvancedWhere DEF RefineEnter
<1>3. CASE RefineBack
  <2>1. faults < 2 => ~Illegal("SelectTicket")
    BY <1>3, Allowed DEF RefineBack, Where, InPhase, Illegal
  <2>2. Lands("SelectTicket", "top") => Where'
    BY TicketPlaces DEF Lands, Where, Unbuilt, InPhase, BuilderPhases
  <2> QED BY <1>0, <1>3, <2>1, <2>2, AdvancedWhere DEF RefineBack
<1>4. CASE Select
  <2>1. faults < 2 => ~Illegal("SelectTicket")
    BY <1>4, Allowed DEF Select, Where, InPhase, Illegal
  <2>2. Lands("SelectTicket", "budget") => Where'
    BY TicketPlaces DEF Lands, Where, Unbuilt, InPhase, BuilderPhases
  <2> QED BY <1>0, <1>4, <2>1, <2>2, AdvancedWhere DEF Select
<1>5. ASSUME NEW s \in {"BudgetExceeded", "NoProgress"}, pc = "trip", Advance(s, "stopEvent")
      PROVE  Where' /\ RefusalsExplained'
  <2>1. faults < 2 => ~Illegal(s) BY <1>5, Allowed DEF Where, InPhase, Illegal
  <2>2. Lands(s, "stopEvent") => Where' BY Nowhere, EndPlaces DEF Lands
  <2> QED BY <1>0, <1>5, <2>1, <2>2, AdvancedWhere DEF GuardExemptTargets
<1>6. CASE Finish
  <2>1. faults < 2 => ~Illegal("Done")
    BY <1>6, Allowed DEF Finish, Where, InPhase, Illegal
  <2>2. Lands("Done", "complete") => Where' BY Nowhere, EndPlaces DEF Lands
  <2> QED BY <1>0, <1>6, <2>1, <2>2, AdvancedWhere DEF Finish
<1> QED BY <1>1, <1>2, <1>3, <1>4, <1>5, <1>6 DEF Trip

\* The steps of the loop that are no moves.
LEMMA LoopWhere ==
  ASSUME TypeOK, Where,
         Refine \/ Refining \/ Top \/ KillStop \/ Budget \/ Pick \/ PickNone
  PROVE  Where'
<1> USE DEF At
<1>0. faults \in Nat BY DEF TypeOK, EnvOK
<1>1. CASE Escape("other") BY <1>1, GiveUps, LeftNowhere
<1>2. ASSUME NEW p, Goto(p), Fine, UNCHANGED phase
      PROVE  pc' = p /\ UNCHANGED <<cur, mirror, phase, faults, count>>
  BY <1>2, GiveUps, MirrorKept DEF Goto, tally, Stays, Fine
<1>3. CASE Refine /\ Fine /\ (Goto("top") \/ Goto("refineSelect"))
  <2>1. /\ pc = "refine" /\ pc' \in {"top", "refineSelect"}
        /\ UNCHANGED <<cur, mirror, phase, faults, count>>
    BY <1>2, <1>3 DEF Refine, runVars
  <2> QED BY <2>1, TicketPlaces DEF Where, Unbuilt, InPhase, LoopPCs
<1>4. CASE Refining /\ Fine /\ Goto("refineBack")
  <2>1. /\ pc = "refining" /\ pc' = "refineBack"
        /\ UNCHANGED <<cur, mirror, phase, faults, count>>
    BY <1>2, <1>4 DEF Refining
  <2> QED BY <2>1, TicketPlaces DEF Where, Unbuilt, InPhase, LoopPCs
<1>5. CASE Top
  <2>1. \E p \in {"finish", "killStop", "select", "budget"} : Goto(p) BY <1>5 DEF Top
  <2>2. /\ pc = "top" /\ pc' \in {"finish", "killStop", "select", "budget"}
        /\ UNCHANGED <<cur, mirror, phase, faults, count>>
    BY <1>2, <1>5, <2>1 DEF Top, runVars, envVars, Fine
  <2>3. /\ pc' = "finish" => count = MaxTickets
        /\ pc' = "select" => phase[cur] = "Idle"
        /\ pc' = "budget" => phase[cur] # "Idle"
    BY <1>5 DEF Top, Goto
  <2>4. Unbuilt' BY <2>2, TicketPlaces DEF Where, Unbuilt, LoopPCs
  <2>5. ASSUME InPhase PROVE InPhase'
    <3>1. pc' = "finish" => phase[cur] = "SelectTicket"
      BY <2>2, <2>3, <2>5, BoundAssumption DEF InPhase
    <3> QED BY <2>2, <2>3, <2>5, <3>1, TicketPlaces DEF InPhase
  <2> QED BY <2>2, <2>4, <2>5 DEF Where
<1>6. CASE KillStop /\ Goto("stopEvent") BY <1>6, Nowhere, EndPlaces DEF Goto
<1>7. CASE Budget /\ Fine /\ (Goto("trip") \/ Goto("pick"))
  <2>1. /\ pc = "budget" /\ pc' \in {"trip", "pick"}
        /\ UNCHANGED <<cur, mirror, phase, faults, count>>
    BY <1>2, <1>7 DEF Budget
  <2> QED BY <2>1, TicketPlaces DEF Where, Unbuilt, InPhase, LoopPCs
<1>8. CASE /\ Pick /\ Fine /\ pc' = "start" /\ mirror' = "SelectTicket"
           /\ UNCHANGED cur
  <2>1. pc = "pick" /\ UNCHANGED <<phase, faults>> BY <1>8 DEF Pick, Fine
  <2> QED BY <1>8, <2>1, TicketPlaces DEF Where, Unbuilt, InPhase, LoopPCs
<1>9. CASE PickNone
  <2>1. Goto("finish") \/ Goto("top") BY <1>9 DEF PickNone
  <2>2. /\ pc = "pick" /\ pc' \in {"finish", "top"}
        /\ UNCHANGED <<cur, mirror, phase, faults, count>>
    BY <1>2, <1>9, <2>1 DEF PickNone, runVars, envVars, Fine
  <2> QED BY <2>2, TicketPlaces DEF Where, Unbuilt, InPhase, LoopPCs
<1>10. Refine => Escape("other") \/ (Fine /\ (Goto("top") \/ Goto("refineSelect")))
  BY DEF Refine
<1>11. Refining => Escape("other") \/ (Fine /\ Goto("refineBack")) BY DEF Refining
<1>12. KillStop => Escape("other") \/ Goto("stopEvent") BY DEF KillStop
<1>13. Budget => Escape("other") \/ (Fine /\ (Goto("trip") \/ Goto("pick"))) BY DEF Budget
<1>14. Pick => \/ Escape("other")
               \/ Fine /\ pc' = "start" /\ mirror' = "SelectTicket" /\ UNCHANGED cur
  BY DEF Pick
<1> QED BY <1>1, <1>3, <1>4, <1>5, <1>6, <1>7, <1>8, <1>9, <1>10, <1>11, <1>12, <1>13,
           <1>14

\* A resumed run has a mirror that is right; a fresh one is Idle.
LEMMA OpensWhere == ASSUME TypeOK, Fresh, Boot \/ OpenRun PROVE Where'
<1>1. CASE pc' \in {"open", "off"} BY <1>1, Nowhere, EndPlaces
<1>2. ASSUME NEW r \in RunId, Resumable(r), pc' = "reattach", cur' = r,
             mirror' = phase[r], UNCHANGED phase
      PROVE  Where'
  <2>1. phase[r] \in BuilderPhases BY <1>2 DEF Resumable
  <2> QED BY <1>2, <2>1, TicketPlaces
          DEF Where, Unbuilt, InPhase, LoopPCs, BuilderPhases
<1>3. ASSUME NEW r \in RunId, status[r] = "absent", pc = "open", pc' = "refine", cur' = r,
             UNCHANGED <<phase, count>>
      PROVE  Where'
  <2>1. phase[r] = "Idle" /\ count = 0 BY <1>3 DEF Fresh
  <2> QED BY <1>3, <2>1, TicketPlaces
          DEF Where, Unbuilt, InPhase, LoopPCs, BuilderPhases
<1>4. CASE Boot BY <1>1, <1>2, <1>4 DEF Boot, Reset, runVars
<1>5. CASE OpenRun BY <1>1, <1>3, <1>5 DEF OpenRun, Reset, At, tally
<1> QED BY <1>4, <1>5

LEMMA SameWhere ==
  ASSUME Where, UNCHANGED <<pc, cur, mirror, count, phase, faults>> PROVE Where'
BY DEF Where, Unbuilt, InPhase

LEMMA WhereStep ==
  ASSUME TypeOK, Standing, Where, Fresh, Overdrawn, RefusalsExplained, [Next]_vars
  PROVE  Where'
<1>1. CASE \/ CreateWorktree \/ SlashCommand \/ Build \/ Refix \/ Verify \/ Reverify
           \/ PlanTicket \/ Review \/ Reviewed \/ CloseTicket \/ ClosedEvent
           \/ Push \/ CreatePr \/ MergePr \/ Gate \/ MarkEscalated \/ CleanupWorktree
           \/ RecordVerification \/ Reattach \/ Flag \/ TicketEnd
  BY <1>1, BuildsWhere, ReviewsWhere, ShipsWhere, RecordsWhere, ReattachWhere,
     FlagWhere, TicketEndWhere
<1>2. CASE \/ StartTicket \/ BackToSelect \/ EnterExecute \/ EnterPlan \/ EnterReview
           \/ EnterClose \/ EnterMergeGate \/ Route
           \/ RefineSelect \/ RefineEnter \/ RefineBack \/ Select \/ Trip \/ Finish
  BY <1>2, StartsWhere, EnteredWhere, RouteWhere, LoopMovesWhere
<1>3. CASE \/ Refine \/ Refining \/ Top \/ KillStop \/ Budget \/ Pick \/ PickNone
           \/ Boot \/ OpenRun
  BY <1>3, LoopWhere, OpensWhere
<1>4. CASE Complete \/ StructuredStop \/ StopEvent \/ ResumeSkip \/ ResumeSkipEvent
  BY <1>4, StopEnds, Nowhere DEF Ending
<1>5. CASE Crash BY <1>5, Nowhere, EndPlaces DEF Crash, Reset
<1>6. CASE HumanPull \/ UNCHANGED vars
  BY <1>6, SameWhere
  DEF HumanPull, vars, runVars, procVars, job, turn, tally, envVars
<1> QED BY <1>1, <1>2, <1>3, <1>4, <1>5, <1>6 DEF Next, ProcessStep

-----------------------------------------------------------------------------
(* What is refused, and the runs the process is not on *)

LEMMA RefusedStep ==
  ASSUME TypeOK, Where, Overdrawn, RefusalsExplained, [Next]_vars
  PROVE  RefusalsExplained'
<1>1. CASE \/ StartTicket \/ BackToSelect \/ EnterExecute \/ EnterPlan \/ EnterReview
           \/ EnterClose \/ EnterMergeGate \/ Route
           \/ RefineSelect \/ RefineEnter \/ RefineBack \/ Select \/ Trip \/ Finish
  BY <1>1, StartsWhere, EnteredWhere, RouteWhere, LoopMovesWhere
<1>2. CASE \/ CreateWorktree \/ SlashCommand \/ Build \/ Refix \/ Verify \/ Reverify
           \/ PlanTicket \/ RecordVerification \/ Reattach \/ Flag \/ TicketEnd
  <2>1. Counts
    BY <1>2, Unrefusing
    DEF CreateWorktree, SlashCommand, Build, Refix, BuilderTurn, Verify, Reverify,
        Verification, PlanTicket, RecordVerification, Reattach, Flag, TicketEnd
  <2>2. Unrefused
    BY <1>2, Unrefusing
    DEF CreateWorktree, SlashCommand, Build, Refix, BuilderTurn, Verify, Reverify,
        Verification, PlanTicket, RecordVerification, Reattach, Flag, TicketEnd,
        Unrefused
  <2> QED BY <2>1, <2>2, RefusedKept
<1>3. CASE \/ Review \/ Reviewed \/ CloseTicket \/ ClosedEvent \/ Push \/ CreatePr
           \/ MergePr \/ Gate \/ MarkEscalated \/ CleanupWorktree
  <2>1. Counts
    BY <1>3, Unrefusing
    DEF Review, Reviewed, CloseTicket, ClosedEvent, Push, CreatePr, MergePr, Remotely,
        Gate, MarkEscalated, CleanupWorktree
  <2>2. Unrefused
    BY <1>3, Unrefusing
    DEF Review, Reviewed, CloseTicket, ClosedEvent, Push, CreatePr, MergePr, Remotely,
        Gate, MarkEscalated, CleanupWorktree
  <2> QED BY <2>1, <2>2, RefusedKept
<1>4. CASE \/ Refine \/ Refining \/ Top \/ KillStop \/ Budget \/ Pick \/ PickNone
           \/ Complete \/ StructuredStop \/ StopEvent \/ ResumeSkip \/ ResumeSkipEvent
           \/ Boot \/ OpenRun \/ Crash \/ HumanPull \/ UNCHANGED vars
  <2>1. Counts
    BY <1>4, Unrefusing
    DEF Refine, Refining, Top, KillStop, Budget, Pick, PickNone, Complete,
        StructuredStop, StopEvent, ResumeSkip, ResumeSkipEvent, Boot, OpenRun, Crash,
        HumanPull, vars, envVars, Counts
  <2>2. Unrefused
    BY <1>4, Unrefusing
    DEF Refine, Refining, Top, KillStop, Budget, Pick, PickNone, Complete,
        StructuredStop, StopEvent, ResumeSkip, ResumeSkipEvent, Boot, OpenRun, Crash,
        HumanPull, vars, procVars, Unrefused
  <2> QED BY <2>1, <2>2, RefusedKept
<1> QED BY <1>1, <1>2, <1>3, <1>4 DEF Next, ProcessStep

\* Only the budget writes the views of a run.
LEMMA ViewsKept ==
  ASSUME ProcessStep, pc # "budget", pc # "open"
  PROVE  UNCHANGED over
<1> USE DEF At
<1>1. CASE \/ Reattach \/ ResumeSkip \/ ResumeSkipEvent \/ Refine \/ RefineSelect
           \/ RefineEnter \/ Refining \/ RefineBack \/ Top \/ Select \/ KillStop \/ Trip
           \/ StopEvent \/ Pick \/ PickNone \/ TicketEnd \/ Finish \/ Complete
           \/ StructuredStop
  BY <1>1
  DEF Reattach, ResumeSkip, ResumeSkipEvent, Refine, RefineSelect, RefineEnter, Refining,
      RefineBack, Top, Select, KillStop, Trip, StopEvent, Pick, PickNone, TicketEnd,
      Finish, Complete, StructuredStop, Advance, MoveRest, runVars
<1>2. CASE \/ StartTicket \/ CreateWorktree \/ SlashCommand \/ EnterExecute \/ Build
           \/ Verify \/ RecordVerification \/ EnterPlan \/ PlanTicket \/ EnterReview
           \/ Review \/ Refix \/ Reverify \/ Reviewed \/ EnterClose
  BY <1>2
  DEF StartTicket, CreateWorktree, SlashCommand, EnterExecute, Build, BuilderTurn, Verify,
      Verification, RecordVerification, EnterPlan, PlanTicket, EnterReview, Review, Refix,
      Reverify, Reviewed, EnterClose, Enter, MoveRest, runVars
<1>3. CASE \/ CloseTicket \/ ClosedEvent \/ Push \/ EnterMergeGate \/ CreatePr \/ Gate
           \/ MergePr \/ MarkEscalated \/ CleanupWorktree \/ BackToSelect \/ Flag \/ Route
  BY <1>3
  DEF CloseTicket, ClosedEvent, Push, EnterMergeGate, CreatePr, Gate, MergePr, Remotely,
      MarkEscalated, CleanupWorktree, BackToSelect, Flag, Route, RouteFrom, Enter,
      MoveRest, runVars
<1> QED BY <1>1, <1>2, <1>3 DEF ProcessStep, OpenRun, Budget

\* A step of a started process touches the state of its own run, and goes on
\* with it or with none.
Own == /\ \A r \in RunId \ {cur} : phase'[r] = phase[r]
       /\ \A r \in RunId : status'[r] = "absent" => status[r] = "absent"
       /\ pc' \notin NoRunPCs => cur' = cur

LEMMA OwnRun ==
  ASSUME TypeOK, Standing, ProcessStep, pc # "open" PROVE Own
<1>1. CASE AtWork
  <2>1. OthersKept /\ UNCHANGED status BY <1>1, WorkKeeps
  <2> QED BY <1>1, <2>1 DEF Own, OthersKept, AtWork, OnTicket, Stays, Left, NoRunPCs
<1>2. CASE AtLoop
  <2>1. OthersKept /\ UNCHANGED status BY <1>2, LoopKeeps
  <2> QED BY <1>2, <2>1 DEF Own, OthersKept, AtLoop, Left, Stays, NoRunPCs
<1>3. CASE Ending
  <2>1. pc \notin NoRunPCs BY <1>3 DEF Ending
  <2>2. cur \in RunId /\ status[cur] # "absent" BY <2>1, AtRun DEF Standing
  <2> QED BY <1>3, <2>2 DEF Own, Ending, OthersKept, StatusKept
<1>4. CASE Refining \/ Pick \/ TicketEnd
  <2>1. UNCHANGED <<phase, status>> BY <1>4 DEF Refining, Pick, TicketEnd
  <2>2. pc' \notin NoRunPCs => cur' = cur
    BY <1>4, GiveUps DEF Refining, Pick, TicketEnd, Left, Stays, NoRunPCs, job
  <2> QED BY <2>1, <2>2 DEF Own
<1> QED BY <1>1, <1>2, <1>3, <1>4, EnterAtWork, SelectAtWork, RouteAtWork, SilentAtWork,
           TellingAtWork, RunAtLoop, StopEnds DEF ProcessStep, OpenRun, At

\* Who acts at the places that concern the views.
LEMMA WhoActs ==
  ASSUME ProcessStep
  PROVE  /\ pc # "off"
         /\ pc = "open" => OpenRun
         /\ pc = "budget" => Budget
         /\ pc \in StopPCs =>
              Trip \/ StopEvent \/ StructuredStop \/ ResumeSkip \/ ResumeSkipEvent
BY DEF ProcessStep, Reattach, ResumeSkip, ResumeSkipEvent, OpenRun, Refine, RefineSelect,
       RefineEnter, Refining, RefineBack, Top, Select, KillStop, Budget, Trip, StopEvent,
       Pick, PickNone, TicketEnd, Finish, Complete, StructuredStop, StartTicket,
       CreateWorktree, SlashCommand, EnterExecute, Build, Verify, RecordVerification,
       EnterPlan, PlanTicket, EnterReview, Review, Refix, Reverify, Reviewed, EnterClose,
       CloseTicket, ClosedEvent, Push, EnterMergeGate, CreatePr, Gate, MergePr,
       MarkEscalated, CleanupWorktree, BackToSelect, Flag, Route, RouteFrom, BuilderTurn,
       Verification, Remotely, At, StopPCs

LEMMA OverStep ==
  ASSUME TypeOK, Standing, Fresh, Overdrawn, Unbuilt, [Next]_vars
  PROVE  Overdrawn'
<1> SUFFICES ASSUME NEW r \in RunId, over'[r]
             PROVE  /\ phase'[r] \notin BuilderPhases
                    /\ r = cur' => pc' \in NoRunPCs \cup StopPCs
  BY DEF Overdrawn
<1>1. CASE ProcessStep /\ pc = "budget"
  <2>1. Budget BY <1>1, WhoActs
  <2>2. cur \in RunId /\ phase[cur] \notin BuilderPhases /\ ~over[cur]
    BY <1>1, NotOver DEF Unbuilt, LoopPCs, NoRunPCs, StopPCs
  <2>3. CASE UNCHANGED over /\ Escape("other")
    <3>1. r # cur /\ over[r] BY <2>2, <2>3
    <3> QED BY <2>1, <2>3, <3>1, GiveUps
            DEF Overdrawn, Budget, Left, Stays, NoRunPCs, StopPCs
  <2>4. ASSUME NEW trips \in BOOLEAN, over' = [over EXCEPT ![cur] = trips],
               Goto(IF trips THEN "trip" ELSE "pick")
        PROVE  /\ phase'[r] \notin BuilderPhases
               /\ r = cur' => pc' \in NoRunPCs \cup StopPCs
    <3>1. UNCHANGED phase BY <2>1 DEF Budget
    <3>2. pc' = (IF trips THEN "trip" ELSE "pick") /\ cur' = cur
      BY <2>4, GiveUps DEF Stays
    <3>3. over'[r] = IF r = cur THEN trips ELSE over[r]
      BY <2>4 DEF TypeOK, StoreOK
    <3> QED BY <2>2, <3>1, <3>2, <3>3 DEF Overdrawn, StopPCs
  <2> QED BY <2>1, <2>3, <2>4 DEF Budget
<1>2. CASE ProcessStep /\ pc \notin {"open", "budget"} \cup StopPCs
  <2>1. UNCHANGED over /\ Own BY <1>2, ViewsKept, OwnRun
  <2>2. pc \notin NoRunPCs BY <1>2, WhoActs DEF NoRunPCs
  <2>3. r # cur /\ over[r] BY <1>2, <2>1, <2>2, NotOver
  <2> QED BY <2>1, <2>3 DEF Own, Overdrawn
<1>3. CASE Trip \/ StopEvent \/ StructuredStop \/ ResumeSkip \/ ResumeSkipEvent
  <2>1. pc \in StopPCs /\ ProcessStep
    BY <1>3 DEF Trip, StopEvent, StructuredStop, ResumeSkip, ResumeSkipEvent, At, StopPCs,
                ProcessStep
  <2>2. UNCHANGED over /\ Own BY <2>1, ViewsKept, OwnRun DEF StopPCs
  <2>3. pc' \in NoRunPCs \cup StopPCs
    BY <1>3, GiveUps
    DEF Trip, Advance, Move, StopEvent, StructuredStop, ResumeSkip, ResumeSkipEvent, Left,
        Goto, Reset, NoRunPCs, StopPCs
  <2>4. phase'[cur] \in {phase[cur], "BudgetExceeded", "NoProgress"}
    <3>1. cur \in RunId BY <2>1, AtRun DEF NoRunPCs, StopPCs
    <3> QED BY <1>3, <3>1
            DEF Trip, Advance, Move, Persist, StopEvent, StructuredStop, ResumeSkip,
                ResumeSkipEvent, TypeOK, StoreOK
  <2> QED BY <2>2, <2>3, <2>4 DEF Own, Overdrawn, BuilderPhases
<1>4. CASE OpenRun
  <2>1. UNCHANGED <<over, phase>> BY <1>4 DEF OpenRun
  <2>2. \/ pc' \in NoRunPCs
        \/ \E q \in RunId : status[q] = "absent" /\ cur' = q
    BY <1>4 DEF OpenRun, Reset, NoRunPCs
  <2> QED BY <2>1, <2>2 DEF Overdrawn, Fresh
<1>5. CASE Boot
  <2>1. UNCHANGED <<over, phase>> BY <1>5 DEF Boot, runVars
  <2>2. \/ pc' \in NoRunPCs
        \/ \E q \in RunId : Resumable(q) /\ cur' = q
    BY <1>5 DEF Boot, Reset, NoRunPCs
  <2> QED BY <2>1, <2>2 DEF Overdrawn, Resumable
<1>6. CASE Crash BY <1>6 DEF Crash, Reset, runVars, Overdrawn, NoRunPCs
<1>7. CASE HumanPull \/ UNCHANGED vars
  BY <1>7 DEF HumanPull, vars, runVars, procVars, job, Overdrawn
<1> QED BY <1>1, <1>2, <1>3, <1>4, <1>5, <1>6, <1>7, WhoActs DEF Next

\* A run that is not open yet is as it was made, and a fresh process counts from 0.
LEMMA FreshStep ==
  ASSUME TypeOK, Standing, Fresh, [Next]_vars
  PROVE  Fresh'
<1> SUFFICES /\ \A r \in RunId : status'[r] = "absent" => phase'[r] = "Idle" /\ ~over'[r]
             /\ pc' = "open" => count' = 0
  BY DEF Fresh
<1>1. ASSUME UNCHANGED <<phase, over>>,
             \A r \in RunId : status'[r] = "absent" => status[r] = "absent"
      PROVE  \A r \in RunId : status'[r] = "absent" => phase'[r] = "Idle" /\ ~over'[r]
  BY <1>1 DEF Fresh
<1>2. CASE ProcessStep /\ pc # "open"
  <2>1. Own BY <1>2, OwnRun
  <2>2. pc \notin NoRunPCs BY <1>2, WhoActs DEF NoRunPCs
  <2>3. cur \in RunId /\ status[cur] # "absent" BY <2>2, AtRun DEF Standing
  <2>4. \A r \in RunId \ {cur} : over'[r] = over[r]
    BY <1>2, <2>3, ViewsKept, WhoActs DEF Budget, TypeOK, StoreOK
  <2>5. \A r \in RunId : status'[r] = "absent" => phase'[r] = "Idle" /\ ~over'[r]
    BY <2>1, <2>3, <2>4 DEF Own, Fresh
  <2>6. pc' = "open" => count' = 0
    <3>1. CASE AtWork \/ AtLoop
      BY <3>1, TicketPlaces DEF AtWork, AtLoop, OnTicket, Left, LoopPCs
    <3>2. CASE Refining \/ Pick \/ TicketEnd
      BY <3>2, GiveUps DEF Refining, Pick, TicketEnd, Left
    <3>3. CASE \/ KillStop \/ Trip \/ Finish \/ Complete \/ StructuredStop \/ StopEvent
               \/ ResumeSkip \/ ResumeSkipEvent
      BY <3>3
      DEF KillStop, Trip, Finish, Complete, StructuredStop, StopEvent, ResumeSkip,
          ResumeSkipEvent, Advance, Move, Escape, Deny, Goto, Reset
    <3> QED BY <1>2, <3>1, <3>2, <3>3, EnterAtWork, SelectAtWork, RouteAtWork,
               SilentAtWork, TellingAtWork, RunAtLoop DEF ProcessStep, OpenRun, At
  <2> QED BY <2>5, <2>6
<1>3. CASE OpenRun
  <2>1. \A r \in RunId : status'[r] = "absent" => status[r] = "absent"
    BY <1>3 DEF OpenRun, TypeOK, StoreOK
  <2>2. pc' # "open" BY <1>3 DEF OpenRun, Reset
  <2> QED BY <1>1, <1>3, <2>1, <2>2 DEF OpenRun
<1>4. CASE Boot \/ Crash
  <2>1. UNCHANGED <<phase, over, status>> BY <1>4 DEF Boot, Crash, runVars
  <2>2. pc' = "open" => count' = 0 BY <1>4 DEF Boot, Crash, Reset
  <2> QED BY <1>1, <2>1, <2>2
<1>5. CASE HumanPull \/ UNCHANGED vars
  <2>1. UNCHANGED <<phase, over, status, pc, count>>
    BY <1>5 DEF HumanPull, vars, runVars, procVars, tally
  <2> QED BY <1>1, <2>1 DEF Fresh
<1> QED BY <1>2, <1>3, <1>4, <1>5, WhoActs DEF Next

LEMMA RefusalInit == Init => RefusalInv
<1> SUFFICES ASSUME Init PROVE RefusalInv OBVIOUS
<1>1. Fresh /\ Overdrawn BY DEF Init, Fresh, Overdrawn
<1>2. Unbuilt /\ InPhase BY TicketPlaces DEF Init, Unbuilt, InPhase, LoopPCs
<1>3. RefusalsExplained BY DEF Init, RefusalsExplained
<1> QED BY <1>1, <1>2, <1>3 DEF RefusalInv

LEMMA RefusalStep == TypeOK /\ LogInv /\ RefusalInv /\ [Next]_vars => RefusalInv'
<1> SUFFICES ASSUME TypeOK, LogInv, RefusalInv, [Next]_vars PROVE RefusalInv' OBVIOUS
<1>1. Standing /\ Where /\ Fresh /\ Overdrawn /\ Unbuilt /\ RefusalsExplained
  BY DEF LogInv, RefusalInv, Where
<1>2. Where' BY <1>1, WhereStep
<1>3. Fresh' /\ Overdrawn' BY <1>1, FreshStep, OverStep
<1>4. RefusalsExplained' BY <1>1, RefusedStep
<1> QED BY <1>2, <1>3, <1>4 DEF RefusalInv, Where

\* Through any crashes, faults and resumes: the budget guard never has to deny a
\* move, and the driver asks for an illegal one only after two failures.
THEOREM RefusalsHaveReasons == Spec => []RefusalsExplained
<1>1. TypeOK /\ LogInv /\ RefusalInv /\ [Next]_vars => RefusalInv' BY RefusalStep
<1>2. RefusalInv => RefusalsExplained BY DEF RefusalInv
<1> QED BY <1>1, <1>2, RefusalInit, TypeCorrect, LogIsTrue, PTL DEF Spec
=============================================================================
