--------------------------- MODULE TicketDelivery ---------------------------
(***************************************************************************)
(* What the loop promises about a ticket, whatever processes, crashes and  *)
(* resumes produced it: one life, from open to building to closed and      *)
(* then out to the remote; the tree changes while it is being built and    *)
(* never after; it is closed on the evidence of a verification (or of a    *)
(* resume that took the verification for granted), and merged by the loop  *)
(* only when the reviewer approved what was closed.                        *)
(***************************************************************************)
EXTENDS FiniteSets

CONSTANT Ticket

VARIABLES stage,     \* where each ticket is
          evidence,  \* what is known of its tree as it is
          landed     \* tickets the main checkout has as done

vars == <<stage, evidence, landed>>

Stages == {"open", "building", "closed", "pushed", "pr", "merged"}
EvidenceKinds == {"verified", "approved", "assumed"}

Init == /\ stage = [t \in Ticket |-> "open"]
        /\ evidence = [t \in Ticket |-> {}]
        /\ landed = {}

MoveTo(t, from, to) ==
  stage[t] = from /\ stage' = [stage EXCEPT ![t] = to]

Start(t) == MoveTo(t, "open", "building") /\ UNCHANGED <<evidence, landed>>

\* An edit takes evidence away, a check adds some; "assumed" is never undone.
Work(t) ==
  /\ stage[t] = "building"
  /\ \E e \in SUBSET EvidenceKinds :
       /\ evidence[t] \cap {"assumed"} \subseteq e
       /\ evidence' = [evidence EXCEPT ![t] = e]
  /\ UNCHANGED <<stage, landed>>

Close(t) == /\ evidence[t] \cap {"verified", "assumed"} # {}
            /\ MoveTo(t, "building", "closed")
            /\ UNCHANGED <<evidence, landed>>

Ship(t) == /\ \/ MoveTo(t, "closed", "pushed")
              \/ MoveTo(t, "pushed", "pr")
              \/ "approved" \in evidence[t] /\ MoveTo(t, "pr", "merged")
           /\ UNCHANGED <<evidence, landed>>

Land(t) == /\ stage[t] \notin {"open", "building"}
           /\ landed' = landed \cup {t}
           /\ UNCHANGED <<stage, evidence>>

Next == \E t \in Ticket : Start(t) \/ Work(t) \/ Close(t) \/ Ship(t) \/ Land(t)

Spec == Init /\ [][Next]_vars

=============================================================================
