------------------------------ MODULE ObserveCi -------------------------------
(***************************************************************************)
(* The observation of a pull request's checks (src/src/ci.ts): a bounded   *)
(* poll of a list that others fill, run again and empty while the loop     *)
(* sleeps.  There is no clock in the code: the deadline is a number of     *)
(* polls.                                                                  *)
(***************************************************************************)
EXTENDS Naturals, FiniteSets

CONSTANTS
  Checks,                                 \* that a pull request may get
  CiWaitTimeoutSec, CiPollIntervalSec,
  MaxReruns                               \* bound: checks that are run again

ASSUME CiAssumption ==
  /\ CiWaitTimeoutSec \in Nat /\ CiPollIntervalSec \in Nat \ {0}
  /\ MaxReruns \in Nat

VARIABLES
  bucket,      \* of each check, as gh names it; "absent" until it registers
  reruns,      \* so far
  late,        \* history: checks that came or were run again since the last list
  poll, everPending,   \* the locals of observeCi
  ci           \* "unasked", "polling", or what was observed

checkVars == <<bucket, reruns>>
ciVars == <<checkVars, late, poll, everPending, ci>>

NO_CHECKS_GRACE_POLLS == 2
maxPolls ==
  LET ceiling == (CiWaitTimeoutSec + CiPollIntervalSec - 1) \div CiPollIntervalSec
  IN IF ceiling = 0 THEN 1 ELSE ceiling

Ended == {"pass", "fail", "cancel", "skipping"}
Buckets == Ended \cup {"absent", "pending"}

CiInit ==
  /\ bucket = [c \in Checks |-> "absent"] /\ reruns = 0 /\ late = {}
  /\ poll = 0 /\ everPending = FALSE /\ ci = "unasked"

Listed == {c \in Checks : bucket[c] # "absent"}
In(buckets) == {c \in Checks : bucket[c] \in buckets}

-----------------------------------------------------------------------------
(* What the checks do *)

Moves(c, from, to) ==
  /\ bucket[c] \in from /\ bucket' = [bucket EXCEPT ![c] = to]
  /\ UNCHANGED <<poll, everPending, ci>>

Registers(c) ==
  /\ Moves(c, {"absent"}, "pending") /\ late' = late \cup {c}
  /\ UNCHANGED reruns

Finishes(c) ==
  /\ \E to \in Ended : Moves(c, {"pending"}, to)
  /\ UNCHANGED <<reruns, late>>

Reruns(c) ==
  /\ reruns < MaxReruns /\ reruns' = reruns + 1
  /\ Moves(c, Ended, "pending") /\ late' = late \cup {c}

CheckMoves == \E c \in Checks : Registers(c) \/ Finishes(c) \/ Reruns(c)

-----------------------------------------------------------------------------
(* What the loop makes of them *)

\* Mutant: a cancelled check is not a failed one.
verdictOf_IgnoresCancel ==
  IF In({"fail"}) # {} THEN "red"
  ELSE IF In({"pending"}) # {} THEN "polling" ELSE "green"

\* A list that is not empty: one failure is red at once, whatever is pending.
verdictOf ==
  IF In({"fail", "cancel"}) # {} THEN "red"
  ELSE IF In({"pending"}) # {} THEN "polling" ELSE "green"

\* An empty list, or gh's error in its place, is believed after the grace polls.
emptyVerdict == IF poll >= NO_CHECKS_GRACE_POLLS THEN "no-signal" ELSE "polling"

\* The deadline.
Overdue(pendingSeen) == IF pendingSeen THEN "pending-timeout" ELSE "no-signal"

\* The poll is over, or it was the last one, or there is another.
Concludes(seen, pendingSeen) ==
  \/ /\ seen = "polling" /\ poll + 1 < maxPolls
     /\ poll' = poll + 1 /\ everPending' = pendingSeen /\ UNCHANGED ci
  \/ /\ seen # "polling" \/ poll + 1 >= maxPolls
     /\ poll' = 0 /\ everPending' = FALSE
     /\ ci' = IF seen = "polling" THEN Overdue(pendingSeen) ELSE seen

\* One poll: output of no use (the network, an error of gh), an empty list, or
\* a list.
Poll ==
  /\ ci = "polling"
  /\ \/ Concludes("polling", everPending) /\ UNCHANGED late
     \/ /\ Listed = {} /\ late' = {} /\ Concludes(emptyVerdict, everPending)
     \/ /\ Listed # {} /\ late' = {}
        /\ Concludes(verdictOf, everPending \/ verdictOf = "polling")
  /\ UNCHANGED checkVars

-----------------------------------------------------------------------------
(* Properties *)

CiTypeOK ==
  /\ bucket \in [Checks -> Buckets] /\ reruns \in 0..MaxReruns
  /\ late \subseteq Checks /\ poll \in Nat /\ everPending \in BOOLEAN
  /\ ci \in {"unasked", "polling", "green", "red", "pending-timeout", "no-signal"}

\* No check stands against a merge, but those the last list could not know of.
Unopposed ==
  \A c \in Checks : bucket[c] \in {"absent", "pass", "skipping"} \/ c \in late

=============================================================================
