----------------------------- MODULE ReviewRounds -----------------------------
(***************************************************************************)
(* The cross-provider review of one ticket: the rounds of reviewStep       *)
(* (src/src/reviewStep.ts), each review with its two attempts              *)
(* (src/src/review.ts) at a command that leaves its verdict in a file      *)
(* (src/src/runners.ts).                                                   *)
(***************************************************************************)
EXTENDS Naturals, Sequences

CONSTANTS Findings,        \* signatures of what a reviewer may find
          MaxReviewRounds

ASSUME ReviewAssumption == MaxReviewRounds \in Nat \ {0}

VARIABLES
  stage,       \* where the review is
  round, attempt,
  lastMessage, \* the file both attempts of a review write to
  previous,    \* prevSignature
  verdict,     \* of the step: "null" until it returns, and when it aborts
  fixes        \* history: the findings each fix of this process was for

reviewVars == <<stage, round, attempt, lastMessage, previous, verdict, fixes>>

\* What the file may hold: nothing, something outside the schema, or a verdict
\* with its findings.
NoMessage == <<"none", 0>>
Messages ==
  {<<"unreadable", 0>>, <<"APPROVE", 0>>, <<"ESCALATE", 0>>}
    \cup {<<"REQUEST_CHANGES", f>> : f \in Findings}

\* The process enters reviewStep, or enters it again after it died.
Enters ==
  /\ stage' = "invoke" /\ round' = 1 /\ attempt' = 1 /\ lastMessage' = NoMessage
  /\ previous' = 0 /\ verdict' = "null" /\ fixes' = <<>>

ReviewInit ==
  /\ stage = "invoke" /\ round = 1 /\ attempt = 1 /\ lastMessage = NoMessage
  /\ previous = 0 /\ verdict = "null" /\ fixes = <<>>

\* The step returns, and its locals are gone.
Returns(v) ==
  /\ verdict' = v /\ stage' = "returned"
  /\ round' = 1 /\ attempt' = 1 /\ lastMessage' = NoMessage /\ previous' = 0
  /\ fixes' = <<>>

\* Mutant: what the first review found is kept for the comparison.
Requests_FirstKept(f) ==
  IF f = previous \/ round = MaxReviewRounds
  THEN Returns("ESCALATE")
  ELSE /\ stage' = "fix" /\ previous' = IF round = 1 THEN f ELSE previous
       /\ UNCHANGED <<round, attempt, lastMessage, verdict, fixes>>

\* A review that ended with findings: a stall, the last round, or a fix.
Requests(f) ==
  IF f = previous \/ round = MaxReviewRounds
  THEN Returns("ESCALATE")
  ELSE /\ stage' = "fix" /\ previous' = f
       /\ UNCHANGED <<round, attempt, lastMessage, verdict, fixes>>

\* parseReviewVerdict, and what reviewStep does with the verdict.
Judges ==
  /\ stage = "judge"
  /\ \/ lastMessage[1] = "REQUEST_CHANGES" /\ Requests(lastMessage[2])
     \/ lastMessage[1] = "APPROVE" /\ Returns("APPROVE")
     \/ lastMessage[1] \in {"ESCALATE", "unreadable"} /\ Returns("ESCALATE")

\* One invocation of the reviewer.  It may write the file and fail, or succeed
\* and not write it: the second attempt then finds the file of the first.
Invokes ==
  /\ stage = "invoke"
  /\ \E ok \in BOOLEAN, left \in Messages \cup {NoMessage} :
       LET file == IF left = NoMessage THEN lastMessage ELSE left
       IN \/ /\ ok /\ file # NoMessage
             /\ stage' = "judge" /\ lastMessage' = file
             /\ UNCHANGED <<round, attempt, previous, verdict, fixes>>
          \/ /\ ~ok \/ file = NoMessage
             /\ attempt = 1 /\ attempt' = 2 /\ lastMessage' = file
             /\ UNCHANGED <<stage, round, previous, verdict, fixes>>
          \/ /\ ~ok \/ file = NoMessage
             /\ attempt = 2 /\ Returns("ESCALATE")
          \/ /\ ~ok /\ Returns("ESCALATE")   \* the model was rejected

\* The builder addresses the findings.
Fixes ==
  /\ stage = "fix" /\ stage' = "verify"
  /\ fixes' = Append(fixes, lastMessage[2])
  /\ UNCHANGED <<round, attempt, lastMessage, previous, verdict>>

\* Mutant: the round is not counted.
Reverifies_SameRound ==
  /\ stage = "verify"
  /\ stage' = "invoke" /\ attempt' = 1 /\ lastMessage' = NoMessage
  /\ fixes' = <<>>
  /\ UNCHANGED <<round, previous, verdict>>

\* A fix that broke the build aborts the step; the next review gets a
\* directory of its own for its message.
Reverifies ==
  /\ stage = "verify"
  /\ \/ Returns("null")
     \/ /\ stage' = "invoke" /\ round' = round + 1 /\ attempt' = 1
        /\ lastMessage' = NoMessage
        /\ UNCHANGED <<previous, verdict, fixes>>

ReviewStep == Invokes \/ Judges \/ Fixes \/ Reverifies

-----------------------------------------------------------------------------
(* Properties *)

\* No process spends two fixes in a row on the same findings, nor a fix that
\* no review would look at.
FixesConverge ==
  /\ \A i \in 1..Len(fixes) : i > 1 => fixes[i] # fixes[i - 1]
  /\ Len(fixes) < MaxReviewRounds
  /\ stage = "fix" => round < MaxReviewRounds

ReviewTypeOK ==
  /\ stage \in {"invoke", "judge", "fix", "verify", "returned"}
  /\ round \in Nat \ {0} /\ attempt \in {1, 2}
  /\ lastMessage \in Messages \cup {NoMessage}
  /\ previous \in Findings \cup {0}
  /\ verdict \in {"APPROVE", "ESCALATE", "null"}
  /\ fixes \in Seq(Findings)
  /\ stage = "fix" => lastMessage[1] = "REQUEST_CHANGES"

\* Why the fixes converge: they are as many as the rounds behind the process,
\* and what is compared next is what the last of them was for.
RoundsInv ==
  /\ round <= MaxReviewRounds
  /\ stage \in {"fix", "verify"} => round < MaxReviewRounds
  /\ Len(fixes) = IF stage = "verify" THEN round ELSE round - 1
  /\ stage = "fix" => previous = lastMessage[2]
  /\ fixes # <<>> => (stage = "fix" <=> previous # fixes[Len(fixes)])
  /\ \A i \in 1..Len(fixes) : i > 1 => fixes[i] # fixes[i - 1]

=============================================================================
