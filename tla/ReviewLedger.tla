----------------------------- MODULE ReviewLedger -----------------------------
(***************************************************************************)
(* What the review consumer promises about one job, whatever happens to    *)
(* workers and messages: a job is reviewed by one worker at a time, a      *)
(* failure is reported only by that worker, and a review that has been     *)
(* published is never published again, nor contradicted by a failure.      *)
(***************************************************************************)
EXTENDS Naturals

CONSTANT Jobs

VARIABLES
  busy,      \* a worker may be reviewing the job
  answers,   \* completed events published for it
  failures   \* failed events published for it

Init ==
  /\ busy = [j \in Jobs |-> FALSE]
  /\ answers = [j \in Jobs |-> 0]
  /\ failures = [j \in Jobs |-> 0]

Start(j) ==
  /\ ~busy[j] /\ answers[j] = 0
  /\ busy' = [busy EXCEPT ![j] = TRUE]
  /\ UNCHANGED << answers, failures >>

Answer(j) ==
  /\ busy[j]
  /\ busy' = [busy EXCEPT ![j] = FALSE]
  /\ answers' = [answers EXCEPT ![j] = 1]
  /\ UNCHANGED failures

ReportFailure(j) ==
  /\ busy[j]
  /\ failures' = [failures EXCEPT ![j] = @ + 1]
  /\ UNCHANGED << busy, answers >>

GiveUp(j) ==
  /\ busy[j]
  /\ busy' = [busy EXCEPT ![j] = FALSE]
  /\ UNCHANGED << answers, failures >>

Next == \E j \in Jobs : Start(j) \/ Answer(j) \/ ReportFailure(j) \/ GiveUp(j)

vars == << busy, answers, failures >>

Spec == Init /\ [][Next]_vars
=============================================================================
