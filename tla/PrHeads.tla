------------------------------- MODULE PrHeads -------------------------------
(***************************************************************************)
(* PrHeadTracker (app/review/superseded.py): one Redis counter shared by   *)
(* every PR and, per PR, a hash from a head to the counter value it got    *)
(* when its review request was first recorded.                             *)
(*                                                                         *)
(* A job stands for its reviewJobId.  HeadOf[j] is the plain request for   *)
(* j's head, "repository:pr:head", and names the hash field; a mention or  *)
(* `/dovi review` request has a suffix to its id, so it is not HeadOf      *)
(* itself and is neither recorded nor ever superseded.                     *)
(***************************************************************************)
EXTENDS Naturals

CONSTANTS
  Jobs,      \* reviewJobIds
  HeadOf,    \* the plain request for the head of each job
  PrOf       \* the pull request (repository, number) of each job

ASSUME HeadOfAssumption == HeadOf \in [Jobs -> Jobs]

\* Ids without a `_c{commentId}` suffix.
HeadJobs == {j \in Jobs : HeadOf[j] = j}

VARIABLES
  headSeq,   \* ai-review:pr-heads:seq
  heads      \* heads[j]: the sequence number stored for j's head, 0 if none

headVars == << headSeq, heads >>

HeadsTypeOK ==
  /\ headSeq \in Nat
  /\ heads \in [Jobs -> Nat]

HeadsInit ==
  /\ headSeq = 0
  /\ heads = [j \in Jobs |-> 0]

\* INCR, then HSETNX: a head that is recorded again keeps its first number.
Record(j) ==
  \/ /\ j \in HeadJobs
     /\ headSeq' = headSeq + 1
     /\ heads' = [heads EXCEPT ![j] = IF @ = 0 THEN headSeq + 1 ELSE @]
  \/ /\ j \notin HeadJobs
     /\ UNCHANGED headVars

\* Redis failed before HSETNX took effect; the consumer swallows the exception.
RecordFails(j) ==
  /\ j \in HeadJobs
  /\ headSeq' \in {headSeq, headSeq + 1}
  /\ UNCHANGED heads

\* The whole hash of a pull request expires at once.
ForgetPr(pr) ==
  /\ \E j \in Jobs : PrOf[j] = pr /\ heads[j] # 0
  /\ heads' = [j \in Jobs |-> IF PrOf[j] = pr THEN 0 ELSE heads[j]]
  /\ UNCHANGED headSeq

Superseding(h) == \E k \in Jobs : PrOf[k] = PrOf[h] /\ heads[k] > heads[h]

\* Mutant: any other head counts as newer.
IsSuperseded_AnyOtherHead(j) ==
  /\ j \in HeadJobs
  /\ heads[j] # 0
  /\ \E k \in Jobs : PrOf[k] = PrOf[j] /\ heads[k] \notin {0, heads[j]}

IsSuperseded(j) ==
  /\ j \in HeadJobs
  /\ heads[j] # 0
  /\ Superseding(j)
=============================================================================
