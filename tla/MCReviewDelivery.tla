--------------------------- MODULE MCReviewDelivery ---------------------------
(* Instances of ReviewDelivery for TLC: two group members, requests for two *)
(* heads of one pull request and, where `mention` is among the jobs, a      *)
(* `/dovi review` request on it.                                            *)
EXTENDS ReviewDelivery, TLC

CONSTANTS w1, w2, oldHead, newHead, mention, pr

MCWorkers == {w1, w2}
AllThree == {oldHead, newHead, mention}
TwoHeads == {oldHead, newHead}
MCPrOf == [j \in Jobs |-> pr]
MCHeadOf == [j \in Jobs |-> IF j = mention THEN oldHead ELSE j]

WorkerSymmetry == Permutations(MCWorkers)
=============================================================================
