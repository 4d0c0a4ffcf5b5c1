---------------------------- MODULE MCSandboxProbe ----------------------------
(* Instances of SandboxProbe for TLC: two consumers with a job of its own for *)
(* each, or one consumer whose job is requested twice.                        *)
EXTENDS SandboxProbe, TLC

CONSTANTS c1, c2, j1, j2, k1, k2

MCConsumers == {c1, c2}
MCJobs == {j1, j2}
OneConsumer == {c1}
OneJob == {j1}
MCPartitionOf == [j \in Jobs |-> IF j = j1 THEN c1 ELSE c2]
OwnKeys == [j \in Jobs |-> IF j = j1 THEN k1 ELSE k2]
OneKeyOnly == [j \in Jobs |-> k1]

\* What the probes decide, beside a run that is soon over.
LongAndShort ==
  [j \in Jobs |-> IF j = j1 THEN {"good", "badInit", "noHook"} ELSE {"noInstall"}]
GoodOrBroken == [j \in Jobs |-> {"good", "noBuild", "noStart"}]

OneRequest == [j \in Jobs |-> [quality \in AllCodes |-> 1]]
TwoRequests == [j \in Jobs |-> [quality \in AllCodes |-> 2]]

TwoKeys == {k1, k2}
OneKey == {k1}
=============================================================================
