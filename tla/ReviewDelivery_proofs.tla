------------------------- MODULE ReviewDelivery_proofs -------------------------
(***************************************************************************)
(* Machine-checked proofs about ReviewDelivery, for every set of workers   *)
(* and jobs, every log and any number of faults.                           *)
(***************************************************************************)
EXTENDS ReviewDelivery, TLAPS

\* A worker in handle() handles a message of the log that asks for a job.
AtOK ==
  \A w \in Workers : pc[w] \in Handling => at[w] \in 1..Len(log) /\ Job(w) \in Jobs

TypeInv == TypeOK /\ AtOK

-----------------------------------------------------------------------------
(* What the operators the actions are made of do to the state's types. *)

\* What a call does at its service keeps the types of the service's state.
LEMMA EffectTypes ==
  ASSUME ServiceTypeOK, position \in Nat, NEW w \in Workers, Effect(w),
         pc[w] # "commit" => Job(w) \in Jobs
  PROVE  ServiceTypeOK'
<1>1. CASE pc[w] = "start" /\ SetInProgress(Job(w))
  BY <1>1 DEF ServiceTypeOK, SetInProgress
<1>2. CASE pc[w] = "publishCompleted" /\ SendCompleted(Job(w))
  BY <1>2 DEF ServiceTypeOK, SendCompleted
<1>3. CASE pc[w] = "publishFailed" /\ SendFailed(Job(w))
  BY <1>3 DEF ServiceTypeOK, SendFailed
<1>4. CASE pc[w] = "mark" /\ SetCompleted(Job(w))
  BY <1>4 DEF ServiceTypeOK, SetCompleted
<1>5. CASE pc[w] \in {"unlock", "release"} /\ DeleteLock(Job(w))
  BY <1>5 DEF ServiceTypeOK, DeleteLock
<1>6. CASE pc[w] = "commit" /\ CommitOffset(w)
  BY <1>6 DEF ServiceTypeOK, CommitOffset
<1>7. QED
  BY <1>1, <1>2, <1>3, <1>4, <1>5, <1>6 DEF Effect

\* Only w moves, to the stage s; it keeps its message or drops it.
Moves(w, s) ==
  /\ WorkerTypeOK'
  /\ pc'[w] = s /\ at'[w] \in {at[w], 0}
  /\ \A v \in Workers \ {w} : pc'[v] = pc[v] /\ at'[v] = at[v] /\ stopping'[v] = stopping[v]

LEMMA GotoMoves ==
  ASSUME WorkerTypeOK, NEW w \in Workers, NEW s \in Stages, Goto(w, s)
  PROVE  Moves(w, s) /\ at' = at /\ stopping' = stopping
BY DEF WorkerTypeOK, Goto, Moves

LEMMA LeaveMoves ==
  ASSUME WorkerTypeOK, NEW w \in Workers, NEW s \in Stages, LeaveTo(w, s)
  PROVE  Moves(w, s) /\ stopping' = stopping
BY DEF WorkerTypeOK, LeaveTo, Moves

LEMMA StopMoves ==
  ASSUME WorkerTypeOK, GroupTypeOK, NEW w \in Workers, Stop(w)
  PROVE  Moves(w, "down") /\ GroupTypeOK' /\ stopping' = stopping
BY LeaveMoves DEF Stop, GroupTypeOK, Stages

LEMMA ReturnMoves ==
  ASSUME WorkerTypeOK, settled \subseteq Nat, NEW w \in Workers, Return(w)
  PROVE  /\ Moves(w, "commit") /\ at' = at /\ stopping' = stopping
         /\ settled' \subseteq Nat
<1>1. Moves(w, "commit") /\ at' = at /\ stopping' = stopping
  BY GotoMoves DEF Return, Stages
<1>2. settled' = settled \cup {at[w]} /\ at[w] \in Nat
  BY DEF Return, WorkerTypeOK
<1>3. QED  BY <1>1, <1>2

\* What a call that did not return leaves at its service, and in the history.
LEMMA InterruptedTypes ==
  ASSUME TypeInv, NEW w \in Workers, NEW kinds \in SUBSET AllFaults, Interrupted(w, kinds)
  PROVE  /\ pc[w] \in Handling \cup {"commit"} => ServiceTypeOK'
         /\ suffered' \subseteq AllFaults
         /\ suffered \cup kinds \subseteq suffered'
<1>1. CASE UNCHANGED service /\ suffered' = suffered \cup kinds
  BY <1>1 DEF service, TypeInv, TypeOK, ServiceTypeOK
<1>2. CASE Effect(w) /\ suffered' = suffered \cup kinds \cup {"late"}
  BY <1>2, EffectTypes DEF TypeInv, TypeOK, GroupTypeOK, AtOK, AllFaults
<1>3. QED  BY <1>1, <1>2 DEF Interrupted

\* The step of a worker that moves to stage s, its service being well typed.
LEMMA MoveTypes ==
  ASSUME TypeInv, NEW w \in Workers, NEW s \in Stages, Moves(w, s),
         s \in Handling => pc[w] \in Handling /\ at'[w] = at[w],
         UNCHANGED topic, ServiceTypeOK', GroupTypeOK',
         settled' \subseteq Nat, faults' \in Nat, suffered' \subseteq AllFaults
  PROVE  TypeInv'
<1>1. TypeOK'
  BY DEF TypeInv, TypeOK, TopicTypeOK, HeadsTypeOK, Moves, topic
<1>2. ASSUME NEW v \in Workers, pc'[v] \in Handling
      PROVE  at'[v] \in 1..Len(log') /\ Job(v)' \in Jobs
  <2>1. pc[v] \in Handling /\ at'[v] = at[v]
    BY <1>2 DEF Moves
  <2>2. QED
    BY <2>1 DEF TypeInv, AtOK, Job, topic
<1>3. QED  BY <1>1, <1>2 DEF TypeInv, AtOK




LEMMA TypeInvInit == Init => TypeInv
BY HeadOfAssumption, DeliveryAssumption
   DEF Init, HeadsInit, TypeInv, TypeOK, TopicTypeOK, GroupTypeOK, WorkerTypeOK,
       ServiceTypeOK, HeadsTypeOK, AtOK, Stages, Handling, Try

LEMMA TypeInvStep == TypeInv /\ [Next]_vars => TypeInv'
<1> SUFFICES ASSUME TypeInv, [Next]_vars PROVE TypeInv'
  OBVIOUS
<1> USE DEF TypeInv, TypeOK, Handling, Try, Stages
<1> DEFINE FaultsOK == faults' \in Nat /\ suffered' \subseteq AllFaults
<1>a. ASSUME NoFault \/ \E f \in AllFaults : Fault(f)  PROVE FaultsOK
  BY <1>a DEF Fault, Counted, NoFault
<1>d. ASSUME NEW w \in Workers, NEW f \in AllFaults, Interrupted(w, {f}), Counted(f)
      PROVE  FaultsOK
  BY <1>d, InterruptedTypes DEF Counted
<1>b. UNCHANGED service => ServiceTypeOK'
  BY DEF service, ServiceTypeOK
<1>c. UNCHANGED group => GroupTypeOK'
  BY DEF group, GroupTypeOK
<1>0. CASE UNCHANGED vars
  BY <1>0, <1>b, <1>c DEF vars, topic, TopicTypeOK, HeadsTypeOK, WorkerTypeOK, AtOK, Job
<1>1. ASSUME NEW w \in Workers, CheckSuperseded(w) PROVE TypeInv'
  <2>1. ServiceTypeOK'
    BY <1>1, <1>b DEF CheckSuperseded
  <2>2. FaultsOK /\ UNCHANGED topic
    BY <1>1, <1>a DEF CheckSuperseded
  <2>3. CASE Return(w)
    BY <1>1, <1>c, <2>1, <2>2, <2>3, ReturnMoves, MoveTypes DEF CheckSuperseded
  <2>4. CASE Goto(w, "start") /\ UNCHANGED settled
    BY <1>1, <1>c, <2>1, <2>2, <2>4, GotoMoves, MoveTypes DEF CheckSuperseded
  <2>5. QED  BY <1>1, <2>3, <2>4 DEF CheckSuperseded
<1>2. ASSUME NEW w \in Workers, TryStart(w) PROVE TypeInv'
  <2>1. ServiceTypeOK'
    BY <1>2, EffectTypes DEF TryStart, Effect, GroupTypeOK, AtOK
  <2>2. FaultsOK /\ UNCHANGED topic
    BY <1>2, <1>a DEF TryStart
  <2>3. CASE Return(w)
    BY <1>2, <1>c, <2>1, <2>2, <2>3, ReturnMoves, MoveTypes DEF TryStart
  <2>4. CASE Goto(w, "run") /\ UNCHANGED settled
    BY <1>2, <1>c, <2>1, <2>2, <2>4, GotoMoves, MoveTypes DEF TryStart
  <2>5. QED  BY <1>2, <2>3, <2>4 DEF TryStart
<1>3. ASSUME NEW w \in Workers, RunPipeline(w) PROVE TypeInv'
  <2>1. ServiceTypeOK'
    BY <1>3, <1>b DEF RunPipeline
  <2>2. FaultsOK /\ UNCHANGED topic
    BY <1>3, <1>a DEF RunPipeline
  <2>3. CASE Goto(w, "publishCompleted") /\ UNCHANGED settled
    BY <1>3, <1>c, <2>1, <2>2, <2>3, GotoMoves, MoveTypes DEF RunPipeline
  <2>4. CASE Goto(w, "publishFailed") /\ UNCHANGED settled
    BY <1>3, <1>c, <2>1, <2>2, <2>4, GotoMoves, MoveTypes DEF RunPipeline
  <2>5. QED  BY <1>3, <2>3, <2>4 DEF RunPipeline
<1>4. ASSUME NEW w \in Workers, PublishCompleted(w) PROVE TypeInv'
  <2>1. ServiceTypeOK'
    BY <1>4, EffectTypes DEF PublishCompleted, Effect, GroupTypeOK, AtOK
  <2>2. FaultsOK /\ UNCHANGED topic
    BY <1>4, <1>a DEF PublishCompleted
  <2>3. CASE Goto(w, "mark") /\ UNCHANGED settled
    BY <1>4, <1>c, <2>1, <2>2, <2>3, GotoMoves, MoveTypes DEF PublishCompleted
  <2>4. QED  BY <1>4, <2>3 DEF PublishCompleted
<1>5. ASSUME NEW w \in Workers, MarkCompleted(w) PROVE TypeInv'
  <2>1. ServiceTypeOK'
    BY <1>5, EffectTypes DEF MarkCompleted, Effect, GroupTypeOK, AtOK
  <2>2. FaultsOK /\ UNCHANGED topic
    BY <1>5, <1>a DEF MarkCompleted
  <2>3. CASE Return(w)
    BY <1>5, <1>c, <2>1, <2>2, <2>3, ReturnMoves, MoveTypes DEF MarkCompleted
  <2>4. CASE Goto(w, "saveCompleted") /\ UNCHANGED settled
    BY <1>5, <1>c, <2>1, <2>2, <2>4, GotoMoves, MoveTypes DEF MarkCompleted
  <2>5. QED  BY <1>5, <2>3, <2>4 DEF MarkCompleted
<1>6. ASSUME NEW w \in Workers, SaveCompleted(w) PROVE TypeInv'
  <2>1. ServiceTypeOK'
    BY <1>6, <1>b DEF SaveCompleted
  <2>2. FaultsOK /\ UNCHANGED topic
    BY <1>6, <1>a DEF SaveCompleted, AllFaults
  <2>3. CASE Return(w)
    BY <1>6, <1>c, <2>1, <2>2, <2>3, ReturnMoves, MoveTypes DEF SaveCompleted
  <2>4. QED  BY <1>6, <2>3 DEF SaveCompleted
<1>7. ASSUME NEW w \in Workers, PublishFailed(w) PROVE TypeInv'
  <2>1. ServiceTypeOK'
    BY <1>7, EffectTypes DEF PublishFailed, Effect, GroupTypeOK, AtOK
  <2>2. FaultsOK /\ UNCHANGED topic
    BY <1>7, <1>a DEF PublishFailed
  <2>3. CASE Goto(w, "saveFailed") /\ UNCHANGED settled
    BY <1>7, <1>c, <2>1, <2>2, <2>3, GotoMoves, MoveTypes DEF PublishFailed
  <2>4. CASE Goto(w, "unlock") /\ UNCHANGED settled
    BY <1>7, <1>c, <2>1, <2>2, <2>4, GotoMoves, MoveTypes DEF PublishFailed
  <2>5. QED  BY <1>7, <2>3, <2>4 DEF PublishFailed
<1>8. ASSUME NEW w \in Workers, SaveFailed(w) PROVE TypeInv'
  <2>1. ServiceTypeOK'
    BY <1>8, <1>b DEF SaveFailed
  <2>2. FaultsOK /\ UNCHANGED topic
    BY <1>8, <1>a DEF SaveFailed, AllFaults
  <2>3. CASE Goto(w, "unlock") /\ UNCHANGED settled
    BY <1>8, <1>c, <2>1, <2>2, <2>3, GotoMoves, MoveTypes DEF SaveFailed
  <2>4. QED  BY <1>8, <2>3 DEF SaveFailed
<1>9. ASSUME NEW w \in Workers, MarkFailed(w) PROVE TypeInv'
  <2>1. ServiceTypeOK'
    BY <1>9, EffectTypes DEF MarkFailed, Effect, GroupTypeOK, AtOK
  <2>2. FaultsOK /\ UNCHANGED topic
    BY <1>9, <1>a DEF MarkFailed
  <2>3. CASE Return(w)
    BY <1>9, <1>c, <2>1, <2>2, <2>3, ReturnMoves, MoveTypes DEF MarkFailed
  <2>4. QED  BY <1>9, <2>3 DEF MarkFailed
<1>10. ASSUME NEW w \in Workers, Release(w) PROVE TypeInv'
  <2>1. ServiceTypeOK'
    BY <1>10, EffectTypes DEF Release, Effect, GroupTypeOK, AtOK
  <2>2. FaultsOK /\ UNCHANGED topic
    BY <1>10, <1>a DEF Release
  <2>3. CASE Stop(w)
    BY <1>10, <2>1, <2>2, <2>3, StopMoves, MoveTypes DEF Release
  <2>4. QED  BY <1>10, <2>3 DEF Release
<1>11. ASSUME NEW w \in Workers, Commit(w) PROVE TypeInv'
  <2>1. ServiceTypeOK'
    BY <1>11, EffectTypes DEF Commit, Effect, GroupTypeOK, AtOK
  <2>2. FaultsOK /\ UNCHANGED topic
    BY <1>11, <1>a DEF Commit
  <2>3. CASE Stop(w)
    BY <1>11, <2>1, <2>2, <2>3, StopMoves, MoveTypes DEF Commit
  <2>4. CASE LeaveTo(w, "fetch") /\ UNCHANGED group
    BY <1>11, <1>c, <2>1, <2>2, <2>4, LeaveMoves, MoveTypes DEF Commit
  <2>5. QED  BY <1>11, <2>3, <2>4 DEF Commit
<1>12. ASSUME NEW w \in Workers, Resume(w) PROVE TypeInv'
  <2>1. ServiceTypeOK'
    BY <1>12, <1>b DEF Resume
  <2>2. FaultsOK /\ UNCHANGED topic
    BY <1>12, <1>a DEF Resume
  <2>3. CASE Stop(w)
    BY <1>12, <2>1, <2>2, <2>3, StopMoves, MoveTypes DEF Resume
  <2>4. CASE LeaveTo(w, "fetch") /\ UNCHANGED group
    BY <1>12, <1>c, <2>1, <2>2, <2>4, LeaveMoves, MoveTypes DEF Resume
  <2>5. QED  BY <1>12, <2>3, <2>4 DEF Resume
<1>13. ASSUME NEW w \in Workers, CheckFails(w) PROVE TypeInv'
  <2>1. ServiceTypeOK'
    BY <1>13, <1>b DEF CheckFails
  <2>2. FaultsOK /\ UNCHANGED topic
    BY <1>13, <1>a DEF CheckFails, AllFaults
  <2>3. CASE Goto(w, "start") /\ UNCHANGED settled
    BY <1>13, <1>c, <2>1, <2>2, <2>3, GotoMoves, MoveTypes DEF CheckFails
  <2>4. QED  BY <1>13, <2>3 DEF CheckFails
<1>14. ASSUME NEW w \in Workers, Raise(w) PROVE TypeInv'
  <2>1. ServiceTypeOK'
    BY <1>14, InterruptedTypes DEF Raise, AllFaults
  <2>2. FaultsOK /\ UNCHANGED topic
    BY <1>14, <1>d DEF Raise, AllFaults
  <2>3. CASE LeaveTo(w, "backoff") /\ UNCHANGED group
    BY <1>14, <1>c, <2>1, <2>2, <2>3, LeaveMoves, MoveTypes DEF Raise
  <2>4. QED  BY <1>14, <2>3 DEF Raise
<1>15. ASSUME NEW w \in Workers, Cancel(w) PROVE TypeInv'
  <2>1. ServiceTypeOK'
    <3>1. CASE pc[w] \in Handling \cup {"commit"}
      BY <1>15, <3>1, InterruptedTypes DEF Cancel
    <3>2. CASE pc[w] \notin Handling \cup {"commit"}
      BY <1>15, <3>2, <1>b DEF Cancel, Interrupted, Effect
    <3>3. QED  BY <3>1, <3>2
  <2>2. FaultsOK /\ UNCHANGED topic
    <3>1. UNCHANGED << faults, topic >> /\ Interrupted(w, {})
      BY <1>15, Zenon DEF Cancel
    <3>2. QED  BY <3>1, InterruptedTypes
  <2>3. CASE Stop(w)
    <3>1. UNCHANGED settled
      BY <1>15, Zenon DEF Cancel
    <3>2. QED  BY <2>1, <2>2, <2>3, <3>1, StopMoves, MoveTypes
  <2>4. CASE pc[w] \in Try /\ Goto(w, "release") /\ UNCHANGED group
    <3>1. UNCHANGED settled
      BY <1>15, Zenon DEF Cancel
    <3>2. QED  BY <1>c, <2>1, <2>2, <2>4, <3>1, GotoMoves, MoveTypes
  <2>5. QED  BY <1>15, <2>3, <2>4 DEF Cancel
<1>16. ASSUME NEW w \in Workers, Recancel(w) PROVE TypeInv'
  <2>1. ServiceTypeOK'
    BY <1>16, InterruptedTypes DEF Recancel, AllFaults
  <2>2. FaultsOK /\ UNCHANGED topic
    BY <1>16, <1>d DEF Recancel, AllFaults
  <2>3. CASE Stop(w)
    BY <1>16, <2>1, <2>2, <2>3, StopMoves, MoveTypes DEF Recancel
  <2>4. QED  BY <1>16, <2>3 DEF Recancel
<1>17. ASSUME NEW w \in Workers, Kill(w) PROVE TypeInv'
  <2>1. ServiceTypeOK'
    BY <1>17, <1>b DEF Kill
  <2>2. FaultsOK /\ UNCHANGED topic
    BY <1>17, <1>a DEF Kill, AllFaults
  <2>3. CASE Stop(w)
    BY <1>17, <2>1, <2>2, <2>3, StopMoves, MoveTypes DEF Kill
  <2>4. QED  BY <1>17, <2>3 DEF Kill
<1>18. ASSUME NEW w \in Workers, Fetch(w) PROVE TypeInv'
  <2>1. position + 1 \in 1..Len(log) /\ log[position + 1] \in Jobs \cup {Invalid}
    BY <1>18 DEF Fetch, TopicTypeOK, GroupTypeOK
  <2>2. settled' \subseteq Nat
    <3>1. settled' = settled \/ settled' = settled \cup {position + 1}
      BY <1>18 DEF Fetch
    <3>2. settled \subseteq Nat /\ position + 1 \in Nat
      BY DEF GroupTypeOK
    <3>3. QED  BY <3>1, <3>2, Zenon
  <2>3. WorkerTypeOK'
    BY <1>18, <2>1 DEF Fetch, WorkerTypeOK
  <2>4. GroupTypeOK' /\ TopicTypeOK' /\ ServiceTypeOK' /\ FaultsOK
    BY <1>18, <1>a, <1>b, <2>1 DEF Fetch, GroupTypeOK, TopicTypeOK, HeadsTypeOK, topic
  <2>5. AtOK'
    BY <1>18, <2>1 DEF Fetch, AtOK, Job, topic, WorkerTypeOK
  <2>6. QED  BY <2>2, <2>3, <2>4, <2>5
<1>19. ASSUME NEW w \in Workers, BeginShutdown(w) PROVE TypeInv'
  <2>1. FaultsOK
    BY <1>19, <1>a DEF BeginShutdown, AllFaults
  <2>2. QED
    BY <1>19, <1>b, <1>c, <2>1
       DEF BeginShutdown, topic, TopicTypeOK, HeadsTypeOK, WorkerTypeOK, AtOK, Job
<1>20. ASSUME NEW w \in Workers, Restart(w) PROVE TypeInv'
  BY <1>20, <1>a, <1>b, <1>c
     DEF Restart, topic, TopicTypeOK, HeadsTypeOK, WorkerTypeOK, AtOK, Job
<1>21. ASSUME NEW w \in Workers, Assign(w) \/ Rebalance(w) PROVE TypeInv'
  <2>1. AssignTo(w) /\ FaultsOK
    BY <1>21, <1>a DEF Assign, Rebalance, AllFaults
  <2>2. GroupTypeOK'
    BY <2>1 DEF AssignTo, GroupTypeOK, ServiceTypeOK
  <2>3. QED
    BY <1>b, <2>1, <2>2
       DEF AssignTo, topic, TopicTypeOK, HeadsTypeOK, WorkerTypeOK, AtOK, Job
<1>22. ASSUME NEW m \in Jobs \cup {Invalid}, Request(m) PROVE TypeInv'
  <2>1. log' \in Seq(Jobs \cup {Invalid}) /\ \A i \in 1..Len(log) : log'[i] = log[i]
    BY <1>22 DEF Request, TopicTypeOK
  <2>2. Len(log') = Len(log) + 1
    BY <1>22 DEF Request, TopicTypeOK
  <2>3. AtOK'
    BY <1>22, <2>1, <2>2 DEF Request, AtOK, Job, TopicTypeOK
  <2>4. QED
    BY <1>22, <1>a, <1>b, <1>c, <2>1, <2>3
       DEF Request, TopicTypeOK, HeadsTypeOK, WorkerTypeOK, headVars
<1>23. ASSUME NEW j \in Jobs, ExpireLock(j) PROVE TypeInv'
  <2>1. FaultsOK
    BY <1>23, <1>a DEF ExpireLock, AllFaults
  <2>2. ServiceTypeOK'
    BY <1>23 DEF ExpireLock, DeleteLock, ServiceTypeOK
  <2>3. QED
    BY <1>23, <1>c, <2>1, <2>2
       DEF ExpireLock, topic, TopicTypeOK, HeadsTypeOK, WorkerTypeOK, AtOK, Job
<1>24. ASSUME NEW j \in Jobs, ExpireHeads(PrOf[j]) PROVE TypeInv'
  <2>1. FaultsOK /\ HeadsTypeOK'
    BY <1>24, <1>a DEF ExpireHeads, AllFaults, ForgetPr, HeadsTypeOK, TopicTypeOK
  <2>2. QED
    BY <1>24, <1>b, <1>c, <2>1
       DEF ExpireHeads, TopicTypeOK, WorkerTypeOK, AtOK, Job
<1>25. ASSUME Track \/ TrackUncommitted PROVE TypeInv'
  <2>1. FaultsOK
    BY <1>25, <1>a DEF Track, TrackUncommitted, AllFaults
  <2>2. HeadsTypeOK'
    <3>1. ASSUME NEW m, Record(m)  PROVE HeadsTypeOK'
      BY <3>1 DEF Record, headVars, HeadsTypeOK, TopicTypeOK
    <3>2. ASSUME NEW m, RecordFails(m)  PROVE HeadsTypeOK'
      BY <3>2 DEF RecordFails, HeadsTypeOK, TopicTypeOK
    <3>3. UNCHANGED headVars => HeadsTypeOK'
      BY DEF headVars, HeadsTypeOK, TopicTypeOK
    <3>4. QED  BY <1>25, <3>1, <3>2, <3>3 DEF Track, TrackUncommitted
  <2>3. /\ UNCHANGED << log, group, service, pc, at, stopping, settled >>
        /\ tracked' \in {tracked, tracked + 1}
    BY <1>25 DEF Track, TrackUncommitted
  <2>4. QED
    BY <1>b, <1>c, <2>1, <2>2, <2>3 DEF TopicTypeOK, WorkerTypeOK, AtOK, Job
<1>26. QED
  BY <1>0, <1>1, <1>2, <1>3, <1>4, <1>5, <1>6, <1>7, <1>8, <1>9, <1>10, <1>11, <1>12, <1>13, <1>14, <1>15, <1>16, <1>17, <1>18, <1>19, <1>20, <1>21, <1>22, <1>23, <1>24, <1>25
     DEF Next, Handle, Disturb, Environment



\* Every reachable state is well typed, and a worker inside handle() handles
\* a request that is on the topic.
LEMMA TypeInvariant == Spec => []TypeInv
BY TypeInvInit, TypeInvStep, PTL DEF Spec

\* Every variable keeps its type, whatever fails.
THEOREM TypeCorrect == Spec => []TypeOK
BY TypeInvariant, PTL DEF TypeInv

-----------------------------------------------------------------------------
(* Mutual exclusion on a job, unless a cancelled DEL may already have run. *)

\* A cancelled call has taken effect late.
Excused == {"cancel", "late"} \subseteq suffered

\* A worker in the try block holds its job's key, and nobody else is there.
LockInv ==
  /\ \A w \in Workers : stopping[w] => "cancel" \in suffered
  /\ Excused \/ \A w \in Workers : pc[w] \in Try => lock[Job(w)] # "none"
  /\ MutualExclusion

\* What a worker's step may do to the keys and to its place in the try block.
KeepsKeys(w) ==
  /\ pc'[w] \in Try => pc[w] \in Try /\ at'[w] = at[w]
  /\ \A j \in Jobs : lock'[j] = "none" => lock[j] = "none"

TakesKey(w) ==
  /\ pc[w] = "start" /\ at'[w] = at[w]
  /\ lock[Job(w)] = "none" /\ lock'[Job(w)] # "none"
  /\ \A j \in Jobs \ {Job(w)} : lock'[j] = lock[j]

DropsKey(w) ==
  /\ pc[w] \in Try /\ pc'[w] \notin Try
  /\ \A j \in Jobs \ {Job(w)} : lock'[j] = lock[j]

KeyStep(w) ==
  /\ log' = log
  /\ \A v \in Workers \ {w} : pc'[v] = pc[v] /\ at'[v] = at[v] /\ stopping'[v] = stopping[v]
  /\ suffered \subseteq suffered'
  /\ stopping'[w] => "cancel" \in suffered'
  /\ KeepsKeys(w) \/ TakesKey(w) \/ DropsKey(w) \/ Excused'

\* A step of one of the three kinds keeps the invariant.
LEMMA KeyStepKeepsLockInv ==
  ASSUME TypeInv, LockInv, NEW w \in Workers, KeyStep(w)
  PROVE  LockInv'
<1>1. \A v \in Workers : at'[v] = at[v] => Job(v)' = Job(v)
  BY DEF KeyStep, Job
<1>2. \A v \in Workers : pc[v] \in Try => Job(v) \in Jobs
  BY DEF TypeInv, AtOK, Handling
<1>3. \A v \in Workers : stopping'[v] => "cancel" \in suffered'
  BY DEF KeyStep, LockInv
<1>4. CASE Excused'
  BY <1>3, <1>4 DEF LockInv, MutualExclusion, Excused
<1>5. CASE ~Excused'
  <2>1. ~Excused /\ \A v \in Workers : pc[v] \in Try => lock[Job(v)] # "none"
    BY <1>5 DEF KeyStep, LockInv, Excused
  <2>2. \A v, u \in Workers : v # u /\ pc[v] \in Try /\ pc[u] \in Try => Job(v) # Job(u)
    BY <2>1 DEF LockInv, MutualExclusion, Excused
  <2>3. CASE KeepsKeys(w)
    BY <1>1, <1>2, <1>3, <2>1, <2>2, <2>3 DEF KeepsKeys, KeyStep, LockInv, MutualExclusion
  <2>4. CASE TakesKey(w)
    <3>1. Job(w) \in Jobs /\ \A v \in Workers : pc[v] \in Try => Job(v) # Job(w)
      BY <2>1, <2>4 DEF TakesKey, TypeInv, AtOK, Handling
    <3>2. QED
      BY <1>1, <1>2, <1>3, <2>1, <2>2, <2>4, <3>1 DEF TakesKey, KeyStep, LockInv, MutualExclusion
  <2>5. CASE DropsKey(w)
    BY <1>1, <1>2, <1>3, <2>1, <2>2, <2>5 DEF DropsKey, KeyStep, LockInv, MutualExclusion
  <2>6. QED  BY <1>5, <2>3, <2>4, <2>5 DEF KeyStep
<1>6. QED  BY <1>4, <1>5

\* Only DEL removes a key, and a call in the try block touches no other key.
LEMMA EffectKeys ==
  ASSUME TypeInv, NEW w \in Workers, UNCHANGED service \/ Effect(w)
  PROVE  /\ pc[w] \notin {"unlock", "release"}
              => \A j \in Jobs : lock'[j] = "none" => lock[j] = "none"
         /\ pc[w] \in Try => \A j \in Jobs \ {Job(w)} : lock'[j] = lock[j]
<1>0. lock \in [Jobs -> {"none", "in_progress", "completed"}]
  BY DEF TypeInv, TypeOK, ServiceTypeOK
<1>1. CASE UNCHANGED lock
  BY <1>1
<1>2. CASE SetInProgress(Job(w)) \/ SetCompleted(Job(w))
  BY <1>0, <1>2 DEF SetInProgress, SetCompleted
<1>3. CASE pc[w] \in {"unlock", "release"} /\ DeleteLock(Job(w))
  BY <1>0, <1>3 DEF DeleteLock
<1>4. QED
  BY <1>1, <1>2, <1>3
     DEF Effect, service, SendCompleted, SendFailed, CommitOffset

\* A fault is only ever added to the history.
LEMMA HistoryGrows == [Next]_vars => suffered \subseteq suffered'
<1> USE DEF Fault, NoFault, Interrupted
<1>1. ASSUME NEW w \in Workers, Handle(w) PROVE suffered \subseteq suffered'
  BY <1>1 DEF Handle, Fetch, CheckSuperseded, TryStart, RunPipeline, PublishCompleted,
              MarkCompleted, SaveCompleted, PublishFailed, SaveFailed, MarkFailed, Release,
              Commit, Resume
<1>2. ASSUME NEW w \in Workers, Disturb(w) PROVE suffered \subseteq suffered'
  BY <1>2 DEF Disturb, CheckFails, Raise, BeginShutdown, Cancel, Recancel, Kill, Restart,
              Assign, Rebalance
<1>3. CASE Environment
  BY <1>3 DEF Environment, Request, ExpireLock, ExpireHeads, Track, TrackUncommitted
<1>4. QED
  BY <1>1, <1>2, <1>3 DEF Next, vars

\* Every step of a worker is of one of the three kinds, or a cancelled call
\* has taken effect.
LEMMA WorkerKeyStep ==
  ASSUME TypeInv, LockInv, NEW w \in Workers, Handle(w) \/ Disturb(w)
  PROVE  KeyStep(w)
<1>0. suffered \subseteq suffered'
  BY HistoryGrows DEF Next
<1>1. WorkerTypeOK /\ GroupTypeOK /\ settled \subseteq Nat
  BY DEF TypeInv, TypeOK
<1>2. stopping[w] => "cancel" \in suffered'
  BY <1>0 DEF LockInv
<1>3. ASSUME UNCHANGED lock  PROVE \A j \in Jobs : lock'[j] = "none" => lock[j] = "none"
  BY <1>3
<1>4. lock \in [Jobs -> {"none", "in_progress", "completed"}]
  BY DEF TypeInv, TypeOK, ServiceTypeOK
<1>5. pc[w] \in Handling => Job(w) \in Jobs
  BY DEF TypeInv, AtOK
<1>6. CASE CheckSuperseded(w)
  <2>1. UNCHANGED lock /\ log' = log
    BY <1>6 DEF CheckSuperseded, service, topic
  <2>2. \E s \in Stages : Moves(w, s) /\ (s \in Try => pc[w] \in Try /\ at' = at) /\ stopping' = stopping
    BY <1>6, <1>1, GotoMoves, ReturnMoves DEF CheckSuperseded, Try, Stages, Handling
  <2>3. QED  BY <1>0, <1>2, <1>3, <2>1, <2>2 DEF KeyStep, KeepsKeys, Moves
<1>7. CASE RunPipeline(w)
  <2>1. UNCHANGED lock /\ log' = log
    BY <1>7 DEF RunPipeline, service, topic
  <2>2. \E s \in Stages : Moves(w, s) /\ (s \in Try => pc[w] \in Try /\ at' = at) /\ stopping' = stopping
    BY <1>7, <1>1, GotoMoves DEF RunPipeline, Try, Stages, Handling
  <2>3. QED  BY <1>0, <1>2, <1>3, <2>1, <2>2 DEF KeyStep, KeepsKeys, Moves
<1>8. CASE PublishCompleted(w)
  <2>1. UNCHANGED lock /\ log' = log
    BY <1>8 DEF PublishCompleted, SendCompleted, topic
  <2>2. \E s \in Stages : Moves(w, s) /\ (s \in Try => pc[w] \in Try /\ at' = at) /\ stopping' = stopping
    BY <1>8, <1>1, GotoMoves DEF PublishCompleted, Try, Stages, Handling
  <2>3. QED  BY <1>0, <1>2, <1>3, <2>1, <2>2 DEF KeyStep, KeepsKeys, Moves
<1>9. CASE PublishFailed(w)
  <2>1. UNCHANGED lock /\ log' = log
    BY <1>9 DEF PublishFailed, SendFailed, topic
  <2>2. \E s \in Stages : Moves(w, s) /\ (s \in Try => pc[w] \in Try /\ at' = at) /\ stopping' = stopping
    BY <1>9, <1>1, GotoMoves DEF PublishFailed, Try, Stages, Handling
  <2>3. QED  BY <1>0, <1>2, <1>3, <2>1, <2>2 DEF KeyStep, KeepsKeys, Moves
<1>10. CASE Commit(w)
  <2>1. UNCHANGED lock /\ log' = log
    BY <1>10 DEF Commit, CommitOffset, topic
  <2>2. \E s \in Stages : Moves(w, s) /\ (s \in Try => pc[w] \in Try /\ at' = at) /\ stopping' = stopping
    BY <1>10, <1>1, LeaveMoves, StopMoves DEF Commit, Try, Stages, Handling
  <2>3. QED  BY <1>0, <1>2, <1>3, <2>1, <2>2 DEF KeyStep, KeepsKeys, Moves
<1>11. CASE Resume(w)
  <2>1. UNCHANGED lock /\ log' = log
    BY <1>11 DEF Resume, service, topic
  <2>2. \E s \in Stages : Moves(w, s) /\ (s \in Try => pc[w] \in Try /\ at' = at) /\ stopping' = stopping
    BY <1>11, <1>1, LeaveMoves, StopMoves DEF Resume, Try, Stages, Handling
  <2>3. QED  BY <1>0, <1>2, <1>3, <2>1, <2>2 DEF KeyStep, KeepsKeys, Moves
<1>12. CASE CheckFails(w)
  <2>1. UNCHANGED lock /\ log' = log
    BY <1>12 DEF CheckFails, service, topic
  <2>2. \E s \in Stages : Moves(w, s) /\ (s \in Try => pc[w] \in Try /\ at' = at) /\ stopping' = stopping
    BY <1>12, <1>1, GotoMoves DEF CheckFails, Try, Stages, Handling
  <2>3. QED  BY <1>0, <1>2, <1>3, <2>1, <2>2 DEF KeyStep, KeepsKeys, Moves
<1>13. CASE Kill(w)
  <2>1. UNCHANGED lock /\ log' = log
    BY <1>13 DEF Kill, service, topic
  <2>2. \E s \in Stages : Moves(w, s) /\ (s \in Try => pc[w] \in Try /\ at' = at) /\ stopping' = stopping
    BY <1>13, <1>1, StopMoves DEF Kill, Try, Stages, Handling
  <2>3. QED  BY <1>0, <1>2, <1>3, <2>1, <2>2 DEF KeyStep, KeepsKeys, Moves
<1>14. CASE SaveCompleted(w) \/ SaveFailed(w)
  <2>1. UNCHANGED lock /\ log' = log /\ pc[w] \in Try
    BY <1>14 DEF SaveCompleted, SaveFailed, service, topic, Try
  <2>2. \E s \in Stages : Moves(w, s) /\ at' = at /\ stopping' = stopping
    BY <1>14, <1>1, ReturnMoves, GotoMoves DEF SaveCompleted, SaveFailed, Stages, Handling, Try
  <2>3. QED  BY <1>0, <1>2, <1>3, <2>1, <2>2 DEF KeyStep, KeepsKeys, Moves
<1>15. CASE TryStart(w)
  <2>1. log' = log /\ pc[w] = "start" /\ SetInProgress(Job(w))
    BY <1>15 DEF TryStart, topic
  <2>2. CASE Acquired(Job(w)) /\ Goto(w, "run")
    BY <1>0, <1>1, <1>2, <1>4, <1>5, <2>1, <2>2, GotoMoves
       DEF KeyStep, TakesKey, Moves, SetInProgress, Acquired, Handling, Try, Stages
  <2>3. CASE ~Acquired(Job(w)) /\ Return(w)
    BY <1>0, <1>1, <1>2, <1>4, <2>1, <2>3, ReturnMoves
       DEF KeyStep, KeepsKeys, Moves, SetInProgress, Acquired, Handling, Try
  <2>4. QED  BY <1>15, <2>2, <2>3 DEF TryStart
<1>16. CASE MarkCompleted(w)
  <2>1. log' = log /\ pc[w] = "mark" /\ Effect(w)
    BY <1>16 DEF MarkCompleted, topic, Effect
  <2>2. \E s \in Stages : Moves(w, s) /\ at' = at /\ stopping' = stopping
    BY <1>16, <1>1, ReturnMoves, GotoMoves DEF MarkCompleted, Stages, Handling, Try
  <2>3. QED  BY <1>0, <1>2, <2>1, <2>2, EffectKeys DEF KeyStep, KeepsKeys, Moves, Try
<1>17. CASE MarkFailed(w) \/ Release(w) \/ Recancel(w)
  <2>1. log' = log /\ pc[w] \in {"unlock", "release"}
    BY <1>17 DEF MarkFailed, Release, Recancel, topic
  <2>2. UNCHANGED service \/ Effect(w)
    BY <1>17 DEF MarkFailed, Release, Recancel, Interrupted, Effect
  <2>3. (Moves(w, "commit") \/ Moves(w, "down")) /\ stopping' = stopping
    BY <1>17, <1>1, ReturnMoves, StopMoves DEF MarkFailed, Release, Recancel
  <2>4. QED  BY <1>0, <1>2, <2>1, <2>2, <2>3, EffectKeys DEF KeyStep, DropsKey, Moves, Try
<1>18. CASE Raise(w)
  <2>1. log' = log /\ (UNCHANGED service \/ Effect(w))
    BY <1>18 DEF Raise, Interrupted, topic
  <2>2. Moves(w, "backoff") /\ stopping' = stopping
    BY <1>18, <1>1, LeaveMoves DEF Raise, Stages
  <2>3. KeepsKeys(w) \/ DropsKey(w)
    BY <2>1, <2>2, EffectKeys DEF KeepsKeys, DropsKey, Moves, Try
  <2>4. QED  BY <1>0, <1>2, <2>1, <2>2, <2>3 DEF KeyStep, Moves
<1>19. CASE Cancel(w)
  <2>1. log' = log /\ (Excused' \/ UNCHANGED lock)
    <3>1. stopping[w] /\ log' = log /\ Interrupted(w, {})
      BY <1>19 DEF Cancel, topic
    <3>2. QED  BY <1>0, <3>1 DEF Interrupted, service, Excused, LockInv
  <2>2. CASE pc[w] \in Try /\ Goto(w, "release")
    BY <1>0, <1>1, <1>2, <1>3, <2>1, <2>2, GotoMoves DEF KeyStep, KeepsKeys, Moves, Stages, Handling, Try
  <2>3. CASE Stop(w)
    BY <1>0, <1>1, <1>2, <1>3, <2>1, <2>3, StopMoves DEF KeyStep, KeepsKeys, Moves, Try
  <2>4. QED  BY <1>19, <2>2, <2>3 DEF Cancel
<1>20. CASE Fetch(w)
  BY <1>0, <1>20, <1>1, <1>2, <1>3 DEF Fetch, WorkerTypeOK, topic, service, KeyStep, KeepsKeys, Try
<1>21. CASE BeginShutdown(w)
  BY <1>0, <1>21, <1>1, <1>3 DEF BeginShutdown, Fault, Counted, WorkerTypeOK, topic, service, KeyStep, KeepsKeys
<1>22. CASE Restart(w)
  BY <1>0, <1>22, <1>1, <1>3 DEF Restart, WorkerTypeOK, topic, service, KeyStep, KeepsKeys, Try
<1>23. CASE Assign(w) \/ Rebalance(w)
  BY <1>0, <1>23, <1>2, <1>3 DEF Assign, Rebalance, AssignTo, topic, service, KeyStep, KeepsKeys
<1>24. QED
  BY <1>6, <1>7, <1>8, <1>9, <1>10, <1>11, <1>12, <1>13, <1>14, <1>15, <1>16, <1>17, <1>18, <1>19, <1>20, <1>21, <1>22, <1>23
     DEF Handle, Disturb

LEMMA LockInvStep == TypeInv /\ LockInv /\ [Next]_vars => LockInv'
<1> SUFFICES ASSUME TypeInv, LockInv, [Next]_vars PROVE LockInv'
  OBVIOUS
<1>0. suffered \subseteq suffered'
  BY HistoryGrows
<1> USE DEF Excused
<1>1. ASSUME NEW w \in Workers, Handle(w) \/ Disturb(w) PROVE LockInv'
  BY <1>1, WorkerKeyStep, KeyStepKeepsLockInv
<1>2. ASSUME NEW m \in Jobs \cup {Invalid}, Request(m) PROVE LockInv'
  <2>1. \A v \in Workers : pc[v] \in Try => Job(v)' = Job(v)
    BY <1>2 DEF Request, TypeInv, TypeOK, TopicTypeOK, AtOK, Job, Handling
  <2>2. QED
    BY <1>0, <1>2, <2>1 DEF Request, service, LockInv, MutualExclusion
<1>3. ASSUME NEW j \in Jobs, ExpireLock(j) PROVE LockInv'
  BY <1>0, <1>3 DEF ExpireLock, DeleteLock, Working, topic, LockInv, MutualExclusion, Job,
              TypeInv, TypeOK, ServiceTypeOK
<1>4. ASSUME UNCHANGED << log, lock, pc, at, stopping >> PROVE LockInv'
  BY <1>0, <1>4 DEF LockInv, MutualExclusion, Job
<1>5. ASSUME NEW j \in Jobs, ExpireHeads(PrOf[j]) PROVE LockInv'
  BY <1>4, <1>5 DEF ExpireHeads, service
<1>6. CASE Track \/ TrackUncommitted
  BY <1>4, <1>6 DEF Track, TrackUncommitted, service
<1>7. CASE UNCHANGED vars
  BY <1>4, <1>7 DEF vars, topic, service
<1>8. QED
  BY <1>1, <1>2, <1>3, <1>5, <1>6, <1>7 DEF Next, Environment

\* Two workers are never in the try block of handle() for the same job, as
\* long as no cancelled call has taken effect late.
THEOREM Exclusion == Spec => []MutualExclusion
<1>1. Init => LockInv
  BY DEF Init, LockInv, MutualExclusion, Try
<1>2. TypeInv /\ LockInv /\ [Next]_vars => LockInv'
  BY LockInvStep
<1>3. LockInv => MutualExclusion
  BY DEF LockInv
<1>4. QED
  BY <1>1, <1>2, <1>3, TypeInvariant, PTL DEF Spec

-----------------------------------------------------------------------------
(* No key without its worker, as long as handlers end by themselves or by  *)
(* one cancellation.                                                       *)

\* A fault has happened after which a key may stay behind.
Left == suffered \cap LeavesKeys # {}

\* A worker that only has its rows to save has marked its key completed.
OrphanInv ==
  Left \/
  /\ \A j \in Jobs : lock[j] = "in_progress" => \E w \in Workers : Working(w, j)
  /\ \A w \in Workers : pc[w] = "saveCompleted" => lock[Job(w)] # "in_progress"

\* A step of w that stays in the try block, leaves it with its key given up or
\* marked, enters it with the key, or has nothing to do with keys.
HolderStep(w) ==
  /\ log' = log
  /\ \A v \in Workers \ {w} : pc'[v] = pc[v] /\ at'[v] = at[v]
  /\ \A j \in Jobs : (pc[w] \in Handling => j # Job(w)) => lock'[j] = lock[j]
  /\ pc[w] \notin Try =>
       \/ UNCHANGED lock /\ pc'[w] \notin Try
       \/ pc[w] = "start" /\ pc'[w] = "run" /\ at'[w] = at[w] /\ lock[Job(w)] = "none"
  /\ pc[w] \in Try =>
       \/ /\ pc'[w] \in Try /\ at'[w] = at[w]
          /\ pc'[w] = "saveCompleted" => lock'[Job(w)] # "in_progress"
       \/ pc'[w] \notin Try /\ lock'[Job(w)] # "in_progress"

\* Such a step keeps the invariant.
LEMMA HolderStepKeepsOrphanInv ==
  ASSUME TypeInv, LockInv, OrphanInv, ~Left, NEW w \in Workers, HolderStep(w)
  PROVE  OrphanInv'
<1>1. \A v \in Workers : at'[v] = at[v] => Job(v)' = Job(v)
  BY DEF HolderStep, Job
<1>2. \A v \in Workers : pc[v] \in Handling => Job(v) \in Jobs
  BY DEF TypeInv, AtOK
<1>3. /\ \A v \in Workers : pc[v] \in Try => lock[Job(v)] # "none"
      /\ \A v, u \in Workers : v # u /\ pc[v] \in Try /\ pc[u] \in Try => Job(v) # Job(u)
  BY DEF LockInv, MutualExclusion, Excused, Left, LeavesKeys
<1>4. ASSUME NEW j \in Jobs, lock'[j] = "in_progress"
      PROVE  \E v \in Workers : pc'[v] \in Try /\ Job(v)' = j
  <2>1. CASE pc[w] \in Handling /\ j = Job(w) /\ pc'[w] \in Try
    BY <1>1, <2>1 DEF HolderStep
  <2>2. CASE pc[w] \in Handling /\ j = Job(w) /\ pc'[w] \notin Try
    <3>1. UNCHANGED lock /\ pc[w] \notin Try
      BY <1>4, <2>2 DEF HolderStep, Try
    <3>2. PICK v \in Workers : Working(v, j)
      BY <1>4, <3>1 DEF OrphanInv
    <3>3. QED  BY <1>1, <3>1, <3>2 DEF Working, HolderStep
  <2>3. CASE pc[w] \in Handling => j # Job(w)
    <3>1. PICK v \in Workers : Working(v, j)
      BY <1>4, <2>3 DEF OrphanInv, HolderStep
    <3>2. v # w
      BY <2>3, <3>1 DEF Working, Handling
    <3>3. QED  BY <1>1, <3>1, <3>2 DEF Working, HolderStep
  <2>4. QED  BY <2>1, <2>2, <2>3
<1>5. ASSUME NEW v \in Workers, pc'[v] = "saveCompleted"
      PROVE  lock'[Job(v)'] # "in_progress"
  <2>1. CASE v = w
    BY <1>1, <1>5, <2>1 DEF HolderStep, Try
  <2>2. CASE v # w
    <3>1. pc[v] = "saveCompleted" /\ Job(v)' = Job(v) /\ lock[Job(v)] # "in_progress"
      BY <1>1, <1>5, <2>2 DEF HolderStep, OrphanInv
    <3>2. pc[v] \in Try /\ Job(v) \in Jobs
      BY <1>2, <3>1 DEF Try, Handling
    <3>3. lock'[Job(v)] = lock[Job(v)]
      <4>1. CASE pc[w] \in Try
        BY <1>3, <2>2, <3>2, <4>1 DEF HolderStep
      <4>2. CASE pc[w] \notin Try
        BY <1>3, <3>2, <4>2 DEF HolderStep
      <4>3. QED  BY <4>1, <4>2
    <3>4. QED  BY <3>1, <3>3
  <2>3. QED  BY <2>1, <2>2
<1>6. QED
  BY <1>4, <1>5 DEF OrphanInv, Working

\* A call touches no key but the one of its own job.
LEMMA EffectOtherKeys ==
  ASSUME TypeInv, NEW w \in Workers, UNCHANGED service \/ Effect(w)
  PROVE  \A j \in Jobs : (pc[w] \in Handling => j # Job(w)) => lock'[j] = lock[j]
<1>1. lock \in [Jobs -> {"none", "in_progress", "completed"}]
  BY DEF TypeInv, TypeOK, ServiceTypeOK
<1>2. CASE UNCHANGED lock
  BY <1>2
<1>3. CASE pc[w] \in Handling /\ (SetInProgress(Job(w)) \/ SetCompleted(Job(w)) \/ DeleteLock(Job(w)))
  BY <1>1, <1>3 DEF SetInProgress, SetCompleted, DeleteLock
<1>4. QED
  BY <1>2, <1>3
     DEF Effect, service, SendCompleted, SendFailed, CommitOffset, Handling, Try

\* Every step of a worker is such a step, or a fault that may leave its key.
LEMMA WorkerHolderStep ==
  ASSUME TypeInv, LockInv, OrphanInv, ~Left', NEW w \in Workers, Handle(w) \/ Disturb(w)
  PROVE  HolderStep(w)
<1>1. WorkerTypeOK /\ GroupTypeOK /\ settled \subseteq Nat
  BY DEF TypeInv, TypeOK
<1>2. ~Left
  BY HistoryGrows DEF Left, Next
<1>3. ~Raise(w) /\ ~Recancel(w) /\ ~Kill(w)
  BY DEF Raise, Recancel, Kill, Fault, Interrupted, Left, LeavesKeys
<1>4. /\ lock \in [Jobs -> {"none", "in_progress", "completed"}]
      /\ pc[w] \in Handling => Job(w) \in Jobs
  BY DEF TypeInv, TypeOK, ServiceTypeOK, AtOK
<1>5. CASE CheckSuperseded(w) \/ CheckFails(w)
  <2>1. UNCHANGED lock /\ log' = log /\ pc[w] = "check"
    BY <1>5 DEF CheckSuperseded, CheckFails, service, topic
  <2>2. Moves(w, "commit") \/ Moves(w, "start")
    BY <1>1, <1>5, GotoMoves, ReturnMoves DEF CheckSuperseded, CheckFails, Stages, Handling
  <2>3. QED  BY <2>1, <2>2 DEF HolderStep, Moves, Try
<1>6. CASE TryStart(w)
  <2>1. log' = log /\ pc[w] = "start" /\ SetInProgress(Job(w)) /\ Effect(w)
    BY <1>6 DEF TryStart, topic, Effect
  <2>2. CASE Acquired(Job(w)) /\ Goto(w, "run")
    BY <1>1, <2>1, <2>2, GotoMoves, EffectOtherKeys
       DEF HolderStep, Moves, Acquired, Stages, Handling, Try
  <2>3. CASE ~Acquired(Job(w)) /\ Return(w)
    <3>1. UNCHANGED lock
      BY <1>4, <2>1, <2>3 DEF SetInProgress, Acquired, Handling
    <3>2. QED  BY <1>1, <2>1, <2>3, <3>1, ReturnMoves DEF HolderStep, Moves, Try
  <2>4. QED  BY <1>6, <2>2, <2>3 DEF TryStart
<1>7. CASE RunPipeline(w) \/ PublishCompleted(w) \/ PublishFailed(w) \/ SaveFailed(w)
  <2>1. UNCHANGED lock /\ log' = log /\ pc[w] \in Try
    BY <1>7 DEF RunPipeline, PublishCompleted, PublishFailed, SaveFailed, SendCompleted,
                SendFailed, service, topic, Try
  <2>2. /\ at' = at
        /\ \E s \in {"publishCompleted", "publishFailed", "mark", "saveFailed", "unlock"} : Moves(w, s)
    BY <1>1, <1>7, GotoMoves
       DEF RunPipeline, PublishCompleted, PublishFailed, SaveFailed, Stages, Handling, Try
  <2>3. QED  BY <2>1, <2>2 DEF HolderStep, Moves, Try
<1>8. CASE MarkCompleted(w)
  <2>1. log' = log /\ pc[w] = "mark" /\ Effect(w) /\ lock'[Job(w)] = "completed"
    BY <1>4, <1>8 DEF MarkCompleted, topic, Effect, SetCompleted, Handling, Try
  <2>2. at' = at /\ (Moves(w, "saveCompleted") \/ Moves(w, "commit"))
    BY <1>1, <1>8, GotoMoves, ReturnMoves DEF MarkCompleted, Stages, Handling, Try
  <2>3. QED  BY <2>1, <2>2, EffectOtherKeys DEF HolderStep, Moves, Try
<1>9. CASE SaveCompleted(w)
  <2>1. UNCHANGED lock /\ log' = log /\ pc[w] = "saveCompleted"
    BY <1>9 DEF SaveCompleted, service, topic
  <2>2. Moves(w, "commit") /\ lock[Job(w)] # "in_progress"
    BY <1>1, <1>2, <1>9, ReturnMoves DEF SaveCompleted, OrphanInv
  <2>3. QED  BY <2>1, <2>2 DEF HolderStep, Moves, Try
<1>10. CASE MarkFailed(w) \/ Release(w)
  <2>1. log' = log /\ pc[w] \in {"unlock", "release"} /\ DeleteLock(Job(w)) /\ Effect(w)
    BY <1>10 DEF MarkFailed, Release, topic, Effect
  <2>2. lock'[Job(w)] = "none"
    BY <1>4, <2>1 DEF DeleteLock, Handling, Try
  <2>3. Moves(w, "commit") \/ Moves(w, "down")
    BY <1>1, <1>10, ReturnMoves, StopMoves DEF MarkFailed, Release
  <2>4. QED  BY <2>1, <2>2, <2>3, EffectOtherKeys DEF HolderStep, Moves, Try
<1>11. CASE Commit(w) \/ Resume(w)
  <2>1. UNCHANGED lock /\ log' = log /\ pc[w] \notin Try
    BY <1>11 DEF Commit, CommitOffset, Resume, service, topic, Try
  <2>2. Moves(w, "fetch") \/ Moves(w, "down")
    BY <1>1, <1>11, LeaveMoves, StopMoves DEF Commit, Resume, Stages
  <2>3. QED  BY <2>1, <2>2 DEF HolderStep, Moves, Try
<1>12. CASE Cancel(w)
  <2>1. UNCHANGED lock /\ log' = log
    BY <1>12 DEF Cancel, Interrupted, service, topic, Left, LeavesKeys
  <2>2. CASE pc[w] \in Try /\ Goto(w, "release")
    <3>1. at' = at /\ Moves(w, "release")
      BY <1>1, <2>2, GotoMoves DEF Stages, Handling, Try
    <3>2. QED  BY <2>1, <2>2, <3>1 DEF HolderStep, Moves, Try
  <2>3. CASE pc[w] \notin Try /\ Stop(w)
    BY <1>1, <2>1, <2>3, StopMoves DEF HolderStep, Moves, Try
  <2>4. QED  BY <1>12, <2>2, <2>3 DEF Cancel
<1>13. CASE Fetch(w) \/ Restart(w)
  <2>1. UNCHANGED lock /\ log' = log /\ pc[w] \notin Try
    BY <1>13 DEF Fetch, Restart, service, topic, Try
  <2>2. /\ pc'[w] \notin Try
        /\ \A v \in Workers \ {w} : pc'[v] = pc[v] /\ at'[v] = at[v]
    BY <1>1, <1>13 DEF Fetch, Restart, WorkerTypeOK, Try
  <2>3. QED  BY <2>1, <2>2 DEF HolderStep
<1>14. CASE BeginShutdown(w) \/ Assign(w) \/ Rebalance(w)
  <2>1. UNCHANGED << lock, pc, at >> /\ log' = log
    BY <1>14 DEF BeginShutdown, Assign, Rebalance, AssignTo, service, topic
  <2>2. pc[w] = "saveCompleted" => lock[Job(w)] # "in_progress"
    BY <1>2 DEF OrphanInv
  <2>3. QED  BY <2>1, <2>2 DEF HolderStep
<1>15. QED
  BY <1>3, <1>5, <1>6, <1>7, <1>8, <1>9, <1>10, <1>11, <1>12, <1>13, <1>14
     DEF Handle, Disturb

LEMMA OrphanInvStep == TypeInv /\ LockInv /\ OrphanInv /\ [Next]_vars => OrphanInv'
<1> SUFFICES ASSUME TypeInv, LockInv, OrphanInv, [Next]_vars, ~Left' PROVE OrphanInv'
  BY DEF OrphanInv
<1>1. ~Left
  BY HistoryGrows DEF Left
<1>2. ASSUME NEW w \in Workers, Handle(w) \/ Disturb(w)  PROVE OrphanInv'
  BY <1>1, <1>2, WorkerHolderStep, HolderStepKeepsOrphanInv
<1>3. ASSUME UNCHANGED << lock, pc >>,
             \A w \in Workers : pc[w] \in Handling => Job(w)' = Job(w)
      PROVE  OrphanInv'
  BY <1>1, <1>3 DEF OrphanInv, Working, Handling, Try
<1>4. ASSUME NEW m \in Jobs \cup {Invalid}, Request(m)  PROVE OrphanInv'
  <2>1. \A w \in Workers : pc[w] \in Handling => Job(w)' = Job(w)
    BY <1>4 DEF Request, TypeInv, TypeOK, TopicTypeOK, AtOK, Job
  <2>2. QED  BY <1>3, <1>4, <2>1 DEF Request, service
<1>5. ASSUME UNCHANGED << log, lock, pc, at >>  PROVE OrphanInv'
  BY <1>3, <1>5 DEF Job
<1>6. ASSUME NEW j \in Jobs, ExpireLock(j)  PROVE OrphanInv'
  <2>1. /\ lock \in [Jobs -> {"none", "in_progress", "completed"}]
        /\ \A w \in Workers : pc[w] \in Handling => Job(w) \in Jobs
    BY DEF TypeInv, TypeOK, ServiceTypeOK, AtOK
  <2>2. lock' = [lock EXCEPT ![j] = "none"] /\ UNCHANGED << log, pc, at >>
    BY <1>6 DEF ExpireLock, DeleteLock, topic
  <2>3. \A k \in Jobs : lock'[k] = "in_progress" => lock[k] = "in_progress"
    BY <2>1, <2>2
  <2>4. QED
    BY <1>1, <2>1, <2>2, <2>3 DEF OrphanInv, Working, Job, Handling, Try
<1>7. ASSUME NEW j \in Jobs, ExpireHeads(PrOf[j])  PROVE OrphanInv'
  BY <1>5, <1>7 DEF ExpireHeads, service
<1>8. CASE Track \/ TrackUncommitted
  BY <1>5, <1>8 DEF Track, TrackUncommitted, service
<1>9. CASE UNCHANGED vars
  BY <1>5, <1>9 DEF vars, topic, service
<1>10. QED
  BY <1>2, <1>4, <1>6, <1>7, <1>8, <1>9 DEF Next, Environment

\* Until a process is killed, a call raises or takes effect late, or a task is
\* cancelled twice, a key in progress is the key of a worker in handle(), so
\* that nobody has to wait for its TTL.
THEOREM NoOrphans == Spec => []NoOrphanLock
<1>1. Init => LockInv /\ OrphanInv
  BY DEF Init, LockInv, MutualExclusion, Try, OrphanInv
<1>2. TypeInv /\ LockInv /\ OrphanInv /\ [Next]_vars => LockInv' /\ OrphanInv'
  BY LockInvStep, OrphanInvStep
<1>3. OrphanInv => NoOrphanLock
  BY DEF OrphanInv, NoOrphanLock, Left
<1>4. QED
  BY <1>1, <1>2, <1>3, TypeInvariant, PTL DEF Spec

-----------------------------------------------------------------------------
(* The committed offset, if no call raises: then a worker that still has   *)
(* the partition never leaves a message it has not handled.                *)

\* What is committed is settled; of what the owner has read, only the message
\* it handles now is not.
OffsetInv ==
  /\ CommitAfterHandling
  /\ "raise" \notin suffered /\ owner # NoWorker =>
       \A i \in 1..position : i \in settled \/ (pc[owner] \in Handling /\ at[owner] = i)

\* A step of w leaves the partition, or keeps its message until it is settled;
\* it commits only what it has read, and only when it handles nothing.
OffsetStep(w) ==
  /\ settled \subseteq settled'
  /\ suffered \subseteq suffered'
  /\ \/ committed' = committed
     \/ pc[w] = "commit" /\ owner = w /\ committed' = position
  /\ \A v \in Workers \ {w} : pc'[v] = pc[v] /\ at'[v] = at[v]
  /\ \/ owner' = NoWorker
     \/ /\ owner' = owner /\ position' = position
        /\ owner = w /\ pc[w] \in Handling =>
             (pc'[w] \in Handling /\ at'[w] = at[w]) \/ at[w] \in settled'

LEMMA OffsetStepKeepsOffsetInv ==
  ASSUME TypeInv, OffsetInv, NEW w \in Workers, OffsetStep(w) \/ "raise" \in suffered'
  PROVE  OffsetInv'
<1>0. CASE "raise" \in suffered'
  BY <1>0 DEF OffsetInv, CommitAfterHandling
<1> SUFFICES ASSUME "raise" \notin suffered', OffsetStep(w), "raise" \notin suffered
             PROVE  OffsetInv'
  BY <1>0 DEF OffsetStep
<1>1. owner \in Workers \cup {NoWorker} /\ position \in Nat /\ committed \in Nat
  BY DEF TypeInv, TypeOK, GroupTypeOK, ServiceTypeOK
<1>2. \A i \in 1..committed' : i \in settled'
  <2>1. CASE committed' = committed
    BY <2>1 DEF OffsetStep, OffsetInv, CommitAfterHandling
  <2>2. CASE pc[w] = "commit" /\ owner = w /\ committed' = position
    BY <2>2, DeliveryAssumption DEF OffsetStep, OffsetInv, Handling, Try
  <2>3. QED  BY <2>1, <2>2 DEF OffsetStep
<1>3. ASSUME owner' # NoWorker, NEW i \in 1..position'
      PROVE  i \in settled' \/ (pc'[owner'] \in Handling /\ at'[owner'] = i)
  <2>1. owner' = owner /\ position' = position
    BY <1>3 DEF OffsetStep
  <2>2. i \in settled \/ (pc[owner] \in Handling /\ at[owner] = i)
    BY <1>3, <2>1 DEF OffsetInv
  <2>3. CASE owner = w
    BY <1>3, <2>1, <2>2, <2>3 DEF OffsetStep
  <2>4. CASE owner # w
    BY <1>1, <1>3, <2>1, <2>2, <2>4 DEF OffsetStep
  <2>5. QED  BY <2>3, <2>4
<1>4. QED  BY <1>2, <1>3 DEF OffsetInv, CommitAfterHandling

\* A call commits only at "commit".
LEMMA EffectOffset ==
  ASSUME NEW w \in Workers, UNCHANGED service \/ Effect(w)
  PROVE  committed' = committed \/ (pc[w] = "commit" /\ owner = w /\ committed' = position)
BY DEF Effect, service, SetInProgress, SetCompleted, SendCompleted, SendFailed,
       DeleteLock, CommitOffset

\* The worker's own moves: it stays in handle(), settles its message, or ends.
LEMMA MovesOffset ==
  ASSUME WorkerTypeOK, GroupTypeOK, settled \subseteq Nat, suffered \subseteq suffered',
         NEW w \in Workers,
         committed' = committed \/ (pc[w] = "commit" /\ owner = w /\ committed' = position),
         \/ \E s \in Handling : Goto(w, s) /\ UNCHANGED << group, settled >>
         \/ Return(w) /\ UNCHANGED group
         \/ Stop(w) /\ UNCHANGED settled
         \/ \E s \in Stages : /\ pc[w] \notin Handling /\ LeaveTo(w, s)
                              /\ UNCHANGED << group, settled >>
  PROVE  OffsetStep(w)
<1>1. CASE \E s \in Handling : Goto(w, s) /\ UNCHANGED << group, settled >>
  BY <1>1 DEF Goto, group, WorkerTypeOK, OffsetStep
<1>2. CASE Return(w) /\ UNCHANGED group
  BY <1>2 DEF Return, Goto, group, WorkerTypeOK, OffsetStep
<1>3. CASE Stop(w) /\ UNCHANGED settled
  BY <1>3 DEF Stop, LeaveTo, WorkerTypeOK, OffsetStep
<1>4. CASE \E s \in Stages : pc[w] \notin Handling /\ LeaveTo(w, s) /\ UNCHANGED << group, settled >>
  BY <1>4 DEF LeaveTo, group, WorkerTypeOK, OffsetStep
<1>5. QED  BY <1>1, <1>2, <1>3, <1>4

\* Every step of a worker but a fetch and a new assignment is such a step.
LEMMA WorkerOffsetStep ==
  ASSUME TypeInv, "raise" \notin suffered', NEW w \in Workers,
         Handle(w) \/ Disturb(w), ~Fetch(w), ~Assign(w), ~Rebalance(w)
  PROVE  OffsetStep(w)
<1>1. /\ WorkerTypeOK /\ GroupTypeOK /\ settled \subseteq Nat
      /\ suffered \subseteq suffered'
  BY HistoryGrows DEF TypeInv, TypeOK, Next
<1>2. ~Fault("raise") /\ ~Interrupted(w, {"raise"})
  BY DEF Fault, Interrupted
<1>3. Try \subseteq Handling /\ "start" \in Handling /\ {"fetch", "down", "backoff"} \subseteq Stages
  BY DEF Handling, Stages
<1>4. CASE CheckSuperseded(w)
  BY <1>1, <1>3, <1>4, MovesOffset DEF CheckSuperseded, service
<1>5. CASE TryStart(w)
  BY <1>1, <1>3, <1>5, MovesOffset DEF TryStart, SetInProgress, Try
<1>6. CASE RunPipeline(w)
  BY <1>1, <1>3, <1>6, MovesOffset DEF RunPipeline, service, Try, group
<1>7. CASE PublishCompleted(w)
  BY <1>1, <1>3, <1>7, MovesOffset DEF PublishCompleted, SendCompleted, Try, group
<1>8. CASE MarkCompleted(w)
  BY <1>1, <1>3, <1>8, MovesOffset DEF MarkCompleted, SetCompleted, Try, group
<1>9. CASE SaveCompleted(w)
  BY <1>1, <1>9, MovesOffset DEF SaveCompleted, service
<1>10. CASE PublishFailed(w)
  BY <1>1, <1>3, <1>10, MovesOffset DEF PublishFailed, SendFailed, Try, group
<1>11. CASE SaveFailed(w)
  BY <1>1, <1>3, <1>11, MovesOffset DEF SaveFailed, service, Try, group
<1>12. CASE MarkFailed(w)
  BY <1>1, <1>12, MovesOffset DEF MarkFailed, DeleteLock
<1>13. CASE Release(w)
  BY <1>1, <1>13, MovesOffset DEF Release, DeleteLock
<1>14. CASE Commit(w)
  <2>1. committed' = committed \/ (pc[w] = "commit" /\ owner = w /\ committed' = position)
    BY <1>14 DEF Commit, CommitOffset
  <2>2. QED
    BY <1>1, <1>3, <1>14, <2>1, MovesOffset DEF Commit, Handling, Try, group
<1>15. CASE Resume(w)
  BY <1>1, <1>3, <1>15, MovesOffset DEF Resume, Handling, Try, group, service
<1>16. CASE BeginShutdown(w) \/ Restart(w)
  BY <1>1, <1>16 DEF BeginShutdown, Restart, OffsetStep, WorkerTypeOK, group, service, Handling, Try
<1>17. CASE Cancel(w)
  <2>1. committed' = committed \/ (pc[w] = "commit" /\ owner = w /\ committed' = position)
    BY <1>17, EffectOffset DEF Cancel, Interrupted
  <2>2. QED
    BY <1>1, <1>3, <1>17, <2>1, MovesOffset DEF Cancel, Try, group
<1>18. CASE Recancel(w)
  <2>1. committed' = committed \/ (pc[w] = "commit" /\ owner = w /\ committed' = position)
    BY <1>18, EffectOffset DEF Recancel, Interrupted
  <2>2. QED
    BY <1>1, <1>18, <2>1, MovesOffset DEF Recancel
<1>19. CASE Kill(w)
  BY <1>1, <1>19, MovesOffset DEF Kill, service
<1>20. CASE CheckFails(w) \/ Raise(w)
  BY <1>2, <1>20 DEF CheckFails, Raise
<1>21. QED
  BY <1>4, <1>5, <1>6, <1>7, <1>8, <1>9, <1>10, <1>11, <1>12, <1>13, <1>14, <1>15, <1>16,
     <1>17, <1>18, <1>19, <1>20 DEF Handle, Disturb

LEMMA OffsetInvStep == TypeInv /\ OffsetInv /\ [Next]_vars => OffsetInv'
<1> SUFFICES ASSUME TypeInv, OffsetInv, [Next]_vars PROVE OffsetInv'
  OBVIOUS
<1>0. suffered \subseteq suffered'
  BY HistoryGrows
<1>1. ASSUME NEW w \in Workers, Fetch(w), "raise" \notin suffered' PROVE OffsetInv'
  <2>1. owner # NoWorker /\ position \in Nat /\ WorkerTypeOK /\ position + 1 \in Nat
    BY <1>1, DeliveryAssumption DEF Fetch, TypeInv, TypeOK, GroupTypeOK
  <2>2. \A i \in 1..position : i \in settled
    BY <1>0, <1>1, <2>1 DEF Fetch, OffsetInv, Handling, Try
  <2>3. settled \subseteq settled' /\ committed' = committed /\ owner' = w
    BY <1>1 DEF Fetch, service
  <2>4. position' = position + 1 /\ at'[w] = position + 1
    BY <1>1, <2>1 DEF Fetch, WorkerTypeOK
  <2>5. position + 1 \in settled' \/ pc'[w] \in Handling
    BY <1>1, <2>1 DEF Fetch, WorkerTypeOK, Handling
  <2>6. \A i \in 1..position' : i \in 1..position \/ i = position + 1
    BY <2>1, <2>4
  <2>7. QED
    BY <1>0, <1>1, <2>2, <2>3, <2>4, <2>5, <2>6 DEF OffsetInv, CommitAfterHandling
<1>2. ASSUME NEW w \in Workers, Assign(w) \/ Rebalance(w) PROVE OffsetInv'
  BY <1>0, <1>2 DEF Assign, Rebalance, AssignTo, service, OffsetInv, CommitAfterHandling
<1>3. ASSUME NEW w \in Workers, Handle(w) \/ Disturb(w) PROVE OffsetInv'
  BY <1>1, <1>2, <1>3, WorkerOffsetStep, OffsetStepKeepsOffsetInv
<1>4. ASSUME UNCHANGED << committed, owner, position, settled, pc, at >> PROVE OffsetInv'
  BY <1>0, <1>4 DEF OffsetInv, CommitAfterHandling
<1>5. ASSUME NEW m \in Jobs \cup {Invalid}, Request(m) PROVE OffsetInv'
  BY <1>4, <1>5 DEF Request, group, service
<1>6. ASSUME NEW j \in Jobs, ExpireLock(j) \/ ExpireHeads(PrOf[j]) PROVE OffsetInv'
  BY <1>4, <1>6 DEF ExpireLock, DeleteLock, ExpireHeads, group, service
<1>7. CASE Track \/ TrackUncommitted
  BY <1>4, <1>7 DEF Track, TrackUncommitted, group, service
<1>8. CASE UNCHANGED vars
  BY <1>4, <1>8 DEF vars, group, service
<1>9. QED
  BY <1>3, <1>5, <1>6, <1>7, <1>8 DEF Next, Environment

\* Until a call raises, the committed offset never covers a message whose handle()
\* has not returned, whatever crashes, cancellations and rebalances happen.
THEOREM CommitsAfterHandling == Spec => []CommitAfterHandling
<1>1. Init => OffsetInv
  BY DEF Init, OffsetInv, CommitAfterHandling
<1>2. TypeInv /\ OffsetInv /\ [Next]_vars => OffsetInv'
  BY OffsetInvStep
<1>3. OffsetInv => CommitAfterHandling
  BY DEF OffsetInv
<1>4. QED
  BY <1>1, <1>2, <1>3, TypeInvariant, PTL DEF Spec

-----------------------------------------------------------------------------
(* Who is superseded: the numbers of heads follow the order of their       *)
(* requests, whatever expires, fails or is recorded twice.                 *)

\* In the log, a request for j comes before one for k.
Precedes(j, k) == \E i, m \in 1..Len(log) : i < m /\ log[i] = j /\ log[m] = k

\* A head that has a number was requested, and the tracker has come that far; of
\* two heads of a pull request, the one with the larger number was requested
\* after the other.
HeadsInv ==
  /\ \A j \in Jobs :
       /\ heads[j] <= headSeq
       /\ heads[j] # 0 =>
            j \in HeadJobs /\ \E i \in 1..Len(log) : i <= tracked + 1 /\ log[i] = j
  /\ \A j, k \in Jobs :
       PrOf[j] = PrOf[k] /\ heads[j] # 0 /\ heads[k] > heads[j] => Precedes(j, k)

LEMMA NextOrSame ==
  ASSUME NEW t \in Nat, NEW u \in {t, t + 1}
  PROVE  u \in Nat /\ \A i \in Nat : i <= t + 1 => i <= u + 1
OBVIOUS

\* The one action that gives a head a number: it is the last one so far.
LEMMA RecordKeepsHeadsInv ==
  ASSUME TypeInv, HeadsInv, tracked < Len(log), log[tracked + 1] # Invalid,
         Record(log[tracked + 1]), log' = log, tracked' \in {tracked, tracked + 1}
  PROVE  HeadsInv'
<1>1. /\ headSeq \in Nat /\ heads \in [Jobs -> Nat] /\ tracked \in Nat /\ Len(log) \in Nat
      /\ tracked + 1 \in 1..Len(log)
  BY DEF TypeInv, TypeOK, TopicTypeOK, HeadsTypeOK
<1>2. PICK h \in Jobs : h = log[tracked + 1]
  BY <1>1 DEF TypeInv, TypeOK, TopicTypeOK
<1>3. \A j \in Jobs : heads[j] <= headSeq
  BY DEF HeadsInv
<1>4. \A j \in Jobs : heads[j] # 0 =>
        j \in HeadJobs /\ \E i \in 1..Len(log) : i <= tracked + 1 /\ log[i] = j
  BY DEF HeadsInv
<1>a. \A i \in 1..Len(log) : i <= tracked + 1 => i <= tracked' + 1
  <2>1. tracked' \in Nat /\ \A i \in Nat : i <= tracked + 1 => i <= tracked' + 1
    BY <1>1, NextOrSame
  <2>2. 1..Len(log) \subseteq Nat
    BY <1>1
  <2>3. QED  BY <2>1, <2>2
<1>b. \A j \in Jobs : heads[j] # 0 =>
        j \in HeadJobs /\ \E i \in 1..Len(log) : i <= tracked' + 1 /\ log[i] = j
  BY <1>4, <1>a
<1>c. \E i \in 1..Len(log) : i <= tracked' + 1 /\ log[i] = h
  <2>1. tracked + 1 \in 1..Len(log) /\ tracked + 1 <= tracked + 1 /\ log[tracked + 1] = h
    BY <1>1, <1>2
  <2>2. QED  BY <1>a, <2>1
<1>5. CASE UNCHANGED headVars \/ heads[h] # 0
  <2>1. heads' = heads /\ headSeq' \in {headSeq, headSeq + 1}
    BY <1>1, <1>2, <1>5 DEF Record, headVars
  <2>2. \A j \in Jobs : heads[j] <= headSeq'
    BY <1>1, <1>3, <2>1
  <2>3. \A j \in Jobs : heads[j] # 0 =>
          j \in HeadJobs /\ \E i \in 1..Len(log) : i <= tracked' + 1 /\ log[i] = j
    BY <1>b
  <2>4. QED
    BY <2>1, <2>2, <2>3 DEF HeadsInv, Precedes
<1>6. CASE ~UNCHANGED headVars /\ heads[h] = 0
  <2>1. /\ h \in HeadJobs /\ headSeq' = headSeq + 1 /\ heads' \in [Jobs -> Nat]
        /\ heads'[h] = headSeq + 1 /\ \A j \in Jobs \ {h} : heads'[j] = heads[j]
    BY <1>1, <1>2, <1>6 DEF Record
  <2>2. ASSUME NEW j \in Jobs
        PROVE  /\ heads'[j] <= headSeq'
               /\ heads'[j] # 0 =>
                    j \in HeadJobs /\ \E i \in 1..Len(log) : i <= tracked' + 1 /\ log[i] = j
    <3>1. heads'[j] <= headSeq'
      BY <1>1, <1>3, <2>1
    <3>2. CASE j = h
      BY <1>c, <2>1, <3>1, <3>2
    <3>3. CASE j # h
      BY <1>b, <2>1, <3>1, <3>3
    <3>4. QED  BY <3>2, <3>3
  <2>3. ASSUME NEW j \in Jobs, NEW k \in Jobs,
               PrOf[j] = PrOf[k], heads'[j] # 0, heads'[k] > heads'[j]
        PROVE  Precedes(j, k)
    <3>1. j # h
      BY <1>1, <1>3, <2>1, <2>3
    <3>2. CASE k = h
      <4>1. PICK i \in 1..Len(log) : i <= tracked + 1 /\ log[i] = j
        BY <1>4, <2>1, <2>3, <3>1
      <4>2. i < tracked + 1
        BY <1>1, <1>2, <3>1, <4>1
      <4>3. QED  BY <1>1, <1>2, <3>2, <4>1, <4>2 DEF Precedes
    <3>3. CASE k # h
      BY <2>1, <2>3, <3>1, <3>3 DEF HeadsInv
    <3>4. QED  BY <3>2, <3>3
  <2>4. \A j, k \in Jobs : Precedes(j, k)' = Precedes(j, k)
    BY DEF Precedes
  <2>5. QED  BY <2>1, <2>2, <2>3, <2>4 DEF HeadsInv, HeadJobs
<1>7. QED  BY <1>5, <1>6

LEMMA HeadsInvStep == TypeInv /\ HeadsInv /\ [Next]_vars => HeadsInv'
<1> SUFFICES ASSUME TypeInv, HeadsInv, [Next]_vars PROVE HeadsInv'
  OBVIOUS
<1>0. /\ headSeq \in Nat /\ heads \in [Jobs -> Nat] /\ tracked \in Nat
      /\ log \in Seq(Jobs \cup {Invalid})
  BY DEF TypeInv, TypeOK, TopicTypeOK, HeadsTypeOK
<1>1. ASSUME UNCHANGED topic  PROVE HeadsInv'
  BY <1>1 DEF topic, HeadsInv, Precedes
<1>2. ASSUME NEW w \in Workers, Handle(w)  PROVE HeadsInv'
  BY <1>1, <1>2
     DEF Handle, Fetch, CheckSuperseded, TryStart, RunPipeline, PublishCompleted, MarkCompleted,
         SaveCompleted, PublishFailed, SaveFailed, MarkFailed, Release, Commit, Resume
<1>3. ASSUME NEW w \in Workers, Disturb(w)  PROVE HeadsInv'
  BY <1>1, <1>3
     DEF Disturb, CheckFails, Raise, BeginShutdown, Cancel, Recancel, Kill, Restart, Assign,
         Rebalance, AssignTo
<1>4. ASSUME NEW m \in Jobs \cup {Invalid}, Request(m)  PROVE HeadsInv'
  <2>1. log' = Append(log, m) /\ UNCHANGED << tracked, headSeq, heads >>
    BY <1>4 DEF Request, headVars
  <2>2. \A i \in 1..Len(log) : i \in 1..Len(log') /\ log'[i] = log[i]
    BY <1>0, <2>1
  <2>3. \A j, k \in Jobs : Precedes(j, k) => Precedes(j, k)'
    BY <2>2 DEF Precedes
  <2>4. \A j \in Jobs : (\E i \in 1..Len(log) : i <= tracked + 1 /\ log[i] = j)
          => \E i \in 1..Len(log') : i <= tracked + 1 /\ log'[i] = j
    BY <2>2
  <2>5. QED  BY <2>1, <2>3, <2>4 DEF HeadsInv, HeadJobs
<1>5. ASSUME NEW j \in Jobs, ExpireLock(j)  PROVE HeadsInv'
  BY <1>1, <1>5 DEF ExpireLock
<1>6. ASSUME NEW pr, ForgetPr(pr), UNCHANGED << log, tracked >>  PROVE HeadsInv'
  <2>1. /\ headSeq' = headSeq
        /\ \A j \in Jobs : heads'[j] = IF PrOf[j] = pr THEN 0 ELSE heads[j]
    BY <1>6 DEF ForgetPr
  <2>2. \A j, k \in Jobs : Precedes(j, k)' = Precedes(j, k)
    BY <1>6 DEF Precedes
  <2>3. QED  BY <1>0, <1>6, <2>1, <2>2 DEF HeadsInv, HeadJobs
<1>7. ASSUME NEW j \in Jobs, ExpireHeads(PrOf[j])  PROVE HeadsInv'
  BY <1>6, <1>7 DEF ExpireHeads
<1>8. CASE Track
  <2>1. tracked < Len(log) /\ tracked' = tracked + 1 /\ log' = log
    BY <1>8 DEF Track
  <2>2. CASE log[tracked + 1] # Invalid /\ Record(log[tracked + 1])
    BY <2>1, <2>2, RecordKeepsHeadsInv
  <2>3. CASE heads' = heads /\ headSeq' \in {headSeq, headSeq + 1}
    <3>1. \A j \in Jobs : heads[j] <= headSeq'
      BY <1>0, <2>3 DEF HeadsInv
    <3>2. \A j \in Jobs : (\E i \in 1..Len(log) : i <= tracked + 1 /\ log[i] = j)
            => \E i \in 1..Len(log) : i <= tracked' + 1 /\ log[i] = j
      BY <1>0, <2>1
    <3>3. QED  BY <2>1, <2>3, <3>1, <3>2 DEF HeadsInv, HeadJobs, Precedes
  <2>4. QED  BY <1>8, <2>2, <2>3 DEF Track, RecordFails, headVars
<1>9. CASE TrackUncommitted
  BY <1>9, RecordKeepsHeadsInv DEF TrackUncommitted
<1>10. CASE UNCHANGED vars
  BY <1>1, <1>10 DEF vars
<1>11. QED
  BY <1>2, <1>3, <1>4, <1>5, <1>7, <1>8, <1>9, <1>10 DEF Next, Environment

\* Only the check itself takes a worker from "check" to the commit.
LEMMA SkipIsSuperseded ==
  ASSUME TypeInv, Next, NEW w \in Workers, pc[w] = "check", pc'[w] = "commit"
  PROVE  IsSuperseded(Job(w))
<1>1. WorkerTypeOK
  BY DEF TypeInv, TypeOK
<1>2. PICK v \in Workers : Handle(v) \/ Disturb(v)
  BY DEF Next, Environment, Request, ExpireLock, ExpireHeads, Track, TrackUncommitted
<1>3. CASE v = w
  BY <1>1, <1>2, <1>3
     DEF WorkerTypeOK, Handle, Fetch, CheckSuperseded, TryStart, RunPipeline, PublishCompleted,
         MarkCompleted, SaveCompleted, PublishFailed, SaveFailed, MarkFailed, Release, Commit,
         Resume, Disturb, CheckFails, Raise, BeginShutdown, Cancel, Recancel, Kill, Restart,
         Assign, Rebalance, AssignTo, Goto, LeaveTo, Stop, Try
<1>4. CASE v # w
  BY <1>1, <1>2, <1>4
     DEF WorkerTypeOK, Handle, Fetch, CheckSuperseded, TryStart, RunPipeline, PublishCompleted,
         MarkCompleted, SaveCompleted, PublishFailed, SaveFailed, MarkFailed, Release, Commit,
         Resume, Disturb, CheckFails, Raise, BeginShutdown, Cancel, Recancel, Kill, Restart,
         Assign, Rebalance, AssignTo, Goto, Return, LeaveTo, Stop
<1>5. QED  BY <1>3, <1>4

LEMMA SupersededIsOvertaken ==
  ASSUME TypeInv, HeadsInv, NEW j \in Jobs, IsSuperseded(j)
  PROVE  Overtaken(j)
<1>1. PICK k \in Jobs : PrOf[k] = PrOf[j] /\ heads[k] > heads[j]
  BY DEF IsSuperseded, Superseding
<1>2. heads[j] \in Nat /\ heads[k] \in Nat /\ heads[j] # 0
  BY DEF IsSuperseded, TypeInv, TypeOK, TopicTypeOK, HeadsTypeOK
<1>3. k # j /\ k \in HeadJobs /\ j \in HeadJobs
  BY <1>1, <1>2 DEF HeadsInv, IsSuperseded
<1>4. Precedes(j, k)
  BY <1>1, <1>2 DEF HeadsInv
<1>5. QED
  BY <1>1, <1>3, <1>4 DEF Precedes, Overtaken

\* The check skips a request only if another head of its pull request was
\* requested after this head was, whatever the tracker lost or recorded twice.
THEOREM SkipsForNewerHeads == Spec => OnlyNewerHeadSkips
<1>1. Init => HeadsInv
  BY DEF Init, HeadsInit, HeadsInv
<1>2. TypeInv /\ HeadsInv /\ [Next]_vars => HeadsInv'
  BY HeadsInvStep
<1>3. TypeInv /\ HeadsInv /\ [Next]_vars =>
        [\A w \in Workers : pc[w] = "check" /\ pc'[w] = "commit" => Overtaken(Job(w))]_vars
  <2>1. ASSUME TypeInv, HeadsInv, Next, NEW w \in Workers, pc[w] = "check", pc'[w] = "commit"
        PROVE  Overtaken(Job(w))
    <3>1. Job(w) \in Jobs
      BY <2>1 DEF TypeInv, AtOK, Handling
    <3>2. IsSuperseded(Job(w))
      BY <2>1, SkipIsSuperseded
    <3>3. QED  BY <2>1, <3>1, <3>2, SupersededIsOvertaken
  <2>2. QED  BY <2>1
<1>4. QED
  BY <1>1, <1>2, <1>3, TypeInvariant, PTL DEF Spec, OnlyNewerHeadSkips

(***************************************************************************)
(* No request is lost: what the group has committed was answered, will be  *)
(* answered by a worker that is at it, or gave way to a newer head.        *)
(***************************************************************************)

\* The faults that may lose a request.
Lossy == Left \/ {"cancel", "rebalance"} \subseteq suffered

\* The stages before an event is published, and those after.
Reviewing == {"run", "publishCompleted", "publishFailed"}
Finishing == {"mark", "saveCompleted", "saveFailed", "unlock"}

\* What a settled message has got: all it will get, or a worker that is at it.
Accounted(i) ==
  /\ i \in 1..Len(log)
  /\ Resolved(i) \/ ("rebalance" \in suffered /\ OnItsWay(log[i]))

\* Where each worker can be without having lost a request.
PlaceOK(w) ==
  /\ pc[w] = "release" => "cancel" \in suffered
  /\ pc[w] = "check" => SkipSuperseded
  /\ pc[w] \in Finishing => Answered(Job(w))
  /\ pc[w] \in Handling => owner = w \/ "rebalance" \in suffered

RequestInv ==
  Lossy \/
  /\ \A w \in Workers : PlaceOK(w)
  /\ \A j \in Jobs : lock[j] = "completed" => Answered(j)
  /\ \A i \in settled : Accounted(i)

\* What the steps of a worker have in common as far as requests are concerned.
RequestStep(w) ==
  /\ log' = log
  /\ suffered \subseteq suffered'
  /\ \A v \in Workers \ {w} : pc'[v] = pc[v] /\ at'[v] = at[v]
  /\ owner' = owner \/ (owner = w /\ pc'[w] \notin Handling)
  /\ PlaceOK(w)'
  /\ \A j \in Jobs : /\ Answered(j) => Answered(j)'
                     /\ lock'[j] = "completed" => lock[j] = "completed" \/ Answered(j)'
  /\ pc[w] \in Reviewing =>
       \/ at'[w] = at[w] /\ (pc'[w] \in Reviewing \/ Answered(Job(w))')
       \/ "cancel" \in suffered'
  /\ \A i \in settled' \ settled : Accounted(i)'

LEMMA RequestStepKeepsRequestInv ==
  ASSUME TypeInv, RequestInv, NEW w \in Workers, RequestStep(w), ~Lossy'
  PROVE  RequestInv'
<1>0. ~Lossy
  BY DEF RequestStep, Lossy, Left
<1>1. \A v \in Workers : at'[v] = at[v] => Job(v)' = Job(v)
  BY DEF RequestStep, Job
<1>2. \A v \in Workers : pc[v] \in Handling => Job(v) \in Jobs
  BY DEF TypeInv, AtOK
<1>3. \A j \in Jobs : Answered(j) => Answered(j)'
  BY DEF RequestStep
<1>4. ASSUME NEW v \in Workers  PROVE PlaceOK(v)'
  <2>1. CASE v = w
    BY <2>1 DEF RequestStep
  <2>2. CASE v # w
    <3>1. PlaceOK(v) /\ pc'[v] = pc[v] /\ Job(v)' = Job(v)
      BY <1>0, <1>1, <2>2 DEF RequestStep, RequestInv
    <3>2. pc[v] \in Finishing => Answered(Job(v))'
      <4>1. pc[v] \in Finishing => Job(v) \in Jobs /\ Answered(Job(v))
        BY <1>2, <3>1 DEF PlaceOK, Finishing, Handling, Try
      <4>2. Answered(Job(v))' <=> completed'[Job(v)] + failed'[Job(v)] > 0
        BY <3>1 DEF Answered
      <4>3. QED  BY <1>3, <4>1, <4>2 DEF Answered
    <3>3. owner = v => owner' = v
      BY <2>2 DEF RequestStep
    <3>4. suffered \subseteq suffered'
      BY DEF RequestStep
    <3>5. QED  BY <3>1, <3>2, <3>3, <3>4 DEF PlaceOK
  <2>3. QED  BY <2>1, <2>2
<1>5. ASSUME NEW i \in settled  PROVE Accounted(i)'
  <2>1. Accounted(i) /\ log' = log /\ suffered \subseteq suffered'
    BY <1>0 DEF RequestStep, RequestInv
  <2>2. Overtaken(log[i])' = Overtaken(log[i])
    BY <2>1 DEF Overtaken
  <2>3. Resolved(i) => Resolved(i)'
    BY <1>3, <2>1, <2>2 DEF Resolved, Answered
  <2>4. ASSUME "rebalance" \in suffered, OnItsWay(log[i])
        PROVE  Resolved(i)' \/ OnItsWay(log[i])'
    <3>1. PICK v \in Workers : pc[v] \in Reviewing /\ Job(v) = log[i]
      BY <2>4 DEF OnItsWay, Reviewing
    <3>2. CASE v = w
      <4>1. at'[w] = at[w] /\ (pc'[w] \in Reviewing \/ Answered(Job(w))')
        BY <2>1, <2>4, <3>1, <3>2 DEF RequestStep, Lossy
      <4>2. Job(w)' = log'[i] /\ i <= Len(log')
        BY <1>1, <2>1, <3>1, <3>2, <4>1 DEF Accounted, Job
      <4>3. QED  BY <3>2, <4>1, <4>2 DEF OnItsWay, Reviewing, Resolved, Answered
    <3>3. CASE v # w
      BY <1>1, <2>1, <3>1, <3>3 DEF RequestStep, OnItsWay, Reviewing
    <3>4. QED  BY <3>2, <3>3
  <2>5. QED  BY <2>1, <2>3, <2>4 DEF Accounted
<1>6. \A i \in settled' : Accounted(i)'
  BY <1>5 DEF RequestStep
<1>7. \A j \in Jobs : lock'[j] = "completed" => Answered(j)'
  BY <1>0, <1>3 DEF RequestStep, RequestInv
<1>8. QED  BY <1>4, <1>6, <1>7 DEF RequestInv

-----------------------------------------------------------------------------
(* What the calls do to the answers and to the keys of completed jobs.     *)

LEMMA SumGrows ==
  ASSUME NEW a \in Nat, NEW b \in Nat, NEW c \in Nat, NEW d \in Nat, c >= a, d >= b
  PROVE  (a + b > 0 => c + d > 0) /\ (c = a + 1 \/ d = b + 1 => c + d > 0)
OBVIOUS

\* Events are never taken back, each publishing call answers its job, and only
\* SET of the last stages completes a key.
LEMMA CallAnswers ==
  ASSUME TypeInv, NEW w \in Workers, UNCHANGED service \/ (Effect(w) /\ pc[w] # "mark")
  PROVE  \A j \in Jobs : /\ Answered(j) => Answered(j)'
                         /\ lock'[j] = "completed" => lock[j] = "completed"
<1>0. /\ lock \in [Jobs -> {"none", "in_progress", "completed"}]
      /\ completed \in [Jobs -> Nat] /\ failed \in [Jobs -> Nat]
  BY DEF TypeInv, TypeOK, ServiceTypeOK
<1>1. CASE UNCHANGED << completed, failed >>
  <2>1. \A j \in Jobs : lock'[j] = "completed" => lock[j] = "completed"
    BY <1>0, <1>1
       DEF Effect, service, SetInProgress, SetCompleted, DeleteLock, SendCompleted, SendFailed,
           CommitOffset, Acquired
  <2>2. QED  BY <1>1, <2>1 DEF Answered
<1>2. CASE pc[w] \in {"publishCompleted", "publishFailed"} /\ Effect(w)
  <2>1. /\ lock' = lock
        /\ \A j \in Jobs : /\ completed'[j] \in Nat /\ failed'[j] \in Nat
                           /\ completed'[j] >= completed[j] /\ failed'[j] >= failed[j]
    BY <1>0, <1>2 DEF Effect, SendCompleted, SendFailed
  <2>2. QED  BY <1>0, <2>1, SumGrows DEF Answered
<1>3. QED
  BY <1>1, <1>2
     DEF Effect, service, SetInProgress, SetCompleted, DeleteLock, CommitOffset

\* An event answers the job of the worker that sends it.
LEMMA SendAnswers ==
  ASSUME TypeInv, NEW w \in Workers, pc[w] \in Handling, at' = at, log' = log,
         SendCompleted(Job(w)) \/ SendFailed(Job(w))
  PROVE  Answered(Job(w))'
<1>1. PICK j \in Jobs : j = Job(w) /\ Job(w)' = j
  BY DEF TypeInv, AtOK, Job
<1>2. /\ completed[j] \in Nat /\ failed[j] \in Nat
      /\ completed \in [Jobs -> Nat] /\ failed \in [Jobs -> Nat]
  BY DEF TypeInv, TypeOK, ServiceTypeOK
<1>3. CASE SendCompleted(j)
  BY <1>1, <1>2, <1>3 DEF SendCompleted, Answered
<1>4. CASE SendFailed(j)
  BY <1>1, <1>2, <1>4 DEF SendFailed, Answered
<1>5. QED  BY <1>1, <1>3, <1>4

\* handle() returns: the message of w is settled, and is accounted for if its job
\* is answered.
LEMMA ReturnSettles ==
  ASSUME TypeInv, NEW w \in Workers, pc[w] \in Handling, Return(w), log' = log
  PROVE  /\ settled' \ settled \subseteq {at[w]}
         /\ Answered(Job(w))' \/ Resolved(at[w])' => \A i \in settled' \ settled : Accounted(i)'
<1>1. /\ at[w] \in 1..Len(log) /\ at' = at /\ settled' = settled \cup {at[w]}
  BY DEF TypeInv, AtOK, Return, Goto
<1>2. Answered(Job(w))' => Resolved(at[w])'
  BY <1>1 DEF Answered, Resolved, Job
<1>3. QED  BY <1>1, <1>2 DEF Accounted

-----------------------------------------------------------------------------
(* Every step of a worker but a new assignment.                            *)

\* The task stays in handle() with its message, and settles nothing.
LEMMA StayIsRequestStep ==
  ASSUME TypeInv, RequestInv, ~Lossy', suffered \subseteq suffered', NEW w \in Workers,
         NEW s \in {"start", "run", "publishCompleted", "publishFailed", "mark", "saveCompleted",
                    "saveFailed", "unlock", "release"},
         pc[w] \in Handling, Goto(w, s), log' = log, UNCHANGED << group, settled >>,
         s = "release" => "cancel" \in suffered',
         s \in Finishing => Answered(Job(w))',
         \A j \in Jobs : /\ Answered(j) => Answered(j)'
                         /\ lock'[j] = "completed" => lock[j] = "completed" \/ Answered(j)',
         pc[w] \in Reviewing => s \in Reviewing \cup {"release"} \/ Answered(Job(w))'
  PROVE  RequestStep(w)
<1>1. /\ pc'[w] = s /\ at' = at /\ owner' = owner
      /\ \A v \in Workers \ {w} : pc'[v] = pc[v]
  BY DEF TypeInv, TypeOK, WorkerTypeOK, Goto, group
<1>2. PlaceOK(w)
  BY DEF RequestInv, Lossy, Left
<1>3. PlaceOK(w)'
  BY <1>1, <1>2 DEF PlaceOK
<1>4. QED
  BY <1>1, <1>3 DEF RequestStep

\* handle() returns, its message answered or resolved otherwise.
LEMMA ReturnIsRequestStep ==
  ASSUME TypeInv, RequestInv, suffered \subseteq suffered', NEW w \in Workers,
         pc[w] \in Handling \ Reviewing, Return(w), log' = log, UNCHANGED group,
         \A i \in settled' \ settled : Accounted(i)',
         \A j \in Jobs : /\ Answered(j) => Answered(j)'
                         /\ lock'[j] = "completed" => lock[j] = "completed" \/ Answered(j)'
  PROVE  RequestStep(w)
<1>1. /\ pc'[w] = "commit" /\ at' = at /\ owner' = owner
      /\ \A v \in Workers \ {w} : pc'[v] = pc[v]
  BY DEF TypeInv, TypeOK, WorkerTypeOK, Return, Goto, group
<1>2. PlaceOK(w)'
  BY <1>1 DEF PlaceOK, Finishing, Handling, Try
<1>3. QED
  BY <1>1, <1>2 DEF RequestStep

\* The task leaves handle() for good, or was not in it.
LEMMA LeaveIsRequestStep ==
  ASSUME TypeInv, RequestInv, suffered \subseteq suffered', NEW w \in Workers,
         NEW s \in {"fetch", "down"}, pc[w] \notin Reviewing, LeaveTo(w, s), log' = log,
         owner' = owner \/ owner = w, UNCHANGED settled,
         \A j \in Jobs : /\ Answered(j) => Answered(j)'
                         /\ lock'[j] = "completed" => lock[j] = "completed"
  PROVE  RequestStep(w)
<1>1. /\ pc'[w] = s
      /\ \A v \in Workers \ {w} : pc'[v] = pc[v] /\ at'[v] = at[v]
  BY DEF TypeInv, TypeOK, WorkerTypeOK, LeaveTo
<1>2. PlaceOK(w)' /\ pc'[w] \notin Handling
  BY <1>1 DEF PlaceOK, Finishing, Handling, Try
<1>3. QED
  BY <1>1, <1>2 DEF RequestStep

\* Who finds the key taken gives way to an answer or to a worker that is at it.
LEMMA TakenIsAccounted ==
  ASSUME TypeInv, OrphanInv, RequestInv, ~Lossy, NEW w \in Workers, pc[w] = "start",
         ~Acquired(Job(w)), UNCHANGED << completed, failed, log, suffered >>,
         Goto(w, "commit")
  PROVE  Accounted(at[w])'
<1>0. at' = at /\ log' = log /\ suffered' = suffered
  BY DEF Goto
<1>1. /\ Job(w) \in Jobs /\ at[w] \in 1..Len(log)
      /\ lock \in [Jobs -> {"none", "in_progress", "completed"}]
  BY DEF TypeInv, TypeOK, ServiceTypeOK, AtOK, Handling
<1>2. \A v \in Workers : PlaceOK(v)
  BY DEF RequestInv
<1>3. CASE Answered(Job(w))
  <2>1. Resolved(at[w])
    BY <1>1, <1>3 DEF Resolved, Job
  <2>2. QED
    BY <1>0, <1>1, <2>1 DEF Accounted, Resolved, Answered, Overtaken
<1>4. CASE ~Answered(Job(w))
  <2>1. lock[Job(w)] = "in_progress"
    BY <1>1, <1>4 DEF Acquired, RequestInv
  <2>2. PICK v \in Workers : pc[v] \in Try /\ Job(v) = Job(w)
    BY <1>1, <2>1 DEF OrphanInv, Working, Lossy
  <2>3. v # w
    BY <2>2 DEF Try
  <2>4. "rebalance" \in suffered
    BY <1>2, <2>2, <2>3 DEF PlaceOK, Handling
  <2>5. pc[v] \in Reviewing
    <3>1. pc[v] # "release"
      BY <1>2, <2>4 DEF PlaceOK, Lossy
    <3>2. pc[v] \notin Finishing
      BY <1>2, <1>4, <2>2 DEF PlaceOK
    <3>3. QED  BY <2>2, <3>1, <3>2 DEF Try, Reviewing, Finishing
  <2>6. pc'[v] = pc[v] /\ Job(v)' = log'[at[w]]
    BY <2>2, <2>3 DEF Goto, Job, TypeInv, TypeOK, WorkerTypeOK
  <2>7. QED
    BY <1>0, <1>1, <2>4, <2>5, <2>6 DEF Accounted, OnItsWay, Reviewing
<1>5. QED  BY <1>3, <1>4

LEMMA WorkerRequestStep ==
  ASSUME TypeInv, LockInv, OrphanInv, HeadsInv, RequestInv, ~Lossy', NEW w \in Workers,
         Handle(w) \/ Disturb(w), ~Assign(w), ~Rebalance(w)
  PROVE  RequestStep(w)
<1>0. suffered \subseteq suffered' /\ ~Left' /\ ~Lossy
  BY HistoryGrows DEF Next, Lossy, Left
<1>1. ~Raise(w) /\ ~Recancel(w) /\ ~Kill(w) /\ ~CheckFails(w) /\ ~Fault("raise")
  BY <1>0 DEF Raise, Recancel, Kill, CheckFails, Fault, Interrupted, Left, LeavesKeys
<1>2. PlaceOK(w) /\ \A j \in Jobs : lock[j] = "completed" => Answered(j)
  BY <1>0 DEF RequestInv
<1>3. pc[w] \in Handling => Job(w) \in Jobs /\ at[w] \in 1..Len(log)
  BY DEF TypeInv, AtOK
<1>4. CASE CheckSuperseded(w)
  <2>1. /\ pc[w] = "check" /\ log' = log /\ UNCHANGED service /\ UNCHANGED group
        /\ UNCHANGED suffered /\ SkipSuperseded
    BY <1>2, <1>4 DEF CheckSuperseded, topic, NoFault, PlaceOK
  <2>2. CASE IsSuperseded(Job(w)) /\ Return(w)
    <3>1. Overtaken(Job(w))
      BY <1>3, <2>1, <2>2, SupersededIsOvertaken DEF Handling
    <3>2. Resolved(at[w])'
      BY <1>3, <2>1, <2>2, <3>1 DEF Resolved, Overtaken, Job, Handling, Return, Goto
    <3>3. \A i \in settled' \ settled : Accounted(i)'
      BY <2>1, <2>2, <3>2, ReturnSettles DEF Handling
    <3>4. QED
      BY <1>0, <2>1, <2>2, <3>3, CallAnswers, ReturnIsRequestStep DEF Handling, Reviewing
  <2>3. CASE Goto(w, "start") /\ UNCHANGED settled
    BY <1>0, <2>1, <2>3, CallAnswers, StayIsRequestStep DEF Handling, Reviewing, Finishing
  <2>4. QED  BY <1>4, <2>2, <2>3 DEF CheckSuperseded
<1>5. CASE TryStart(w)
  <2>1. /\ pc[w] = "start" /\ log' = log /\ Effect(w) /\ UNCHANGED group
        /\ UNCHANGED << completed, failed, suffered >>
    BY <1>5 DEF TryStart, topic, NoFault, Effect, SetInProgress
  <2>2. CASE Goto(w, "run") /\ UNCHANGED settled
    BY <1>0, <2>1, <2>2, CallAnswers, StayIsRequestStep DEF Handling, Reviewing, Finishing
  <2>3. CASE ~Acquired(Job(w)) /\ Return(w)
    <3>1. Accounted(at[w])'
      BY <1>0, <2>1, <2>3, TakenIsAccounted DEF Return
    <3>2. \A i \in settled' \ settled : Accounted(i)'
      BY <2>1, <2>3, <3>1, ReturnSettles DEF Handling, Return, Goto
    <3>3. QED
      BY <1>0, <2>1, <2>3, <3>2, CallAnswers, ReturnIsRequestStep DEF Handling, Reviewing
  <2>4. QED  BY <1>5, <2>2, <2>3 DEF TryStart
<1>6. CASE RunPipeline(w)
  <2>1. /\ pc[w] = "run" /\ log' = log /\ UNCHANGED service /\ UNCHANGED << group, settled >>
    BY <1>6 DEF RunPipeline, topic
  <2>2. PICK s \in {"publishCompleted", "publishFailed"} : Goto(w, s)
    BY <1>6 DEF RunPipeline
  <2>3. QED
    BY <1>0, <2>1, <2>2, CallAnswers, StayIsRequestStep DEF Handling, Try, Reviewing, Finishing
<1>7. CASE PublishCompleted(w) \/ PublishFailed(w)
  <2>1. /\ pc[w] \in {"publishCompleted", "publishFailed"} /\ log' = log
        /\ Effect(w) /\ UNCHANGED << group, settled >>
        /\ SendCompleted(Job(w)) \/ SendFailed(Job(w))
    BY <1>7 DEF PublishCompleted, PublishFailed, topic, Effect
  <2>2. PICK s \in {"mark", "saveFailed", "unlock"} : Goto(w, s)
    BY <1>7 DEF PublishCompleted, PublishFailed
  <2>3. Answered(Job(w))'
    BY <2>1, <2>2, SendAnswers DEF Goto, Handling, Try
  <2>4. QED
    BY <1>0, <2>1, <2>2, <2>3, CallAnswers, StayIsRequestStep DEF Handling, Try
<1>8. CASE MarkCompleted(w)
  <2>1. /\ pc[w] = "mark" /\ log' = log /\ SetCompleted(Job(w)) /\ UNCHANGED group /\ at' = at
        /\ UNCHANGED << completed, failed >>
    BY <1>8 DEF MarkCompleted, topic, SetCompleted, Return, Goto
  <2>2. Job(w) \in Jobs /\ Answered(Job(w)) /\ Answered(Job(w))'
    BY <1>2, <1>3, <2>1 DEF PlaceOK, Finishing, Handling, Try, Answered, Job
  <2>3. \A j \in Jobs : /\ Answered(j) => Answered(j)'
                        /\ lock'[j] = "completed" => lock[j] = "completed" \/ Answered(j)'
    BY <2>1, <2>2 DEF Answered, SetCompleted, TypeInv, TypeOK, ServiceTypeOK
  <2>4. CASE Goto(w, "saveCompleted") /\ UNCHANGED settled
    BY <1>0, <2>1, <2>2, <2>3, <2>4, StayIsRequestStep DEF Handling, Try, Reviewing
  <2>5. CASE Return(w)
    <3>1. \A i \in settled' \ settled : Accounted(i)'
      BY <2>1, <2>2, <2>5, ReturnSettles DEF Handling, Try
    <3>2. QED
      BY <1>0, <2>1, <2>3, <2>5, <3>1, ReturnIsRequestStep DEF Handling, Try, Reviewing
  <2>6. QED  BY <1>8, <2>4, <2>5 DEF MarkCompleted
<1>9. CASE SaveCompleted(w) \/ MarkFailed(w)
  <2>1. /\ pc[w] \in {"saveCompleted", "unlock"} /\ log' = log /\ Return(w) /\ UNCHANGED group
        /\ UNCHANGED service \/ Effect(w)
        /\ UNCHANGED << completed, failed >>
    BY <1>9 DEF SaveCompleted, MarkFailed, topic, service, Effect, DeleteLock
  <2>2. Answered(Job(w))'
    BY <1>2, <2>1 DEF PlaceOK, Finishing, Answered, Job, Return, Goto
  <2>3. \A i \in settled' \ settled : Accounted(i)'
    BY <2>1, <2>2, ReturnSettles DEF Handling, Try
  <2>4. QED
    BY <1>0, <2>1, <2>3, CallAnswers, ReturnIsRequestStep DEF Handling, Try, Reviewing
<1>10. CASE SaveFailed(w)
  <2>1. /\ pc[w] = "saveFailed" /\ log' = log /\ Goto(w, "unlock") /\ UNCHANGED service
        /\ UNCHANGED << group, settled >>
    BY <1>10 DEF SaveFailed, topic
  <2>2. Answered(Job(w))'
    BY <1>2, <2>1 DEF PlaceOK, Finishing, Answered, Job, Goto, service
  <2>3. QED
    BY <1>0, <2>1, <2>2, CallAnswers, StayIsRequestStep DEF Handling, Try
<1>11. CASE Release(w)
  <2>1. /\ pc[w] = "release" /\ log' = log /\ LeaveTo(w, "down") /\ Effect(w)
        /\ UNCHANGED settled /\ (owner' = owner \/ owner = w)
    BY <1>11 DEF Release, topic, Stop, Effect
  <2>2. QED
    BY <1>0, <2>1, CallAnswers, LeaveIsRequestStep DEF Reviewing
<1>12. CASE Commit(w) \/ Resume(w)
  <2>1. /\ pc[w] \in {"commit", "backoff"} /\ log' = log /\ UNCHANGED settled
        /\ UNCHANGED service \/ Effect(w)
        /\ owner' = owner \/ owner = w
    BY <1>12 DEF Commit, Resume, topic, Stop, Effect, group
  <2>2. PICK s \in {"fetch", "down"} : LeaveTo(w, s)
    BY <1>12 DEF Commit, Resume, Stop
  <2>3. QED
    BY <1>0, <2>1, <2>2, CallAnswers, LeaveIsRequestStep DEF Reviewing
<1>13. CASE Cancel(w)
  <2>1. /\ "cancel" \in suffered' /\ log' = log /\ UNCHANGED service /\ UNCHANGED settled
    BY <1>0, <1>13 DEF Cancel, LockInv, Interrupted, topic, Left, LeavesKeys
  <2>2. CASE pc[w] \in Try /\ Goto(w, "release") /\ UNCHANGED group
    BY <1>0, <2>1, <2>2, CallAnswers, StayIsRequestStep DEF Handling, Finishing
  <2>3. CASE pc[w] \notin Try /\ Stop(w)
    BY <1>0, <2>1, <2>3, CallAnswers, LeaveIsRequestStep DEF Stop, Try, Reviewing
  <2>4. QED  BY <1>13, <2>2, <2>3 DEF Cancel
<1>14. CASE BeginShutdown(w) \/ Restart(w)
  <2>1. /\ log' = log /\ at' = at /\ owner' = owner /\ UNCHANGED settled
        /\ UNCHANGED service
        /\ \A v \in Workers \ {w} : pc'[v] = pc[v]
        /\ pc'[w] = pc[w] \/ (pc[w] = "down" /\ pc'[w] = "fetch")
    BY <1>14 DEF BeginShutdown, Restart, topic, group, TypeInv, TypeOK, WorkerTypeOK
  <2>2. PlaceOK(w)'
    BY <1>0, <1>2, <2>1 DEF PlaceOK, Finishing, Handling, Try, Answered, Job, service
  <2>3. QED
    BY <1>0, <2>1, <2>2, CallAnswers DEF RequestStep, Reviewing
<1>15. CASE Fetch(w)
  <2>1. /\ pc[w] = "fetch" /\ owner = w /\ position < Len(log) /\ position + 1 \in 1..Len(log)
        /\ log' = log /\ owner' = owner /\ UNCHANGED service
    BY <1>15 DEF Fetch, topic, TypeInv, TypeOK, GroupTypeOK, TopicTypeOK
  <2>2. /\ \A v \in Workers \ {w} : pc'[v] = pc[v] /\ at'[v] = at[v]
        /\ pc'[w] \in {"commit", "check", "start"} /\ (pc'[w] = "check" => SkipSuperseded)
    BY <1>15 DEF Fetch, TypeInv, TypeOK, WorkerTypeOK
  <2>3. PlaceOK(w)'
    BY <2>1, <2>2 DEF PlaceOK, Finishing
  <2>4. ASSUME NEW i \in settled' \ settled  PROVE Accounted(i)'
    <3>1. i = position + 1 /\ log[i] = Invalid
      BY <1>15, <2>4 DEF Fetch
    <3>2. QED
      BY <2>1, <3>1, DeliveryAssumption DEF Accounted, Resolved
  <2>5. QED
    BY <1>0, <2>1, <2>2, <2>3, <2>4, CallAnswers DEF RequestStep, Reviewing
<1>16. QED
  BY <1>1, <1>4, <1>5, <1>6, <1>7, <1>8, <1>9, <1>10, <1>11, <1>12, <1>13, <1>14, <1>15
     DEF Handle, Disturb

\* A step that moves no worker: the log may grow, keys may go, the partition may
\* move.
LEMMA OutsideKeepsRequestInv ==
  ASSUME TypeInv, RequestInv, ~Lossy', suffered \subseteq suffered',
         UNCHANGED << pc, at, completed, failed, settled >>,
         log' \in Seq(Jobs \cup {Invalid}), Len(log') >= Len(log),
         \A i \in 1..Len(log) : log'[i] = log[i],
         \A j \in Jobs : lock'[j] = "completed" => lock[j] = "completed",
         \A v \in Workers : pc[v] \in Handling => owner' = v \/ "rebalance" \in suffered'
  PROVE  RequestInv'
<1>0. /\ \A v \in Workers : PlaceOK(v)
      /\ \A j \in Jobs : lock[j] = "completed" => Answered(j)
      /\ \A i \in settled : Accounted(i)
  BY DEF RequestInv, Lossy, Left
<1>1. Len(log) \in Nat /\ Len(log') \in Nat /\ Len(log) =< Len(log')
  BY DEF TypeInv, TypeOK, TopicTypeOK
<1>2. \A v \in Workers : pc[v] \in Handling => at[v] \in 1..Len(log) /\ Job(v)' = Job(v)
  BY DEF TypeInv, AtOK, Job
<1>3. \A j : Answered(j)' = Answered(j)
  BY DEF Answered
<1>4. \A v \in Workers : PlaceOK(v)'
  BY <1>0, <1>2 DEF PlaceOK, Answered, Finishing, Handling, Try
<1>5. ASSUME NEW i \in settled  PROVE Accounted(i)'
  <2>1. i \in 1..Len(log) /\ i \in 1..Len(log') /\ log'[i] = log[i] /\ Accounted(i)
    BY <1>0, <1>1 DEF Accounted
  <2>2. Overtaken(log[i]) => Overtaken(log[i])'
    <3>1. ASSUME NEW k \in 1..Len(log)  PROVE k \in 1..Len(log') /\ log'[k] = log[k]
      BY <1>1
    <3>2. QED  BY <2>1, <3>1 DEF Overtaken, HeadJobs
  <2>3. Resolved(i) => Resolved(i)'
    BY <1>1, <2>1, <2>2 DEF Resolved, Answered
  <2>4. OnItsWay(log[i]) => OnItsWay(log[i])'
    BY <1>2, <2>1 DEF OnItsWay, Handling, Try
  <2>5. QED  BY <2>1, <2>3, <2>4 DEF Accounted
<1>6. QED  BY <1>0, <1>3, <1>4, <1>5 DEF RequestInv

LEMMA RequestInvStep ==
  TypeInv /\ LockInv /\ OrphanInv /\ HeadsInv /\ RequestInv /\ [Next]_vars => RequestInv'
<1> SUFFICES ASSUME TypeInv, LockInv, OrphanInv, HeadsInv, RequestInv, [Next]_vars, ~Lossy'
             PROVE  RequestInv'
  BY DEF RequestInv
<1>0. /\ suffered \subseteq suffered' /\ ~Lossy
      /\ \A v \in Workers : pc[v] \in Handling => owner = v \/ "rebalance" \in suffered
      /\ log \in Seq(Jobs \cup {Invalid}) /\ Len(log) \in Nat
      /\ lock \in [Jobs -> {"none", "in_progress", "completed"}]
  BY HistoryGrows
     DEF RequestInv, PlaceOK, Lossy, Left, TypeInv, TypeOK, TopicTypeOK, ServiceTypeOK
<1>1. ASSUME NEW w \in Workers, Handle(w) \/ Disturb(w), ~Assign(w), ~Rebalance(w)
      PROVE  RequestInv'
  BY <1>1, WorkerRequestStep, RequestStepKeepsRequestInv
<1>2. ASSUME NEW w \in Workers, Assign(w) \/ Rebalance(w)  PROVE RequestInv'
  <2>1. UNCHANGED << pc, at, completed, failed, settled, log, lock >>
    BY <1>2 DEF Assign, Rebalance, AssignTo, topic, service
  <2>2. owner = NoWorker \/ "rebalance" \in suffered'
    BY <1>2 DEF Assign, Rebalance, Fault
  <2>3. \A v \in Workers : pc[v] \in Handling => "rebalance" \in suffered'
    BY <1>0, <2>2, DeliveryAssumption
  <2>4. QED  BY <1>0, <2>1, <2>3, OutsideKeepsRequestInv
<1>3. ASSUME UNCHANGED << pc, at, completed, failed, settled, log, lock, owner >>
      PROVE  RequestInv'
  BY <1>0, <1>3, OutsideKeepsRequestInv
<1>4. ASSUME NEW m \in Jobs \cup {Invalid}, Request(m)  PROVE RequestInv'
  <2>1. /\ UNCHANGED << pc, at, completed, failed, settled, lock, owner >>
        /\ log' = Append(log, m)
    BY <1>4 DEF Request, group, service
  <2>2. /\ log' \in Seq(Jobs \cup {Invalid}) /\ Len(log') >= Len(log)
        /\ \A i \in 1..Len(log) : log'[i] = log[i]
    BY <1>0, <2>1
  <2>3. QED  BY <1>0, <2>1, <2>2, OutsideKeepsRequestInv
<1>5. ASSUME NEW j \in Jobs, ExpireLock(j)  PROVE RequestInv'
  <2>1. /\ UNCHANGED << pc, at, completed, failed, settled, log, owner >>
        /\ lock' = [lock EXCEPT ![j] = "none"]
    BY <1>5 DEF ExpireLock, DeleteLock, topic, group
  <2>2. \A k \in Jobs : lock'[k] = "completed" => lock[k] = "completed"
    BY <1>0, <2>1
  <2>3. QED  BY <1>0, <2>1, <2>2, OutsideKeepsRequestInv
<1>6. ASSUME NEW j \in Jobs, ExpireHeads(PrOf[j])  PROVE RequestInv'
  BY <1>3, <1>6 DEF ExpireHeads, group, service
<1>7. CASE Track \/ TrackUncommitted
  BY <1>3, <1>7 DEF Track, TrackUncommitted, group, service
<1>8. CASE UNCHANGED vars
  BY <1>3, <1>8 DEF vars, topic, group, service
<1>9. QED
  BY <1>1, <1>2, <1>4, <1>5, <1>6, <1>7, <1>8 DEF Next, Environment

\* A request the group will not see again has been answered, is about to be, or
\* gave way to a newer head, whatever expires, and under cancellations or
\* rebalances but not both, as long as no key may be left behind.
THEOREM NoRequestLost == Spec => []NoLostRequest
<1>1. Init => LockInv /\ OrphanInv /\ HeadsInv /\ OffsetInv /\ RequestInv
  BY DEF Init, HeadsInit, LockInv, MutualExclusion, OrphanInv, HeadsInv, OffsetInv,
         CommitAfterHandling, RequestInv, PlaceOK, Finishing, Handling, Try
<1>2. /\ TypeInv /\ LockInv /\ OrphanInv /\ HeadsInv /\ OffsetInv /\ RequestInv /\ [Next]_vars
      => LockInv' /\ OrphanInv' /\ HeadsInv' /\ OffsetInv' /\ RequestInv'
  BY LockInvStep, OrphanInvStep, HeadsInvStep, OffsetInvStep, RequestInvStep
<1>3. OffsetInv /\ RequestInv => NoLostRequest
  BY DEF OffsetInv, CommitAfterHandling, RequestInv, Accounted, Lossy, Left, LeavesKeys,
         NoLostRequest
<1>4. QED
  BY <1>1, <1>2, <1>3, TypeInvariant, PTL DEF Spec

(***************************************************************************)
(* ReviewDelivery implements ReviewLedger, for every set of workers and    *)
(* jobs, every log and any number of faults: until a task is cancelled or  *)
(* a key expires, each step of the delivery protocol is a step of the      *)
(* ledger or leaves it as it is.                                           *)
(***************************************************************************)

\* A task was cancelled or a key has expired.
Reopened == suffered \cap Reopens # {}

\* The stages at which a worker may still publish, or give up, its review.
InReview == {"run", "publishCompleted", "publishFailed", "saveFailed", "unlock"}

\* A worker that reviews a job holds its key and nothing was published for it;
\* a published review keeps its key.
LedgerInv ==
  Reopened \/
  /\ \A w \in Workers : pc[w] # "release"
  /\ \A j \in Jobs : lock[j] = "none" => completed[j] = 0
  /\ \A w \in Workers :
       /\ pc[w] \in InReview => lock[Job(w)] = "in_progress" /\ completed[Job(w)] = 0
       /\ pc[w] = "mark" => completed[Job(w)] # 0

\* What a worker's step needs to come to a stage in which it reviews.
Advances(w) ==
  /\ pc'[w] # "release"
  /\ pc'[w] \in InReview =>
       /\ at'[w] = at[w]
       /\ \/ pc[w] \in InReview /\ UNCHANGED << lock, completed >>
          \/ pc[w] = "start" /\ lock[Job(w)] = "none" /\ SetInProgress(Job(w))
  /\ pc'[w] = "mark" =>
       /\ at'[w] = at[w]
       /\ \/ pc[w] = "mark" /\ UNCHANGED << lock, completed >>
          \/ pc[w] = "publishCompleted" /\ SendCompleted(Job(w))

\* A step of w as far as the ledger is concerned.
LedgerStep(w) ==
  /\ log' = log
  /\ \A v \in Workers \ {w} : pc'[v] = pc[v] /\ at'[v] = at[v]
  /\ UNCHANGED << lock, completed, failed >> \/ Effect(w)
  /\ Advances(w)

\* Until a task is cancelled, workers in the try block have different jobs.
LEMMA OneWorkerPerJob ==
  ASSUME LockInv, ~Reopened, NEW w \in Workers, NEW v \in Workers, w # v,
         pc[w] \in Try, pc[v] \in Try
  PROVE  Job(w) # Job(v)
BY DEF LockInv, MutualExclusion, Reopened, Reopens

LEMMA ReopenedStays == [Next]_vars /\ Reopened => Reopened'
BY HistoryGrows DEF Reopened

\* What an effect does to the key of a job and to what was published for it.
LEMMA EffectOnJob ==
  ASSUME TypeInv, LedgerInv, ~Reopened, NEW w \in Workers, NEW j \in Jobs,
         UNCHANGED << lock, completed, failed >> \/ Effect(w)
  PROVE  /\ pc[w] \in Try /\ j # Job(w) => lock'[j] = lock[j] /\ completed'[j] = completed[j]
         /\ pc[w] \notin Try => completed'[j] = completed[j]
         /\ pc[w] \notin Try /\ lock[j] # "none" => lock'[j] = lock[j]
         /\ completed[j] # 0 => completed'[j] # 0
         /\ lock'[j] = "none" => completed'[j] = 0
<1>1. /\ lock \in [Jobs -> {"none", "in_progress", "completed"}]
      /\ completed \in [Jobs -> Nat] /\ failed \in [Jobs -> Nat]
      /\ pc[w] \in Handling => Job(w) \in Jobs
  BY DEF TypeInv, TypeOK, ServiceTypeOK, AtOK
<1>2. /\ pc[w] # "release"
      /\ \A k \in Jobs : lock[k] = "none" => completed[k] = 0
      /\ pc[w] \in InReview => lock[Job(w)] = "in_progress" /\ completed[Job(w)] = 0
  BY DEF LedgerInv
<1>3. CASE UNCHANGED << lock, completed, failed >>
  BY <1>2, <1>3
<1>4. CASE pc[w] = "start" /\ SetInProgress(Job(w))
  BY <1>1, <1>2, <1>4 DEF SetInProgress, Acquired, Try
<1>5. CASE pc[w] = "publishCompleted" /\ SendCompleted(Job(w))
  BY <1>1, <1>2, <1>5 DEF SendCompleted, Try, Handling, InReview
<1>6. CASE pc[w] = "publishFailed" /\ SendFailed(Job(w))
  BY <1>1, <1>2, <1>6 DEF SendFailed, Try
<1>7. CASE pc[w] = "mark" /\ SetCompleted(Job(w))
  BY <1>1, <1>2, <1>7 DEF SetCompleted, Try
<1>8. CASE pc[w] \in {"unlock", "release"} /\ DeleteLock(Job(w))
  BY <1>1, <1>2, <1>8 DEF DeleteLock, Try, Handling, InReview
<1>9. CASE pc[w] = "commit" /\ CommitOffset(w)
  BY <1>1, <1>2, <1>9 DEF CommitOffset, Try
<1>10. QED
  BY <1>3, <1>4, <1>5, <1>6, <1>7, <1>8, <1>9 DEF Effect

\* Such a step keeps the invariant: no other worker reviews the job it touches.
LEMMA LedgerStepKeepsLedgerInv ==
  ASSUME TypeInv, LockInv, LedgerInv, ~Reopened, NEW w \in Workers, LedgerStep(w)
  PROVE  LedgerInv'
<1>1. \A v \in Workers : at'[v] = at[v] => Job(v)' = Job(v)
  BY DEF LedgerStep, Job
<1>2. \A v \in Workers : pc[v] \in Handling => Job(v) \in Jobs
  BY DEF TypeInv, AtOK
<1>3. \A v \in Workers : pc'[v] # "release"
  BY DEF LedgerStep, Advances, LedgerInv
<1>4. \A j \in Jobs : lock'[j] = "none" => completed'[j] = 0
  BY EffectOnJob DEF LedgerStep
<1>5. ASSUME NEW v \in Workers \ {w}
      PROVE  /\ pc'[v] \in InReview => lock'[Job(v)'] = "in_progress" /\ completed'[Job(v)'] = 0
             /\ pc'[v] = "mark" => completed'[Job(v)'] # 0
  <2>1. pc'[v] = pc[v] /\ Job(v)' = Job(v)
    BY <1>1, <1>5 DEF LedgerStep
  <2>2. pc[v] \in InReview => lock[Job(v)] = "in_progress" /\ completed[Job(v)] = 0
    BY <1>5 DEF LedgerInv
  <2>3. pc[v] = "mark" => completed[Job(v)] # 0
    BY <1>5 DEF LedgerInv
  <2>4. pc[v] \in InReview \cup {"mark"} => pc[v] \in Try /\ Job(v) \in Jobs
    BY <1>2, <1>5 DEF InReview, Try, Handling
  <2>5. pc[v] \in Try /\ pc[w] \in Try => Job(v) # Job(w)
    BY <1>5, OneWorkerPerJob
  <2>6. CASE pc[v] \in InReview
    <3>1. lock'[Job(v)] = lock[Job(v)] /\ completed'[Job(v)] = completed[Job(v)]
      BY <2>2, <2>4, <2>5, <2>6, EffectOnJob DEF LedgerStep
    <3>2. QED  BY <2>1, <2>2, <2>6, <3>1 DEF InReview
  <2>7. CASE pc[v] = "mark"
    <3>1. completed'[Job(v)] # 0
      BY <2>3, <2>4, <2>7, EffectOnJob DEF LedgerStep
    <3>2. QED  BY <2>1, <2>7, <3>1 DEF InReview
  <2>8. QED  BY <2>1, <2>6, <2>7
<1>6. pc'[w] \in InReview => lock'[Job(w)'] = "in_progress" /\ completed'[Job(w)'] = 0
  <2>1. /\ pc[w] \in InReview => lock[Job(w)] = "in_progress" /\ completed[Job(w)] = 0
        /\ \A j \in Jobs : lock[j] = "none" => completed[j] = 0
    BY DEF LedgerInv
  <2>2. lock \in [Jobs -> {"none", "in_progress", "completed"}]
    BY DEF TypeInv, TypeOK, ServiceTypeOK
  <2>3. ASSUME pc'[w] \in InReview  PROVE Job(w)' = Job(w)
    BY <1>1, <2>3 DEF LedgerStep, Advances
  <2>4. QED
    BY <1>2, <2>1, <2>2, <2>3 DEF LedgerStep, Advances, SetInProgress, Acquired, Handling
<1>7. pc'[w] = "mark" => completed'[Job(w)'] # 0
  <2>1. ASSUME pc'[w] = "mark"  PROVE completed'[Job(w)'] # 0
    <3>1. Job(w)' = Job(w) /\ Job(w) \in Jobs /\ completed \in [Jobs -> Nat]
      BY <1>1, <1>2, <2>1
         DEF LedgerStep, Advances, Handling, Try, TypeInv, TypeOK, ServiceTypeOK
    <3>2. CASE pc[w] = "mark" /\ UNCHANGED completed
      BY <3>1, <3>2 DEF LedgerInv
    <3>3. CASE pc[w] = "publishCompleted" /\ SendCompleted(Job(w))
      <4>1. completed'[Job(w)] = completed[Job(w)] + 1 /\ completed[Job(w)] \in Nat
        BY <3>1, <3>3 DEF SendCompleted
      <4>2. QED  BY <3>1, <4>1
    <3>4. QED  BY <2>1, <3>2, <3>3 DEF LedgerStep, Advances
  <2>2. QED  BY <2>1
<1>8. QED  BY <1>3, <1>4, <1>5, <1>6, <1>7 DEF LedgerInv

-----------------------------------------------------------------------------
(* Every step of a worker is such a step, unless it is the first            *)
(* cancellation.                                                            *)

LEMMA WorkerLedgerStep ==
  ASSUME TypeInv, LockInv, LedgerInv, ~Reopened', NEW w \in Workers, Handle(w) \/ Disturb(w)
  PROVE  LedgerStep(w)
<1>1. WorkerTypeOK /\ GroupTypeOK /\ settled \subseteq Nat
  BY DEF TypeInv, TypeOK
<1>2. ~Reopened /\ ~stopping[w] /\ pc[w] # "release"
  <2>1. ~Reopened
    BY ReopenedStays DEF Next
  <2>2. QED  BY <2>1 DEF LockInv, LedgerInv, Reopened, Reopens
<1>3. ~Fault("cancel") /\ ~Cancel(w) /\ ~Release(w) /\ ~Recancel(w)
  BY <1>2 DEF Fault, Cancel, Release, Recancel, Reopened, Reopens
<1>4. UNCHANGED service => UNCHANGED << lock, completed, failed >>
  BY DEF service
<1>5. CASE CheckSuperseded(w) \/ CheckFails(w)
  <2>1. UNCHANGED << lock, completed, failed >> /\ log' = log
    BY <1>4, <1>5 DEF CheckSuperseded, CheckFails, topic
  <2>2. Moves(w, "commit") \/ Moves(w, "start")
    BY <1>1, <1>5, GotoMoves, ReturnMoves DEF CheckSuperseded, CheckFails, Stages, Handling
  <2>3. QED  BY <2>1, <2>2 DEF LedgerStep, Advances, Moves, InReview
<1>6. CASE TryStart(w)
  <2>1. log' = log /\ pc[w] = "start" /\ SetInProgress(Job(w)) /\ Effect(w)
    BY <1>6 DEF TryStart, topic, Effect
  <2>2. CASE Acquired(Job(w)) /\ Goto(w, "run")
    BY <1>1, <2>1, <2>2, GotoMoves
       DEF LedgerStep, Advances, Moves, Acquired, Stages, Handling, Try
  <2>3. CASE ~Acquired(Job(w)) /\ Return(w)
    BY <1>1, <2>1, <2>3, ReturnMoves DEF LedgerStep, Advances, Moves, InReview
  <2>4. QED  BY <1>6, <2>2, <2>3 DEF TryStart
<1>7. CASE RunPipeline(w) \/ SaveFailed(w)
  <2>1. UNCHANGED << lock, completed, failed >> /\ log' = log /\ pc[w] \in InReview
    BY <1>4, <1>7 DEF RunPipeline, SaveFailed, topic, InReview
  <2>2. /\ at' = at
        /\ Moves(w, "publishCompleted") \/ Moves(w, "publishFailed") \/ Moves(w, "unlock")
    BY <1>1, <1>7, GotoMoves DEF RunPipeline, SaveFailed, Stages, Handling, Try
  <2>3. QED  BY <2>1, <2>2 DEF LedgerStep, Advances, Moves
<1>8. CASE PublishCompleted(w)
  <2>1. log' = log /\ pc[w] = "publishCompleted" /\ SendCompleted(Job(w)) /\ Effect(w)
    BY <1>8 DEF PublishCompleted, topic, Effect
  <2>2. at' = at /\ Moves(w, "mark")
    BY <1>1, <1>8, GotoMoves DEF PublishCompleted, Stages, Handling, Try
  <2>3. QED  BY <2>1, <2>2 DEF LedgerStep, Advances, Moves, InReview
<1>9. CASE PublishFailed(w)
  <2>1. log' = log /\ pc[w] = "publishFailed" /\ SendFailed(Job(w)) /\ Effect(w)
    BY <1>9 DEF PublishFailed, topic, Effect
  <2>2. at' = at /\ (Moves(w, "saveFailed") \/ Moves(w, "unlock"))
    BY <1>1, <1>9, GotoMoves DEF PublishFailed, Stages, Handling, Try
  <2>3. UNCHANGED << lock, completed >> /\ pc[w] \in InReview
    BY <2>1 DEF SendFailed, InReview
  <2>4. QED  BY <2>1, <2>2, <2>3 DEF LedgerStep, Advances, Moves
<1>10. CASE MarkCompleted(w)
  <2>1. log' = log /\ Effect(w)
    BY <1>10 DEF MarkCompleted, topic, Effect
  <2>2. Moves(w, "saveCompleted") \/ Moves(w, "commit")
    BY <1>1, <1>10, GotoMoves, ReturnMoves DEF MarkCompleted, Stages, Handling, Try
  <2>3. QED  BY <2>1, <2>2 DEF LedgerStep, Advances, Moves, InReview
<1>11. CASE MarkFailed(w)
  <2>1. log' = log /\ Effect(w)
    BY <1>11 DEF MarkFailed, topic, Effect
  <2>2. Moves(w, "commit")
    BY <1>1, <1>11, ReturnMoves DEF MarkFailed
  <2>3. QED  BY <2>1, <2>2 DEF LedgerStep, Advances, Moves, InReview
<1>12. CASE SaveCompleted(w) \/ Kill(w)
  <2>1. UNCHANGED << lock, completed, failed >> /\ log' = log
    BY <1>4, <1>12 DEF SaveCompleted, Kill, topic
  <2>2. Moves(w, "commit") \/ Moves(w, "down")
    BY <1>1, <1>12, ReturnMoves, StopMoves DEF SaveCompleted, Kill
  <2>3. QED  BY <2>1, <2>2 DEF LedgerStep, Advances, Moves, InReview
<1>13. CASE Commit(w) \/ Resume(w)
  <2>1. UNCHANGED << lock, completed, failed >> /\ log' = log
    BY <1>4, <1>13 DEF Commit, CommitOffset, Resume, topic
  <2>2. Moves(w, "fetch") \/ Moves(w, "down")
    BY <1>1, <1>13, LeaveMoves, StopMoves DEF Commit, Resume, Stages
  <2>3. QED  BY <2>1, <2>2 DEF LedgerStep, Advances, Moves, InReview
<1>14. CASE Raise(w)
  <2>1. log' = log /\ (UNCHANGED << lock, completed, failed >> \/ Effect(w))
    BY <1>4, <1>14 DEF Raise, Interrupted, topic
  <2>2. Moves(w, "backoff")
    BY <1>1, <1>14, LeaveMoves DEF Raise, Stages
  <2>3. QED  BY <2>1, <2>2 DEF LedgerStep, Advances, Moves, InReview
<1>15. CASE Fetch(w) \/ Restart(w)
  <2>1. UNCHANGED << lock, completed, failed >> /\ log' = log
    BY <1>4, <1>15 DEF Fetch, Restart, topic
  <2>2. /\ pc'[w] \in {"commit", "check", "start", "fetch"}
        /\ \A v \in Workers \ {w} : pc'[v] = pc[v] /\ at'[v] = at[v]
    BY <1>1, <1>15 DEF Fetch, Restart, WorkerTypeOK
  <2>3. QED  BY <2>1, <2>2 DEF LedgerStep, Advances, InReview
<1>16. CASE BeginShutdown(w)
  BY <1>3, <1>16 DEF BeginShutdown
<1>17. CASE Assign(w) \/ Rebalance(w)
  <2>1. UNCHANGED << lock, completed, failed, pc, at >> /\ log' = log
    BY <1>4, <1>17 DEF Assign, Rebalance, AssignTo, topic
  <2>2. QED  BY <1>2, <2>1 DEF LedgerStep, Advances
<1>18. QED
  BY <1>3, <1>5, <1>6, <1>7, <1>8, <1>9, <1>10, <1>11, <1>12, <1>13, <1>14, <1>15, <1>16, <1>17
     DEF Handle, Disturb

-----------------------------------------------------------------------------
(* The invariant, and each step seen as a step of the ledger. *)

LEMMA LedgerInvStep == TypeInv /\ LockInv /\ LedgerInv /\ [Next]_vars => LedgerInv'
<1> SUFFICES ASSUME TypeInv, LockInv, LedgerInv, [Next]_vars PROVE LedgerInv'
  OBVIOUS
<1>0. CASE Reopened'
  BY <1>0 DEF LedgerInv
<1> SUFFICES ASSUME ~Reopened'  PROVE LedgerInv'
  BY <1>0
<1>1. ~Reopened
  BY ReopenedStays
<1>2. ASSUME NEW w \in Workers, Handle(w) \/ Disturb(w)  PROVE LedgerInv'
  BY <1>1, <1>2, WorkerLedgerStep, LedgerStepKeepsLedgerInv
<1>3. ASSUME UNCHANGED << lock, completed, pc >>,
             \A w \in Workers : pc[w] \in Handling => Job(w)' = Job(w)
      PROVE  LedgerInv'
  BY <1>1, <1>3 DEF LedgerInv, InReview, Handling, Try
<1>4. ASSUME NEW m \in Jobs \cup {Invalid}, Request(m)  PROVE LedgerInv'
  <2>1. \A w \in Workers : pc[w] \in Handling => Job(w)' = Job(w)
    BY <1>4 DEF Request, TypeInv, TypeOK, TopicTypeOK, AtOK, Job
  <2>2. QED  BY <1>3, <1>4, <2>1 DEF Request, service
<1>5. ASSUME UNCHANGED << log, lock, completed, pc, at >>  PROVE LedgerInv'
  BY <1>3, <1>5 DEF Job
<1>6. ASSUME NEW j \in Jobs, ExpireLock(j) \/ ExpireHeads(PrOf[j])  PROVE FALSE
  BY <1>6 DEF ExpireLock, ExpireHeads, Fault, Reopened, Reopens
<1>7. CASE Track \/ TrackUncommitted
  BY <1>5, <1>7 DEF Track, TrackUncommitted, service
<1>8. CASE UNCHANGED vars
  BY <1>5, <1>8 DEF vars, topic, service
<1>9. QED
  BY <1>2, <1>4, <1>6, <1>7, <1>8 DEF Next, Environment

\* The effect of a call is a step of the ledger: the key is taken when nothing
\* was published, and only its holder publishes or gives up.
LEMMA EffectIsLedgerStep ==
  ASSUME TypeInv, LedgerInv, ~Reopened, NEW w \in Workers,
         UNCHANGED << lock, completed, failed >> \/ Effect(w)
  PROVE  [Ledger!Next]_(Ledger!vars)
<1>1. /\ lock \in [Jobs -> {"none", "in_progress", "completed"}]
      /\ completed \in [Jobs -> Nat] /\ failed \in [Jobs -> Nat]
      /\ pc[w] \in Handling => Job(w) \in Jobs
  BY DEF TypeInv, TypeOK, ServiceTypeOK, AtOK
<1>2. /\ pc[w] # "release"
      /\ \A j \in Jobs : lock[j] = "none" => completed[j] = 0
      /\ pc[w] \in InReview => lock[Job(w)] = "in_progress" /\ completed[Job(w)] = 0
      /\ pc[w] = "mark" => completed[Job(w)] # 0
  BY DEF LedgerInv
<1>3. ASSUME NEW j \in Jobs,
             Ledger!Start(j) \/ Ledger!Answer(j) \/ Ledger!ReportFailure(j) \/ Ledger!GiveUp(j)
      PROVE  Ledger!Next
  BY <1>3 DEF Ledger!Next
<1>a. CASE UNCHANGED << lock, completed, failed >>
  BY <1>a DEF Ledger!vars
<1>4. CASE pc[w] = "start" /\ SetInProgress(Job(w))
  <2>1. PICK j \in Jobs : j = Job(w)
    BY <1>1, <1>4 DEF Handling
  <2>2. CASE lock[j] = "none"
    <3>1. /\ lock' = [lock EXCEPT ![j] = "in_progress"]
          /\ UNCHANGED << completed, failed >> /\ completed[j] = 0
      BY <1>2, <1>4, <2>1, <2>2 DEF SetInProgress, Acquired
    <3>2. Ledger!Start(j)
      BY <1>1, <2>2, <3>1 DEF Ledger!Start
    <3>3. QED  BY <1>3, <3>2
  <2>3. CASE lock[j] # "none"
    BY <1>1, <1>4, <2>1, <2>3 DEF Ledger!vars, SetInProgress, Acquired
  <2>4. QED  BY <2>2, <2>3
<1>5. CASE pc[w] = "publishCompleted" /\ SendCompleted(Job(w))
  <2>1. PICK j \in Jobs : j = Job(w)
    BY <1>1, <1>5 DEF Handling, Try
  <2>2. lock[j] = "in_progress" /\ completed[j] = 0
    BY <1>2, <1>5, <2>1 DEF InReview
  <2>3. completed' = [completed EXCEPT ![j] = 1] /\ UNCHANGED << lock, failed >>
    BY <1>1, <1>5, <2>1, <2>2 DEF SendCompleted
  <2>4. Ledger!Answer(j)
    <3>1. completed'[j] # 0 /\ \A k \in Jobs \ {j} : completed'[k] = completed[k]
      BY <1>1, <2>3
    <3>2. \A k \in Jobs : (lock'[k] = "in_progress" /\ completed'[k] = 0)
            = IF k = j THEN FALSE ELSE lock[k] = "in_progress" /\ completed[k] = 0
      BY <2>3, <3>1
    <3>3. QED  BY <2>2, <2>3, <3>2 DEF Ledger!Answer
  <2>5. QED  BY <1>3, <2>4
<1>6. CASE pc[w] = "publishFailed" /\ SendFailed(Job(w))
  <2>1. PICK j \in Jobs : j = Job(w)
    BY <1>1, <1>6 DEF Handling, Try
  <2>2. lock[j] = "in_progress" /\ completed[j] = 0
    BY <1>2, <1>6, <2>1 DEF InReview
  <2>3. failed' = [failed EXCEPT ![j] = @ + 1] /\ UNCHANGED << lock, completed >>
    BY <1>6, <2>1 DEF SendFailed
  <2>4. Ledger!ReportFailure(j)
    BY <2>2, <2>3 DEF Ledger!ReportFailure
  <2>5. QED  BY <1>3, <2>4
<1>7. CASE pc[w] = "mark" /\ SetCompleted(Job(w))
  <2>1. Job(w) \in Jobs /\ completed[Job(w)] # 0
    BY <1>1, <1>2, <1>7 DEF Handling, Try
  <2>2. QED
    BY <1>1, <1>7, <2>1 DEF Ledger!vars, SetCompleted
<1>8. CASE pc[w] = "unlock" /\ DeleteLock(Job(w))
  <2>1. PICK j \in Jobs : j = Job(w)
    BY <1>1, <1>8 DEF Handling, Try
  <2>2. lock[j] = "in_progress" /\ completed[j] = 0
    BY <1>2, <1>8, <2>1 DEF InReview
  <2>3. lock' = [lock EXCEPT ![j] = "none"] /\ UNCHANGED << completed, failed >>
    BY <1>8, <2>1 DEF DeleteLock
  <2>4. Ledger!GiveUp(j)
    BY <1>1, <2>2, <2>3 DEF Ledger!GiveUp
  <2>5. QED  BY <1>3, <2>4
<1>9. CASE pc[w] = "commit" /\ CommitOffset(w)
  BY <1>9 DEF CommitOffset, Ledger!vars
<1>10. QED
  BY <1>2, <1>a, <1>4, <1>5, <1>6, <1>7, <1>8, <1>9 DEF Effect

LEMMA StepIsLedgerStep ==
  ASSUME TypeInv, LockInv, LedgerInv, [Next]_vars, ~Reopened'
  PROVE  [Ledger!Next]_(Ledger!vars)
<1>1. ~Reopened
  BY ReopenedStays
<1>2. ASSUME NEW w \in Workers, Handle(w) \/ Disturb(w)  PROVE [Ledger!Next]_(Ledger!vars)
  BY <1>1, <1>2, WorkerLedgerStep, EffectIsLedgerStep DEF LedgerStep
<1>3. ASSUME UNCHANGED << lock, completed, failed >>  PROVE [Ledger!Next]_(Ledger!vars)
  BY <1>3 DEF Ledger!vars
<1>4. ASSUME NEW j \in Jobs, ExpireLock(j) \/ ExpireHeads(PrOf[j])  PROVE FALSE
  BY <1>4 DEF ExpireLock, ExpireHeads, Fault, Reopened, Reopens
<1>5. CASE Track \/ TrackUncommitted \/ \E m \in Jobs \cup {Invalid} : Request(m)
  BY <1>3, <1>5 DEF Track, TrackUncommitted, Request, service
<1>6. CASE UNCHANGED vars
  BY <1>3, <1>6 DEF vars, service
<1>7. QED
  BY <1>2, <1>4, <1>5, <1>6 DEF Next, Environment

\* Until a task is cancelled or a key expires, the delivery protocol keeps the
\* promises of the ledger: whatever raises, crashes, moves or takes effect late, a
\* job is reviewed by one worker at a time, and a published review is neither
\* published again nor followed by a failure.
THEOREM Implements == Spec => ImplementsLedger
<1>1. Init => LockInv /\ LedgerInv
  BY DEF Init, LockInv, MutualExclusion, Try, LedgerInv, InReview
<1>2. Init => Ledger!Init
  BY DEF Init, Ledger!Init
<1>3. TypeInv /\ LockInv /\ LedgerInv /\ [Next]_vars => LockInv' /\ LedgerInv'
  BY LockInvStep, LedgerInvStep
<1>4. TypeInv /\ LockInv /\ LedgerInv /\ [Next]_vars =>
        (suffered' \cap Reopens = {} => [Ledger!Next]_(Ledger!vars))
  BY StepIsLedgerStep DEF Reopened
<1>5. QED
  BY <1>1, <1>2, <1>3, <1>4, TypeInvariant, PTL DEF Spec, ImplementsLedger
================================================================================
