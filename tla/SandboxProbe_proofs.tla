-------------------------- MODULE SandboxProbe_proofs --------------------------
(***************************************************************************)
(* Proofs about SandboxProbe for any consumers, partitions, jobs, names    *)
(* and faults: the counter in Redis bounds the runs of a job for as long   *)
(* as it lives although its INCR may happen without an answer, state has   *)
(* its type, and Docker keeps nothing of a run that is over.               *)
(***************************************************************************)
EXTENDS SandboxProbe, TLAPS

\* A run was counted before it was started.  The counter may count runs that never
\* began.
AttemptsInv ==
  /\ attempts \in [Jobs -> Nat]
  /\ runs \in [Jobs -> Nat]
  /\ \A j \in Jobs : runs[j] <= attempts[j] /\ runs[j] <= MaxAttempts

\* An INCR whose answer did not arrive.
CountedUnanswered ==
  /\ UNCHANGED runs
  /\ \/ UNCHANGED attempts
     \/ \E j : attempts' = [attempts EXCEPT ![j] = @ + 1]

LEMMA InitAttempts == Init => AttemptsInv
BY SandboxAssumption DEF Init, AttemptsInv

\* The one action that starts runs.
LEMMA ExecuteKeepsAttemptsInv ==
  ASSUME AttemptsInv, NEW c \in Consumers, Execute(c)
  PROVE  AttemptsInv'
<1>1. PICK j : /\ attempts' = [attempts EXCEPT ![j] = @ + 1]
               /\ \/ attempts[j] < MaxAttempts /\ runs' = [runs EXCEPT ![j] = @ + 1]
                  \/ UNCHANGED runs
  BY DEF Execute, Admitted
<1>2. MaxAttempts \in Nat
  BY SandboxAssumption
<1>3. CASE j \notin Jobs
  <2>1. attempts' = attempts /\ runs' = runs
    BY <1>1, <1>3 DEF AttemptsInv
  <2>. QED
    BY <2>1 DEF AttemptsInv
<1>4. CASE j \in Jobs
  BY <1>1, <1>2, <1>4 DEF AttemptsInv
<1>. QED
  BY <1>3, <1>4

LEMMA CountedKeepsAttemptsInv ==
  ASSUME AttemptsInv, CountedUnanswered
  PROVE  AttemptsInv'
<1>1. CASE UNCHANGED << attempts, runs >>
  BY <1>1 DEF AttemptsInv
<1>2. ASSUME NEW j, attempts' = [attempts EXCEPT ![j] = @ + 1], UNCHANGED runs
      PROVE  AttemptsInv'
  <2>1. CASE j \in Jobs
    BY <1>2, <2>1 DEF AttemptsInv
  <2>2. CASE j \notin Jobs
    <3>1. attempts' = attempts
      BY <1>2, <2>2 DEF AttemptsInv
    <3>. QED
      BY <1>2, <3>1 DEF AttemptsInv
  <2>. QED
    BY <2>1, <2>2
<1>. QED
  BY <1>1, <1>2 DEF CountedUnanswered

LEMMA ExpiryKeepsAttemptsInv ==
  ASSUME AttemptsInv, NEW k \in Jobs, ExpireAttempts(k)
  PROVE  AttemptsInv'
<1>1. MaxAttempts \in Nat
  BY SandboxAssumption
<1>. QED  BY <1>1 DEF ExpireAttempts, AttemptsInv

(***************************************************************************)
(* The other steps do not start a run.                                     *)
(***************************************************************************)
LEMMA HandleCounts ==
  ASSUME NEW c \in Consumers, Handle(c), ~Execute(c)
  PROVE  CountedUnanswered
BY DEF Handle, Fetch, TryStart, SetTtl, Publish, MarkCompleted, MarkFailed, Commit, Resume,
       redisVars, CountedUnanswered

LEMMA RunCounts ==
  ASSUME NEW c \in Consumers, Run(c)
  PROVE  CountedUnanswered
BY DEF Run, FetchToken, CheckoutRepo, CreateNetworks, StartService, LaunchRun, FinishInstall,
       FinishBuild, FinishInit, StartApp, Signal, Notice, CleanContainers, CleanNetworks,
       Undisturbed, StageFrame, redisVars, CountedUnanswered

\* What a failed question to the app or the mock server passes for.
Unseen(c) == AppUnseen(c) \/ CountUnseen(c) \/ NoticeUnseen(c)

LEMMA DisturbCounts ==
  ASSUME NEW c \in Consumers, Disturb(c)
  PROVE  CountedUnanswered
<1>1. CASE Raise(c) \/ CancelCall(c) \/ Recancel(c)
  <2>1. Unanswered(c) /\ UNCHANGED runs
    BY <1>1 DEF Raise, CancelCall, Recancel
  <2>. QED  BY <2>1 DEF Unanswered, redisVars, CountedUnanswered
<1>2. CASE RunTimesOut(c) \/ StageFails(c) \/ RunRefused(c) \/ JobTimesOut(c) \/ Unseen(c)
  BY <1>2 DEF RunTimesOut, StageFails, RunRefused, JobTimesOut, Unseen, AppUnseen, CountUnseen,
              NoticeUnseen, StageFrame, redisVars, CountedUnanswered
<1>3. CASE CleanupFails(c) \/ CancelRun(c) \/ CancelCleanup(c)
  BY <1>3 DEF CleanupFails, CancelRun, CancelCleanup, redisVars, CountedUnanswered
<1>. QED
  BY <1>1, <1>2, <1>3 DEF Disturb, Unseen

LEMMA WorldCounts ==
  ASSUME \/ LateCreate \/ BeginShutdown \/ Kill \/ Restart
         \/ \E j \in Jobs : Request(j) \/ ExpireLock(j)
  PROVE  CountedUnanswered
BY DEF LateCreate, BeginShutdown, Kill, Restart, Request, ExpireLock, redisVars, CountedUnanswered

LEMMA NextKeepsAttemptsInv ==
  ASSUME AttemptsInv, [Next]_vars
  PROVE  AttemptsInv'
<1>1. ASSUME NEW c \in Consumers, Execute(c)
      PROVE  AttemptsInv'
  BY <1>1, ExecuteKeepsAttemptsInv
<1>2. ASSUME NEW c \in Consumers, Handle(c) \/ Run(c) \/ Disturb(c), ~Execute(c)
      PROVE  AttemptsInv'
  BY <1>2, HandleCounts, RunCounts, DisturbCounts, CountedKeepsAttemptsInv
<1>3. CASE \/ LateCreate \/ BeginShutdown \/ Kill \/ Restart
           \/ \E j \in Jobs : Request(j) \/ ExpireLock(j)
  BY <1>3, WorldCounts, CountedKeepsAttemptsInv
<1>4. CASE \E j \in Jobs : ExpireAttempts(j)
  BY <1>4, ExpiryKeepsAttemptsInv
<1>5. CASE UNCHANGED vars
  BY <1>5, CountedKeepsAttemptsInv DEF vars, redisVars, CountedUnanswered
<1>. QED
  BY <1>1, <1>2, <1>3, <1>4, <1>5 DEF Next

\* For as long as its counter lives, which is a day from its first attempt or, if
\* its EXPIRE never came about, for ever, no job starts more runs than the limit
\* (consumer.py:93-99), however often its requests are delivered, its runs are cut
\* short and its dedup key is deleted or expires.
THEOREM AttemptsAlwaysBounded == Spec => []AttemptsBounded
<1>1. AttemptsInv => AttemptsBounded
  BY DEF AttemptsInv, AttemptsBounded
<1>. QED
  BY <1>1, InitAttempts, NextKeepsAttemptsInv, PTL DEF Spec

-----------------------------------------------------------------------------
(* Types, and where the messages are that consumers handle.                *)

\* The stages at which a consumer has a message.
Placed == Try \cup {"start", "commit"}

\* A consumer reads its own partition, and has a message of it from the fetch to
\* the commit.
PlacesOK ==
  \A c \in Consumers :
    /\ committed[c] <= Len(log[c]) /\ position[c] <= Len(log[c])
    /\ pc[c] \in Placed => position[c] # 0
    /\ \A i \in 1..Len(log[c]) : PartitionOf[log[c][i]] = c

TypeInv == TypeOK /\ PlacesOK

\* What the job of a consumer with a message is.
LEMMA JobTypes ==
  ASSUME TypeInv, NEW c \in Consumers, pc[c] \in Placed
  PROVE  /\ position[c] \in 1..Len(log[c])
         /\ Job(c) \in Jobs /\ PartitionOf[Job(c)] = c /\ Key(c) \in Keys
<1>1. log[c] \in Seq(Jobs) /\ position[c] \in Nat /\ Len(log[c]) \in Nat
  BY DEF TypeInv, TypeOK
<1>2. position[c] # 0 /\ position[c] <= Len(log[c])
  BY DEF TypeInv, PlacesOK
<1>3. position[c] \in 1..Len(log[c])
  BY <1>1, <1>2
<1>4. Job(c) \in Jobs
  BY <1>1, <1>3 DEF Job
<1>5. PartitionOf[Job(c)] = c
  BY <1>3 DEF TypeInv, PlacesOK, Job
<1>6. QED
  BY <1>3, <1>4, <1>5, SandboxAssumption DEF Key

\* What a step of consumer c other than Fetch does: it changes what is its own,
\* and in Docker what has the key of its job.
Mine(c, old, new, kinds) ==
  /\ new \subseteq old \cup ({Key(c)} \X kinds)
  /\ old \subseteq new \cup ({Key(c)} \X kinds)

DockerStep(c) ==
  /\ Mine(c, containers, containers', ContainerKinds)
  /\ Mine(c, networks, networks', NetworkKinds)
  /\ dirs' \subseteq dirs \cup {Key(c)}
  /\ late \subseteq late' /\ Mine(c, late, late', ContainerKinds)
  /\ suspect \subseteq suspect' /\ suspect' \subseteq suspect \cup {Key(c)}
  /\ misread \subseteq misread' /\ misread' \subseteq misread \cup ({Job(c)} \X Readings)
  /\ late' # late => Key(c) \in suspect'

NoDockerStep == UNCHANGED << dockerVars, late, suspect, misread >>

PlaceStep(c) ==
  /\ UNCHANGED << log, position, code, stopping >>
  /\ \/ UNCHANGED committed
     \/ pc[c] \in Placed /\ committed' = [committed EXCEPT ![c] = position[c]]
  /\ pc[c] # "down"
  /\ \E s \in Calls : pc' = [pc EXCEPT ![c] = s] /\ (s \in Placed => pc[c] \in Placed)

RecordStep(c) ==
  /\ UNCHANGED result \/ \E r \in Statuses : result' = [result EXCEPT ![c] = r]
  /\ \/ UNCHANGED initOrder
     \/ \E r \in Statuses \cup {"none"} : initOrder' = [initOrder EXCEPT ![c] = r]
  /\ UNCHANGED leaving \/ leaving' = [leaving EXCEPT ![c] = TRUE]
  /\ \/ UNCHANGED published
     \/ /\ pc[c] = "publish"
        /\ published' = [published EXCEPT ![Job(c)] = @ \cup {result[c]}]
  /\ \/ UNCHANGED lock
     \/ \E v \in {"none", "in_progress", "completed"} : lock' = [lock EXCEPT ![Job(c)] = v]
  /\ UNCHANGED timed \/ (pc[c] \in Placed /\ timed' = timed \cup {Job(c)})
  /\ UNCHANGED abandoned \/ (pc[c] \in Placed /\ abandoned' = abandoned \cup {Job(c)})
  /\ faults' \in {faults, faults + 1}

Step(c) ==
  /\ PlaceStep(c) /\ RecordStep(c)
  /\ \/ NoDockerStep
     \/ pc[c] \in InRunner /\ DockerStep(c)

LEMMA HandlePlaces ==
  ASSUME NEW c \in Consumers, Handle(c), ~Fetch(c)
  PROVE  PlaceStep(c) /\ NoDockerStep
BY DEF Handle, TryStart, Execute, SetTtl, Publish, MarkCompleted, MarkFailed, Commit, Resume, Goto,
       PlaceStep, NoDockerStep, historyVars, kafkaVars, Placed, Calls, Try, InRunner, StageCalls, Cleanup

LEMMA HandleRecords ==
  ASSUME NEW c \in Consumers, Handle(c), ~Fetch(c)
  PROVE  RecordStep(c)
BY DEF Handle, TryStart, Execute, SetTtl, Publish, MarkCompleted, MarkFailed, Commit, Resume, NoFault,
       RecordStep, runVars, redisVars, historyVars, Statuses, Placed, Try

LEMMA CallsEnd ==
  ASSUME NEW c \in Consumers, Raise(c) \/ CancelCall(c) \/ Recancel(c)
  PROVE  Step(c)
<1>1. PlaceStep(c)
  BY DEF Raise, CancelCall, Recancel, Unanswered, Goto, PlaceStep, Placed, Calls, Try, InRunner,
         StageCalls, Cleanup
<1>2. RecordStep(c)
  BY DEF Raise, CancelCall, Recancel, Unanswered, Abandons, RecordStep, runVars, redisVars, Fault,
         NoFault, Placed, Try
<1>3. NoDockerStep
  BY DEF Raise, CancelCall, Recancel, NoDockerStep
<1>. QED  BY <1>1, <1>2, <1>3 DEF Step

LEMMA RunPlaces ==
  ASSUME NEW c \in Consumers, Run(c)
  PROVE  PlaceStep(c) /\ pc[c] \in InRunner
BY DEF Run, FetchToken, CheckoutRepo, CreateNetworks, StartService, LaunchRun, FinishInstall,
       FinishBuild, FinishInit, StartApp, Signal, Notice, CleanContainers, CleanNetworks,
       Undisturbed, StageFrame, Advance, End, RunFailed, Refused, AfterCleanup, Goto, NetworkKinds,
       kafkaVars, PlaceStep, Placed, Calls, Try, InRunner, StageCalls, Cleanup

LEMMA AggregateType ==
  ASSUME NEW init, NEW lifecycle
  PROVE  Aggregate(init, lifecycle) \in Statuses
BY DEF Aggregate, Statuses

LEMMA RunRecords ==
  ASSUME NEW c \in Consumers, Run(c)
  PROVE  RecordStep(c)
<1>1. CASE FetchToken(c) \/ CheckoutRepo(c) \/ CreateNetworks(c) \/ StartService(c)
  BY <1>1 DEF FetchToken, CheckoutRepo, CreateNetworks, StartService, Undisturbed, NoFault,
       StageFrame, Advance, End, redisVars, historyVars, RecordStep, Statuses
<1>2. CASE LaunchRun(c) \/ FinishInstall(c) \/ FinishBuild(c) \/ FinishInit(c)
  BY <1>2 DEF LaunchRun, FinishInstall, FinishBuild, FinishInit, Undisturbed, NoFault,
       StageFrame, Advance, End, RunFailed, Refused, redisVars, historyVars, RecordStep, Statuses
<1>3. CASE StartApp(c) \/ Signal(c) \/ Notice(c)
  <2>1. UNCHANGED initOrder /\ (UNCHANGED result \/ \E r \in Statuses : result' = [result EXCEPT ![c] = r])
    BY <1>3, AggregateType DEF StartApp, Signal, Notice, Advance, End, Statuses
  <2>2. NoFault /\ StageFrame /\ UNCHANGED abandoned
    BY <1>3 DEF StartApp, Signal, Notice, Undisturbed, historyVars
  <2>. QED  BY <2>1, <2>2 DEF NoFault, StageFrame, redisVars, RecordStep
<1>4. CASE CleanContainers(c) \/ CleanNetworks(c)
  BY <1>4 DEF CleanContainers, CleanNetworks, NoFault, redisVars, runVars, historyVars, RecordStep
<1>. QED  BY <1>1, <1>2, <1>3, <1>4 DEF Run

LEMMA RunDocker ==
  ASSUME TypeInv, NEW c \in Consumers, Run(c)
  PROVE  DockerStep(c)
<1>1. CASE FetchToken(c) \/ Signal(c) \/ Notice(c)
  BY <1>1 DEF FetchToken, Signal, Notice, Undisturbed, dockerVars, historyVars, DockerStep, Mine
<1>2. CASE CheckoutRepo(c)
  BY <1>2 DEF CheckoutRepo, Checkout, Undisturbed, dockerVars, historyVars, DockerStep, Mine
<1>3. CASE CreateNetworks(c)
  BY <1>3 DEF CreateNetworks, CreateNetwork, Undisturbed, dockerVars, historyVars, DockerStep, Mine
<1>4. CASE StartService(c)
  BY <1>4 DEF StartService, Creates, Create, ContainerKinds, Undisturbed, dockerVars, historyVars,
              DockerStep, Mine
<1>5. CASE LaunchRun(c)
  BY <1>5 DEF LaunchRun, Refused, Misread, Readings, Create, ContainerKinds, dockerVars, historyVars,
              DockerStep, Mine
<1>6. CASE FinishInstall(c) \/ FinishBuild(c) \/ FinishInit(c)
  BY <1>6 DEF FinishInstall, FinishBuild, FinishInit, Remove, ContainerKinds, Undisturbed,
              historyVars, DockerStep, Mine
<1>7. CASE StartApp(c)
  BY <1>7 DEF StartApp, Create, ContainerKinds, Undisturbed, dockerVars, historyVars, DockerStep, Mine
<1>8. CASE CleanContainers(c)
  <2>1. \A x \in containers : x \in containers' \/ x \in {Key(c)} \X ContainerKinds
    BY <1>8 DEF CleanContainers, RemoveContainers, TypeInv, TypeOK, DockerTypeOK
  <2>. QED
    BY <1>8, <2>1 DEF CleanContainers, RemoveContainers, historyVars, DockerStep, Mine
<1>9. CASE CleanNetworks(c)
  <2>1. \A x \in networks : x \in networks' \/ x \in {Key(c)} \X NetworkKinds
    BY <1>9 DEF CleanNetworks, TypeInv, TypeOK, DockerTypeOK
  <2>. QED
    BY <1>9, <2>1 DEF CleanNetworks, historyVars, DockerStep, Mine
<1>. QED
  BY <1>1, <1>2, <1>3, <1>4, <1>5, <1>6, <1>7, <1>8, <1>9 DEF Run

LEMMA DisturbedPlaces ==
  ASSUME NEW c \in Consumers, Disturb(c), ~(Raise(c) \/ CancelCall(c) \/ Recancel(c))
  PROVE  PlaceStep(c) /\ pc[c] \in InRunner
<1>1. CASE RunTimesOut(c)
  BY <1>1 DEF RunTimesOut, StageFrame, End, RunFailed, Goto,
       kafkaVars, PlaceStep, Placed, Calls, Try, InRunner, StageCalls, Cleanup
<1>2. CASE StageFails(c) \/ RunRefused(c) \/ JobTimesOut(c)
  BY <1>2 DEF StageFails, RunRefused, JobTimesOut, StageFrame, End, RunFailed,
       Refused, Goto, kafkaVars, PlaceStep, Placed, Calls, Try, InRunner, StageCalls, Cleanup
<1>4. CASE Unseen(c)
  BY <1>4 DEF Unseen, AppUnseen, CountUnseen, NoticeUnseen, StageFrame, Advance, End, Goto,
       kafkaVars, PlaceStep, Placed, Calls, Try, InRunner, StageCalls, Cleanup
<1>3. CASE CleanupFails(c) \/ CancelRun(c) \/ CancelCleanup(c)
  BY <1>3 DEF CleanupFails, CancelRun, CancelCleanup, AfterCleanup, Goto,
       kafkaVars, PlaceStep, Placed, Calls, Try, InRunner, StageCalls, Cleanup
<1>. QED  BY <1>1, <1>2, <1>3, <1>4 DEF Disturb, Unseen

LEMMA DisturbedRecords ==
  ASSUME NEW c \in Consumers, Disturb(c), ~(Raise(c) \/ CancelCall(c) \/ Recancel(c))
  PROVE  RecordStep(c)
<1>1. CASE RunTimesOut(c) \/ StageFails(c) \/ RunRefused(c) \/ JobTimesOut(c)
  <2>1. UNCHANGED initOrder \/ \E r \in Statuses \cup {"none"} : initOrder' = [initOrder EXCEPT ![c] = r]
    BY <1>1 DEF RunTimesOut, StageFails, RunRefused, JobTimesOut, End, RunFailed, Refused, Statuses
  <2>2. UNCHANGED result \/ \E r \in Statuses : result' = [result EXCEPT ![c] = r]
    BY <1>1 DEF RunTimesOut, StageFails, RunRefused, JobTimesOut, End, RunFailed, Refused, Statuses
  <2>3. StageFrame /\ faults' = faults + 1 /\ UNCHANGED abandoned
    BY <1>1 DEF RunTimesOut, StageFails, RunRefused, Refused, JobTimesOut, CutShort, Fault, historyVars
  <2>. QED  BY <2>1, <2>2, <2>3 DEF StageFrame, redisVars, RecordStep
<1>3. CASE Unseen(c)
  <2>1. UNCHANGED initOrder /\ (UNCHANGED result \/ \E r \in Statuses : result' = [result EXCEPT ![c] = r])
    BY <1>3, AggregateType DEF Unseen, AppUnseen, CountUnseen, NoticeUnseen, Advance, End
  <2>2. StageFrame /\ faults' = faults + 1 /\ UNCHANGED abandoned
    BY <1>3 DEF Unseen, AppUnseen, CountUnseen, NoticeUnseen, Fault
  <2>. QED  BY <2>1, <2>2 DEF StageFrame, redisVars, RecordStep
<1>2. CASE CleanupFails(c) \/ CancelRun(c) \/ CancelCleanup(c)
  BY <1>2 DEF CleanupFails, CancelRun, CancelCleanup, CutShort, Fault, NoFault, redisVars, runVars,
              RecordStep
<1>. QED  BY <1>1, <1>2, <1>3 DEF Disturb, Unseen

LEMMA CutShortDocker ==
  ASSUME NEW c \in Consumers, CutShort(c)
  PROVE  DockerStep(c)
<1>1. \A s \in DOMAIN Creates : Creates[s] \in ContainerKinds
  BY DEF Creates, ContainerKinds
<1>2. (IF pc[c] \in DOMAIN Creates THEN Creates[pc[c]] ELSE "none") \in ContainerKinds \cup {"none"}
  BY <1>1
<1>. QED
  BY <1>2 DEF CutShort, Checkout, CreateNetwork, Create, dockerVars, DockerStep, Mine

LEMMA DisturbedDocker ==
  ASSUME NEW c \in Consumers, Disturb(c), ~(Raise(c) \/ CancelCall(c) \/ Recancel(c))
  PROVE  DockerStep(c)
<1>1. CASE RunTimesOut(c)
  <2>1. Mine(c, containers, containers', ContainerKinds) /\ UNCHANGED << networks, dirs, misread >>
    BY <1>1 DEF RunTimesOut, Mine, ContainerKinds, historyVars
  <2>2. \/ UNCHANGED << late, suspect >>
        \/ \E kind \in ContainerKinds : /\ late' = late \cup {<< Key(c), kind >>}
                                        /\ suspect' = suspect \cup {Key(c)}
    BY <1>1 DEF RunTimesOut, Creates, ContainerKinds, historyVars
  <2>. QED  BY <2>1, <2>2 DEF DockerStep, Mine
<1>2. CASE StageFails(c) \/ JobTimesOut(c) \/ CancelRun(c)
  BY <1>2, CutShortDocker DEF StageFails, JobTimesOut, CancelRun
<1>3. CASE RunRefused(c)
  BY <1>3 DEF RunRefused, Refused, Misread, Readings, dockerVars, DockerStep, Mine
<1>4. CASE Unseen(c)
  BY <1>4 DEF Unseen, AppUnseen, CountUnseen, NoticeUnseen, Misread, Readings, Create, ContainerKinds,
              dockerVars, DockerStep, Mine
<1>5. CASE CleanupFails(c) \/ CancelCleanup(c)
  BY <1>5 DEF CleanupFails, CancelCleanup, dockerVars, DockerStep, Mine
<1>. QED  BY <1>1, <1>2, <1>3, <1>4, <1>5 DEF Disturb, Unseen

\* Every step of a consumer but a fetch is of that kind.
LEMMA ConsumerSteps ==
  ASSUME TypeInv, NEW c \in Consumers, Handle(c) \/ Run(c) \/ Disturb(c), ~Fetch(c)
  PROVE  Step(c)
<1>1. CASE Handle(c)
  BY <1>1, HandlePlaces, HandleRecords DEF Step
<1>2. CASE Run(c)
  BY <1>2, RunPlaces, RunRecords, RunDocker DEF Step
<1>3. CASE Raise(c) \/ CancelCall(c) \/ Recancel(c)
  BY <1>3, CallsEnd
<1>4. CASE Disturb(c) /\ ~(Raise(c) \/ CancelCall(c) \/ Recancel(c))
  BY <1>4, DisturbedPlaces, DisturbedRecords, DisturbedDocker DEF Step
<1>. QED  BY <1>1, <1>2, <1>3, <1>4

LEMMA StepKeepsPlaces ==
  ASSUME TypeInv, NEW c \in Consumers, PlaceStep(c)
  PROVE  /\ PlacesOK'
         /\ pc' \in [Consumers -> Calls] /\ committed' \in [Consumers -> Nat]
         /\ \A d \in Consumers \ {c} : pc'[d] = pc[d]
<1>1. pc \in [Consumers -> Calls] /\ committed \in [Consumers -> Nat] /\ position \in [Consumers -> Nat]
  BY DEF TypeInv, TypeOK
<1>2. PICK s \in Calls : pc' = [pc EXCEPT ![c] = s] /\ (s \in Placed => pc[c] \in Placed)
  BY DEF PlaceStep
<1>3. \A d \in Consumers : committed'[d] \in {committed[d], position[d]}
  BY <1>1 DEF PlaceStep
<1>4. committed' \in [Consumers -> Nat]
  BY <1>1 DEF PlaceStep
<1>5. /\ pc' \in [Consumers -> Calls] /\ pc'[c] = s
      /\ \A d \in Consumers \ {c} : pc'[d] = pc[d]
  BY <1>1, <1>2
<1>6. PlacesOK'
  <2>1. UNCHANGED << log, position >> /\ \A d \in Consumers : pc'[d] \in Placed => pc[d] \in Placed
    BY <1>2, <1>5 DEF PlaceStep
  <2>2. QED  BY <1>3, <2>1 DEF TypeInv, PlacesOK
<1>7. QED  BY <1>4, <1>5, <1>6

LEMMA UpdateTypes ==
  ASSUME NEW S, NEW T, NEW f \in [S -> T], NEW x, NEW v \in T
  PROVE  [f EXCEPT ![x] = v] \in [S -> T]
OBVIOUS

LEMMA StepKeepsRecords ==
  ASSUME TypeInv, NEW c \in Consumers, RecordStep(c)
  PROVE  /\ result' \in [Consumers -> Statuses]
         /\ initOrder' \in [Consumers -> Statuses \cup {"none"}]
         /\ leaving' \in [Consumers -> BOOLEAN]
         /\ lock' \in [Jobs -> {"none", "in_progress", "completed"}]
         /\ published' \in [Jobs -> SUBSET Statuses]
         /\ timed' \subseteq Jobs /\ abandoned' \subseteq Jobs
         /\ faults' \in Nat
<1>1. /\ result \in [Consumers -> Statuses]
      /\ initOrder \in [Consumers -> Statuses \cup {"none"}]
      /\ leaving \in [Consumers -> BOOLEAN]
      /\ lock \in [Jobs -> {"none", "in_progress", "completed"}]
      /\ published \in [Jobs -> SUBSET Statuses]
      /\ faults \in Nat
  BY DEF TypeInv, TypeOK
<1>2. result[c] \in Statuses
  BY <1>1
<1>3. published' \in [Jobs -> SUBSET Statuses]
  BY <1>1, <1>2 DEF RecordStep
<1>4. lock' \in [Jobs -> {"none", "in_progress", "completed"}]
  BY <1>1, UpdateTypes, Zenon DEF RecordStep
<1>5. result' \in [Consumers -> Statuses]
  BY <1>1, UpdateTypes, Zenon DEF RecordStep
<1>6. initOrder' \in [Consumers -> Statuses \cup {"none"}]
  BY <1>1, UpdateTypes, Zenon DEF RecordStep
<1>7. faults' \in Nat
  BY <1>1 DEF RecordStep
<1>8. leaving' \in [Consumers -> BOOLEAN]
  <2>1. TRUE \in BOOLEAN
    OBVIOUS
  <2>. QED  BY <1>1, <2>1, UpdateTypes, Zenon DEF RecordStep
<1>9. timed' \subseteq Jobs /\ abandoned' \subseteq Jobs
  <2>1. pc[c] \in Placed => Job(c) \in Jobs
    BY JobTypes
  <2>. QED  BY <2>1 DEF RecordStep, TypeInv, TypeOK
<1>. QED  BY <1>3, <1>4, <1>5, <1>6, <1>7, <1>8, <1>9

LEMMA StepKeepsDocker ==
  ASSUME TypeInv, NEW c \in Consumers, Step(c)
  PROVE  /\ DockerTypeOK'
         /\ late' \subseteq Keys \X ContainerKinds
         /\ suspect' \subseteq Keys /\ misread' \subseteq Jobs \X Readings
<1>1. CASE NoDockerStep
  BY <1>1 DEF NoDockerStep, dockerVars, TypeInv, TypeOK, DockerTypeOK
<1>2. CASE pc[c] \in InRunner /\ DockerStep(c)
  <2>1. Key(c) \in Keys /\ Job(c) \in Jobs
    BY <1>2, JobTypes DEF Placed, Try
  <2>2. \A set : {Key(c)} \X set \subseteq Keys \X set
    BY <2>1
  <2>. QED
    BY <1>2, <2>1, <2>2 DEF DockerStep, Mine, TypeInv, TypeOK, DockerTypeOK
<1>. QED  BY <1>1, <1>2 DEF Step

LEMMA StepKeepsTypes ==
  ASSUME TypeInv, AttemptsInv', NEW c \in Consumers, Step(c)
  PROVE  TypeInv'
<1>1. UNCHANGED << log, position, code, stopping >>
  BY DEF Step, PlaceStep
<1>. QED
  BY <1>1, StepKeepsPlaces, StepKeepsRecords, StepKeepsDocker
     DEF Step, AttemptsInv, TypeInv, TypeOK

LEMMA FetchKeepsTypes ==
  ASSUME TypeInv, NEW c \in Consumers, Fetch(c)
  PROVE  TypeInv'
<1>1. /\ pc' = [pc EXCEPT ![c] = "start"]
      /\ position' = [position EXCEPT ![c] = @ + 1] /\ position[c] < Len(log[c])
      /\ UNCHANGED << log, committed >>
  BY DEF Fetch, Goto
<1>2. \A d \in Consumers : position[d] \in Nat /\ Len(log[d]) \in Nat
  BY DEF TypeInv, TypeOK
<1>3. /\ position' \in [Consumers -> Nat] /\ pc' \in [Consumers -> Calls]
      /\ \A d \in Consumers : position'[d] = IF d = c THEN position[d] + 1 ELSE position[d]
      /\ \A d \in Consumers : pc'[d] = IF d = c THEN "start" ELSE pc[d]
  BY <1>1 DEF TypeInv, TypeOK, Calls
<1>4. PlacesOK'
  <2>1. ASSUME NEW d \in Consumers
        PROVE  /\ committed'[d] <= Len(log'[d]) /\ position'[d] <= Len(log'[d])
               /\ pc'[d] \in Placed => position'[d] # 0
    BY <1>1, <1>2, <1>3 DEF TypeInv, PlacesOK
  <2>. QED  BY <1>1, <2>1 DEF TypeInv, PlacesOK
<1>5. TypeOK'
  BY <1>1, <1>3 DEF Fetch, NoFault, dockerVars, redisVars, runVars, historyVars, TypeInv, TypeOK,
                    DockerTypeOK
<1>. QED  BY <1>4, <1>5 DEF TypeInv

LEMMA RequestKeepsTypes ==
  ASSUME TypeInv, NEW j \in Jobs, Request(j)
  PROVE  TypeInv'
<1> DEFINE c == PartitionOf[j]
<1>1. c \in Consumers /\ log' = [log EXCEPT ![c] = Append(@, j)]
  BY SandboxAssumption DEF Request
<1>2. log \in [Consumers -> Seq(Jobs)] /\ position \in [Consumers -> Nat] /\ committed \in [Consumers -> Nat]
  BY DEF TypeInv, TypeOK
<1>3. \A d \in Consumers : log'[d] = IF d = c THEN Append(log[d], j) ELSE log[d]
  BY <1>1, <1>2
<1>4. log' \in [Consumers -> Seq(Jobs)]
  BY <1>1, <1>2
<1>5. PlacesOK'
  <2>1. ASSUME NEW d \in Consumers
        PROVE  /\ Len(log'[d]) \in {Len(log[d]), Len(log[d]) + 1} /\ Len(log[d]) \in Nat
               /\ \A i \in 1..Len(log'[d]) : PartitionOf[log'[d][i]] = d
    <3>1. CASE d = c
      <4>1. /\ log'[d] = Append(log[d], j) /\ log[d] \in Seq(Jobs)
            /\ \A i \in 1..Len(log[d]) : PartitionOf[log[d][i]] = d
        BY <1>2, <1>3, <3>1 DEF TypeInv, PlacesOK
      <4>. QED  BY <3>1, <4>1
    <3>2. CASE d # c
      BY <1>2, <1>3, <3>2 DEF TypeInv, PlacesOK
    <3>. QED  BY <3>1, <3>2
  <2>2. UNCHANGED << committed, position, pc >>
    BY DEF Request
  <2>. QED  BY <1>2, <2>1, <2>2 DEF TypeInv, PlacesOK
<1>6. TypeOK'
  BY <1>4 DEF Request, NoFault, dockerVars, redisVars, runVars, historyVars, TypeInv, TypeOK,
              DockerTypeOK
<1>. QED  BY <1>5, <1>6 DEF TypeInv

LEMMA WorldKeepsTypes ==
  ASSUME TypeInv, LateCreate \/ BeginShutdown \/ Kill \/ Restart
  PROVE  TypeInv'
<1>1. CASE LateCreate
  <2>1. PICK x \in late : /\ late' = late \ {x}
                          /\ containers' \subseteq containers \cup {<< x[1], x[2] >>}
                          /\ UNCHANGED << networks, dirs >>
    BY <1>1 DEF LateCreate, Create, dockerVars
  <2>2. << x[1], x[2] >> \in Keys \X ContainerKinds
    BY DEF TypeInv, TypeOK
  <2>3. UNCHANGED << kafkaVars, redisVars, runVars, code, pc, stopping, published, suspect, misread,
                     abandoned, runs, faults >>
    BY <1>1 DEF LateCreate, NoFault
  <2>4. TypeOK'
    BY <2>1, <2>2, <2>3 DEF kafkaVars, redisVars, runVars, TypeInv, TypeOK, DockerTypeOK
  <2>. QED  BY <2>3, <2>4 DEF kafkaVars, TypeInv, PlacesOK
<1>2. CASE BeginShutdown
  <2>1. TypeOK'
    <3>1. stopping' \in BOOLEAN /\ faults' \in Nat
      BY <1>2 DEF BeginShutdown, Fault, TypeInv, TypeOK
    <3>2. UNCHANGED << dockerVars, kafkaVars, redisVars, runVars, code, pc, published, historyVars, runs >>
      BY <1>2 DEF BeginShutdown
    <3>. QED
      BY <3>1, <3>2 DEF dockerVars, kafkaVars, redisVars, runVars, historyVars, TypeInv, TypeOK,
                        DockerTypeOK
  <2>. QED  BY <1>2, <2>1 DEF BeginShutdown, kafkaVars, TypeInv, PlacesOK
<1>3. CASE Kill
  <2>1. TypeOK'
    BY <1>3 DEF Kill, Fault, dockerVars, kafkaVars, redisVars, runVars, TypeInv,
                TypeOK, DockerTypeOK, Calls
  <2>2. \A c \in Consumers : pc'[c] \notin Placed
    BY <1>3 DEF Kill, Placed, Try, InRunner, StageCalls, Cleanup
  <2>. QED  BY <1>3, <2>1, <2>2 DEF Kill, kafkaVars, TypeInv, PlacesOK
<1>4. CASE Restart
  <2>1. TypeOK'
    <3>1. DockerTypeOK' /\ suspect' \subseteq Keys /\ faults' \in Nat
      BY <1>4 DEF Restart, ReapOrphans, Fault, NoFault, dockerVars, TypeInv, TypeOK, DockerTypeOK
    <3>2. pc' \in [Consumers -> Calls] /\ leaving' \in [Consumers -> BOOLEAN]
      BY <1>4 DEF Restart, Calls
    <3>. QED  BY <1>4, <3>1, <3>2 DEF Restart, redisVars, TypeInv, TypeOK
  <2>2. \A c \in Consumers : pc'[c] \notin Placed
    BY <1>4 DEF Restart, Placed, Try, InRunner, StageCalls, Cleanup
  <2>. QED  BY <1>4, <2>1, <2>2 DEF Restart, TypeInv, PlacesOK
<1>. QED  BY <1>1, <1>2, <1>3, <1>4

LEMMA ExpiryKeepsTypes ==
  ASSUME TypeInv, AttemptsInv', NEW j \in Jobs, ExpireLock(j) \/ ExpireAttempts(j)
  PROVE  TypeInv'
<1>1. lock' \in [Jobs -> {"none", "in_progress", "completed"}] /\ timed' \subseteq Jobs
  BY DEF ExpireLock, ExpireAttempts, TypeInv, TypeOK
<1>2. faults' \in Nat
  BY DEF ExpireLock, ExpireAttempts, Fault, TypeInv, TypeOK
<1>3. UNCHANGED << dockerVars, kafkaVars, runVars, code, pc, stopping, published, historyVars >>
  BY DEF ExpireLock, ExpireAttempts
<1>. QED
  BY <1>1, <1>2, <1>3 DEF dockerVars, kafkaVars, runVars, historyVars, AttemptsInv, TypeInv, TypeOK,
                          DockerTypeOK, PlacesOK

LEMMA InitTypes == Init => TypeInv
<1> SUFFICES ASSUME Init PROVE TypeInv
  OBVIOUS
<1>1. TypeOK
  <2>1. DockerTypeOK /\ code \in [Jobs -> AllCodes]
    BY DEF Init, DockerInit, DockerTypeOK
  <2>2. log \in [Consumers -> Seq(Jobs)] /\ pc \in [Consumers -> Calls]
    BY DEF Init, Calls
  <2>3. result \in [Consumers -> Statuses] /\ initOrder \in [Consumers -> Statuses \cup {"none"}]
    BY DEF Init, Statuses
  <2>4. published \in [Jobs -> SUBSET Statuses]
    BY DEF Init
  <2>. QED  BY <2>1, <2>2, <2>3, <2>4 DEF Init, TypeOK
<1>2. PlacesOK
  BY DEF Init, PlacesOK, Placed, Try, InRunner, StageCalls, Cleanup
<1>. QED  BY <1>1, <1>2 DEF TypeInv

LEMMA NextKeepsTypes ==
  ASSUME TypeInv, AttemptsInv, [Next]_vars
  PROVE  TypeInv'
<1>1. ASSUME NEW c \in Consumers, Handle(c) \/ Run(c) \/ Disturb(c)
      PROVE  TypeInv'
  BY <1>1, ConsumerSteps, FetchKeepsTypes, StepKeepsTypes, NextKeepsAttemptsInv
<1>2. CASE LateCreate \/ BeginShutdown \/ Kill \/ Restart
  BY <1>2, WorldKeepsTypes
<1>3. ASSUME NEW j \in Jobs, Request(j)
      PROVE  TypeInv'
  BY <1>3, RequestKeepsTypes
<1>5. ASSUME NEW j \in Jobs, ExpireLock(j) \/ ExpireAttempts(j)
      PROVE  TypeInv'
  BY <1>5, ExpiryKeepsTypes, NextKeepsAttemptsInv
<1>4. CASE UNCHANGED vars
  BY <1>4 DEF vars, dockerVars, kafkaVars, redisVars, runVars, historyVars, TypeInv, TypeOK,
              DockerTypeOK, PlacesOK
<1>. QED
  BY <1>1, <1>2, <1>3, <1>4, <1>5 DEF Next

\* A consumer only holds messages of its partition that are there, and all state
\* has its type.
THEOREM SandboxTypeCorrect == Spec => [](TypeOK /\ PlacesOK)
<1>1. TypeInv => TypeOK /\ PlacesOK
  BY DEF TypeInv
<1>. QED
  BY <1>1, InitAttempts, InitTypes, NextKeepsAttemptsInv, NextKeepsTypes, PTL DEF Spec

-----------------------------------------------------------------------------
(* What is left in Docker. *)

Excused(k) ==
  \/ k \in suspect
  \/ stopping \/ \A c \in Consumers : pc[c] = "down"

\* The run of c will still remove its containers, its networks.
MindsContainers(c, k) == pc[c] \in InRunner \ {"rmNetworks"} /\ Key(c) = k
MindsNetworks(c, k) == pc[c] \in InRunner /\ Key(c) = k

\* NoStrays, for networks and containers apart: a run that removes its networks
\* has no container, so what is attached to one is somebody else's to excuse.
StraysInv ==
  /\ \A x \in containers : Excused(x[1]) \/ \E c \in Consumers : MindsContainers(c, x[1])
  /\ \A x \in networks : Excused(x[1]) \/ \E c \in Consumers : MindsNetworks(c, x[1])
  /\ \A x \in late : x[1] \in suspect

\* Who is still minded after a step of c.
LEMMA StillExcused ==
  ASSUME TypeInv, NEW c \in Consumers, Step(c), NEW k
  PROVE  /\ Excused(k) => Excused(k)'
         /\ Key(c)' = Key(c)
         /\ \A d \in Consumers \ {c} : /\ MindsContainers(d, k) => MindsContainers(d, k)'
                                       /\ MindsNetworks(d, k) => MindsNetworks(d, k)'
<1>1. UNCHANGED << log, position, stopping >> /\ pc[c] # "down" /\ suspect \subseteq suspect'
  BY DEF Step, PlaceStep, NoDockerStep, DockerStep
<1>2. \A d \in Consumers \ {c} : pc'[d] = pc[d]
  BY StepKeepsPlaces DEF Step
<1>3. Excused(k) => Excused(k)'
  BY <1>1 DEF Excused
<1>4. \A d \in Consumers : Key(d)' = Key(d)
  BY <1>1 DEF Key, Job
<1>. QED  BY <1>2, <1>3, <1>4 DEF MindsContainers, MindsNetworks

\* A step of a run that goes on with it, or admits what it may leave behind.
LEMMA StepKeepsStrays ==
  ASSUME TypeInv, StraysInv, NEW c \in Consumers, Step(c),
         \/ pc'[c] \in InRunner \ {"rmNetworks"}
         \/ Key(c) \in suspect'
         \/ NoDockerStep /\ pc[c] \notin InRunner
  PROVE  StraysInv'
<1>1. ASSUME NEW x \in containers' PROVE (Excused(x[1]) \/ \E d \in Consumers : MindsContainers(d, x[1]))'
  <2>1. CASE x \in containers
    <3>1. CASE Excused(x[1])
      BY <3>1, StillExcused
    <3>2. ASSUME NEW d \in Consumers \ {c}, MindsContainers(d, x[1])
          PROVE  (\E e \in Consumers : MindsContainers(e, x[1]))'
      <4>1. MindsContainers(d, x[1])'
        BY <3>2, StillExcused
      <4>. QED  BY <4>1
    <3>3. CASE MindsContainers(c, x[1])
      <4>1. Key(c)' = x[1] /\ (pc'[c] \in InRunner \ {"rmNetworks"} \/ x[1] \in suspect')
        BY <3>3, StillExcused DEF MindsContainers
      <4>. QED  BY <4>1 DEF MindsContainers, Excused
    <3>. QED  BY <2>1, <3>1, <3>2, <3>3 DEF StraysInv
  <2>2. CASE x \notin containers
    <3>1. x[1] = Key(c) /\ ~NoDockerStep
      BY <2>2 DEF Step, NoDockerStep, dockerVars, DockerStep, Mine
    <3>2. Key(c)' = x[1] /\ (pc'[c] \in InRunner \ {"rmNetworks"} \/ x[1] \in suspect')
      BY <3>1, StillExcused
    <3>. QED  BY <3>2 DEF MindsContainers, Excused
  <2>. QED  BY <2>1, <2>2
<1>2. ASSUME NEW x \in networks' PROVE (Excused(x[1]) \/ \E d \in Consumers : MindsNetworks(d, x[1]))'
  <2>1. CASE x \in networks
    <3>1. CASE Excused(x[1])
      BY <3>1, StillExcused
    <3>2. ASSUME NEW d \in Consumers \ {c}, MindsNetworks(d, x[1])
          PROVE  (\E e \in Consumers : MindsNetworks(e, x[1]))'
      <4>1. MindsNetworks(d, x[1])'
        BY <3>2, StillExcused
      <4>. QED  BY <4>1
    <3>3. CASE MindsNetworks(c, x[1])
      <4>1. Key(c)' = x[1] /\ (pc'[c] \in InRunner \/ x[1] \in suspect')
        BY <3>3, StillExcused DEF MindsNetworks
      <4>. QED  BY <4>1 DEF MindsNetworks, Excused
    <3>. QED  BY <2>1, <3>1, <3>2, <3>3 DEF StraysInv
  <2>2. CASE x \notin networks
    <3>1. x[1] = Key(c) /\ ~NoDockerStep
      BY <2>2 DEF Step, NoDockerStep, dockerVars, DockerStep, Mine
    <3>2. Key(c)' = x[1] /\ (pc'[c] \in InRunner \/ x[1] \in suspect')
      BY <3>1, StillExcused
    <3>. QED  BY <3>2 DEF MindsNetworks, Excused
  <2>. QED  BY <2>1, <2>2
<1>3. \A x \in late' : x[1] \in suspect'
  BY DEF StraysInv, Step, NoDockerStep, DockerStep, Mine
<1>. QED  BY <1>1, <1>2, <1>3 DEF StraysInv

\* Every step of a run and of its handler but the two of a clean-up that works.
LEMMA RunsGoOn ==
  ASSUME TypeInv, NEW c \in Consumers, Handle(c) \/ Run(c) \/ Disturb(c),
         ~Fetch(c), ~CleanContainers(c), ~CleanNetworks(c)
  PROVE  \/ pc'[c] \in InRunner \ {"rmNetworks"}
         \/ Key(c) \in suspect'
         \/ NoDockerStep /\ pc[c] \notin InRunner
<1>1. \A s : pc' = [pc EXCEPT ![c] = s] => pc'[c] = s
  BY DEF TypeInv, TypeOK
<1>2. CASE Handle(c)
  <2>1. pc[c] \notin InRunner
    BY <1>2 DEF Handle, TryStart, Execute, SetTtl, Publish, MarkCompleted, MarkFailed, Commit, Resume,
                InRunner, StageCalls, Cleanup
  <2>. QED  BY <1>2, <2>1, HandlePlaces
<1>3. CASE Raise(c) \/ CancelCall(c) \/ Recancel(c)
  BY <1>3 DEF Raise, CancelCall, Recancel, NoDockerStep, InRunner, StageCalls, Cleanup
<1>4. CASE StageFails(c) \/ JobTimesOut(c) \/ CancelRun(c) \/ CleanupFails(c) \/ CancelCleanup(c)
  BY <1>4 DEF StageFails, JobTimesOut, CancelRun, CutShort, CleanupFails, CancelCleanup
<1>5. CASE RunTimesOut(c) \/ RunRefused(c) \/ Unseen(c)
  <2>1. \E s \in InRunner \ {"rmNetworks"} : pc' = [pc EXCEPT ![c] = s]
    BY <1>5 DEF RunTimesOut, RunRefused, Unseen, AppUnseen, CountUnseen, NoticeUnseen, Refused,
                RunFailed, Advance, End, Goto, InRunner, StageCalls, Cleanup
  <2>. QED  BY <1>1, <2>1
<1>6. CASE Run(c)
  <2>1. \E s \in InRunner \ {"rmNetworks"} : pc' = [pc EXCEPT ![c] = s]
    BY <1>6 DEF Run, FetchToken, CheckoutRepo, CreateNetworks, StartService, LaunchRun,
         FinishInstall, FinishBuild, FinishInit, StartApp, Signal, Notice, NetworkKinds,
         Refused, RunFailed, Advance, End, Goto, InRunner, StageCalls, Cleanup
  <2>. QED  BY <1>1, <2>1
<1>. QED  BY <1>2, <1>3, <1>4, <1>5, <1>6 DEF Disturb, Unseen

LEMMA CleanContainersKeepsStrays ==
  ASSUME TypeInv, StraysInv, NEW c \in Consumers, CleanContainers(c)
  PROVE  StraysInv'
<1>1. Step(c) /\ pc[c] = "rmContainers"
  <2>1. pc[c] = "rmContainers" /\ ~Fetch(c)
    BY DEF CleanContainers, Fetch
  <2>. QED  BY <2>1, ConsumerSteps DEF Run
<1>2. /\ containers' = {x \in containers : x[1] # Key(c)} /\ UNCHANGED << networks, late, suspect >>
      /\ pc'[c] = "rmNetworks" /\ "rmNetworks" \in InRunner
  BY DEF CleanContainers, RemoveContainers, Goto, historyVars, TypeInv, TypeOK, InRunner, Cleanup
<1>3. ASSUME NEW x \in containers' PROVE (Excused(x[1]) \/ \E d \in Consumers : MindsContainers(d, x[1]))'
  <2>1. x \in containers /\ x[1] # Key(c)
    BY <1>2, <1>3
  <2>2. CASE Excused(x[1])
    BY <1>1, <2>2, StillExcused
  <2>3. ASSUME NEW d \in Consumers, MindsContainers(d, x[1])
        PROVE  (\E e \in Consumers : MindsContainers(e, x[1]))'
    <3>1. d # c
      BY <2>1, <2>3 DEF MindsContainers
    <3>2. MindsContainers(d, x[1])'
      BY <1>1, <2>3, <3>1, StillExcused
    <3>. QED  BY <3>2
  <2>. QED  BY <2>1, <2>2, <2>3 DEF StraysInv
<1>4. ASSUME NEW x \in networks' PROVE (Excused(x[1]) \/ \E d \in Consumers : MindsNetworks(d, x[1]))'
  <2>1. CASE Excused(x[1])
    BY <1>1, <2>1, StillExcused
  <2>2. ASSUME NEW d \in Consumers, MindsNetworks(d, x[1])
        PROVE  (\E e \in Consumers : MindsNetworks(e, x[1]))'
    <3>1. MindsNetworks(d, x[1])'
      BY <1>1, <1>2, <2>2, StillExcused DEF MindsNetworks
    <3>. QED  BY <3>1
  <2>. QED  BY <1>2, <1>4, <2>1, <2>2 DEF StraysInv
<1>5. \A x \in late' : x[1] \in suspect'
  BY <1>2 DEF StraysInv
<1>. QED  BY <1>3, <1>4, <1>5 DEF StraysInv

LEMMA CleanNetworksKeepsStrays ==
  ASSUME TypeInv, StraysInv, NEW c \in Consumers, CleanNetworks(c)
  PROVE  StraysInv'
<1>1. Step(c) /\ pc[c] = "rmNetworks"
  <2>1. pc[c] = "rmNetworks" /\ ~Fetch(c)
    BY DEF CleanNetworks, Fetch
  <2>. QED  BY <2>1, ConsumerSteps DEF Run
<1>2. /\ networks' = {n \in networks : n[1] # Key(c) \/ Attached(n)}
      /\ UNCHANGED << containers, late, suspect >>
  BY DEF CleanNetworks, historyVars
<1>3. ASSUME NEW x \in containers PROVE (Excused(x[1]) \/ \E d \in Consumers \ {c} : MindsContainers(d, x[1]))'
  <2>1. CASE Excused(x[1])
    BY <1>1, <2>1, StillExcused
  <2>2. ASSUME NEW d \in Consumers, MindsContainers(d, x[1])
        PROVE  (\E e \in Consumers \ {c} : MindsContainers(e, x[1]))'
    <3>1. d # c
      BY <1>1, <2>2 DEF MindsContainers
    <3>2. MindsContainers(d, x[1])'
      BY <1>1, <2>2, <3>1, StillExcused
    <3>. QED  BY <3>1, <3>2
  <2>. QED  BY <1>3, <2>1, <2>2 DEF StraysInv
<1>4. ASSUME NEW x \in networks' PROVE (Excused(x[1]) \/ \E d \in Consumers : MindsNetworks(d, x[1]))'
  <2>1. x \in networks
    BY <1>2, <1>4
  <2>2. CASE Excused(x[1])
    BY <1>1, <2>2, StillExcused
  <2>3. ASSUME NEW d \in Consumers \ {c}, MindsNetworks(d, x[1])
        PROVE  (\E e \in Consumers : MindsNetworks(e, x[1]))'
    <3>1. MindsNetworks(d, x[1])'
      BY <1>1, <2>3, StillExcused
    <3>. QED  BY <3>1
  <2>4. CASE x[1] = Key(c)
    <3>1. PICK y \in containers : y[1] = x[1]
      BY <1>2, <1>4, <2>4 DEF Attached
    <3>. QED  BY <1>3, <3>1 DEF MindsContainers, MindsNetworks
  <2>. QED  BY <2>1, <2>2, <2>3, <2>4 DEF StraysInv, MindsNetworks
<1>5. \A x \in late' : x[1] \in suspect'
  BY <1>2 DEF StraysInv
<1>. QED  BY <1>2, <1>3, <1>4, <1>5 DEF StraysInv

LEMMA WorldKeepsStrays ==
  ASSUME TypeInv, StraysInv, LateCreate \/ BeginShutdown \/ Kill \/ Restart
  PROVE  StraysInv'
<1>1. CASE LateCreate
  <2>1. PICK x \in late : /\ late' = late \ {x}
                          /\ containers' \subseteq containers \cup {<< x[1], x[2] >>}
                          /\ UNCHANGED networks
    BY <1>1 DEF LateCreate, Create, dockerVars
  <2>2. UNCHANGED << log, position, pc, suspect, stopping >>
    BY <1>1 DEF LateCreate, kafkaVars
  <2>3. x[1] \in suspect /\ \A y \in containers' : y \in containers \/ y[1] = x[1]
    BY <2>1 DEF StraysInv
  <2>. QED
    BY <2>1, <2>2, <2>3 DEF StraysInv, Excused, MindsContainers, MindsNetworks, Key, Job
<1>2. CASE BeginShutdown
  BY <1>2 DEF BeginShutdown, dockerVars, historyVars, StraysInv, Excused
<1>3. CASE Kill
  BY <1>3 DEF Kill, dockerVars, StraysInv, Excused
<1>4. CASE Restart
  <2>1. CASE ReapOrphans
    BY <1>4, <2>1 DEF Restart, ReapOrphans, StraysInv
  <2>2. CASE UNCHANGED dockerVars /\ suspect' = Keys
    <3>1. \A x \in containers \cup networks : x[1] \in Keys
      BY DEF TypeInv, TypeOK, DockerTypeOK
    <3>. QED  BY <1>4, <2>2, <3>1 DEF Restart, dockerVars, StraysInv, Excused
  <2>. QED  BY <1>4, <2>1, <2>2 DEF Restart
<1>. QED  BY <1>1, <1>2, <1>3, <1>4

\* Messages that come in, and a fetch, change nothing a run goes by.
LEMMA MessagesKeepStrays ==
  ASSUME TypeInv, StraysInv,
         (\E c \in Consumers : Fetch(c)) \/ (\E j \in Jobs : Request(j))
  PROVE  StraysInv'
<1>1. UNCHANGED << dockerVars, late, suspect, stopping >>
  BY DEF Fetch, Request, historyVars
<1>2. ASSUME NEW d \in Consumers, pc[d] \in InRunner
      PROVE  pc'[d] = pc[d] /\ Key(d)' = Key(d)
  <2>1. position[d] \in 1..Len(log[d]) /\ log[d] \in Seq(Jobs)
    BY <1>2, JobTypes DEF Placed, Try, TypeInv, TypeOK
  <2>2. ASSUME NEW c \in Consumers, Fetch(c)
        PROVE  pc'[d] = pc[d] /\ Key(d)' = Key(d)
    <3>1. d # c
      BY <1>2, <2>2 DEF Fetch, InRunner, StageCalls, Cleanup
    <3>. QED  BY <2>2, <3>1 DEF Fetch, Goto, TypeInv, TypeOK, Key, Job
  <2>3. ASSUME NEW j \in Jobs, Request(j)
        PROVE  pc'[d] = pc[d] /\ Key(d)' = Key(d)
    <3>1. log' = [log EXCEPT ![PartitionOf[j]] = Append(@, j)] /\ UNCHANGED << pc, position >>
      BY <2>3 DEF Request
    <3>2. log'[d] \in {log[d], Append(log[d], j)}
      BY <3>1 DEF TypeInv, TypeOK
    <3>3. log'[d][position[d]] = log[d][position[d]]
      BY <2>1, <3>2
    <3>. QED  BY <3>1, <3>3 DEF Key, Job
  <2>. QED  BY <2>2, <2>3
<1>3. \A k : Excused(k) => Excused(k)'
  <2>1. \A c \in Consumers : Fetch(c) => ~(\A d \in Consumers : pc[d] = "down")
    BY DEF Fetch
  <2>2. (\A d \in Consumers : pc[d] = "down") => UNCHANGED pc
    BY <2>1 DEF Request
  <2>. QED  BY <1>1, <2>2 DEF Excused
<1>4. \A d \in Consumers : \A k : /\ MindsContainers(d, k) => MindsContainers(d, k)'
                                  /\ MindsNetworks(d, k) => MindsNetworks(d, k)'
  BY <1>2 DEF MindsContainers, MindsNetworks
<1>. QED  BY <1>1, <1>3, <1>4 DEF StraysInv, dockerVars

LEMMA NextKeepsStrays ==
  ASSUME TypeInv, StraysInv, [Next]_vars
  PROVE  StraysInv'
<1>1. ASSUME NEW c \in Consumers, Handle(c) \/ Run(c) \/ Disturb(c)
      PROVE  StraysInv'
  <2>1. CASE CleanContainers(c) \/ CleanNetworks(c)
    BY <2>1, CleanContainersKeepsStrays, CleanNetworksKeepsStrays
  <2>2. CASE Fetch(c)
    BY <2>2, MessagesKeepStrays
  <2>3. CASE ~(CleanContainers(c) \/ CleanNetworks(c) \/ Fetch(c))
    BY <1>1, <2>3, ConsumerSteps, RunsGoOn, StepKeepsStrays
  <2>. QED  BY <2>1, <2>2, <2>3
<1>2. CASE LateCreate \/ BeginShutdown \/ Kill \/ Restart
  BY <1>2, WorldKeepsStrays
<1>3. CASE \E j \in Jobs : Request(j)
  BY <1>3, MessagesKeepStrays
<1>5. CASE \E j \in Jobs : ExpireLock(j) \/ ExpireAttempts(j)
  BY <1>5 DEF ExpireLock, ExpireAttempts, dockerVars, kafkaVars, historyVars, StraysInv, Excused,
              MindsContainers, MindsNetworks, Key, Job
<1>4. CASE UNCHANGED vars
  BY <1>4 DEF vars, dockerVars, kafkaVars, historyVars, StraysInv, Excused, MindsContainers,
              MindsNetworks, Key, Job
<1>. QED
  BY <1>1, <1>2, <1>3, <1>4, <1>5 DEF Next

\* While the worker serves requests, Docker holds nothing for a job that is not
\* run, unless a docker command failed or was cut short (runner.py:194-196),
\* even when jobs share their names.
THEOREM NoStraysEver == Spec => []NoStrays
<1>1. StraysInv => NoStrays
  BY DEF StraysInv, NoStrays, Excused, MindsContainers, MindsNetworks
<1>2. Init => StraysInv
  BY DEF Init, DockerInit, StraysInv
<1>. QED
  BY <1>1, <1>2, InitAttempts, InitTypes, NextKeepsAttemptsInv, NextKeepsTypes, NextKeepsStrays,
     PTL DEF Spec

(***************************************************************************)
(* Proofs about the verdicts of SandboxProbe, for any consumers, jobs,     *)
(* code and faults, where no two jobs share their names.                   *)
(***************************************************************************)

KeysDiffer == \A j, k \in Jobs : KeyOf[j] = KeyOf[k] => j = k

\* The stages of an app that announced its start.
Started == {"signal", "notice", "uncounted"}

\* The containers a run counts on at each stage.
Owned(call) ==
  CASE call = "install" -> {"proxy"}
    [] call = "installing" -> {"proxy", "install"}
    [] call = "building" -> {"build"}
    [] call = "initing" -> {"init"}
    [] call \in {"sidecars", "app"} -> {"mock"}
    [] call \in Started -> {"mock", "app"}
    [] OTHER -> {}

Owns(c) == \A kind \in Owned(pc[c]) : << Key(c), kind >> \in containers

\* The stages that follow the install, the build and the init-order probe.
AfterInit == {"mock", "sidecars", "app"} \cup Started
AfterBuild == {"init", "initing"} \cup AfterInit
AfterInstall == {"build", "building"} \cup AfterBuild

\* A status that the code of the job deserves.
Earned(j, status) ==
  /\ status = "passed" =>
       \/ code[j] \in {"good", "silent"}
       \/ code[j] = "noHook" /\ {<< j, "start" >>, << j, "count" >>} \cap misread # {}
  /\ status = "found_issue" =>
       Bad(j) \/ << j, "build" >> \in misread \/ << j, "end" >> \in misread

\* The init-order probe told the truth, or nothing.
InitKnown(c) ==
  \/ initOrder[c] = "passed" /\ code[Job(c)] # "badInit"
  \/ initOrder[c] = "found_issue" /\ code[Job(c)] = "badInit"
  \/ initOrder[c] = "inconclusive"

\* What a run found out so far is true of the code.
Learned(c) ==
  /\ pc[c] \in AfterInstall => code[Job(c)] # "noInstall"
  /\ pc[c] \in AfterBuild => code[Job(c)] # "noBuild"
  /\ pc[c] \in AfterInit => InitKnown(c)
  /\ pc[c] \in Started => code[Job(c)] \notin {"noStart", "silent"}
  /\ pc[c] = "uncounted" => << Job(c), "count" >> \in misread
  /\ pc[c] \in StageCalls \cup {"ttl"} => result[c] = "inconclusive"
  /\ pc[c] \in Cleanup \cup {"publish"} => Earned(Job(c), result[c])

VerdictInv ==
  /\ \A c \in Consumers : Owns(c) /\ Learned(c)
  /\ \A j \in Jobs : \A status \in published[j] : Earned(j, status)

\* A step of one consumer takes nothing from the run of another.
LEMMA OthersUndisturbed ==
  ASSUME KeysDiffer, TypeInv, NEW c \in Consumers, Step(c), NEW d \in Consumers \ {c},
         Owns(d), Learned(d)
  PROVE  Owns(d)' /\ Learned(d)'
<1>1. /\ pc'[d] = pc[d] /\ UNCHANGED << log, position, code >>
      /\ Job(d)' = Job(d) /\ Key(d)' = Key(d)
  BY StepKeepsPlaces DEF Step, PlaceStep, Job, Key
<1>2. result'[d] = result[d] /\ initOrder'[d] = initOrder[d]
  BY DEF Step, RecordStep, TypeInv, TypeOK
<1>3. misread \subseteq misread'
  BY DEF Step, NoDockerStep, DockerStep
<1>4. Learned(d)'
  BY <1>1, <1>2, <1>3 DEF InitKnown, Learned, Earned, Bad
<1>5. Owns(d)'
  <2>1. CASE NoDockerStep
    BY <1>1, <2>1 DEF NoDockerStep, dockerVars, Owns
  <2>2. CASE Owned(pc[d]) = {}
    BY <1>1, <2>2 DEF Owns
  <2>3. CASE Owned(pc[d]) # {} /\ pc[c] \in InRunner /\ DockerStep(c)
    <3>1. pc[d] \in InRunner
      BY <2>3 DEF Owned, Started, InRunner, StageCalls
    <3>2. Job(d) # Job(c) /\ Job(d) \in Jobs /\ Job(c) \in Jobs
      BY <2>3, <3>1, JobTypes DEF Placed, Try
    <3>3. Key(d) # Key(c)
      BY <3>2 DEF KeysDiffer, Key
    <3>4. \A kind : << Key(d), kind >> \in containers => << Key(d), kind >> \in containers'
      BY <2>3, <3>3 DEF DockerStep, Mine
    <3>. QED  BY <1>1, <3>4 DEF Owns
  <2>. QED  BY <2>1, <2>2, <2>3 DEF Step
<1>. QED  BY <1>4, <1>5

\* What a consumer publishes is the result of its run.
LEMMA PublishedIsEarned ==
  ASSUME TypeInv, VerdictInv, NEW c \in Consumers, Step(c)
  PROVE  (\A j \in Jobs : \A status \in published[j] : Earned(j, status))'
<1>1. UNCHANGED code /\ misread \subseteq misread'
  BY DEF Step, PlaceStep, NoDockerStep, DockerStep
<1>2. ASSUME NEW j \in Jobs, NEW status, Earned(j, status)
      PROVE  Earned(j, status)'
  BY <1>1, <1>2 DEF Earned, Bad
<1>3. ASSUME NEW j \in Jobs, NEW status \in published'[j]
      PROVE  Earned(j, status)
  <2>1. CASE status \in published[j]
    BY <2>1 DEF VerdictInv
  <2>2. CASE status \notin published[j]
    <3>1. pc[c] = "publish" /\ published' = [published EXCEPT ![Job(c)] = @ \cup {result[c]}]
      BY <1>3, <2>2 DEF Step, RecordStep
    <3>2. j = Job(c) /\ status = result[c]
      BY <1>3, <2>2, <3>1 DEF TypeInv, TypeOK
    <3>. QED  BY <3>1, <3>2 DEF VerdictInv, Learned
  <2>. QED  BY <2>1, <2>2
<1>. QED  BY <1>2, <1>3

\* A consumer goes to another stage of its run.
LEMMA GoesOn ==
  ASSUME TypeInv, NEW c \in Consumers, Step(c), Learned(c), pc[c] \in StageCalls,
         NEW s \in StageCalls, pc' = [pc EXCEPT ![c] = s], UNCHANGED result,
         \A kind \in Owned(s) : << Key(c), kind >> \in containers',
         s \in AfterInstall => pc[c] \in AfterInstall \/ code[Job(c)] # "noInstall",
         s \in AfterBuild => pc[c] \in AfterBuild \/ code[Job(c)] # "noBuild",
         s \in AfterInit => InitKnown(c)',
         s \in Started => code[Job(c)] \notin {"noStart", "silent"},
         s = "uncounted" => << Job(c), "count" >> \in misread'
  PROVE  Owns(c)' /\ Learned(c)'
<1>1. pc'[c] = s /\ UNCHANGED << log, position, code >> /\ Job(c)' = Job(c) /\ Key(c)' = Key(c)
  BY DEF TypeInv, TypeOK, Step, PlaceStep, Job, Key
<1>2. s \notin Cleanup \cup {"publish"}
  BY DEF StageCalls, Cleanup
<1>. QED  BY <1>1, <1>2 DEF Owns, Learned, InitKnown

\* A run ends with a status.
LEMMA Ends ==
  ASSUME TypeInv, NEW c \in Consumers, Step(c), NEW status, End(c, status),
         Earned(Job(c), status) \/ Earned(Job(c), status)'
  PROVE  Owns(c)' /\ Learned(c)'
<1>1. /\ pc'[c] = "rmContainers" /\ result'[c] = status
      /\ UNCHANGED << log, position, code >> /\ Job(c)' = Job(c) /\ misread \subseteq misread'
  BY DEF End, Goto, TypeInv, TypeOK, Step, PlaceStep, Job, NoDockerStep, DockerStep
<1>2. Earned(Job(c), status)'
  BY <1>1 DEF Earned, Bad
<1>3. Owned("rmContainers") = {}
  BY DEF Owned, Started
<1>. QED
  BY <1>1, <1>2, <1>3 DEF Owns, Learned, Cleanup, StageCalls, AfterInstall, AfterBuild, AfterInit, Started

\* A consumer leaves its run, or was not in one.
LEMMA OutOfRun ==
  ASSUME TypeInv, NEW c \in Consumers, Step(c), pc'[c] \in Calls \ (InRunner \cup {"ttl", "publish"})
  PROVE  Owns(c)' /\ Learned(c)'
BY DEF Owns, Owned, Learned, Calls, Try, InRunner, StageCalls, Cleanup, AfterInstall, AfterBuild,
       AfterInit, Started

LEMMA Verdicts ==
  ASSUME NEW init \in Statuses, NEW lifecycle \in Statuses \cup {"skip"}
  PROVE  /\ Aggregate(init, lifecycle) = "passed" =>
              init = "passed" /\ lifecycle \in {"passed", "skip"}
         /\ Aggregate(init, lifecycle) = "found_issue" =>
              "found_issue" \in {init, lifecycle}
BY DEF Aggregate, Statuses

LEMMA InconclusiveIsEarned ==
  ASSUME NEW j
  PROVE  Earned(j, "inconclusive")
BY DEF Earned

LEMMA HandleLearns ==
  ASSUME TypeInv, VerdictInv, NEW c \in Consumers, Step(c),
         Handle(c) \/ Raise(c) \/ CancelCall(c) \/ Recancel(c) \/ CancelCleanup(c), ~Fetch(c)
  PROVE  Owns(c)' /\ Learned(c)'
<1>1. \A s : pc' = [pc EXCEPT ![c] = s] => pc'[c] = s
  BY DEF TypeInv, TypeOK
<1>2. CASE Execute(c)
  <2>1. pc'[c] \in {"ttl", "token", "publish"} /\ result'[c] = "inconclusive"
    BY <1>1, <1>2 DEF Execute, Goto, TypeInv, TypeOK
  <2>2. Owned(pc'[c]) = {}
    BY <2>1 DEF Owned, Started
  <2>. QED
    BY <2>1, <2>2 DEF Owns, Learned, Earned, AfterInstall, AfterBuild, AfterInit, Started
<1>4. CASE SetTtl(c)
  <2>1. pc'[c] = "token" /\ UNCHANGED result
    BY <1>1, <1>4 DEF SetTtl, Goto, runVars
  <2>2. result[c] = "inconclusive" /\ Owned(pc'[c]) = {}
    BY <1>4, <2>1 DEF SetTtl, VerdictInv, Learned, Owned, Started
  <2>. QED
    BY <2>1, <2>2 DEF Owns, Learned, Cleanup, AfterInstall, AfterBuild, AfterInit, Started
<1>3. CASE ~(Execute(c) \/ SetTtl(c))
  <2>1. pc'[c] \in Calls \ (InRunner \cup {"ttl", "publish"})
    BY <1>1, <1>3 DEF Handle, TryStart, Publish, MarkCompleted, MarkFailed, Commit, Resume, Raise,
         CancelCall, Recancel, CancelCleanup, Goto, Calls, Try, InRunner, StageCalls, Cleanup
  <2>. QED  BY <2>1, OutOfRun
<1>. QED  BY <1>2, <1>3, <1>4

LEMMA CleanupLearns ==
  ASSUME TypeInv, VerdictInv, NEW c \in Consumers, Step(c),
         CleanContainers(c) \/ CleanNetworks(c) \/ CleanupFails(c) \/ CancelRun(c)
  PROVE  Owns(c)' /\ Learned(c)'
<1>1. /\ pc[c] \in Cleanup \cup StageCalls
      /\ pc'[c] \in {"rmContainers", "rmNetworks", "publish", "release"} /\ UNCHANGED result
  BY DEF CleanContainers, CleanNetworks, CleanupFails, CancelRun, AfterCleanup, Goto, runVars, Cleanup,
         TypeInv, TypeOK
<1>2. Earned(Job(c), result[c])
  BY <1>1, InconclusiveIsEarned DEF VerdictInv, Learned
<1>3. Earned(Job(c), result[c])'
  BY <1>1, <1>2 DEF Step, PlaceStep, NoDockerStep, DockerStep, Job, Earned, Bad
<1>4. Owned(pc'[c]) = {}
  BY <1>1 DEF Owned, Started
<1>. QED
  BY <1>1, <1>3, <1>4 DEF Owns, Learned, StageCalls, AfterInstall, AfterBuild, AfterInit, Started

\* What the failure of a `docker run` lets the run conclude.
LEMMA RunFailedLearns ==
  ASSUME TypeInv, VerdictInv, NEW c \in Consumers, Step(c), NEW call, RunFailed(c, call),
         call = "build" => Bad(Job(c)) \/ << Job(c), "build" >> \in misread',
         call = "init" => pc[c] \in {"init", "initing"}
  PROVE  Owns(c)' /\ Learned(c)'
<1>1. CASE call = "install"
  BY <1>1, Ends, InconclusiveIsEarned DEF RunFailed
<1>2. CASE call = "build"
  <2>1. End(c, "found_issue") /\ UNCHANGED << code, log, position >>
    BY <1>2 DEF RunFailed, Step, PlaceStep
  <2>2. Earned(Job(c), "found_issue")'
    BY <1>2, <2>1 DEF Earned, Bad, Job
  <2>. QED  BY <2>1, <2>2, Ends
<1>3. CASE call = "init"
  <2>1. /\ pc' = [pc EXCEPT ![c] = "mock"] /\ UNCHANGED result
        /\ initOrder'[c] = "inconclusive"
    BY <1>3 DEF RunFailed, Goto, TypeInv, TypeOK
  <2>2. Owned("mock") = {} /\ "mock" \in StageCalls /\ InitKnown(c)'
    BY <2>1 DEF Owned, Started, StageCalls, InitKnown
  <2>3. pc[c] \in AfterBuild /\ pc[c] \in AfterInstall /\ pc[c] \in StageCalls
    BY <1>3 DEF AfterBuild, Started, AfterInstall, StageCalls
  <2>. QED  BY <2>1, <2>2, <2>3, GoesOn DEF VerdictInv, Started
<1>. QED  BY <1>1, <1>2, <1>3 DEF RunFailed

\* The stages up to the proxy, which decide nothing about the code.
LEMMA PrepareLearns ==
  ASSUME TypeInv, VerdictInv, NEW c \in Consumers, Step(c),
         FetchToken(c) \/ CheckoutRepo(c) \/ CreateNetworks(c) \/ StageFails(c) \/ JobTimesOut(c)
  PROVE  Owns(c)' /\ Learned(c)'
<1>1. CASE End(c, "inconclusive")
  BY <1>1, Ends, InconclusiveIsEarned
<1>2. ASSUME NEW s \in {"checkout", "internal", "egress", "proxy"}, Advance(c, s), pc[c] \in StageCalls
      PROVE  Owns(c)' /\ Learned(c)'
  <2>1. /\ pc' = [pc EXCEPT ![c] = s] /\ UNCHANGED result /\ Owned(s) = {} /\ s \in StageCalls
        /\ s \notin AfterInstall /\ s \notin AfterBuild /\ s \notin AfterInit /\ s \notin Started
    BY <1>2 DEF Advance, Goto, Owned, StageCalls, AfterInstall, AfterBuild, AfterInit, Started
  <2>. QED  BY <1>2, <2>1, GoesOn DEF VerdictInv
<1>. QED
  BY <1>1, <1>2 DEF FetchToken, CheckoutRepo, CreateNetworks, StageFails, JobTimesOut, NetworkKinds,
                    StageCalls

LEMMA ServiceLearns ==
  ASSUME TypeInv, VerdictInv, NEW c \in Consumers, Step(c), StartService(c)
  PROVE  Owns(c)' /\ Learned(c)'
<1>1. CASE End(c, "inconclusive")
  BY <1>1, Ends, InconclusiveIsEarned
<1>2. CASE pc[c] = "proxy" /\ Create(Key(c), "proxy") /\ Advance(c, "install")
  <2>1. /\ pc' = [pc EXCEPT ![c] = "install"] /\ UNCHANGED result
        /\ Owned("install") = {"proxy"} /\ << Key(c), "proxy" >> \in containers'
        /\ "install" \in StageCalls /\ pc[c] \in StageCalls
        /\ "install" \notin AfterInstall /\ "install" \notin AfterBuild /\ "install" \notin AfterInit
    BY <1>2 DEF Advance, Goto, Create, Owned, StageCalls, AfterInstall, AfterBuild, AfterInit, Started
  <2>. QED  BY <2>1, GoesOn DEF VerdictInv, Started
<1>3. ASSUME NEW s \in {"sidecars", "app"}, Advance(c, s), pc[c] \in {"mock", "sidecars"},
             << Key(c), "mock" >> \in containers'
      PROVE  Owns(c)' /\ Learned(c)'
  <2>1. /\ pc' = [pc EXCEPT ![c] = s] /\ UNCHANGED << result, initOrder >>
        /\ Owned(s) = {"mock"} /\ s \in StageCalls /\ pc[c] \in StageCalls
        /\ pc[c] \in AfterInit /\ pc[c] \in AfterBuild /\ pc[c] \in AfterInstall
    BY <1>3 DEF Advance, Goto, Owned, StageCalls, AfterInstall, AfterBuild, AfterInit, Started
  <2>2. InitKnown(c)'
    BY <2>1 DEF VerdictInv, Learned, InitKnown, Step, PlaceStep, Job
  <2>. QED  BY <1>3, <2>1, <2>2, GoesOn DEF VerdictInv, Started
<1>4. CASE pc[c] = "mock" /\ Create(Key(c), "mock") /\ Advance(c, "sidecars")
  BY <1>3, <1>4 DEF Create
<1>5. CASE pc[c] = "sidecars" /\ Create(Key(c), "sidecar") /\ Advance(c, "app")
  <2>1. << Key(c), "mock" >> \in containers
    BY <1>5 DEF VerdictInv, Owns, Owned, Started
  <2>. QED  BY <1>3, <1>5, <2>1 DEF Create
<1>. QED  BY <1>1, <1>2, <1>4, <1>5 DEF StartService, Creates

LEMMA LaunchLearns ==
  ASSUME TypeInv, VerdictInv, NEW c \in Consumers, Step(c), LaunchRun(c) \/ RunRefused(c)
  PROVE  Owns(c)' /\ Learned(c)'
<1>1. ASSUME NEW call \in {"install", "build", "init"}, pc[c] = call, Refused(c, call)
      PROVE  Owns(c)' /\ Learned(c)'
  <2>1. RunFailed(c, call) /\ (call = "build" => << Job(c), "build" >> \in misread')
    BY <1>1 DEF Refused, Misread
  <2>. QED  BY <1>1, <2>1, RunFailedLearns
<1>2. CASE pc[c] = "install" /\ Create(Key(c), "install") /\ Advance(c, "installing")
  <2>1. << Key(c), "proxy" >> \in containers
    BY <1>2 DEF VerdictInv, Owns, Owned, Started
  <2>2. /\ pc' = [pc EXCEPT ![c] = "installing"] /\ UNCHANGED result
        /\ \A kind \in Owned("installing") : << Key(c), kind >> \in containers'
        /\ "installing" \in StageCalls /\ pc[c] \in StageCalls
        /\ "installing" \notin AfterInstall /\ "installing" \notin AfterBuild
        /\ "installing" \notin AfterInit
    BY <1>2, <2>1 DEF Advance, Goto, Create, Owned, StageCalls, AfterInstall, AfterBuild, AfterInit, Started
  <2>. QED  BY <2>2, GoesOn DEF VerdictInv, Started
<1>3. ASSUME NEW call \in {"build", "init"}, NEW s \in {"building", "initing"},
             << call, s >> \in {<< "build", "building" >>, << "init", "initing" >>},
             pc[c] = call, Create(Key(c), call), Advance(c, s)
      PROVE  Owns(c)' /\ Learned(c)'
  <2>1. /\ pc' = [pc EXCEPT ![c] = s] /\ UNCHANGED result
        /\ \A kind \in Owned(s) : << Key(c), kind >> \in containers'
        /\ s \in StageCalls /\ pc[c] \in StageCalls
        /\ pc[c] \in AfterInstall /\ (s \in AfterBuild => pc[c] \in AfterBuild) /\ s \notin AfterInit
        /\ s \notin Started
    BY <1>3 DEF Advance, Goto, Create, Owned, StageCalls, AfterInstall, AfterBuild, AfterInit, Started
  <2>. QED  BY <2>1, GoesOn DEF VerdictInv, Started
<1>4. ASSUME NEW call \in {"install", "build", "init"}, pc[c] = call, Create(Key(c), call),
             Advance(c, CASE call = "install" -> "installing"
                          [] call = "build" -> "building"
                          [] call = "init" -> "initing")
      PROVE  Owns(c)' /\ Learned(c)'
  BY <1>2, <1>3, <1>4
<1>. QED  BY <1>1, <1>4 DEF LaunchRun, RunRefused

LEMMA FinishLearns ==
  ASSUME TypeInv, VerdictInv, NEW c \in Consumers, Step(c),
         FinishInstall(c) \/ FinishBuild(c) \/ FinishInit(c)
  PROVE  Owns(c)' /\ Learned(c)'
<1>1. CASE FinishInstall(c)
  <2>1. CASE RunFailed(c, "install")
    BY <2>1, RunFailedLearns
  <2>2. CASE code[Job(c)] # "noInstall" /\ Advance(c, "build")
    <3>1. /\ pc' = [pc EXCEPT ![c] = "build"] /\ UNCHANGED result /\ Owned("build") = {}
          /\ "build" \in StageCalls /\ pc[c] \in StageCalls
          /\ "build" \notin AfterBuild /\ "build" \notin AfterInit
      BY <1>1, <2>2 DEF FinishInstall, Advance, Goto, Owned, Started, StageCalls, AfterBuild, AfterInit
    <3>. QED  BY <2>2, <3>1, GoesOn DEF VerdictInv, Started
  <2>. QED  BY <1>1, <2>1, <2>2 DEF FinishInstall
<1>2. CASE FinishBuild(c)
  <2>1. << Key(c), "build" >> \in containers
    BY <1>2 DEF FinishBuild, VerdictInv, Owns, Owned, Started
  <2>2. CASE RunFailed(c, "build") /\ code[Job(c)] = "noBuild"
    BY <2>2, RunFailedLearns DEF Bad
  <2>3. CASE code[Job(c)] # "noBuild" /\ Advance(c, "init")
    <3>1. /\ pc' = [pc EXCEPT ![c] = "init"] /\ UNCHANGED result /\ Owned("init") = {}
          /\ "init" \in StageCalls /\ pc[c] \in StageCalls /\ pc[c] \in AfterInstall
          /\ "init" \notin AfterInit
      BY <1>2, <2>3 DEF FinishBuild, Advance, Goto, Owned, Started, StageCalls, AfterInstall, AfterInit
    <3>. QED  BY <2>3, <3>1, GoesOn DEF VerdictInv, Started
  <2>. QED  BY <1>2, <2>1, <2>2, <2>3 DEF FinishBuild, Ran
<1>3. CASE FinishInit(c)
  <2>1. << Key(c), "init" >> \in containers /\ pc[c] = "initing"
    BY <1>3 DEF FinishInit, VerdictInv, Owns, Owned, Started
  <2>2. /\ initOrder' = [initOrder EXCEPT
             ![c] = IF code[Job(c)] = "badInit" THEN "found_issue" ELSE "passed"]
        /\ pc' = [pc EXCEPT ![c] = "mock"] /\ UNCHANGED result
    BY <1>3, <2>1 DEF FinishInit, Ran, Goto
  <2>3. InitKnown(c)'
    BY <2>2 DEF TypeInv, TypeOK, Step, PlaceStep, Job, InitKnown
  <2>4. /\ Owned("mock") = {} /\ "mock" \in StageCalls /\ pc[c] \in StageCalls
        /\ pc[c] \in AfterInstall /\ pc[c] \in AfterBuild
    BY <2>1 DEF Owned, Started, StageCalls, AfterInstall, AfterBuild
  <2>. QED  BY <2>2, <2>3, <2>4, GoesOn DEF VerdictInv, Started
<1>. QED  BY <1>1, <1>2, <1>3

\* The probes' verdict, from an init-order probe that told the truth.
LEMMA VerdictIsEarned ==
  ASSUME VerdictInv, NEW c \in Consumers, pc[c] \in AfterInit,
         NEW lifecycle \in Statuses \cup {"skip"},
         lifecycle \in {"passed", "skip"} =>
           /\ code[Job(c)] # "noStart"
           /\ code[Job(c)] = "noHook" =>
                {<< Job(c), "start" >>, << Job(c), "count" >>} \cap misread' # {},
         lifecycle = "found_issue" => code[Job(c)] = "noHook" \/ << Job(c), "end" >> \in misread',
         Job(c) \in Jobs, TypeInv, UNCHANGED << code, log, position >>,
         NEW verdict, verdict = Aggregate(initOrder[c], lifecycle)
  PROVE  Earned(Job(c), verdict)'
<1>1. Learned(c) /\ pc[c] \in AfterInstall /\ pc[c] \in AfterBuild
  BY DEF VerdictInv, AfterInstall, Started, AfterBuild
<1>2. /\ code[Job(c)] \in AllCodes \ {"noInstall", "noBuild"}
      /\ initOrder[c] \in Statuses
      /\ initOrder[c] = "passed" => code[Job(c)] # "badInit"
      /\ initOrder[c] = "found_issue" => code[Job(c)] = "badInit"
  BY <1>1 DEF InitKnown, Learned, TypeInv, TypeOK, Statuses
<1>3. /\ verdict = "passed" => initOrder[c] = "passed" /\ lifecycle \in {"passed", "skip"}
      /\ verdict = "found_issue" => "found_issue" \in {initOrder[c], lifecycle}
  BY <1>2, Verdicts
<1>4. verdict = "passed" =>
        \/ code[Job(c)] \in {"good", "silent"}
        \/ /\ code[Job(c)] = "noHook"
           /\ {<< Job(c), "start" >>, << Job(c), "count" >>} \cap misread' # {}
  BY <1>2, <1>3 DEF AllCodes
<1>5. verdict = "found_issue" => Bad(Job(c)) \/ << Job(c), "end" >> \in misread'
  BY <1>2, <1>3 DEF Bad
<1>. QED  BY <1>4, <1>5 DEF Earned, Bad, Job

LEMMA ProbesLearn ==
  ASSUME TypeInv, VerdictInv, NEW c \in Consumers, Step(c),
         StartApp(c) \/ Signal(c) \/ Notice(c) \/ Unseen(c)
  PROVE  Owns(c)' /\ Learned(c)'
<1>1. /\ pc[c] \in {"app"} \cup Started /\ pc[c] \in AfterInit /\ pc[c] \in StageCalls
      /\ pc[c] \in AfterBuild /\ pc[c] \in AfterInstall
  BY DEF StartApp, Signal, Notice, Unseen, AppUnseen, CountUnseen, NoticeUnseen, AfterInstall,
         AfterBuild, AfterInit, Started, StageCalls
<1>2. Job(c) \in Jobs /\ << Key(c), "mock" >> \in containers /\ Learned(c)
  BY <1>1, JobTypes DEF Placed, Try, InRunner, VerdictInv, Owns, Owned, Started
<1>3. ASSUME NEW lifecycle \in Statuses \cup {"skip"}, End(c, Aggregate(initOrder[c], lifecycle)),
             lifecycle \in {"passed", "skip"} =>
               /\ code[Job(c)] # "noStart"
               /\ code[Job(c)] = "noHook" =>
                    {<< Job(c), "start" >>, << Job(c), "count" >>} \cap misread' # {},
             lifecycle = "found_issue" => code[Job(c)] = "noHook" \/ << Job(c), "end" >> \in misread'
      PROVE  Owns(c)' /\ Learned(c)'
  <2>1. PICK verdict : verdict = Aggregate(initOrder[c], lifecycle)
    OBVIOUS
  <2>2. UNCHANGED << code, log, position >>
    BY DEF Step, PlaceStep
  <2>3. Earned(Job(c), verdict)'
    BY <1>1, <1>2, <1>3, <2>1, <2>2, VerdictIsEarned
  <2>4. End(c, verdict)
    BY <1>3, <2>1
  <2>. QED  BY <2>3, <2>4, Ends
<1>4. CASE End(c, "inconclusive")
  BY <1>4, Ends, InconclusiveIsEarned
<1>5. ASSUME NEW s \in Started, Advance(c, s), code[Job(c)] \notin {"noStart", "silent"},
             << Key(c), "mock" >> \in containers', << Key(c), "app" >> \in containers',
             s = "uncounted" => << Job(c), "count" >> \in misread'
      PROVE  Owns(c)' /\ Learned(c)'
  <2>1. /\ pc' = [pc EXCEPT ![c] = s] /\ UNCHANGED << result, initOrder >>
        /\ Owned(s) = {"mock", "app"} /\ s \in StageCalls
    BY <1>5 DEF Advance, Goto, Owned, Started, StageCalls
  <2>2. InitKnown(c)'
    BY <1>1, <1>2, <2>1 DEF Learned, InitKnown, Step, PlaceStep, Job
  <2>. QED  BY <1>1, <1>2, <1>5, <2>1, <2>2, GoesOn
<1>6. CASE StartApp(c)
  <2>1. CASE code[Job(c)] = "noStart" /\ End(c, Aggregate(initOrder[c], "inconclusive"))
    BY <1>3, <2>1 DEF Statuses
  <2>2. CASE code[Job(c)] = "silent" /\ End(c, Aggregate(initOrder[c], "skip"))
    BY <1>3, <2>2
  <2>3. CASE /\ code[Job(c)] \notin {"noStart", "silent"} /\ Advance(c, "signal")
             /\ Create(Key(c), "app")
    BY <1>2, <1>5, <2>3 DEF Create, Started
  <2>. QED  BY <1>2, <1>4, <1>6, <2>1, <2>2, <2>3 DEF StartApp, Create, Ran
<1>7. CASE Signal(c)
  <2>1. code[Job(c)] \notin {"noStart", "silent"}
    BY <1>2, <1>7 DEF Signal, Learned, Started
  <2>. QED  BY <1>2, <1>4, <1>5, <1>7, <2>1 DEF Signal, Ran, Started, dockerVars
<1>8. CASE Notice(c)
  <2>1. /\ code[Job(c)] \notin {"noStart", "silent"} /\ << Key(c), "app" >> \in containers
        /\ pc[c] = "uncounted" => << Job(c), "count" >> \in misread
    BY <1>2, <1>8 DEF Notice, Learned, VerdictInv, Owns, Owned, Started
  <2>2. misread' = misread
    BY <1>8 DEF Notice, Undisturbed, historyVars
  <2>3. CASE pc[c] # "uncounted" /\ code[Job(c)] = "noHook"
    <3>1. End(c, Aggregate(initOrder[c], "found_issue"))
      BY <1>2, <1>8, <2>3 DEF Notice, Ran
    <3>. QED  BY <1>3, <2>3, <3>1 DEF Statuses
  <2>4. CASE pc[c] = "uncounted" \/ code[Job(c)] # "noHook"
    <3>1. End(c, Aggregate(initOrder[c], "passed"))
      BY <1>2, <1>8, <2>1, <2>4 DEF Notice, Ran
    <3>. QED  BY <1>3, <2>1, <2>2, <2>4, <3>1 DEF Statuses
  <2>. QED  BY <2>3, <2>4
<1>9. CASE AppUnseen(c)
  <2>1. CASE End(c, Aggregate(initOrder[c], "inconclusive"))
    BY <1>3, <2>1 DEF Statuses
  <2>2. CASE /\ code[Job(c)] # "noStart" /\ End(c, Aggregate(initOrder[c], "skip"))
             /\ << Job(c), "start" >> \in misread'
    BY <1>3, <2>2
  <2>. QED  BY <1>9, <2>1, <2>2 DEF AppUnseen, Misread
<1>10. CASE CountUnseen(c)
  <2>1. code[Job(c)] \notin {"noStart", "silent"}
    BY <1>2, <1>10 DEF CountUnseen, Learned, Started
  <2>. QED  BY <1>2, <1>5, <1>10, <2>1 DEF CountUnseen, Misread, Ran, Started, dockerVars
<1>11. CASE NoticeUnseen(c)
  <2>1. End(c, Aggregate(initOrder[c], "found_issue")) /\ << Job(c), "end" >> \in misread'
    BY <1>11 DEF NoticeUnseen, Misread
  <2>. QED  BY <1>3, <2>1 DEF Statuses
<1>. QED  BY <1>6, <1>7, <1>8, <1>9, <1>10, <1>11 DEF Unseen

LEMMA TimeoutLearns ==
  ASSUME TypeInv, VerdictInv, NEW c \in Consumers, Step(c), RunTimesOut(c)
  PROVE  Owns(c)' /\ Learned(c)'
<1>1. CASE End(c, "inconclusive")
  BY <1>1, Ends, InconclusiveIsEarned
<1>2. CASE pc[c] \in {"init", "initing"} /\ RunFailed(c, "init")
  BY <1>2, RunFailedLearns
<1>. QED  BY <1>1, <1>2 DEF RunTimesOut

LEMMA ConsumerKeepsVerdicts ==
  ASSUME KeysDiffer, TypeInv, VerdictInv, NEW c \in Consumers, Handle(c) \/ Run(c) \/ Disturb(c),
         ~Fetch(c)
  PROVE  VerdictInv'
<1>1. Step(c)
  BY ConsumerSteps
<1>2. Owns(c)' /\ Learned(c)'
  BY <1>1, HandleLearns, CleanupLearns, PrepareLearns, ServiceLearns, LaunchLearns, FinishLearns,
     ProbesLearn, TimeoutLearns
     DEF Run, Disturb, Unseen
<1>3. ASSUME NEW d \in Consumers \ {c}
      PROVE  Owns(d)' /\ Learned(d)'
  BY <1>1, <1>3, OthersUndisturbed DEF VerdictInv
<1>4. (\A j \in Jobs : \A status \in published[j] : Earned(j, status))'
  BY <1>1, PublishedIsEarned
<1>. QED  BY <1>2, <1>3, <1>4 DEF VerdictInv

\* Steps that no consumer takes, and fetches: no consumer with a message is
\* affected, unless all of them are stopped.
LEMMA WorldKeepsVerdicts ==
  ASSUME TypeInv, VerdictInv,
         \/ LateCreate \/ BeginShutdown \/ Kill \/ Restart
         \/ \E c \in Consumers : Fetch(c)
         \/ \E j \in Jobs : Request(j) \/ ExpireLock(j) \/ ExpireAttempts(j)
  PROVE  VerdictInv'
<1>1. UNCHANGED << code, misread, published, result, initOrder >>
  BY DEF LateCreate, BeginShutdown, Kill, Restart, Fetch, Request, ExpireLock, ExpireAttempts, runVars,
         historyVars
<1>2. ASSUME NEW j \in Jobs, NEW status, Earned(j, status)
      PROVE  Earned(j, status)'
  BY <1>1, <1>2 DEF Earned, Bad
<1>3. ASSUME NEW d \in Consumers, pc'[d] \in {"fetch", "start", "down"}
      PROVE  Owns(d)' /\ Learned(d)'
  BY <1>3 DEF Owns, Owned, Learned, StageCalls, Cleanup, AfterInstall, AfterBuild, AfterInit, Started
<1>4. ASSUME NEW d \in Consumers, pc'[d] = pc[d], Job(d)' = Job(d), containers \subseteq containers'
      PROVE  Owns(d)' /\ Learned(d)'
  <2>1. Key(d)' = Key(d)
    BY <1>4 DEF Key
  <2>. QED  BY <1>1, <1>4, <2>1 DEF InitKnown, VerdictInv, Owns, Learned, Earned, Bad
<1>5. CASE LateCreate \/ BeginShutdown \/ \E j \in Jobs : ExpireLock(j) \/ ExpireAttempts(j)
  <2>1. /\ UNCHANGED << pc, log, position >> /\ containers \subseteq containers'
    BY <1>5 DEF LateCreate, BeginShutdown, ExpireLock, ExpireAttempts, Create, dockerVars, kafkaVars
  <2>2. \A d \in Consumers : Job(d)' = Job(d)
    BY <2>1 DEF Job
  <2>3. \A d \in Consumers : Owns(d)' /\ Learned(d)'
    BY <1>4, <2>1, <2>2
  <2>. QED  BY <1>1, <1>2, <2>3 DEF VerdictInv
<1>6. CASE Kill \/ Restart
  <2>1. \A d \in Consumers : pc'[d] \in {"fetch", "down"}
    BY <1>6 DEF Kill, Restart
  <2>2. \A d \in Consumers : Owns(d)' /\ Learned(d)'
    BY <1>3, <2>1
  <2>. QED  BY <1>1, <1>2, <2>2 DEF VerdictInv
<1>7. ASSUME NEW c \in Consumers, Fetch(c)
      PROVE  VerdictInv'
  <2>1. /\ pc'[c] = "start" /\ UNCHANGED containers
        /\ \A d \in Consumers \ {c} : pc'[d] = pc[d] /\ Job(d)' = Job(d)
    BY <1>7 DEF Fetch, Goto, dockerVars, TypeInv, TypeOK, Job
  <2>2. \A d \in Consumers : Owns(d)' /\ Learned(d)'
    BY <1>3, <1>4, <2>1
  <2>. QED  BY <1>1, <1>2, <2>2 DEF VerdictInv
<1>8. ASSUME NEW j \in Jobs, Request(j)
      PROVE  VerdictInv'
  <2>1. /\ UNCHANGED << pc, containers, position >>
        /\ log' = [log EXCEPT ![PartitionOf[j]] = Append(@, j)]
    BY <1>8 DEF Request, dockerVars
  <2>2. ASSUME NEW d \in Consumers
        PROVE  Owns(d)' /\ Learned(d)'
    <3>1. CASE pc[d] \in Placed
      <4>1. position[d] \in 1..Len(log[d]) /\ log[d] \in Seq(Jobs)
        BY <3>1, JobTypes DEF TypeInv, TypeOK
      <4>2. log'[d] \in {log[d], Append(log[d], j)}
        BY <2>1 DEF TypeInv, TypeOK
      <4>3. Job(d)' = Job(d)
        BY <2>1, <4>1, <4>2 DEF Job
      <4>. QED  BY <1>4, <2>1, <4>3
    <3>2. CASE pc[d] \notin Placed
      <4>1. Owned(pc'[d]) = {} /\ pc'[d] \notin StageCalls \cup Cleanup \cup {"publish", "ttl"} \cup Started
        BY <2>1, <3>2 DEF Owned, Started, Placed, Try, InRunner, StageCalls
      <4>2. pc'[d] \notin AfterInstall /\ pc'[d] \notin AfterBuild /\ pc'[d] \notin AfterInit
        BY <4>1 DEF StageCalls, AfterInstall, AfterBuild, AfterInit, Started
      <4>. QED  BY <4>1, <4>2 DEF Owns, Learned, Started
    <3>. QED  BY <3>1, <3>2
  <2>. QED  BY <1>1, <1>2, <2>2 DEF VerdictInv
<1>. QED  BY <1>5, <1>6, <1>7, <1>8

LEMMA NextKeepsVerdicts ==
  ASSUME KeysDiffer, TypeInv, VerdictInv, [Next]_vars
  PROVE  VerdictInv'
<1>1. CASE Next
  BY <1>1, ConsumerKeepsVerdicts, WorldKeepsVerdicts DEF Next
<1>2. CASE UNCHANGED vars
  BY <1>2 DEF InitKnown, vars, dockerVars, kafkaVars, runVars, historyVars, VerdictInv, Owns,
              Learned, Earned, Bad, Key, Job
<1>. QED  BY <1>1, <1>2

LEMMA InitVerdicts == Init => VerdictInv
BY DEF Init, VerdictInv, Owns, Owned, Learned, StageCalls, Cleanup, AfterInstall, AfterBuild,
       AfterInit, Started

LEMMA VerdictsAlwaysEarned ==
  ASSUME KeysDiffer
  PROVE  Spec => []VerdictInv
BY InitAttempts, InitTypes, InitVerdicts, NextKeepsAttemptsInv, NextKeepsTypes, NextKeepsVerdicts,
   PTL DEF Spec

\* A sandbox whose jobs have names of their own never calls code passed that has
\* an issue or that it could not try (verdict.py:30), whatever it is put through,
\* but for an app that announces its start and not its end, where the mock server
\* could not be asked for what it got up to the signal (probes.py:73-83).
THEOREM PassAlwaysEarned ==
  ASSUME KeysDiffer
  PROVE  Spec => []PassIsEarned
<1>1. VerdictInv => PassIsEarned
  BY DEF VerdictInv, Earned, PassIsEarned
<1>. QED  BY <1>1, VerdictsAlwaysEarned, PTL

\* Nor does it report an issue of code that has none, but for a build that Docker
\* refused to run (runner.py:274) and an end that was announced when the mock
\* server could not be asked (probes.py:73-83).
THEOREM IssueAlwaysHasCause ==
  ASSUME KeysDiffer
  PROVE  Spec => []IssueHasCause
<1>1. VerdictInv => IssueHasCause
  BY DEF VerdictInv, Earned, IssueHasCause
<1>. QED  BY <1>1, VerdictsAlwaysEarned, PTL
================================================================================
