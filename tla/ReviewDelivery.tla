---------------------------- MODULE ReviewDelivery ----------------------------
(***************************************************************************)
(* Delivery of pr.review.requested: the consumer group on one partition of *)
(* the topic, ReviewRequestConsumer.run and handle (app/kafka/consumer.py) *)
(* under _run_consumer_forever (app/main.py), the Redis lock of            *)
(* RedisDedupStore (app/review/dedup.py) and the events published.         *)
(*                                                                         *)
(* Each `await` of the code is a program-counter value: the named action   *)
(* of that value is the call returning normally; Raise, Cancel, Recancel   *)
(* and Kill are the ways it may end otherwise.  A call that ends by an     *)
(* exception or a cancellation may already have taken effect at the        *)
(* service ("late" \in Faults) or not.                                     *)
(***************************************************************************)
EXTENDS PrHeads, Sequences, FiniteSets

CONSTANTS
  Workers,         \* members of the consumer group
  NoWorker,        \* the partition has no owner
  Invalid,         \* a payload ReviewRequestedEvent refuses
  SkipSuperseded,  \* settings.review_skip_superseded_enabled
  Saves,           \* settings.evaluation_enabled
  Repeats,         \* may a job be requested more than once?
  Faults,          \* which of AllFaults may happen
  MaxLog,          \* bound: requests on the topic
  MaxFaults        \* bound: faults in a behaviour

AllFaults ==
  { "kill",       \* the process dies with no chance to clean up
    "raise",      \* a call to Redis, Kafka, the database or the pipeline raises
    "cancel",     \* SIGTERM, then the grace period ends and tasks are cancelled
    "recancel",   \* the second task.cancel() of the lifespan
    "late",       \* a call that raised or was cancelled had already taken effect
    "rebalance",  \* the partition moves although its owner still runs
    "expire" }    \* a TTL in Redis passes

ASSUME DeliveryAssumption ==
  /\ NoWorker \notin Workers
  /\ Invalid \notin Jobs
  /\ SkipSuperseded \in BOOLEAN /\ Saves \in BOOLEAN /\ Repeats \in BOOLEAN
  /\ Faults \subseteq AllFaults
  /\ MaxLog \in Nat /\ MaxFaults \in Nat

VARIABLES
  log,        \* the partition of pr.review.requested
  tracked,    \* offset of the pr-head-tracker group
  committed,  \* committed offset of the review group
  owner,      \* the member the partition is assigned to
  position,   \* how far the owner's assignment has been read
  pc,         \* where each worker's task waits
  at,         \* the message each worker handles, 0 for none
  stopping,   \* shutdown_event of the worker's process
  lock,       \* the dedup key of each job
  completed,  \* pr.review.completed events published for each job
  failed,     \* pr.review.failed events published for each job
  settled,    \* history: messages whose handle() returned
  faults,     \* number of faults so far
  suffered    \* history: the kinds of those faults

service == << lock, completed, failed, committed >>
group   == << owner, position >>
topic   == << log, tracked, headSeq, heads >>
vars == << topic, group, service, pc, at, stopping, settled, faults, suffered >>

Try == { "run", "publishCompleted", "mark", "saveCompleted",
         "publishFailed", "saveFailed", "unlock", "release" }
Handling == {"check", "start"} \cup Try
Stages == {"fetch", "commit", "backoff", "down"} \cup Handling

TopicTypeOK ==
  /\ HeadsTypeOK
  /\ log \in Seq(Jobs \cup {Invalid})
  /\ tracked \in Nat

GroupTypeOK == owner \in Workers \cup {NoWorker} /\ position \in Nat

WorkerTypeOK ==
  /\ pc \in [Workers -> Stages]
  /\ at \in [Workers -> Nat]
  /\ stopping \in [Workers -> BOOLEAN]

ServiceTypeOK ==
  /\ lock \in [Jobs -> {"none", "in_progress", "completed"}]
  /\ completed \in [Jobs -> Nat] /\ failed \in [Jobs -> Nat]
  /\ committed \in Nat

TypeOK ==
  /\ TopicTypeOK /\ GroupTypeOK /\ WorkerTypeOK /\ ServiceTypeOK
  /\ settled \subseteq Nat
  /\ faults \in Nat /\ suffered \subseteq AllFaults

Init ==
  /\ HeadsInit
  /\ log = << >>
  /\ tracked = 0 /\ committed = 0 /\ position = 0
  /\ owner = NoWorker
  /\ pc = [w \in Workers |-> "fetch"]
  /\ at = [w \in Workers |-> 0]
  /\ stopping = [w \in Workers |-> FALSE]
  /\ lock = [j \in Jobs |-> "none"]
  /\ completed = [j \in Jobs |-> 0] /\ failed = [j \in Jobs |-> 0]
  /\ settled = {}
  /\ faults = 0 /\ suffered = {}

Job(w) == log[at[w]]
Working(w, j) == pc[w] \in Try /\ Job(w) = j

Counted(f) == f \in Faults /\ faults < MaxFaults /\ faults' = faults + 1
Fault(f) == Counted(f) /\ suffered' = suffered \cup {f}

NoFault == UNCHANGED << faults, suffered >>

(***************************************************************************)
(* What each call does at the service it is made to.                       *)
(***************************************************************************)
\* Mutants: SET without NX; a completed key does not stop a new start.
Acquired_Always(j) == TRUE
Acquired_UnlessRunning(j) == lock[j] # "in_progress"

\* SET key in_progress NX EX ttl answers whether the key was absent.
Acquired(j) == lock[j] = "none"

SetInProgress(j) ==
  /\ lock' = [lock EXCEPT ![j] = IF Acquired(j) THEN "in_progress" ELSE @]
  /\ UNCHANGED << completed, failed, committed >>

SetCompleted(j) ==
  /\ lock' = [lock EXCEPT ![j] = "completed"]
  /\ UNCHANGED << completed, failed, committed >>

DeleteLock(j) ==
  /\ lock' = [lock EXCEPT ![j] = "none"]
  /\ UNCHANGED << completed, failed, committed >>

SendCompleted(j) ==
  /\ completed' = [completed EXCEPT ![j] = @ + 1]
  /\ UNCHANGED << lock, failed, committed >>

SendFailed(j) ==
  /\ failed' = [failed EXCEPT ![j] = @ + 1]
  /\ UNCHANGED << lock, completed, committed >>

\* Mutants: the offset after the next message; a commit that is not fenced.
CommitOffset_OffByOne(w) ==
  /\ committed' = IF owner = w THEN position + 1 ELSE committed
  /\ UNCHANGED << lock, completed, failed >>

CommitOffset_Unfenced(w) ==
  /\ committed' = position
  /\ UNCHANGED << lock, completed, failed >>

\* A member commits the positions of its own assignment, if it has one.
CommitOffset(w) ==
  /\ committed' = IF owner = w THEN position ELSE committed
  /\ UNCHANGED << lock, completed, failed >>

\* The effect of the call worker w is waiting for.
Effect(w) ==
  \/ pc[w] = "start" /\ SetInProgress(Job(w))
  \/ pc[w] = "publishCompleted" /\ SendCompleted(Job(w))
  \/ pc[w] = "publishFailed" /\ SendFailed(Job(w))
  \/ pc[w] = "mark" /\ SetCompleted(Job(w))
  \/ pc[w] \in {"unlock", "release"} /\ DeleteLock(Job(w))
  \/ pc[w] = "commit" /\ CommitOffset(w)

\* A call that did not return, ended by a fault of these kinds: the service
\* saw it or it did not.
Interrupted(w, kinds) ==
  \/ UNCHANGED service /\ suffered' = suffered \cup kinds
  \/ /\ "late" \in Faults
     /\ Effect(w)
     /\ suffered' = suffered \cup kinds \cup {"late"}

(***************************************************************************)
(* The worker's own control.                                               *)
(***************************************************************************)
Goto(w, stage) ==
  /\ pc' = [pc EXCEPT ![w] = stage]
  /\ UNCHANGED << at, stopping >>

\* handle() returns; run() awaits the commit.
Return(w) == Goto(w, "commit") /\ settled' = settled \cup {at[w]}

\* The task leaves handle() for a stage outside it.
LeaveTo(w, stage) ==
  /\ pc' = [pc EXCEPT ![w] = stage]
  /\ at' = [at EXCEPT ![w] = 0]
  /\ UNCHANGED stopping

\* The task ends and its consumer leaves the group.
Stop(w) ==
  /\ LeaveTo(w, "down")
  /\ owner' = IF owner = w THEN NoWorker ELSE owner
  /\ UNCHANGED position

Fetch(w) ==
  /\ pc[w] = "fetch" /\ owner = w /\ position < Len(log)
  /\ position' = position + 1
  /\ at' = [at EXCEPT ![w] = position + 1]
  /\ \/ /\ log[position + 1] = Invalid
        /\ pc' = [pc EXCEPT ![w] = "commit"]
        /\ settled' = settled \cup {position + 1}
     \/ /\ log[position + 1] # Invalid
        /\ pc' = [pc EXCEPT ![w] = IF SkipSuperseded THEN "check" ELSE "start"]
        /\ UNCHANGED settled
  /\ NoFault
  /\ UNCHANGED << topic, owner, service, stopping >>

CheckSuperseded(w) ==
  /\ pc[w] = "check"
  /\ \/ IsSuperseded(Job(w)) /\ Return(w)
     \/ ~IsSuperseded(Job(w)) /\ Goto(w, "start") /\ UNCHANGED settled
  /\ NoFault
  /\ UNCHANGED << topic, group, service >>

\* is_superseded swallows a Redis error and answers False.
CheckFails(w) ==
  /\ pc[w] = "check"
  /\ Fault("raise")
  /\ Goto(w, "start")
  /\ UNCHANGED << topic, group, service, settled >>

TryStart(w) ==
  /\ pc[w] = "start"
  /\ SetInProgress(Job(w))
  /\ \/ Acquired(Job(w)) /\ Goto(w, "run") /\ UNCHANGED settled
     \/ ~Acquired(Job(w)) /\ Return(w)
  /\ NoFault
  /\ UNCHANGED << topic, group >>

RunPipeline(w) ==
  /\ pc[w] = "run"
  /\ \E stage \in {"publishCompleted", "publishFailed"} : Goto(w, stage)
  /\ NoFault
  /\ UNCHANGED << topic, group, service, settled >>

PublishCompleted(w) ==
  /\ pc[w] = "publishCompleted"
  /\ SendCompleted(Job(w))
  /\ Goto(w, "mark")
  /\ NoFault
  /\ UNCHANGED << topic, group, settled >>

MarkCompleted(w) ==
  /\ pc[w] = "mark"
  /\ SetCompleted(Job(w))
  /\ \/ Saves /\ Goto(w, "saveCompleted") /\ UNCHANGED settled
     \/ ~Saves /\ Return(w)
  /\ NoFault
  /\ UNCHANGED << topic, group >>

PublishFailed(w) ==
  /\ pc[w] = "publishFailed"
  /\ SendFailed(Job(w))
  /\ Goto(w, IF Saves THEN "saveFailed" ELSE "unlock")
  /\ NoFault
  /\ UNCHANGED << topic, group, settled >>

\* _save_evaluation_record swallows every exception of the repository, whose
\* rows are in EvaluationStore.
SaveCompleted(w) ==
  /\ pc[w] = "saveCompleted"
  /\ Return(w)
  /\ NoFault \/ Fault("raise")
  /\ UNCHANGED << topic, group, service >>

SaveFailed(w) ==
  /\ pc[w] = "saveFailed"
  /\ Goto(w, "unlock")
  /\ NoFault \/ Fault("raise")
  /\ UNCHANGED << topic, group, service, settled >>

MarkFailed(w) ==
  /\ pc[w] = "unlock"
  /\ DeleteLock(Job(w))
  /\ Return(w)
  /\ NoFault
  /\ UNCHANGED << topic, group >>

\* Mutant: the handler forgets mark_failed.
Release_KeepsLock(w) ==
  /\ pc[w] = "release"
  /\ Stop(w)
  /\ NoFault
  /\ UNCHANGED << topic, service, settled >>

\* The CancelledError handler: mark_failed, then the cancellation goes on.
Release(w) ==
  /\ pc[w] = "release"
  /\ DeleteLock(Job(w))
  /\ Stop(w)
  /\ NoFault
  /\ UNCHANGED << topic, settled >>

Commit(w) ==
  /\ pc[w] = "commit"
  /\ CommitOffset(w)
  /\ \/ stopping[w] /\ Stop(w)
     \/ ~stopping[w] /\ LeaveTo(w, "fetch") /\ UNCHANGED group
  /\ NoFault
  /\ UNCHANGED << topic, settled >>

\* _run_consumer_forever slept 5 s; it calls run() again on the same consumer.
Resume(w) ==
  /\ pc[w] = "backoff"
  /\ \/ stopping[w] /\ Stop(w)
     \/ ~stopping[w] /\ LeaveTo(w, "fetch") /\ UNCHANGED group
  /\ NoFault
  /\ UNCHANGED << topic, service, settled >>

(***************************************************************************)
(* How a call ends otherwise.                                              *)
(***************************************************************************)
\* No handler but the one for CancelledError: the exception leaves handle()
\* and run() with the lock as it is and the position past the message.
Raise(w) ==
  /\ pc[w] \in { "start", "run", "publishCompleted", "mark", "publishFailed",
                 "unlock", "release", "commit" }
  /\ Counted("raise")
  /\ Interrupted(w, {"raise"})
  /\ LeaveTo(w, "backoff")
  /\ UNCHANGED << topic, group, settled >>

BeginShutdown(w) ==
  /\ pc[w] # "down" /\ ~stopping[w]
  /\ Fault("cancel")
  /\ stopping' = [stopping EXCEPT ![w] = TRUE]
  /\ UNCHANGED << topic, group, service, pc, at, settled >>

\* The grace period is over.  Only the body of the try block has a handler.
Cancel(w) ==
  /\ stopping[w] /\ pc[w] \notin {"down", "release"}
  /\ Interrupted(w, {})
  /\ \/ pc[w] \in Try /\ Goto(w, "release") /\ UNCHANGED group
     \/ pc[w] \notin Try /\ Stop(w)
  /\ UNCHANGED faults
  /\ UNCHANGED << topic, settled >>

\* The lifespan cancels every task again while the handler awaits Redis.
Recancel(w) ==
  /\ pc[w] = "release"
  /\ Counted("recancel")
  /\ Interrupted(w, {"recancel"})
  /\ Stop(w)
  /\ UNCHANGED << topic, settled >>

Kill(w) ==
  /\ pc[w] # "down"
  /\ Fault("kill")
  /\ Stop(w)
  /\ UNCHANGED << topic, service, settled >>

Restart(w) ==
  /\ pc[w] = "down"
  /\ pc' = [pc EXCEPT ![w] = "fetch"]
  /\ stopping' = [stopping EXCEPT ![w] = FALSE]
  /\ NoFault
  /\ UNCHANGED << topic, group, service, at, settled >>

(***************************************************************************)
(* The broker, Redis and the requesting service.                           *)
(***************************************************************************)

AssignTo(w) ==
  /\ pc[w] # "down"
  /\ owner' = w
  /\ position' = committed
  /\ UNCHANGED << topic, service, pc, at, stopping, settled >>

Assign(w) == owner = NoWorker /\ AssignTo(w) /\ NoFault
Rebalance(w) == owner # NoWorker /\ AssignTo(w) /\ Fault("rebalance")

\* A key outlives every handler of its job: the TTL is a day, a review minutes.
ExpireLock(j) ==
  /\ lock[j] # "none"
  /\ ~ \E w \in Workers : Working(w, j)
  /\ Fault("expire")
  /\ DeleteLock(j)
  /\ UNCHANGED << topic, group, pc, at, stopping, settled >>

ExpireHeads(pr) ==
  /\ ForgetPr(pr)
  /\ Fault("expire")
  /\ UNCHANGED << log, tracked, group, service, pc, at, stopping, settled >>

Request(m) ==
  /\ Len(log) < MaxLog
  /\ Repeats \/ \A i \in 1..Len(log) : log[i] # m
  /\ log' = Append(log, m)
  /\ NoFault
  /\ UNCHANGED << tracked, headVars, group, service, pc, at, stopping, settled >>

\* PrHeadTrackerConsumer: record, then commit.
Track ==
  /\ SkipSuperseded /\ tracked < Len(log)
  /\ LET m == log[tracked + 1] IN
       \/ m = Invalid /\ NoFault /\ UNCHANGED headVars
       \/ m # Invalid /\ NoFault /\ Record(m)
       \/ m # Invalid /\ Fault("raise") /\ RecordFails(m)
  /\ tracked' = tracked + 1
  /\ UNCHANGED << log, group, service, pc, at, stopping, settled >>

\* Its process died between the two: the message is recorded again later.
TrackUncommitted ==
  /\ SkipSuperseded /\ tracked < Len(log)
  /\ log[tracked + 1] # Invalid
  /\ Record(log[tracked + 1])
  /\ Fault("kill")
  /\ UNCHANGED << log, tracked, group, service, pc, at, stopping, settled >>

Handle(w) ==
  \/ Fetch(w) \/ CheckSuperseded(w) \/ TryStart(w) \/ RunPipeline(w)
  \/ PublishCompleted(w) \/ MarkCompleted(w) \/ SaveCompleted(w)
  \/ PublishFailed(w) \/ SaveFailed(w) \/ MarkFailed(w)
  \/ Release(w) \/ Commit(w) \/ Resume(w)

Disturb(w) ==
  \/ CheckFails(w) \/ Raise(w) \/ BeginShutdown(w) \/ Cancel(w) \/ Recancel(w)
  \/ Kill(w) \/ Restart(w) \/ Assign(w) \/ Rebalance(w)

Environment ==
  \/ \E m \in Jobs \cup {Invalid} : Request(m)
  \/ \E j \in Jobs : ExpireLock(j) \/ ExpireHeads(PrOf[j])
  \/ Track \/ TrackUncommitted

Next == (\E w \in Workers : Handle(w) \/ Disturb(w)) \/ Environment

Spec == Init /\ [][Next]_vars

\* Every awaited call ends, the grace timer fires, a process that is down is
\* restarted, the broker assigns a partition nobody owns.
Fairness ==
  /\ \A w \in Workers : /\ WF_vars(Handle(w))
                        /\ WF_vars(Cancel(w))
                        /\ WF_vars(Restart(w))
  /\ WF_vars(\E w \in Workers : Assign(w))
  /\ WF_vars(Track)

FairSpec == Spec /\ Fairness

(***************************************************************************)
(* Properties.                                                             *)
(***************************************************************************)
\* Two workers are never between try_start and the end of handle() for the
\* same job, unless a cancelled call took effect late: then the handler's DEL
\* may be the second one and remove the key that another worker has taken.
MutualExclusion ==
  {"cancel", "late"} \subseteq suffered \/
  \A w, v \in Workers :
    w # v /\ pc[w] \in Try /\ pc[v] \in Try => Job(w) # Job(v)

\* The committed offset never covers a message whose handle() has not
\* returned, unless a call has raised: the position stays past the message.
CommitAfterHandling ==
  "raise" \in suffered \/ \A i \in 1..committed : i \in settled

Answered(j) == completed[j] + failed[j] > 0

\* A worker that will still publish an event for the job.
OnItsWay(j) ==
  \E w \in Workers : pc[w] \in {"run", "publishCompleted", "publishFailed"} /\ Job(w) = j

\* After the first request for head j there was one for another head of its PR.
Overtaken(j) ==
  /\ j \in HeadJobs
  /\ \E i, k \in 1..Len(log) :
       /\ i < k /\ log[i] = j
       /\ log[k] \in HeadJobs /\ log[k] # j /\ PrOf[log[k]] = PrOf[j]

\* Message i asked for a review and was answered or gave way to a newer head.
Resolved(i) ==
  /\ i <= Len(log)
  /\ \/ log[i] \notin Jobs
     \/ Answered(log[i])
     \/ SkipSuperseded /\ Overtaken(log[i])

\* The faults after which a key may stay although nobody handles its job.
LeavesKeys == {"kill", "raise", "recancel", "late"}

\* An in-progress key is the key of a worker that is still in handle(), as
\* long as handlers end by themselves or by one cancellation.
NoOrphanLock ==
  suffered \cap LeavesKeys # {} \/
  \A j \in Jobs : lock[j] = "in_progress" => \E w \in Workers : Working(w, j)

\* A request the group will not see again has been answered, is about to be,
\* or gave way to a newer head: whatever expires, and under cancellations or
\* rebalances, but not both (the new owner skips and commits what the old one
\* is cancelled on), nor where a key may be left behind.
NoLostRequest ==
  \/ suffered \cap LeavesKeys # {}
  \/ {"cancel", "rebalance"} \subseteq suffered
  \/ \A i \in 1..committed : Resolved(i) \/ OnItsWay(log[i])

\* The check skips a request only if another head of its PR was requested
\* after this head was.
OnlyNewerHeadSkips ==
  [][\A w \in Workers :
       pc[w] = "check" /\ pc'[w] = "commit" => Overtaken(Job(w))]_vars

Ledger ==
  INSTANCE ReviewLedger WITH
    busy <- [j \in Jobs |-> lock[j] = "in_progress" /\ completed[j] = 0],
    answers <- completed,
    failures <- failed

\* The faults that give up the key of a job that was answered.
Reopens == {"cancel", "expire"}

\* The delivery protocol implements the ledger, as long as no task was
\* cancelled and no key has expired.
ImplementsLedger ==
  /\ Ledger!Init
  /\ [][suffered' \cap Reopens = {} => [Ledger!Next]_(Ledger!vars)]_vars

\* A handler was killed, cancelled a second time while it gave up its key, or ended
\* by a call that took effect late: nobody is at message i, and its key keeps
\* everybody from it.
LeftBehind(i) ==
  /\ i <= Len(log) /\ log[i] \in Jobs
  /\ suffered \cap LeavesKeys # {}
  /\ lock[log[i]] = "in_progress"
  /\ ~ \E w \in Workers : Working(w, log[i])

\* Every request is eventually answered, or a newer head replaces it, or the key
\* of its job was left behind: a shutdown that outlasts its grace period cancels
\* handlers a second time as soon as the first of its tasks has ended.
AllAnswered == \A i \in 1..MaxLog : Len(log) >= i ~> Resolved(i) \/ LeftBehind(i)
=============================================================================
