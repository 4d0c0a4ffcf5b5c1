----------------------------- MODULE SandboxProbe -----------------------------
(***************************************************************************)
(* The sandbox worker: one process with several SandboxProbeConsumers      *)
(* (app/sandbox_probe/consumer.py), each on a partition of its own, which  *)
(* share one SandboxJobRunner (runner.py), one Docker daemon and one work  *)
(* directory.  The request for a job always reaches the same partition.    *)
(*                                                                         *)
(* A program-counter value is the awaited call.  The verdict of a run is   *)
(* computed from what the code of the pull request really does (code[j])   *)
(* and from what the sandbox lets the run see of it.                       *)
(***************************************************************************)
EXTENDS SandboxDocker, Naturals, Sequences, FiniteSets

CONSTANTS
  Jobs,         \* reviewJobIds
  Consumers,    \* settings.sandbox_probe_concurrency, a partition each
  PartitionOf,  \* the consumer whose partition the requests of a job reach
  KeyOf,        \* the sanitized, truncated job id
  Codes,        \* what the code of each pull request may do, see AllCodes
  MaxAttempts,  \* settings.sandbox_probe_max_attempts
  Faults,       \* which of AllFaults may happen
  MaxRequests,  \* bound: requests for each job, by what its code does
  MaxFaults     \* bound: faults in a behaviour

\* How the pull request fares in a sandbox that works.
AllCodes ==
  { "good",       \* installs, builds, starts, announces its start and its end
    "noInstall", "noBuild",
    "badInit",    \* a module fails to import on its own
    "noStart",
    "silent",     \* announces nothing
    "noHook" }    \* announces its start, and not its end within 5 s of SIGTERM

AllFaults ==
  { "kill",     \* the process is killed
    "raise",    \* a call to Redis or Kafka raises
    "docker",   \* a docker command, git or the token service fails
    "slow",     \* a docker run, or the whole job, exceeds its time limit
    "cancel",   \* SIGTERM, then the grace period ends and tasks are cancelled
    "recancel", \* the second task.cancel() of the lifespan
    "late",     \* a call that raised or was cancelled still takes effect
    "expire" }  \* a TTL in Redis passes

ASSUME SandboxAssumption ==
  /\ PartitionOf \in [Jobs -> Consumers]
  /\ KeyOf \in [Jobs -> Keys]
  /\ Codes \in [Jobs -> SUBSET AllCodes]
  /\ MaxAttempts \in Nat \ {0}
  /\ Faults \subseteq AllFaults
  /\ MaxRequests \in [Jobs -> [AllCodes -> Nat]] /\ MaxFaults \in Nat

VARIABLES
  code,         \* what the code of each job does
  log,          \* the partition of each consumer
  committed,    \* committed offset of each partition
  position,     \* read position of each consumer
  pc,           \* where each consumer's task waits
  result,       \* status the run of each consumer arrived at
  initOrder,    \* outcome of the init-order probe of that run
  leaving,      \* the run of the consumer was cancelled
  stopping,     \* shutdown_event
  lock,         \* sandbox-probe-dedup key of each job
  attempts,     \* sandbox-probe-attempts counter of each job
  timed,        \* jobs whose counter has its TTL
  published,    \* pr.sandbox.probe.completed events: the statuses per job
  late,         \* container creations in flight when their call was cancelled
  suspect,      \* history: keys of which a docker command was cut short or failed
                \* since the process started
  misread,      \* history: jobs, with what a failure of the sandbox was taken for
                \* the code's, see Readings
  abandoned,    \* history: jobs whose key stayed when their handler was cut short
  runs,         \* history: runs let through for each job by its present counter
  faults        \* number of faults so far

kafkaVars == << log, committed, position >>
redisVars == << lock, attempts, timed >>
historyVars == << late, suspect, misread, abandoned >>
runVars == << result, initOrder, leaving >>
vars == << dockerVars, kafkaVars, redisVars, runVars, code, pc, stopping,
           published, historyVars, runs, faults >>

\* What each stage of a run asks Docker to create.
Creates ==
  [ proxy |-> "proxy", install |-> "install", build |-> "build", init |-> "init",
    mock |-> "mock", sidecars |-> "sidecar", app |-> "app" ]

StageCalls == { "token", "checkout", "internal", "egress", "proxy", "install",
                "installing", "build", "building", "init", "initing", "mock",
                "sidecars", "app", "signal", "notice", "uncounted" }
Cleanup == {"rmContainers", "rmNetworks"}
InRunner == StageCalls \cup Cleanup
Try == {"incr", "ttl", "publish", "mark", "unlock", "release"} \cup InRunner
Calls == {"fetch", "start", "commit", "backoff", "down"} \cup Try

Statuses == {"passed", "found_issue", "inconclusive"}

\* A build that Docker refused to run, a start that was announced and not seen,
\* announcements not counted before SIGTERM, an end announced and not seen.
Readings == {"build", "start", "count", "end"}

TypeOK ==
  /\ DockerTypeOK
  /\ code \in [Jobs -> AllCodes]
  /\ log \in [Consumers -> Seq(Jobs)]
  /\ committed \in [Consumers -> Nat] /\ position \in [Consumers -> Nat]
  /\ pc \in [Consumers -> Calls]
  /\ result \in [Consumers -> Statuses]
  /\ initOrder \in [Consumers -> Statuses \cup {"none"}]
  /\ leaving \in [Consumers -> BOOLEAN]
  /\ stopping \in BOOLEAN
  /\ lock \in [Jobs -> {"none", "in_progress", "completed"}]
  /\ attempts \in [Jobs -> Nat] /\ timed \subseteq Jobs
  /\ published \in [Jobs -> SUBSET Statuses]
  /\ late \subseteq Keys \X ContainerKinds
  /\ suspect \subseteq Keys /\ misread \subseteq Jobs \X Readings
  /\ abandoned \subseteq Jobs
  /\ runs \in [Jobs -> Nat]
  /\ faults \in Nat

Init ==
  /\ DockerInit
  /\ code \in {f \in [Jobs -> AllCodes] : \A j \in Jobs : f[j] \in Codes[j]}
  /\ log = [c \in Consumers |-> << >>]
  /\ committed = [c \in Consumers |-> 0] /\ position = [c \in Consumers |-> 0]
  /\ pc = [c \in Consumers |-> "fetch"]
  /\ result = [c \in Consumers |-> "inconclusive"]
  /\ initOrder = [c \in Consumers |-> "none"]
  /\ leaving = [c \in Consumers |-> FALSE]
  /\ stopping = FALSE
  /\ lock = [j \in Jobs |-> "none"]
  /\ attempts = [j \in Jobs |-> 0] /\ timed = {}
  /\ published = [j \in Jobs |-> {}]
  /\ late = {} /\ suspect = {} /\ misread = {} /\ abandoned = {}
  /\ runs = [j \in Jobs |-> 0]
  /\ faults = 0

Job(c) == log[c][position[c]]
Key(c) == KeyOf[Job(c)]
Handling(c, j) == pc[c] \in Try /\ Job(c) = j

Fault(f) == f \in Faults /\ faults < MaxFaults /\ faults' = faults + 1
NoFault == UNCHANGED faults

Goto(c, call) == pc' = [pc EXCEPT ![c] = call]

(***************************************************************************)
(* SandboxProbeConsumer.handle around the run.                             *)
(***************************************************************************)
Fetch(c) ==
  /\ pc[c] = "fetch" /\ position[c] < Len(log[c])
  /\ position' = [position EXCEPT ![c] = @ + 1]
  /\ Goto(c, "start")
  /\ NoFault
  /\ UNCHANGED << dockerVars, log, committed, redisVars, runVars, code, stopping,
                  published, historyVars, runs >>

TryStart(c) ==
  /\ pc[c] = "start"
  /\ \/ /\ lock[Job(c)] = "none"
        /\ lock' = [lock EXCEPT ![Job(c)] = "in_progress"]
        /\ Goto(c, "incr")
     \/ /\ lock[Job(c)] # "none"
        /\ Goto(c, "commit")
        /\ UNCHANGED lock
  /\ NoFault
  /\ UNCHANGED << dockerVars, kafkaVars, attempts, timed, runVars, code, stopping,
                  published, historyVars, runs >>

\* Mutant: the limit admits one attempt more.
Admitted_OffByOne(j) == attempts[j] <= MaxAttempts

\* The number INCR answers is within the limit.
Admitted(j) == attempts[j] < MaxAttempts

\* INCR, then EXPIRE if the counter is new, the run, or its refusal.
Execute(c) ==
  LET j == Job(c) IN
  /\ pc[c] = "incr"
  /\ attempts' = [attempts EXCEPT ![j] = @ + 1]
  /\ \/ /\ Admitted(j)
        /\ Goto(c, IF attempts[j] = 0 THEN "ttl" ELSE "token")
        /\ runs' = [runs EXCEPT ![j] = @ + 1]
     \/ /\ ~Admitted(j)
        /\ Goto(c, "publish")
        /\ UNCHANGED runs
  /\ result' = [result EXCEPT ![c] = "inconclusive"]
  /\ initOrder' = [initOrder EXCEPT ![c] = "none"]
  /\ NoFault
  /\ UNCHANGED << dockerVars, kafkaVars, lock, timed, leaving, code, stopping,
                  published, historyVars >>

SetTtl(c) ==
  /\ pc[c] = "ttl"
  /\ timed' = timed \cup {Job(c)}
  /\ Goto(c, "token")
  /\ NoFault
  /\ UNCHANGED << dockerVars, kafkaVars, lock, attempts, runVars, code, stopping,
                  published, historyVars, runs >>

Publish(c) ==
  /\ pc[c] = "publish"
  /\ published' = [published EXCEPT ![Job(c)] = @ \cup {result[c]}]
  /\ Goto(c, "mark")
  /\ NoFault
  /\ UNCHANGED << dockerVars, kafkaVars, redisVars, runVars, code, stopping,
                  historyVars, runs >>

MarkCompleted(c) ==
  /\ pc[c] = "mark"
  /\ lock' = [lock EXCEPT ![Job(c)] = "completed"]
  /\ Goto(c, "commit")
  /\ NoFault
  /\ UNCHANGED << dockerVars, kafkaVars, attempts, timed, runVars, code, stopping,
                  published, historyVars, runs >>

\* Mutant: the handlers forget mark_failed.
MarkFailed_KeepsLock(c) ==
  /\ pc[c] \in {"unlock", "release"}
  /\ Goto(c, IF pc[c] = "unlock" THEN "backoff" ELSE "down")
  /\ NoFault
  /\ UNCHANGED << dockerVars, kafkaVars, redisVars, runVars, code, stopping,
                  published, historyVars, runs >>

\* The handlers for Exception and for CancelledError: mark_failed, then raise.
MarkFailed(c) ==
  /\ pc[c] \in {"unlock", "release"}
  /\ lock' = [lock EXCEPT ![Job(c)] = "none"]
  /\ Goto(c, IF pc[c] = "unlock" THEN "backoff" ELSE "down")
  /\ NoFault
  /\ UNCHANGED << dockerVars, kafkaVars, attempts, timed, runVars, code, stopping,
                  published, historyVars, runs >>

Commit(c) ==
  /\ pc[c] = "commit"
  /\ committed' = [committed EXCEPT ![c] = position[c]]
  /\ Goto(c, IF stopping THEN "down" ELSE "fetch")
  /\ NoFault
  /\ UNCHANGED << dockerVars, log, position, redisVars, runVars, code, stopping,
                  published, historyVars, runs >>

\* _run_consumer_forever after an exception: the next message, not this one.
Resume(c) ==
  /\ pc[c] = "backoff"
  /\ Goto(c, IF stopping THEN "down" ELSE "fetch")
  /\ NoFault
  /\ UNCHANGED << dockerVars, kafkaVars, redisVars, runVars, code, stopping,
                  published, historyVars, runs >>

(***************************************************************************)
(* SandboxJobRunner: the stages.  A stage leaves to the next one, or ends  *)
(* the run with a status.                                                  *)
(***************************************************************************)
Advance(c, call) == Goto(c, call) /\ UNCHANGED << result, initOrder >>

End(c, status) ==
  /\ Goto(c, "rmContainers")
  /\ result' = [result EXCEPT ![c] = status]
  /\ UNCHANGED initOrder

\* What a stage leaves alone, and what it leaves alone when nothing goes wrong.
StageFrame ==
  UNCHANGED << kafkaVars, redisVars, leaving, code, stopping, published, runs >>
Undisturbed == NoFault /\ StageFrame /\ UNCHANGED historyVars

\* Mutant: the last probe decides.
Aggregate_LastProbe(init, lifecycle) == lifecycle

\* aggregate() once the install and the build passed: an issue outweighs a
\* probe that could not tell, which outweighs one that passed.
Aggregate(init, lifecycle) ==
  LET statuses == {init, lifecycle} IN
  CASE "found_issue" \in statuses -> "found_issue"
    [] statuses \cap {"found_issue", "inconclusive"} = {"inconclusive"} -> "inconclusive"
    [] statuses \cap {"found_issue", "inconclusive"} = {} ->
         IF "passed" \in statuses THEN "passed" ELSE "inconclusive"

FetchToken(c) ==
  /\ pc[c] = "token"
  /\ Advance(c, "checkout")
  /\ Undisturbed /\ UNCHANGED dockerVars

\* The clone, and the decisions taken from its files: a repository without a
\* package manager or a build script is not tried.
CheckoutRepo(c) ==
  /\ pc[c] = "checkout"
  /\ \/ /\ CanCheckout(Key(c))
        /\ Checkout(Key(c))
        /\ Advance(c, "internal") \/ End(c, "inconclusive")
     \/ /\ ~CanCheckout(Key(c))
        /\ End(c, "inconclusive")
        /\ UNCHANGED dockerVars
  /\ Undisturbed

CreateNetworks(c) ==
  \E kind \in NetworkKinds :
    /\ pc[c] = kind
    /\ \/ /\ CanCreateNetwork(Key(c), kind)
          /\ CreateNetwork(Key(c), kind)
          /\ Advance(c, IF kind = "internal" THEN "egress" ELSE "proxy")
       \/ /\ ~CanCreateNetwork(Key(c), kind)
          /\ End(c, "inconclusive")
          /\ UNCHANGED dockerVars
    /\ Undisturbed

\* docker create and start of a service; a failure is raised.  Whether it got
\* ready in time is not looked at: see RunRefused, AppUnseen.
StartService(c) ==
  \E call \in {"proxy", "mock", "sidecars"} :
    /\ pc[c] = call
    /\ \/ /\ CanCreate(Key(c), Creates[call])
          /\ Create(Key(c), Creates[call])
          /\ Advance(c, CASE call = "proxy" -> "install"
                          [] call = "mock" -> "sidecars"
                          [] call = "sidecars" -> "app")
       \/ /\ ~CanCreate(Key(c), Creates[call])
          /\ End(c, "inconclusive")
          /\ UNCHANGED dockerVars
    /\ Undisturbed

\* What a failed `docker run` means at each stage: run() does not raise.
RunFailed(c, call) ==
  \/ call = "install" /\ End(c, "inconclusive")
  \/ call = "build" /\ End(c, "found_issue")
  \/ /\ call = "init"
     /\ initOrder' = [initOrder EXCEPT ![c] = "inconclusive"]
     /\ Goto(c, "mock")
     /\ UNCHANGED result

Misread(c, what) == misread' = misread \cup {<< Job(c), what >>}

\* Docker did not run the command: its exit code is taken for the command's.
Refused(c, call) ==
  /\ RunFailed(c, call)
  /\ IF call = "build" THEN Misread(c, "build") ELSE UNCHANGED misread
  /\ UNCHANGED << dockerVars, late, suspect, abandoned >>

\* `docker run` of the install, the build or the init-order probe: the daemon
\* creates the container or the command fails.
LaunchRun(c) ==
  \E call \in {"install", "build", "init"} :
    /\ pc[c] = call
    /\ \/ /\ CanCreate(Key(c), call)
          /\ Create(Key(c), call)
          /\ Advance(c, CASE call = "install" -> "installing"
                          [] call = "build" -> "building"
                          [] call = "init" -> "initing")
          /\ UNCHANGED historyVars
       \/ ~CanCreate(Key(c), call) /\ Refused(c, call)
    /\ NoFault /\ StageFrame

\* The command ran to its end, unless somebody removed its container.
Ran(c, kind) == << Key(c), kind >> \in containers

FinishInstall(c) ==
  /\ pc[c] = "installing"
  /\ containers' = containers \ {<< Key(c), "install" >>, << Key(c), "proxy" >>}
  /\ UNCHANGED << networks, dirs >>
  /\ \/ /\ Ran(c, "install") /\ Ran(c, "proxy") /\ code[Job(c)] # "noInstall"
        /\ Advance(c, "build")
     \/ /\ ~(Ran(c, "install") /\ Ran(c, "proxy") /\ code[Job(c)] # "noInstall")
        /\ RunFailed(c, "install")
  /\ Undisturbed

FinishBuild(c) ==
  /\ pc[c] = "building"
  /\ Remove(Key(c), "build")
  /\ \/ Ran(c, "build") /\ code[Job(c)] # "noBuild" /\ Advance(c, "init")
     \/ ~(Ran(c, "build") /\ code[Job(c)] # "noBuild") /\ RunFailed(c, "build")
  /\ Undisturbed

FinishInit(c) ==
  /\ pc[c] = "initing"
  /\ Remove(Key(c), "init")
  /\ \/ ~Ran(c, "init") /\ RunFailed(c, "init")
     \/ /\ Ran(c, "init")
        /\ initOrder' = [initOrder EXCEPT
             ![c] = IF code[Job(c)] = "badInit" THEN "found_issue" ELSE "passed"]
        /\ Goto(c, "mock")
        /\ UNCHANGED result
  /\ Undisturbed

\* A `docker run` over its time limit: run() kills the client and removes the
\* container.  The daemon may still have its creation to do.
RunTimesOut(c) ==
  /\ Fault("slow")
  /\ \/ pc[c] \in {"install", "installing"} /\ End(c, "inconclusive")
        /\ containers' = containers \ {<< Key(c), "install" >>, << Key(c), "proxy" >>}
     \/ pc[c] \in {"build", "building"} /\ End(c, "inconclusive")
        /\ containers' = containers \ {<< Key(c), "build" >>}
     \/ pc[c] \in {"init", "initing"} /\ RunFailed(c, "init")
        /\ containers' = containers \ {<< Key(c), "init" >>}
  /\ \/ UNCHANGED historyVars
     \/ /\ "late" \in Faults /\ pc[c] \in DOMAIN Creates
        /\ late' = late \cup {<< Key(c), Creates[pc[c]] >>}
        /\ suspect' = suspect \cup {Key(c)}
        /\ UNCHANGED << misread, abandoned >>
  /\ UNCHANGED << networks, dirs >>
  /\ StageFrame

\* run_lifecycle_probe: the app starts or not, announces its start or not.
StartApp(c) ==
  /\ pc[c] = "app"
  /\ \/ /\ ~CanCreate(Key(c), "app")
        /\ End(c, "inconclusive")
        /\ UNCHANGED dockerVars
     \/ /\ CanCreate(Key(c), "app")
        /\ Create(Key(c), "app")
        /\ \/ code[Job(c)] = "noStart" /\ End(c, Aggregate(initOrder[c], "inconclusive"))
           \/ /\ code[Job(c)] = "silent" \/ ~Ran(c, "mock")
              /\ code[Job(c)] # "noStart"
              /\ End(c, Aggregate(initOrder[c], "skip"))
           \/ code[Job(c)] \notin {"noStart", "silent"} /\ Ran(c, "mock") /\ Advance(c, "signal")
  /\ Undisturbed

\* docker kill raises when the app is gone.
Signal(c) ==
  /\ pc[c] = "signal"
  /\ \/ Ran(c, "app") /\ Advance(c, "notice")
     \/ ~Ran(c, "app") /\ End(c, "inconclusive")
  /\ Undisturbed /\ UNCHANGED dockerVars

\* More announcements than were counted before the signal.  When none could be
\* counted, that of the start is one.
Notice(c) ==
  /\ pc[c] \in {"notice", "uncounted"}
  /\ End(c, Aggregate(initOrder[c],
              IF /\ Ran(c, "mock")
                 /\ \/ pc[c] = "uncounted"
                    \/ Ran(c, "app") /\ code[Job(c)] # "noHook"
              THEN "passed" ELSE "found_issue"))
  /\ Undisturbed /\ UNCHANGED dockerVars

(***************************************************************************)
(* What may go wrong in a run.                                             *)
(***************************************************************************)
\* The awaited call of the run was cut short.  A clone, a network or a container
\* may have been created, or be created when the run is long over: nobody stops
\* the docker client.
CutShort(c) ==
  LET k == Key(c)
      kind == IF pc[c] \in DOMAIN Creates THEN Creates[pc[c]] ELSE "none"
  IN
  /\ UNCHANGED << misread, abandoned >>
  /\ suspect' = suspect \cup {k}
  /\ \/ UNCHANGED << dockerVars, late >>
     \/ /\ pc[c] = "checkout"
        /\ Checkout(k)
        /\ UNCHANGED late
     \/ /\ pc[c] \in NetworkKinds
        /\ CreateNetwork(k, pc[c])
        /\ UNCHANGED late
     \/ /\ kind # "none" /\ CanCreate(k, kind)
        /\ Create(k, kind)
        /\ UNCHANGED late
     \/ /\ "late" \in Faults /\ kind # "none"
        /\ late' = late \cup {<< k, kind >>}
        /\ UNCHANGED dockerVars

\* A call that raises: the run is inconclusive.  Those that only report an
\* exit code do not raise.
StageFails(c) ==
  /\ pc[c] \in { "token", "checkout", "internal", "egress", "proxy", "mock",
                 "sidecars", "app", "signal" }
  /\ Fault("docker")
  /\ CutShort(c)
  /\ End(c, "inconclusive")
  /\ StageFrame

\* The daemon is out of something, or out of order.
RunRefused(c) ==
  \E call \in {"install", "build", "init"} :
    /\ pc[c] = call
    /\ Fault("docker")
    /\ Refused(c, call)
    /\ StageFrame

\* A helper command fails or exceeds its 10 s, the mock server or a sidecar never
\* got ready, or the app is late: the port looks closed, or nothing seems to have
\* been announced.
AppUnseen(c) ==
  /\ pc[c] = "app" /\ CanCreate(Key(c), "app")
  /\ Fault("docker") \/ Fault("slow")
  /\ Create(Key(c), "app")
  /\ \/ End(c, Aggregate(initOrder[c], "inconclusive")) /\ UNCHANGED misread
     \/ /\ code[Job(c)] # "noStart"
        /\ End(c, Aggregate(initOrder[c], "skip"))
        /\ Misread(c, "start")
  /\ UNCHANGED << late, suspect, abandoned >>
  /\ StageFrame

\* The command that asks the mock server fails, before SIGTERM or after it: an
\* empty answer.
CountUnseen(c) ==
  /\ pc[c] = "signal" /\ Ran(c, "app")
  /\ Fault("docker")
  /\ Advance(c, "uncounted")
  /\ Misread(c, "count")
  /\ UNCHANGED << dockerVars, late, suspect, abandoned >>
  /\ StageFrame

NoticeUnseen(c) ==
  /\ pc[c] \in {"notice", "uncounted"}
  /\ Fault("docker")
  /\ End(c, Aggregate(initOrder[c], "found_issue"))
  /\ Misread(c, "end")
  /\ UNCHANGED << dockerVars, late, suspect, abandoned >>
  /\ StageFrame

\* asyncio.timeout over all stages.
JobTimesOut(c) ==
  /\ pc[c] \in StageCalls
  /\ Fault("slow")
  /\ CutShort(c)
  /\ End(c, "inconclusive")
  /\ StageFrame

\* The creation that was in flight reaches the daemon.
LateCreate ==
  \E x \in late :
    /\ late' = late \ {x}
    /\ \/ CanCreate(x[1], x[2]) /\ Create(x[1], x[2])
       \/ ~CanCreate(x[1], x[2]) /\ UNCHANGED dockerVars
    /\ NoFault
    /\ UNCHANGED << kafkaVars, redisVars, runVars, code, pc, stopping, published,
                    suspect, misread, abandoned, runs >>

(***************************************************************************)
(* The finally clause: cleanup_job and rmtree.                             *)
(***************************************************************************)
\* Mutant: the label filter of reap_orphans.
CleanContainers_OfAll(c) ==
  /\ pc[c] = "rmContainers"
  /\ containers' = {}
  /\ UNCHANGED << networks, dirs >>
  /\ Goto(c, "rmNetworks")
  /\ NoFault
  /\ UNCHANGED << kafkaVars, redisVars, runVars, code, stopping, published, runs,
                  historyVars >>

CleanContainers(c) ==
  /\ pc[c] = "rmContainers"
  /\ RemoveContainers(Key(c))
  /\ Goto(c, "rmNetworks")
  /\ NoFault
  /\ UNCHANGED << kafkaVars, redisVars, runVars, code, stopping, published, runs,
                  historyVars >>

\* Then the result is published, or the cancellation goes on.
AfterCleanup(c) == IF leaving[c] THEN "release" ELSE "publish"

\* Mutant: networks are left to the reaper.
CleanNetworks_DirOnly(c) ==
  /\ pc[c] = "rmNetworks"
  /\ RemoveDir(Key(c))
  /\ Goto(c, AfterCleanup(c))
  /\ NoFault
  /\ UNCHANGED << kafkaVars, redisVars, runVars, code, stopping, published, runs,
                  historyVars >>

CleanNetworks(c) ==
  /\ pc[c] = "rmNetworks"
  /\ networks' = {n \in networks : n[1] # Key(c) \/ Attached(n)}
  /\ dirs' = dirs \ {Key(c)}
  /\ UNCHANGED containers
  /\ Goto(c, AfterCleanup(c))
  /\ NoFault
  /\ UNCHANGED << kafkaVars, redisVars, runVars, code, stopping, published, runs,
                  historyVars >>

\* A docker command of cleanup_job fails: its result is not looked at.
CleanupFails(c) ==
  /\ pc[c] \in Cleanup
  /\ Fault("docker")
  /\ suspect' = suspect \cup {Key(c)}
  /\ dirs' = IF pc[c] = "rmNetworks" THEN dirs \ {Key(c)} ELSE dirs
  /\ Goto(c, IF pc[c] = "rmContainers" THEN "rmNetworks" ELSE AfterCleanup(c))
  /\ UNCHANGED << containers, networks, kafkaVars, redisVars, runVars, code,
                  stopping, published, runs, late, misread, abandoned >>

(***************************************************************************)
(* Exceptions of Redis and Kafka, cancellation, crash, restart.            *)
(***************************************************************************)
\* The effect of a call that did not return.
Unanswered(c) ==
  \/ UNCHANGED << redisVars, published, committed >>
  \/ /\ "late" \in Faults
     /\ \/ /\ pc[c] = "start" /\ lock[Job(c)] = "none"
           /\ lock' = [lock EXCEPT ![Job(c)] = "in_progress"]
           /\ UNCHANGED << attempts, timed, published, committed >>
        \/ /\ pc[c] = "incr"
           /\ attempts' = [attempts EXCEPT ![Job(c)] = @ + 1]
           /\ UNCHANGED << lock, timed, published, committed >>
        \/ /\ pc[c] = "ttl"
           /\ timed' = timed \cup {Job(c)}
           /\ UNCHANGED << lock, attempts, published, committed >>
        \/ /\ pc[c] = "publish"
           /\ published' = [published EXCEPT ![Job(c)] = @ \cup {result[c]}]
           /\ UNCHANGED << redisVars, committed >>
        \/ /\ pc[c] = "mark"
           /\ lock' = [lock EXCEPT ![Job(c)] = "completed"]
           /\ UNCHANGED << attempts, timed, published, committed >>
        \/ /\ pc[c] \in {"unlock", "release"}
           /\ lock' = [lock EXCEPT ![Job(c)] = "none"]
           /\ UNCHANGED << attempts, timed, published, committed >>
        \/ /\ pc[c] = "commit"
           /\ committed' = [committed EXCEPT ![c] = position[c]]
           /\ UNCHANGED << redisVars, published >>

\* A key that was taken, or should have been given up, and stays.
Abandons(c) ==
  abandoned' = IF pc[c] \in {"start", "unlock", "release"} /\ lock'[Job(c)] = "in_progress"
               THEN abandoned \cup {Job(c)} ELSE abandoned

\* The body of the try block has a handler; the handlers and the calls outside
\* it have none.
Raise(c) ==
  /\ pc[c] \in {"start", "incr", "ttl", "publish", "mark", "unlock", "release", "commit"}
  /\ Fault("raise")
  /\ Unanswered(c) /\ Abandons(c)
  /\ Goto(c, IF pc[c] \in {"incr", "ttl", "publish", "mark"} THEN "unlock" ELSE "backoff")
  /\ UNCHANGED << dockerVars, log, position, runVars, code, stopping, late, suspect,
                  misread, runs >>

BeginShutdown ==
  /\ ~stopping /\ \E c \in Consumers : pc[c] # "down"
  /\ Fault("cancel")
  /\ stopping' = TRUE
  /\ UNCHANGED << dockerVars, kafkaVars, redisVars, runVars, code, pc, published,
                  historyVars, runs >>

\* A run that is cancelled cleans up first; a cancelled cleanup does not go on.
CancelRun(c) ==
  /\ stopping /\ pc[c] \in StageCalls
  /\ CutShort(c)
  /\ leaving' = [leaving EXCEPT ![c] = TRUE]
  /\ Goto(c, "rmContainers")
  /\ NoFault
  /\ UNCHANGED << kafkaVars, redisVars, result, initOrder, code, stopping,
                  published, runs >>

CancelCleanup(c) ==
  /\ stopping /\ pc[c] \in Cleanup
  /\ \/ leaving[c] /\ Fault("recancel")
     \/ ~leaving[c] /\ NoFault
  /\ Goto(c, "release")
  /\ suspect' = suspect \cup {Key(c)}
  /\ UNCHANGED << dockerVars, kafkaVars, redisVars, runVars, code, stopping,
                  published, late, misread, abandoned, runs >>

CancelCall(c) ==
  /\ stopping /\ pc[c] \notin InRunner \cup {"release", "down"}
  /\ Unanswered(c) /\ Abandons(c)
  /\ Goto(c, IF pc[c] \in {"incr", "ttl", "publish", "mark"} THEN "release" ELSE "down")
  /\ NoFault
  /\ UNCHANGED << dockerVars, log, position, runVars, code, stopping, late, suspect,
                  misread, runs >>

Recancel(c) ==
  /\ stopping /\ pc[c] = "release"
  /\ Fault("recancel")
  /\ Unanswered(c) /\ Abandons(c)
  /\ Goto(c, "down")
  /\ UNCHANGED << dockerVars, log, position, runVars, code, stopping, late, suspect,
                  misread, runs >>

\* systemd kills the process and its docker clients; the containers stay.
Kill ==
  /\ \E c \in Consumers : pc[c] # "down"
  /\ Fault("kill")
  /\ pc' = [c \in Consumers |-> "down"]
  /\ late' = {}
  /\ abandoned' = abandoned \cup {j \in Jobs : lock[j] = "in_progress"}
  /\ UNCHANGED << dockerVars, kafkaVars, redisVars, runVars, code, stopping,
                  published, suspect, misread, runs >>

\* lifespan: reap_orphans, then a consumer for each partition.
Restart ==
  /\ \A c \in Consumers : pc[c] = "down"
  /\ \/ ReapOrphans /\ suspect' = {} /\ NoFault
     \/ UNCHANGED dockerVars /\ suspect' = Keys /\ Fault("docker")
  /\ pc' = [c \in Consumers |-> "fetch"]
  /\ position' = committed
  /\ leaving' = [c \in Consumers |-> FALSE]
  /\ stopping' = FALSE
  /\ late' = {}
  /\ UNCHANGED << log, committed, redisVars, result, initOrder, code, published,
                  misread, abandoned, runs >>

Request(j) ==
  LET c == PartitionOf[j] IN
  /\ Cardinality({i \in 1..Len(log[c]) : log[c][i] = j}) < MaxRequests[j][code[j]]
  /\ log' = [log EXCEPT ![c] = Append(@, j)]
  /\ NoFault
  /\ UNCHANGED << dockerVars, committed, position, redisVars, runVars, code, pc,
                  stopping, published, historyVars, runs >>

\* A key outlives every handler of its job: its TTL is longer than a run may take.
ExpireLock(j) ==
  /\ lock[j] # "none"
  /\ ~ \E c \in Consumers : Handling(c, j)
  /\ Fault("expire")
  /\ lock' = [lock EXCEPT ![j] = "none"]
  /\ UNCHANGED << dockerVars, kafkaVars, attempts, timed, runVars, code, pc, stopping,
                  published, historyVars, runs >>

\* A day after its first attempt the job starts afresh.
ExpireAttempts(j) ==
  /\ j \in timed
  /\ Fault("expire")
  /\ attempts' = [attempts EXCEPT ![j] = 0]
  /\ timed' = timed \ {j}
  /\ runs' = [runs EXCEPT ![j] = 0]
  /\ UNCHANGED << dockerVars, kafkaVars, lock, runVars, code, pc, stopping, published,
                  historyVars >>

Handle(c) ==
  \/ Fetch(c) \/ TryStart(c) \/ Execute(c) \/ SetTtl(c) \/ Publish(c)
  \/ MarkCompleted(c) \/ MarkFailed(c) \/ Commit(c) \/ Resume(c)

Run(c) ==
  \/ FetchToken(c) \/ CheckoutRepo(c) \/ CreateNetworks(c) \/ StartService(c)
  \/ LaunchRun(c) \/ FinishInstall(c) \/ FinishBuild(c) \/ FinishInit(c)
  \/ StartApp(c) \/ Signal(c) \/ Notice(c) \/ CleanContainers(c) \/ CleanNetworks(c)

Disturb(c) ==
  \/ RunTimesOut(c) \/ StageFails(c) \/ RunRefused(c) \/ AppUnseen(c)
  \/ CountUnseen(c) \/ NoticeUnseen(c) \/ JobTimesOut(c) \/ CleanupFails(c) \/ Raise(c) \/ CancelRun(c)
  \/ CancelCleanup(c) \/ CancelCall(c) \/ Recancel(c)

Next ==
  \/ \E c \in Consumers : Handle(c) \/ Run(c) \/ Disturb(c)
  \/ LateCreate \/ BeginShutdown \/ Kill \/ Restart
  \/ \E j \in Jobs : Request(j) \/ ExpireLock(j) \/ ExpireAttempts(j)

Spec == Init /\ [][Next]_vars

\* Every awaited call ends, the grace timer fires, systemd restarts the worker.
Fairness ==
  /\ \A c \in Consumers : /\ WF_vars(Handle(c) \/ Run(c))
                          /\ WF_vars(CancelRun(c) \/ CancelCall(c))
  /\ WF_vars(Restart)

FairSpec == Spec /\ Fairness

(***************************************************************************)
(* Properties.                                                             *)
(***************************************************************************)
Bad(j) == code[j] \in {"noBuild", "badInit", "noHook"}

\* An issue is reported only for code that has one, where Docker ran the build
\* and the end that was announced was seen.
IssueHasCause ==
  \A j \in Jobs : "found_issue" \in published[j] =>
    Bad(j) \/ << j, "build" >> \in misread \/ << j, "end" >> \in misread

\* Code with an issue, or that could not be tried, is reported as passed only if
\* the mock server could not be asked for what it got up to the signal.
PassIsEarned ==
  \A j \in Jobs : "passed" \in published[j] =>
    \/ code[j] \in {"good", "silent"}
    \/ code[j] = "noHook" /\ {<< j, "start" >>, << j, "count" >>} \cap misread # {}

\* While the worker serves requests, Docker holds something for a key only
\* during a run, or after a docker command that failed or was cut short.
NoStrays ==
  \A x \in containers \cup networks :
    \/ x[1] \in suspect
    \/ stopping \/ \A c \in Consumers : pc[c] = "down"
    \/ \E c \in Consumers : pc[c] \in InRunner /\ Key(c) = x[1]

\* As long as its counter lives, a job is run no more often than the limit says,
\* whatever interrupts its runs, its requests or the counting.
AttemptsBounded == \A j \in Jobs : runs[j] <= MaxAttempts

\* Every request gets a result, or the key that keeps it from being taken up again
\* was left by a handler that a fault cut short.
AllClosed ==
  \A j \in Jobs :
    (\E i \in 1..Len(log[PartitionOf[j]]) : log[PartitionOf[j]][i] = j)
      ~> published[j] # {} \/ j \in abandoned
=============================================================================
