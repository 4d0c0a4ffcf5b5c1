---------------------------- MODULE EvaluationStore ----------------------------
(***************************************************************************)
(* The rows of review_jobs, review_records, review_line_checks (timings    *)
(* are written the same way) and review_feedback, as written by            *)
(* SqlAlchemyEvaluationRepository (app/evaluation/repository.py) for the   *)
(* review consumer and for ReviewFeedbackConsumer.                         *)
(*                                                                         *)
(* Every write is a get and then a write, in one transaction at the level  *)
(* "read committed".  The ORM writes only the columns whose value differs  *)
(* from the one it has read, and inserts where it has read nothing.        *)
(*                                                                         *)
(* What Kafka and the key in Redis do to the runs of a job is in           *)
(* ReviewDelivery; here a run may begin whenever the key is free.  A       *)
(* finding has an index in its job: findings do not touch each other, so   *)
(* a job stands for one of its findings too.                               *)
(***************************************************************************)
EXTENDS Naturals, Sequences

CONSTANTS
  Jobs,        \* reviewJobIds
  Workers,     \* members of the review group
  Members,     \* members of the feedback group
  NoMember,    \* the partition of the feedback topic has no owner
  Reviews,     \* comments a review may publish
  Summaries,   \* summaries it may publish
  NoCode,      \* the summary where the change has no code to review
  Reasons,     \* reasons of a failure
  Remarks,     \* reasons that a feedback may give
  None,        \* no row, no reason
  Faults,      \* which of AllFaults may happen
  MaxRuns,     \* bound: runs of reviews
  MaxLog,      \* bound: feedback messages
  MaxFaults    \* bound: faults in a behaviour

AllFaults ==
  { "raise",      \* the database, Kafka or Redis raises
    "cancel",     \* the grace period of a shutdown ends
    "kill",       \* the process dies
    "late",       \* a transaction whose caller is gone commits later
    "expire",     \* the TTL of a key passes
    "rebalance" } \* the feedback partition moves although its owner still runs

Completions == [status : {"completed"}, reason : {None}, reviews : Reviews, summary : Summaries]
Failures == [status : {"failed"}, reason : Reasons, reviews : {None}, summary : {None}]
Outcomes == Completions \cup Failures
Checked == {e \in Completions : e.summary # NoCode}

JobRows == [status : {"completed", "failed"}, reason : Reasons \cup {None}]
RecordRows == [reviews : Reviews, summary : Summaries]
Opinions == [reflected : BOOLEAN, reason : Remarks]

ASSUME StoreAssumption ==
  /\ NoMember \notin Members
  /\ NoCode \in Summaries
  /\ None \notin Reviews /\ None \notin Summaries /\ None \notin Reasons
  /\ None \notin Outcomes /\ None \notin Opinions
  /\ None \notin JobRows /\ None \notin RecordRows
  /\ Faults \subseteq AllFaults
  /\ MaxRuns \in Nat /\ MaxLog \in Nat /\ MaxFaults \in Nat

VARIABLES
  key,       \* the dedup key of each job
  pc,        \* the await each worker's task is at
  job,       \* the job it reviews
  event,     \* the outcome of its run
  read,      \* what its open transaction has read: the rows of its job
  orphans,   \* transactions whose caller is gone: they commit or vanish
  jobRow,    \* review_jobs
  recordRow, \* review_records
  checkRow,  \* review_line_checks
  outcomes,  \* history: the outcomes published for each job, in order
  lost,      \* history: << job, i >> if the i-th outcome was not saved
  runs       \* number of runs begun

VARIABLES
  log,       \* the partition of pr.comment.reflected
  committed, \* committed offset of the feedback group
  owner,     \* the member the partition is assigned to
  position,  \* how far its assignment has been read
  fpc,       \* the await each member's task is at
  at,        \* the message it handles
  found,     \* the row its transaction has read
  feedback,  \* review_feedback
  dropped    \* history: messages whose write the database refused

VARIABLES
  faults,    \* number of faults so far
  suffered   \* history: their kinds

worker == << pc, job, event, read >>
tables == << jobRow, recordRow, checkRow >>
review == << key, worker, orphans, tables, outcomes, lost, runs >>
member == << fpc, at, found >>
group  == << committed, owner, position >>
feeds  == << log, group, member, feedback, dropped >>
vars == << review, feeds, faults, suffered >>

Stages == { "idle", "pipeline", "readCheck", "writeCheck", "publish", "mark",
            "readJob", "readRecord", "write", "unlock", "release" }
FStages == {"fetch", "select", "upsert", "commit"}

Row(rows) == rows \cup {None}
Reads == [job : Row(JobRows), record : Row(RecordRows), check : Row(Summaries)]
Nothing == [job |-> None, record |-> None, check |-> None]

ReviewTypeOK ==
  /\ key \in [Jobs -> {"none", "in_progress", "completed"}]
  /\ pc \in [Workers -> Stages]
  /\ job \in [Workers -> Jobs]
  /\ event \in [Workers -> Outcomes \cup {None}]
  /\ read \in [Workers -> Reads]
  /\ orphans \subseteq [job : Jobs, event : Outcomes, read : Reads]
  /\ jobRow \in [Jobs -> Row(JobRows)]
  /\ recordRow \in [Jobs -> Row(RecordRows)]
  /\ checkRow \in [Jobs -> Row(Summaries)]
  /\ outcomes \in [Jobs -> Seq(Outcomes)]
  /\ lost \subseteq Jobs \X Nat
  /\ runs \in Nat

FeedbackTypeOK ==
  /\ log \in Seq([job : Jobs, opinion : Opinions])
  /\ committed \in Nat /\ position \in Nat
  /\ owner \in Members \cup {NoMember}
  /\ fpc \in [Members -> FStages]
  /\ at \in [Members -> Nat]
  /\ found \in [Members -> Row(Opinions)]
  /\ feedback \in [Jobs -> Row(Opinions)]
  /\ dropped \subseteq Nat

TypeOK ==
  /\ ReviewTypeOK /\ FeedbackTypeOK
  /\ faults \in Nat /\ suffered \subseteq AllFaults

Init ==
  /\ key = [j \in Jobs |-> "none"]
  /\ pc = [w \in Workers |-> "idle"]
  /\ job \in [Workers -> Jobs] /\ \A v, w \in Workers : job[v] = job[w]
  /\ event = [w \in Workers |-> None]
  /\ read = [w \in Workers |-> Nothing]
  /\ orphans = {}
  /\ jobRow = [j \in Jobs |-> None]
  /\ recordRow = [j \in Jobs |-> None]
  /\ checkRow = [j \in Jobs |-> None]
  /\ outcomes = [j \in Jobs |-> << >>]
  /\ lost = {}
  /\ runs = 0
  /\ log = << >>
  /\ committed = 0 /\ position = 0
  /\ owner = NoMember
  /\ fpc = [m \in Members |-> "fetch"]
  /\ at = [m \in Members |-> 0]
  /\ found = [m \in Members |-> None]
  /\ feedback = [j \in Jobs |-> None]
  /\ dropped = {}
  /\ faults = 0 /\ suffered = {}

Counted(f) == f \in Faults /\ faults < MaxFaults /\ faults' = faults + 1
Fault(f) == Counted(f) /\ suffered' = suffered \cup {f}

NoFault == UNCHANGED << faults, suffered >>

(***************************************************************************)
(* Transactions.                                                           *)
(***************************************************************************)
JobOf(e) == [status |-> e.status, reason |-> e.reason]
RecordOf(e) == [reviews |-> e.reviews, summary |-> e.summary]

\* An UPDATE of the columns that differ from what was read.
Changed(row, old, new) == [c \in DOMAIN new |-> IF new[c] # old[c] THEN new[c] ELSE row[c]]

\* What a get-then-write leaves in a table where `old` was read.
Written(row, old, new) == IF old = None THEN new ELSE Changed(row, old, new)

\* An INSERT of a key that somebody else has inserted since.
Duplicate(row, old) == old = None /\ row # None

\* save_completed and save_failed: the transaction T of one run.
Refused(T) ==
  \/ Duplicate(jobRow[T.job], T.read.job)
  \/ T.event \in Completions /\ Duplicate(recordRow[T.job], T.read.record)

\* Mutant: a transaction for each row; the second may fail.
Save_InTwo(T) ==
  /\ ~Duplicate(jobRow[T.job], T.read.job)
  /\ jobRow' = [jobRow EXCEPT ![T.job] = Written(@, T.read.job, JobOf(T.event))]
  /\ \/ UNCHANGED recordRow
     \/ /\ T.event \in Completions
        /\ recordRow' = [recordRow EXCEPT ![T.job] = RecordOf(T.event)]
  /\ UNCHANGED checkRow

Save(T) ==
  /\ ~Refused(T)
  /\ jobRow' = [jobRow EXCEPT ![T.job] = Written(@, T.read.job, JobOf(T.event))]
  /\ recordRow' = IF T.event \in Completions
                  THEN [recordRow EXCEPT ![T.job] = Written(@, T.read.record, RecordOf(T.event))]
                  ELSE recordRow
  /\ UNCHANGED checkRow

Transaction(w) == [job |-> job[w], event |-> event[w], read |-> read[w]]

(***************************************************************************)
(* One review: the end of the pipeline and ReviewRequestConsumer.handle.   *)
(***************************************************************************)
Goto(w, stage) == pc' = [pc EXCEPT ![w] = stage] /\ UNCHANGED << job, event >>

\* The worker's part in its run is over.
Leave(w) ==
  /\ pc' = [pc EXCEPT ![w] = "idle"]
  /\ event' = [event EXCEPT ![w] = None]
  /\ read' = [read EXCEPT ![w] = Nothing]
  /\ UNCHANGED job

Begin(w, j) ==
  /\ pc[w] = "idle" /\ key[j] = "none" /\ runs < MaxRuns
  /\ key' = [key EXCEPT ![j] = "in_progress"]
  /\ pc' = [pc EXCEPT ![w] = "pipeline"]
  /\ job' = [job EXCEPT ![w] = j]
  /\ runs' = runs + 1
  /\ NoFault
  /\ UNCHANGED << event, read, orphans, tables, outcomes, lost, feeds >>

\* A review that was completed saves its line check before it is returned,
\* unless there was nothing to review.
RunPipeline(w) ==
  /\ pc[w] = "pipeline"
  /\ \E e \in Outcomes :
       /\ event' = [event EXCEPT ![w] = e]
       /\ pc' = [pc EXCEPT ![w] = IF e \in Checked THEN "readCheck" ELSE "publish"]
  /\ NoFault
  /\ UNCHANGED << key, job, read, orphans, tables, outcomes, lost, runs, feeds >>

ReadCheck(w) ==
  /\ pc[w] = "readCheck"
  /\ read' = [read EXCEPT ![w].check = checkRow[job[w]]]
  /\ Goto(w, "writeCheck")
  /\ NoFault
  /\ UNCHANGED << key, orphans, tables, outcomes, lost, runs, feeds >>

\* _record_line_check swallows every exception.
WriteCheck(w) ==
  /\ pc[w] = "writeCheck"
  /\ \/ /\ ~Duplicate(checkRow[job[w]], read[w].check)
        /\ checkRow' = [checkRow EXCEPT ![job[w]] = event[w].summary]
        /\ NoFault
     \/ /\ Duplicate(checkRow[job[w]], read[w].check)
        /\ NoFault /\ UNCHANGED checkRow
     \/ Fault("raise") /\ UNCHANGED checkRow
  /\ Goto(w, "publish")
  /\ UNCHANGED << key, read, orphans, jobRow, recordRow, outcomes, lost, runs, feeds >>

\* Mutant: the key of a failed review is given up before its row is saved.
Publish_UnlocksFirst(w) ==
  /\ pc[w] = "publish"
  /\ outcomes' = [outcomes EXCEPT ![job[w]] = Append(@, event[w])]
  /\ key' = [key EXCEPT ![job[w]] = IF event[w] \in Failures THEN "none" ELSE @]
  /\ Goto(w, IF event[w] \in Completions THEN "mark" ELSE "readJob")
  /\ NoFault
  /\ UNCHANGED << read, orphans, tables, lost, runs, feeds >>

Publish(w) ==
  /\ pc[w] = "publish"
  /\ outcomes' = [outcomes EXCEPT ![job[w]] = Append(@, event[w])]
  /\ Goto(w, IF event[w] \in Completions THEN "mark" ELSE "readJob")
  /\ NoFault
  /\ UNCHANGED << key, read, orphans, tables, lost, runs, feeds >>

MarkCompleted(w) ==
  /\ pc[w] = "mark"
  /\ key' = [key EXCEPT ![job[w]] = "completed"]
  /\ Goto(w, "readJob")
  /\ NoFault
  /\ UNCHANGED << read, orphans, tables, outcomes, lost, runs, feeds >>

ReadJob(w) ==
  /\ pc[w] = "readJob"
  /\ read' = [read EXCEPT ![w].job = jobRow[job[w]]]
  /\ Goto(w, IF event[w] \in Completions THEN "readRecord" ELSE "write")
  /\ NoFault
  /\ UNCHANGED << key, orphans, tables, outcomes, lost, runs, feeds >>

ReadRecord(w) ==
  /\ pc[w] = "readRecord"
  /\ read' = [read EXCEPT ![w].record = recordRow[job[w]]]
  /\ Goto(w, "write")
  /\ NoFault
  /\ UNCHANGED << key, orphans, tables, outcomes, lost, runs, feeds >>

\* After the save a completed job is done; a failed one gives up its key.
AfterSave(w) ==
  \/ event[w] \in Completions /\ Leave(w)
  \/ event[w] \in Failures /\ Goto(w, "unlock") /\ UNCHANGED read

\* The outcome that was published is not saved.
Lose(w) == lost' = lost \cup {<< job[w], Len(outcomes[job[w]]) >>}

\* The caller is gone, ended by a fault of these kinds: its transaction is
\* rolled back, or its COMMIT is on the way.
Abandon(w, kinds) ==
  /\ \/ UNCHANGED orphans /\ suffered' = suffered \cup kinds
     \/ /\ pc[w] = "write" /\ "late" \in Faults
        /\ orphans' = orphans \cup {Transaction(w)}
        /\ suffered' = suffered \cup kinds \cup {"late"}
  /\ IF pc[w] \in {"mark", "readJob", "readRecord", "write"} THEN Lose(w) ELSE UNCHANGED lost

Write(w) ==
  /\ pc[w] = "write"
  /\ \/ Save(Transaction(w)) /\ UNCHANGED lost
     \/ Refused(Transaction(w)) /\ Lose(w) /\ UNCHANGED tables
  /\ AfterSave(w)
  /\ NoFault
  /\ UNCHANGED << key, orphans, outcomes, runs, feeds >>

\* _save_evaluation_record swallows what the database raises.
SaveFails(w) ==
  /\ pc[w] \in {"readJob", "readRecord", "write"}
  /\ Counted("raise")
  /\ Abandon(w, {"raise"})
  /\ AfterSave(w)
  /\ UNCHANGED << key, tables, outcomes, runs, feeds >>

MarkFailed(w) ==
  /\ pc[w] = "unlock"
  /\ key' = [key EXCEPT ![job[w]] = "none"]
  /\ Leave(w)
  /\ NoFault
  /\ UNCHANGED << orphans, tables, outcomes, lost, runs, feeds >>

\* Kafka or Redis raises: the exception leaves handle(), the key stays.
Raise(w) ==
  /\ pc[w] \in {"pipeline", "publish", "mark", "unlock"}
  /\ Counted("raise")
  /\ Abandon(w, {"raise"})
  /\ Leave(w)
  /\ UNCHANGED << key, tables, outcomes, runs, feeds >>

Cancel(w) ==
  /\ pc[w] \notin {"idle", "release"}
  /\ Counted("cancel")
  /\ Abandon(w, {"cancel"})
  /\ pc' = [pc EXCEPT ![w] = "release"]
  /\ UNCHANGED << key, job, event, read, tables, outcomes, runs, feeds >>

Release(w) ==
  /\ pc[w] = "release"
  /\ key' = [key EXCEPT ![job[w]] = "none"]
  /\ Leave(w)
  /\ NoFault
  /\ UNCHANGED << orphans, tables, outcomes, lost, runs, feeds >>

Kill(w) ==
  /\ pc[w] # "idle"
  /\ Counted("kill")
  /\ Abandon(w, {"kill"})
  /\ Leave(w)
  /\ UNCHANGED << key, tables, outcomes, runs, feeds >>

Busy(j) == \E w \in Workers : pc[w] # "idle" /\ job[w] = j

ExpireKey(j) ==
  /\ key[j] # "none" /\ ~Busy(j)
  /\ Fault("expire")
  /\ key' = [key EXCEPT ![j] = "none"]
  /\ UNCHANGED << worker, orphans, tables, outcomes, lost, runs, feeds >>

\* A transaction nobody waits for: it commits, or the server rolls it back.
OrphanEnds ==
  /\ \E T \in orphans :
       /\ orphans' = orphans \ {T}
       /\ Save(T) \/ UNCHANGED tables
  /\ NoFault
  /\ UNCHANGED << key, worker, outcomes, lost, runs, feeds >>

Review(w) ==
  \/ \E j \in Jobs : Begin(w, j)
  \/ RunPipeline(w) \/ ReadCheck(w) \/ WriteCheck(w) \/ Publish(w)
  \/ MarkCompleted(w) \/ ReadJob(w) \/ ReadRecord(w) \/ Write(w) \/ SaveFails(w)
  \/ MarkFailed(w) \/ Raise(w) \/ Cancel(w) \/ Release(w) \/ Kill(w)

(***************************************************************************)
(* ReviewFeedbackConsumer: no dedup key, since the upsert is idempotent.   *)
(***************************************************************************)
FGoto(m, stage) == fpc' = [fpc EXCEPT ![m] = stage]

FLeave(m) ==
  /\ FGoto(m, "fetch")
  /\ at' = [at EXCEPT ![m] = 0]
  /\ found' = [found EXCEPT ![m] = None]

\* Somebody reacts to a comment of a review that was published.
React(j) ==
  /\ Len(log) < MaxLog
  /\ \E i \in 1..Len(outcomes[j]) : outcomes[j][i] \in Completions
  /\ \E o \in Opinions : log' = Append(log, [job |-> j, opinion |-> o])
  /\ NoFault
  /\ UNCHANGED << review, group, member, feedback, dropped >>

Fetch(m) ==
  /\ fpc[m] = "fetch" /\ owner = m /\ position < Len(log)
  /\ position' = position + 1
  /\ at' = [at EXCEPT ![m] = position + 1]
  /\ FGoto(m, "select")
  /\ NoFault
  /\ UNCHANGED << review, log, committed, owner, found, feedback, dropped >>

Message(m) == log[at[m]]

Select(m) ==
  /\ fpc[m] = "select"
  /\ found' = [found EXCEPT ![m] = feedback[Message(m).job]]
  /\ FGoto(m, "upsert")
  /\ NoFault
  /\ UNCHANGED << review, log, group, at, feedback, dropped >>

\* No such job (foreign key), or somebody else inserted the row (unique key).
IntegrityError(m) ==
  \/ found[m] = None /\ jobRow[Message(m).job] = None
  \/ Duplicate(feedback[Message(m).job], found[m])

\* Mutant: a row that exists is left as it is.
Store_InsertOnly(m) ==
  /\ ~IntegrityError(m)
  /\ feedback' = [feedback EXCEPT ![Message(m).job] = IF @ = None THEN Message(m).opinion ELSE @]
  /\ dropped' = dropped \ {at[m]}

Store(m) ==
  /\ ~IntegrityError(m)
  /\ feedback' = [feedback EXCEPT ![Message(m).job] = Written(@, found[m], Message(m).opinion)]
  /\ dropped' = dropped \ {at[m]}

\* upsert_feedback logs an IntegrityError and goes on.
Upsert(m) ==
  /\ fpc[m] = "upsert"
  /\ \/ Store(m)
     \/ IntegrityError(m) /\ dropped' = dropped \cup {at[m]} /\ UNCHANGED feedback
  /\ FGoto(m, "commit")
  /\ NoFault
  /\ UNCHANGED << review, log, group, at, found >>

Commit(m) ==
  /\ fpc[m] = "commit"
  /\ committed' = IF owner = m THEN position ELSE committed
  /\ FLeave(m)
  /\ NoFault
  /\ UNCHANGED << review, log, owner, position, feedback, dropped >>

\* The call had taken effect or not.
Ended(m, kinds) ==
  \/ UNCHANGED << committed, feedback, dropped >> /\ suffered' = suffered \cup kinds
  \/ /\ "late" \in Faults /\ fpc[m] = "upsert"
     /\ Store(m) /\ UNCHANGED committed
     /\ suffered' = suffered \cup kinds \cup {"late"}

\* run() ends; it is called again with the position past the message.
FRaise(m) ==
  /\ fpc[m] # "fetch"
  /\ Counted("raise")
  /\ Ended(m, {"raise"})
  /\ FLeave(m)
  /\ UNCHANGED << review, log, owner, position >>

\* The member's process ends, by a cancellation or otherwise, and restarts.
FStop(m) ==
  /\ Counted("kill")
  /\ Ended(m, {"kill"})
  /\ FLeave(m)
  /\ owner' = IF owner = m THEN NoMember ELSE owner
  /\ UNCHANGED << review, log, position >>

AssignTo(m) ==
  /\ owner' = m
  /\ position' = committed
  /\ UNCHANGED << review, log, committed, member, feedback, dropped >>

Assign(m) == owner = NoMember /\ AssignTo(m) /\ NoFault
Rebalance(m) == owner \notin {NoMember, m} /\ AssignTo(m) /\ Fault("rebalance")

Feedback(m) ==
  \/ Fetch(m) \/ Select(m) \/ Upsert(m) \/ Commit(m)
  \/ FRaise(m) \/ FStop(m) \/ Assign(m) \/ Rebalance(m)

Next ==
  \/ \E w \in Workers : Review(w)
  \/ \E m \in Members : Feedback(m)
  \/ \E j \in Jobs : ExpireKey(j) \/ React(j)
  \/ OrphanEnds

Spec == Init /\ [][Next]_vars

(***************************************************************************)
(* Properties.                                                             *)
(***************************************************************************)
\* A job whose row says "completed" has a record: the two are written in one
\* transaction, whatever ends its caller and whatever commits late.
CompletedHasRecord ==
  \A j \in Jobs :
    jobRow[j] # None /\ jobRow[j].status = "completed" => recordRow[j] # None

\* The last of the outcomes of j in E whose save was not lost.
LastSaved(j, E) ==
  LET saved == {i \in 1..Len(outcomes[j]) : outcomes[j][i] \in E /\ << j, i >> \notin lost} IN
  IF saved = {} THEN None
  ELSE outcomes[j][CHOOSE i \in saved : \A k \in saved : k <= i]

\* When no run of a job is under way, its row tells the last outcome that was
\* not lost on its way to the database, its record the last review, and, where
\* nothing was interrupted, its line check the last review of code.  The columns
\* are of one outcome, although an update skips those that seem not to change:
\* the repository relies on the key to keep the runs of a job apart, so this
\* ends where a transaction outlives the run that opened it.
StoreTellsLastReview ==
  "late" \in suffered \/
  \A j \in {i \in Jobs : ~Busy(i)} :
    LET last == LastSaved(j, Outcomes)
        reviewed == LastSaved(j, Completions)
        checked == LastSaved(j, Checked) IN
    /\ jobRow[j] = IF last = None THEN None ELSE JobOf(last)
    /\ recordRow[j] = IF reviewed = None THEN None ELSE RecordOf(reviewed)
    /\ suffered \subseteq {"expire", "rebalance"} =>
         checkRow[j] = IF checked = None THEN None ELSE checked.summary

\* The feedback of a job among the first n messages that the database took.
Opinion(j, n) ==
  LET told == {i \in 1..n : log[i].job = j /\ i \notin dropped} IN
  IF told = {} THEN None
  ELSE log[CHOOSE i \in told : \A k \in told : k <= i].opinion

\* The feedback on a job is the latest one that was acknowledged, or the next,
\* which is being handled or will be handled again: a redelivery is harmless
\* as long as the partition has one reader and no call raises.
LatestFeedback ==
  suffered \cap {"raise", "rebalance"} # {} \/
  \A j \in Jobs :
    \/ feedback[j] = Opinion(j, committed)
    \/ committed < Len(log) /\ feedback[j] = Opinion(j, committed + 1)
=============================================================================
