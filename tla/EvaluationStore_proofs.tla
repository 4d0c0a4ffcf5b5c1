------------------------- MODULE EvaluationStore_proofs -------------------------
(***************************************************************************)
(* Proofs about EvaluationStore: the rows of reviews have their types, a   *)
(* completed job has its record, the feedback on a job is the latest one,  *)
(* and the rows tell the last review.  Nothing is assumed of the faults,   *)
(* the number of runs or the order in which transactions commit.           *)
(***************************************************************************)
EXTENDS EvaluationStore, TLAPS

Transactions == [job : Jobs, event : Outcomes, read : Reads]

\* What a transaction of job j has read is still there.
StillThere(j, r) ==
  /\ r.job # None => jobRow[j] # None
  /\ r.record # None => recordRow[j] # None

\* Where a worker has an outcome.
WithOutcome == {"readCheck", "writeCheck", "publish", "mark", "readJob", "readRecord",
                "write", "unlock"}

WorkerOK(w) ==
  /\ pc[w] = "idle" => read[w] = Nothing
  /\ pc[w] \in WithOutcome => event[w] \in Outcomes
  /\ StillThere(job[w], read[w])

\* The inductive invariant.  The last conjunct is what it is for; it is not
\* inductive alone, since an UPDATE of a row that is not there leaves none.
StoreInv ==
  /\ ReviewTypeOK
  /\ \A w \in Workers : WorkerOK(w)
  /\ \A T \in orphans : StillThere(T.job, T.read)
  /\ CompletedHasRecord

RowsGrow ==
  \A j \in Jobs : /\ jobRow[j] # None => jobRow'[j] # None
                  /\ recordRow[j] # None => recordRow'[j] # None

(***************************************************************************)
(* One transaction.                                                        *)
(***************************************************************************)
\* The columns an outcome has.
LEMMA OutcomeColumns ==
  ASSUME NEW e \in Outcomes
  PROVE  /\ JobOf(e) \in JobRows
         /\ e \in Completions => RecordOf(e) \in RecordRows
         /\ JobOf(e).status = "completed" => e \in Completions
         /\ e.summary \in Row(Summaries)
BY DEF Outcomes, Completions, Failures, JobOf, RecordOf, JobRows, RecordRows, Row

\* A get-then-write leaves a row, whose status is the new one or the one that
\* was there.
LEMMA WrittenJob ==
  ASSUME NEW row \in Row(JobRows), NEW old \in Row(JobRows), NEW new \in JobRows,
         old # None => row # None
  PROVE  /\ Written(row, old, new) \in JobRows
         /\ \/ Written(row, old, new).status = new.status
            \/ row # None /\ Written(row, old, new).status = row.status
<1>1. CASE old = None
  BY <1>1 DEF Written
<1>2. CASE old # None
  <2>1. Written(row, old, new) = [c \in {"status", "reason"} |->
                                    IF new[c] # old[c] THEN new[c] ELSE row[c]]
    BY <1>2 DEF Written, Changed, JobRows
  <2>2. row \in JobRows
    BY <1>2 DEF Row
  <2>. QED
    BY <1>2, <2>1, <2>2 DEF JobRows
<1>. QED
  BY <1>1, <1>2

LEMMA WrittenRecord ==
  ASSUME NEW row \in Row(RecordRows), NEW old \in Row(RecordRows), NEW new \in RecordRows,
         old # None => row # None
  PROVE  Written(row, old, new) \in RecordRows
<1>1. CASE old = None
  BY <1>1 DEF Written
<1>2. CASE old # None
  <2>1. Written(row, old, new) = [c \in {"reviews", "summary"} |->
                                    IF new[c] # old[c] THEN new[c] ELSE row[c]]
    BY <1>2 DEF Written, Changed, RecordRows
  <2>2. row \in RecordRows
    BY <1>2 DEF Row
  <2>. QED
    BY <2>1, <2>2 DEF RecordRows
<1>. QED
  BY <1>1, <1>2

\* The tables after the transaction of one run: a completed job is new with its
\* record, or had one.
LEMMA SaveKeeps ==
  ASSUME ReviewTypeOK, CompletedHasRecord,
         NEW T \in Transactions, StillThere(T.job, T.read), Save(T)
  PROVE  /\ jobRow' \in [Jobs -> Row(JobRows)]
         /\ recordRow' \in [Jobs -> Row(RecordRows)]
         /\ checkRow' = checkRow
         /\ RowsGrow
         /\ CompletedHasRecord'
<1>1. /\ T.job \in Jobs /\ T.event \in Outcomes
      /\ T.read.job \in Row(JobRows) /\ T.read.record \in Row(RecordRows)
      /\ jobRow \in [Jobs -> Row(JobRows)] /\ recordRow \in [Jobs -> Row(RecordRows)]
  BY DEF Transactions, Reads, ReviewTypeOK
<1>2. PICK job1 : job1 = Written(jobRow[T.job], T.read.job, JobOf(T.event))
  OBVIOUS
<1>3. jobRow' = [jobRow EXCEPT ![T.job] = job1] /\ checkRow' = checkRow
  BY <1>2 DEF Save
<1>4. /\ job1 \in JobRows
      /\ \/ job1.status = JobOf(T.event).status
         \/ jobRow[T.job] # None /\ job1.status = jobRow[T.job].status
  BY <1>1, <1>2, WrittenJob, OutcomeColumns DEF StillThere
<1>5. CASE T.event \in Completions
  <2>1. PICK record1 : record1 = Written(recordRow[T.job], T.read.record, RecordOf(T.event))
    OBVIOUS
  <2>2. recordRow' = [recordRow EXCEPT ![T.job] = record1]
    BY <1>5, <2>1 DEF Save
  <2>3. record1 \in RecordRows
    BY <1>1, <1>5, <2>1, WrittenRecord, OutcomeColumns DEF StillThere
  <2>. QED
    BY <1>1, <1>3, <1>4, <2>2, <2>3, StoreAssumption DEF RowsGrow, CompletedHasRecord, Row
<1>6. CASE T.event \notin Completions
  <2>1. recordRow' = recordRow
    BY <1>6 DEF Save
  <2>2. JobOf(T.event).status # "completed"
    BY <1>1, <1>6, OutcomeColumns
  <2>. QED
    BY <1>1, <1>3, <1>4, <2>1, <2>2, StoreAssumption DEF RowsGrow, CompletedHasRecord, Row
<1>. QED
  BY <1>5, <1>6

(***************************************************************************)
(* The steps.                                                              *)
(***************************************************************************)
\* A step is worker w's own.
OnlyMoves(w) ==
  \A v \in Workers \ {w} :
    pc'[v] = pc[v] /\ job'[v] = job[v] /\ event'[v] = event[v] /\ read'[v] = read[v]

TablesKept == UNCHANGED << jobRow, recordRow >>

\* Its own transaction is all a worker may leave behind.
MayAbandon(w) ==
  \/ orphans' \subseteq orphans
  \/ pc[w] = "write" /\ orphans' = orphans \cup {Transaction(w)}

LEMMA TablesKeptGrow ==
  ASSUME CompletedHasRecord, TablesKept
  PROVE  RowsGrow /\ CompletedHasRecord'
BY DEF TablesKept, RowsGrow, CompletedHasRecord

LEMMA TransactionTyped ==
  ASSUME StoreInv, NEW w \in Workers, pc[w] \in WithOutcome
  PROVE  /\ Transaction(w) \in Transactions
         /\ StillThere(Transaction(w).job, Transaction(w).read)
BY DEF StoreInv, ReviewTypeOK, WorkerOK, Transaction, Transactions, WithOutcome

\* What a step of worker w has to do for the invariant.
LEMMA WorkerStep ==
  ASSUME StoreInv, NEW w \in Workers,
         ReviewTypeOK', RowsGrow, CompletedHasRecord',
         OnlyMoves(w), WorkerOK(w)', MayAbandon(w)
  PROVE  StoreInv'
<1>1. ASSUME NEW j \in Jobs, NEW r, StillThere(j, r)
      PROVE  StillThere(j, r)'
  BY <1>1 DEF RowsGrow, StillThere
<1>2. ASSUME NEW v \in Workers
      PROVE  WorkerOK(v)'
  <2>1. CASE v = w
    BY <2>1
  <2>2. CASE v # w
    <3>1. pc'[v] = pc[v] /\ job'[v] = job[v] /\ event'[v] = event[v] /\ read'[v] = read[v]
      BY <2>2 DEF OnlyMoves
    <3>2. job[v] \in Jobs /\ WorkerOK(v)
      BY DEF StoreInv, ReviewTypeOK
    <3>3. StillThere(job[v], read[v])'
      BY <3>1, <3>2 DEF WorkerOK, RowsGrow, StillThere
    <3>. QED
      BY <3>1, <3>2, <3>3 DEF WorkerOK
  <2>. QED
    BY <2>1, <2>2
<1>3. ASSUME NEW T \in orphans'
      PROVE  StillThere(T.job, T.read)'
  <2>1. T.job \in Jobs /\ StillThere(T.job, T.read)
    <3>1. CASE T \in orphans
      BY <3>1 DEF StoreInv, ReviewTypeOK
    <3>2. CASE T = Transaction(w) /\ pc[w] = "write"
      BY <3>2, TransactionTyped DEF WithOutcome, Transactions
    <3>. QED
      BY <1>3, <3>1, <3>2 DEF MayAbandon
  <2>. QED
    BY <2>1 DEF RowsGrow, StillThere
<1>. QED
  BY <1>2, <1>3 DEF StoreInv

\* A step that moves the key, the history or the feedback only.
LEMMA OtherStep ==
  ASSUME StoreInv, ReviewTypeOK', UNCHANGED << worker, orphans, jobRow, recordRow >>
  PROVE  StoreInv'
BY DEF StoreInv, worker, WorkerOK, StillThere, CompletedHasRecord

(***************************************************************************)
(* The steps of a worker before it writes.                                 *)
(***************************************************************************)
LEMMA EarlySteps ==
  ASSUME StoreInv, NEW w \in Workers,
         \/ \E j \in Jobs : Begin(w, j)
         \/ RunPipeline(w) \/ ReadCheck(w) \/ Publish(w) \/ MarkCompleted(w)
         \/ ReadJob(w) \/ ReadRecord(w)
  PROVE  /\ ReviewTypeOK' /\ TablesKept /\ OnlyMoves(w) /\ WorkerOK(w)' /\ MayAbandon(w)
<1>. USE DEF StoreInv, ReviewTypeOK, WorkerOK, WithOutcome, StillThere, TablesKept, OnlyMoves,
             MayAbandon, tables
<1>1. ASSUME NEW j \in Jobs, Begin(w, j)
      PROVE  /\ ReviewTypeOK' /\ TablesKept /\ OnlyMoves(w) /\ WorkerOK(w)' /\ MayAbandon(w)
  BY <1>1 DEF Begin, Stages, Nothing
<1>2. CASE RunPipeline(w)
  BY <1>2 DEF RunPipeline, Stages
<1>3. CASE ReadCheck(w)
  BY <1>3 DEF ReadCheck, Goto, Stages, Reads
<1>4. CASE Publish(w)
  BY <1>4 DEF Publish, Goto, Stages
<1>5. CASE MarkCompleted(w)
  BY <1>5 DEF MarkCompleted, Goto, Stages
<1>6. CASE ReadJob(w)
  BY <1>6 DEF ReadJob, Goto, Stages, Reads
<1>7. CASE ReadRecord(w)
  BY <1>7 DEF ReadRecord, Goto, Stages, Reads
<1>. QED
  BY <1>1, <1>2, <1>3, <1>4, <1>5, <1>6, <1>7

LEMMA CheckStep ==
  ASSUME StoreInv, NEW w \in Workers, WriteCheck(w)
  PROVE  /\ ReviewTypeOK' /\ TablesKept /\ OnlyMoves(w) /\ WorkerOK(w)' /\ MayAbandon(w)
<1>1. event[w] \in Outcomes /\ event[w].summary \in Row(Summaries)
  BY OutcomeColumns DEF StoreInv, WorkerOK, WithOutcome, WriteCheck
<1>. QED
  BY <1>1 DEF StoreInv, ReviewTypeOK, WorkerOK, WithOutcome, StillThere, TablesKept, OnlyMoves,
              MayAbandon, WriteCheck, Goto, Stages

(***************************************************************************)
(* The ends of a run.                                                      *)
(***************************************************************************)
LEMMA LeaveStep ==
  ASSUME StoreInv, NEW w \in Workers, Leave(w)
  PROVE  /\ pc' \in [Workers -> Stages] /\ job' \in [Workers -> Jobs]
         /\ event' \in [Workers -> Outcomes \cup {None}] /\ read' \in [Workers -> Reads]
         /\ OnlyMoves(w) /\ WorkerOK(w)'
BY DEF StoreInv, ReviewTypeOK, Leave, Stages, Reads, Nothing, Row, OnlyMoves, WorkerOK,
       WithOutcome, StillThere

LEMMA LoseTyped ==
  ASSUME StoreInv, NEW w \in Workers, Lose(w)
  PROVE  lost' \subseteq Jobs \X Nat
<1>1. job[w] \in Jobs /\ outcomes[job[w]] \in Seq(Outcomes) /\ lost \subseteq Jobs \X Nat
  BY DEF StoreInv, ReviewTypeOK
<1>2. Len(outcomes[job[w]]) \in Nat
  BY <1>1
<1>. QED
  BY <1>1, <1>2 DEF Lose

LEMMA AbandonStep ==
  ASSUME StoreInv, NEW w \in Workers, NEW kinds, Abandon(w, kinds)
  PROVE  /\ MayAbandon(w)
         /\ orphans' \subseteq Transactions
         /\ lost' \subseteq Jobs \X Nat
<1>1. lost' \subseteq Jobs \X Nat
  BY LoseTyped DEF Abandon, StoreInv, ReviewTypeOK
<1>2. MayAbandon(w)
  BY DEF Abandon, MayAbandon
<1>3. orphans \subseteq Transactions
  BY DEF StoreInv, ReviewTypeOK, Transactions
<1>4. pc[w] = "write" => Transaction(w) \in Transactions
  BY TransactionTyped DEF WithOutcome
<1>. QED
  BY <1>1, <1>2, <1>3, <1>4 DEF MayAbandon

LEMMA EndSteps ==
  ASSUME StoreInv, NEW w \in Workers,
         MarkFailed(w) \/ Raise(w) \/ Cancel(w) \/ Release(w) \/ Kill(w)
  PROVE  /\ ReviewTypeOK' /\ TablesKept /\ OnlyMoves(w) /\ WorkerOK(w)' /\ MayAbandon(w)
<1>1. CASE MarkFailed(w)
  BY <1>1, LeaveStep DEF MarkFailed, StoreInv, ReviewTypeOK, tables, TablesKept, MayAbandon
<1>2. CASE Raise(w)
  BY <1>2, LeaveStep, AbandonStep
     DEF Raise, StoreInv, ReviewTypeOK, tables, TablesKept, Transactions
<1>3. CASE Cancel(w)
  <2>1. /\ pc' \in [Workers -> Stages] /\ OnlyMoves(w) /\ WorkerOK(w)'
    BY <1>3 DEF Cancel, StoreInv, ReviewTypeOK, tables, Stages, OnlyMoves, WorkerOK,
                WithOutcome, StillThere
  <2>. QED
    BY <1>3, <2>1, AbandonStep
       DEF Cancel, StoreInv, ReviewTypeOK, tables, TablesKept, Transactions
<1>4. CASE Release(w)
  BY <1>4, LeaveStep DEF Release, StoreInv, ReviewTypeOK, tables, TablesKept, MayAbandon
<1>5. CASE Kill(w)
  BY <1>5, LeaveStep, AbandonStep
     DEF Kill, StoreInv, ReviewTypeOK, tables, TablesKept, Transactions
<1>. QED
  BY <1>1, <1>2, <1>3, <1>4, <1>5

(***************************************************************************)
(* The save.                                                               *)
(***************************************************************************)
LEMMA AfterSaveStep ==
  ASSUME StoreInv, NEW w \in Workers, pc[w] \in WithOutcome, AfterSave(w), RowsGrow
  PROVE  /\ pc' \in [Workers -> Stages] /\ job' \in [Workers -> Jobs]
         /\ event' \in [Workers -> Outcomes \cup {None}] /\ read' \in [Workers -> Reads]
         /\ OnlyMoves(w) /\ WorkerOK(w)'
<1>1. CASE Leave(w)
  BY <1>1, LeaveStep
<1>2. CASE Goto(w, "unlock") /\ UNCHANGED read
  BY <1>2 DEF Goto, StoreInv, ReviewTypeOK, Stages, OnlyMoves, WorkerOK, WithOutcome,
              StillThere, RowsGrow
<1>. QED
  BY <1>1, <1>2 DEF AfterSave

LEMMA SaveSteps ==
  ASSUME StoreInv, NEW w \in Workers, Write(w) \/ SaveFails(w)
  PROVE  /\ ReviewTypeOK' /\ RowsGrow /\ CompletedHasRecord' /\ OnlyMoves(w) /\ WorkerOK(w)'
         /\ MayAbandon(w)
<1>1. CASE Write(w)
  <2>1. /\ jobRow' \in [Jobs -> Row(JobRows)] /\ recordRow' \in [Jobs -> Row(RecordRows)]
        /\ checkRow' = checkRow /\ RowsGrow /\ CompletedHasRecord'
        /\ lost' \subseteq Jobs \X Nat
    <3>1. CASE Save(Transaction(w)) /\ UNCHANGED lost
      <4>1. /\ Transaction(w) \in Transactions
            /\ StillThere(Transaction(w).job, Transaction(w).read)
        BY <1>1, TransactionTyped DEF Write, WithOutcome
      <4>. QED
        BY <3>1, <4>1, SaveKeeps DEF StoreInv, ReviewTypeOK
    <3>2. CASE Lose(w) /\ UNCHANGED tables
      BY <3>2, LoseTyped, TablesKeptGrow DEF StoreInv, ReviewTypeOK, tables, TablesKept
    <3>. QED
      BY <1>1, <3>1, <3>2 DEF Write
  <2>2. /\ pc[w] \in WithOutcome /\ AfterSave(w)
        /\ UNCHANGED << key, orphans, outcomes, runs >>
    BY <1>1 DEF Write, WithOutcome
  <2>. QED
    BY <2>1, <2>2, AfterSaveStep DEF StoreInv, ReviewTypeOK, MayAbandon
<1>2. CASE SaveFails(w)
  <2>1. RowsGrow /\ CompletedHasRecord'
    BY <1>2, TablesKeptGrow DEF SaveFails, tables, TablesKept, StoreInv
  <2>2. /\ pc[w] \in WithOutcome /\ AfterSave(w) /\ Abandon(w, {"raise"})
        /\ UNCHANGED << key, jobRow, recordRow, checkRow, outcomes, runs >>
    BY <1>2 DEF SaveFails, WithOutcome, tables
  <2>. QED
    BY <2>1, <2>2, AfterSaveStep, AbandonStep DEF StoreInv, ReviewTypeOK, Transactions
<1>. QED
  BY <1>1, <1>2

\* A transaction without a caller is a save like any other.
LEMMA OrphanStep ==
  ASSUME StoreInv, OrphanEnds
  PROVE  StoreInv'
<1>1. PICK T \in orphans : orphans' = orphans \ {T} /\ (Save(T) \/ UNCHANGED tables)
  BY DEF OrphanEnds
<1>2. UNCHANGED << key, pc, job, event, read, outcomes, lost, runs >>
  BY DEF OrphanEnds, worker
<1>3. /\ jobRow' \in [Jobs -> Row(JobRows)] /\ recordRow' \in [Jobs -> Row(RecordRows)]
      /\ checkRow' = checkRow /\ RowsGrow /\ CompletedHasRecord'
  <2>1. CASE Save(T)
    BY <1>1, <2>1, SaveKeeps DEF StoreInv, ReviewTypeOK, Transactions
  <2>2. CASE UNCHANGED tables
    BY <2>2, TablesKeptGrow DEF StoreInv, ReviewTypeOK, tables, TablesKept
  <2>. QED
    BY <1>1, <2>1, <2>2
<1>4. ReviewTypeOK'
  BY <1>1, <1>2, <1>3 DEF StoreInv, ReviewTypeOK
<1>5. \A w \in Workers : WorkerOK(w)'
  BY <1>2, <1>3 DEF StoreInv, ReviewTypeOK, WorkerOK, StillThere, RowsGrow
<1>6. \A S \in orphans' : StillThere(S.job, S.read)'
  BY <1>1, <1>3 DEF StoreInv, ReviewTypeOK, StillThere, RowsGrow
<1>. QED
  BY <1>3, <1>4, <1>5, <1>6 DEF StoreInv

(***************************************************************************)
(* The theorem.                                                            *)
(***************************************************************************)
LEMMA ReviewStep ==
  ASSUME StoreInv, NEW w \in Workers, Review(w)
  PROVE  StoreInv'
<1>1. CASE \/ \E j \in Jobs : Begin(w, j)
           \/ RunPipeline(w) \/ ReadCheck(w) \/ Publish(w) \/ MarkCompleted(w)
           \/ ReadJob(w) \/ ReadRecord(w)
  BY <1>1, EarlySteps, TablesKeptGrow, WorkerStep DEF StoreInv
<1>2. CASE WriteCheck(w)
  BY <1>2, CheckStep, TablesKeptGrow, WorkerStep DEF StoreInv
<1>3. CASE MarkFailed(w) \/ Raise(w) \/ Cancel(w) \/ Release(w) \/ Kill(w)
  BY <1>3, EndSteps, TablesKeptGrow, WorkerStep DEF StoreInv
<1>4. CASE Write(w) \/ SaveFails(w)
  BY <1>4, SaveSteps, WorkerStep
<1>. QED
  BY <1>1, <1>2, <1>3, <1>4 DEF Review

LEMMA FeedbackLeavesReviews ==
  ASSUME NEW m \in Members, Feedback(m)
  PROVE  UNCHANGED review
BY DEF Feedback, Fetch, Select, Upsert, Commit, FRaise, FStop, Assign, Rebalance, AssignTo

LEMMA StoreInvStep ==
  ASSUME StoreInv, [Next]_vars
  PROVE  StoreInv'
<1>1. ASSUME UNCHANGED review
      PROVE  StoreInv'
  <2>1. ReviewTypeOK'
    BY <1>1 DEF review, worker, tables, StoreInv, ReviewTypeOK
  <2>. QED
    BY <1>1, <2>1, OtherStep DEF review, tables
<1>2. ASSUME NEW w \in Workers, Review(w)
      PROVE  StoreInv'
  BY <1>2, ReviewStep
<1>3. ASSUME NEW m \in Members, Feedback(m)
      PROVE  StoreInv'
  BY <1>1, <1>3, FeedbackLeavesReviews
<1>4. ASSUME NEW j \in Jobs, ExpireKey(j)
      PROVE  StoreInv'
  <2>1. ReviewTypeOK'
    BY <1>4 DEF ExpireKey, worker, tables, StoreInv, ReviewTypeOK
  <2>. QED
    BY <1>4, <2>1, OtherStep DEF ExpireKey, tables
<1>5. ASSUME NEW j \in Jobs, React(j)
      PROVE  StoreInv'
  BY <1>1, <1>5 DEF React
<1>6. CASE OrphanEnds
  BY <1>6, OrphanStep
<1>7. CASE UNCHANGED vars
  BY <1>1, <1>7 DEF vars
<1>. QED
  BY <1>2, <1>3, <1>4, <1>5, <1>6, <1>7 DEF Next

LEMMA StoreInvInit == Init => StoreInv
<1>. SUFFICES ASSUME Init PROVE StoreInv
  OBVIOUS
<1>1. ReviewTypeOK
  BY DEF Init, ReviewTypeOK, Stages, Reads, Nothing, Row
<1>2. \A w \in Workers : WorkerOK(w)
  BY DEF Init, WorkerOK, WithOutcome, StillThere, Nothing
<1>3. CompletedHasRecord
  BY DEF Init, CompletedHasRecord
<1>. QED
  BY <1>1, <1>2, <1>3 DEF StoreInv, Init

\* The rows of reviews, and what workers and transactions without a caller hold
\* of them, have their types in every state.
THEOREM ReviewTypeCorrect == Spec => []ReviewTypeOK
<1>1. Init => StoreInv
  BY StoreInvInit
<1>2. StoreInv /\ [Next]_vars => StoreInv'
  BY StoreInvStep
<1>3. StoreInv => ReviewTypeOK
  BY DEF StoreInv
<1>. QED
  BY <1>1, <1>2, <1>3, PTL DEF Spec

\* A job that the database calls completed has its record (repository.py:53-107),
\* whoever was killed or cancelled and whatever committed late.
THEOREM CompletedHasRecordAlways == Spec => []CompletedHasRecord
<1>1. Init => StoreInv
  BY StoreInvInit
<1>2. StoreInv /\ [Next]_vars => StoreInv'
  BY StoreInvStep
<1>3. StoreInv => CompletedHasRecord
  BY DEF StoreInv
<1>. QED
  BY <1>1, <1>2, <1>3, PTL DEF Spec

-----------------------------------------------------------------------------
(* Types of the feedback. *)

\* A member past its fetch handles a message of the log, and what it has found of the
\* row is still there.
MemberOK(m) ==
  /\ fpc[m] = "fetch" => found[m] = None
  /\ fpc[m] # "fetch" => /\ at[m] \in 1..Len(log)
                         /\ found[m] # None => feedback[Message(m).job] # None

FeedbackTypeInv == FeedbackTypeOK /\ \A m \in Members : MemberOK(m)

LEMMA WrittenOpinion ==
  ASSUME NEW row \in Row(Opinions), NEW old \in Row(Opinions), NEW new \in Opinions,
         old # None => row # None
  PROVE  /\ Written(row, old, new) \in Opinions
         /\ old = row => Written(row, old, new) = new
<1>1. CASE old = None
  BY <1>1 DEF Written
<1>2. CASE old # None
  <2>1. Written(row, old, new) = [c \in {"reflected", "reason"} |->
                                    IF new[c] # old[c] THEN new[c] ELSE row[c]]
    BY <1>2 DEF Written, Changed, Opinions
  <2>2. row \in Opinions
    BY <1>2 DEF Row
  <2>. QED
    BY <2>1, <2>2 DEF Opinions
<1>. QED
  BY <1>1, <1>2

LEMMA ElementTyped ==
  ASSUME NEW S, NEW s \in Seq(S), NEW i \in 1..Len(s)
  PROVE  s[i] \in S
OBVIOUS

\* The message a member handles.
LEMMA MessageTyped ==
  ASSUME FeedbackTypeInv, NEW m \in Members, fpc[m] # "fetch"
  PROVE  at[m] \in 1..Len(log) /\ Message(m).job \in Jobs /\ Message(m).opinion \in Opinions
<1>1. at[m] \in 1..Len(log) /\ log \in Seq([job : Jobs, opinion : Opinions])
  BY DEF FeedbackTypeInv, MemberOK, FeedbackTypeOK
<1>2. log[at[m]] \in [job : Jobs, opinion : Opinions]
  BY <1>1, ElementTyped
<1>. QED
  BY <1>1, <1>2 DEF Message

\* The store writes the row of its message and no other.
LEMMA StoreWrites ==
  ASSUME FeedbackTypeInv, NEW m \in Members, fpc[m] # "fetch", Store(m)
  PROVE  /\ feedback' \in [Jobs -> Row(Opinions)] /\ dropped' = dropped \ {at[m]}
         /\ \A j \in Jobs : feedback[j] # None => feedback'[j] # None
         /\ \A j \in Jobs : j # Message(m).job => feedback'[j] = feedback[j]
         /\ found[m] = feedback[Message(m).job] => feedback'[Message(m).job] = Message(m).opinion
<1>1. /\ feedback \in [Jobs -> Row(Opinions)] /\ found[m] \in Row(Opinions)
      /\ found[m] # None => feedback[Message(m).job] # None
  BY DEF FeedbackTypeInv, FeedbackTypeOK, MemberOK
<1>2. Message(m).job \in Jobs /\ Message(m).opinion \in Opinions /\ None \notin Opinions
  BY MessageTyped, StoreAssumption
<1>3. PICK row : row = Written(feedback[Message(m).job], found[m], Message(m).opinion)
  OBVIOUS
<1>4. /\ row \in Opinions /\ row # None
      /\ found[m] = feedback[Message(m).job] => row = Message(m).opinion
  BY <1>1, <1>2, <1>3, WrittenOpinion
<1>5. feedback' = [feedback EXCEPT ![Message(m).job] = row] /\ dropped' = dropped \ {at[m]}
  BY <1>3 DEF Store
<1>. QED
  BY <1>1, <1>2, <1>4, <1>5 DEF Row

\* Rows of feedback and what members hold of them.
FeedbackGrows ==
  /\ feedback' \in [Jobs -> Row(Opinions)]
  /\ \A j \in Jobs : feedback[j] # None => feedback'[j] # None

\* A step of member m, which has read, stored or left.
LEMMA MemberStepTyped ==
  ASSUME FeedbackTypeInv, NEW m \in Members, Feedback(m)
  PROVE  FeedbackTypeInv'
<1>1. /\ committed \in Nat /\ position \in Nat /\ Len(log) \in Nat
      /\ owner \in Members \cup {NoMember} /\ fpc \in [Members -> FStages]
      /\ at \in [Members -> Nat] /\ found \in [Members -> Row(Opinions)]
      /\ feedback \in [Jobs -> Row(Opinions)] /\ dropped \subseteq Nat
  <2>1. ASSUME NEW S, log \in Seq(S) PROVE Len(log) \in Nat
    BY <2>1
  <2>. QED
    BY <2>1 DEF FeedbackTypeInv, FeedbackTypeOK
<1>2. fpc[m] # "fetch" => Message(m).job \in Jobs /\ at[m] \in 1..Len(log)
  BY MessageTyped
<1>3. FeedbackGrows /\ dropped' \subseteq Nat /\ log' = log
  <2>1. CASE fpc[m] # "fetch" /\ Store(m)
    BY <1>1, <2>1, StoreWrites DEF FeedbackGrows, Feedback, Fetch, Select, Upsert, Commit, FRaise,
                                   FStop, Assign, Rebalance, AssignTo
  <2>2. CASE ~(fpc[m] # "fetch" /\ Store(m))
    BY <1>1, <1>2, <2>2 DEF FeedbackGrows, Feedback, Fetch, Select, Upsert, Commit, FRaise,
                            FStop, Ended, Assign, Rebalance, AssignTo
  <2>. QED
    BY <2>1, <2>2
<1>4. committed' \in Nat /\ position' \in Nat /\ owner' \in Members \cup {NoMember}
  <2>1. CASE Fetch(m) \/ Select(m) \/ Upsert(m) \/ Commit(m)
    BY <1>1, <2>1 DEF Fetch, Select, Upsert, Commit, group
  <2>2. CASE FRaise(m) \/ FStop(m)
    <3>1. committed' = committed /\ position' = position /\ owner' \in {owner, NoMember}
      BY <2>2 DEF FRaise, FStop, Ended
    <3>. QED
      BY <1>1, <3>1
  <2>3. CASE Assign(m) \/ Rebalance(m)
    BY <1>1, <2>3 DEF Assign, Rebalance, AssignTo
  <2>. QED
    BY <2>1, <2>2, <2>3 DEF Feedback
<1>5. /\ fpc' \in [Members -> FStages] /\ at' \in [Members -> Nat]
      /\ found' \in [Members -> Row(Opinions)]
  <2>1. CASE Fetch(m)
    BY <1>1, <2>1 DEF Fetch, FGoto, FStages
  <2>2. CASE Select(m)
    BY <1>1, <1>2, <2>2 DEF Select, FGoto, FStages
  <2>3. CASE Upsert(m)
    BY <1>1, <2>3 DEF Upsert, FGoto, FStages
  <2>4. CASE Commit(m) \/ FRaise(m) \/ FStop(m)
    <3>1. FLeave(m)
      BY <2>4 DEF Commit, FRaise, FStop
    <3>. QED
      BY <1>1, <3>1 DEF FLeave, FGoto, FStages, Row
  <2>5. CASE Assign(m) \/ Rebalance(m)
    BY <1>1, <2>5 DEF Assign, Rebalance, AssignTo, member
  <2>. QED
    BY <2>1, <2>2, <2>3, <2>4, <2>5 DEF Feedback
<1>6. ASSUME NEW o \in Members \ {m} PROVE fpc'[o] = fpc[o] /\ at'[o] = at[o] /\ found'[o] = found[o]
  BY <1>1, <1>6 DEF Feedback, Fetch, Select, Upsert, Commit, FRaise, FStop, FLeave, FGoto, Assign,
                    Rebalance, AssignTo, member
<1>7. ASSUME NEW o \in Members \ {m}
      PROVE  MemberOK(o)'
  <2>1. fpc[o] # "fetch" => Message(o).job \in Jobs
    BY MessageTyped
  <2>. QED
    BY <1>3, <1>6, <1>7, <2>1 DEF FeedbackTypeInv, MemberOK, Message, FeedbackGrows
<1>8. MemberOK(m)'
  <2>1. CASE Fetch(m)
    BY <1>1, <2>1, StoreAssumption DEF Fetch, FGoto, MemberOK, FeedbackTypeInv
  <2>2. CASE Select(m)
    BY <1>1, <1>2, <2>2 DEF Select, FGoto, MemberOK, Message
  <2>3. CASE Upsert(m)
    BY <1>1, <1>2, <1>3, <2>3
    DEF Upsert, FGoto, MemberOK, Message, FeedbackTypeInv, FeedbackGrows
  <2>4. CASE Commit(m) \/ FRaise(m) \/ FStop(m)
    BY <1>1, <2>4 DEF Commit, FRaise, FStop, FLeave, FGoto, MemberOK
  <2>5. CASE Assign(m) \/ Rebalance(m)
    BY <1>1, <2>5 DEF Assign, Rebalance, AssignTo, member, MemberOK, Message, FeedbackTypeInv
  <2>. QED
    BY <2>1, <2>2, <2>3, <2>4, <2>5 DEF Feedback
<1>. QED
  BY <1>1, <1>3, <1>4, <1>5, <1>7, <1>8 DEF FeedbackTypeInv, FeedbackTypeOK, FeedbackGrows

LEMMA ReviewLeavesFeedback ==
  ASSUME (\E w \in Workers : Review(w)) \/ (\E j \in Jobs : ExpireKey(j)) \/ OrphanEnds
  PROVE  UNCHANGED feeds
BY DEF Review, Begin, RunPipeline, ReadCheck, WriteCheck, Publish, MarkCompleted, ReadJob,
       ReadRecord, Write, SaveFails, MarkFailed, Raise, Cancel, Release, Kill, ExpireKey, OrphanEnds

LEMMA AppendTyped ==
  ASSUME NEW S, NEW s \in Seq(S), NEW e \in S
  PROVE  /\ Append(s, e) \in Seq(S) /\ Len(s) \in Nat /\ Len(Append(s, e)) = Len(s) + 1
         /\ \A i \in 1..Len(s) : Append(s, e)[i] = s[i]
         /\ Append(s, e)[Len(s) + 1] = e
OBVIOUS

\* A reaction appends a message and does nothing else.
LEMMA ReactAppends ==
  ASSUME FeedbackTypeInv, NEW j \in Jobs, React(j)
  PROVE  /\ log' \in Seq([job : Jobs, opinion : Opinions])
         /\ Len(log) \in Nat /\ Len(log') = Len(log) + 1
         /\ \A i \in 1..Len(log) : log'[i] = log[i]
         /\ UNCHANGED << group, member, feedback, dropped, suffered >>
<1>1. PICK o \in Opinions : log' = Append(log, [job |-> j, opinion |-> o])
  BY DEF React
<1>2. [job |-> j, opinion |-> o] \in [job : Jobs, opinion : Opinions]
  OBVIOUS
<1>3. log \in Seq([job : Jobs, opinion : Opinions])
  BY DEF FeedbackTypeInv, FeedbackTypeOK
<1>. QED
  BY <1>1, <1>2, <1>3, AppendTyped DEF React, NoFault

LEMMA FeedbackTypeStep ==
  ASSUME FeedbackTypeInv, [Next]_vars
  PROVE  FeedbackTypeInv'
<1>1. CASE UNCHANGED feeds
  BY <1>1 DEF feeds, group, member, FeedbackTypeInv, FeedbackTypeOK, MemberOK, Message
<1>2. ASSUME NEW j \in Jobs, React(j)
      PROVE  FeedbackTypeInv'
  <2>1. FeedbackTypeOK'
    BY <1>2, ReactAppends DEF group, member, FeedbackTypeInv, FeedbackTypeOK
  <2>2. \A m \in Members : MemberOK(m)'
    <3> SUFFICES ASSUME NEW m \in Members PROVE MemberOK(m)'
      OBVIOUS
    <3>1. /\ UNCHANGED << fpc, at, found, feedback >> /\ Len(log) \in Nat /\ Len(log') = Len(log) + 1
          /\ \A i \in 1..Len(log) : log'[i] = log[i]
      BY <1>2, ReactAppends DEF member
    <3>. QED
      BY <3>1 DEF FeedbackTypeInv, MemberOK, Message
  <2>. QED
    BY <2>1, <2>2 DEF FeedbackTypeInv
<1>. QED
  BY <1>1, <1>2, MemberStepTyped, ReviewLeavesFeedback DEF Next, vars

LEMMA FaultsTyped ==
  ASSUME faults \in Nat, suffered \subseteq AllFaults, [Next]_vars
  PROVE  /\ faults' \in Nat /\ suffered' \subseteq AllFaults
         /\ suffered \subseteq suffered'
<1>1. \A kinds : kinds \subseteq AllFaults /\ "late" \in AllFaults /\ {"raise", "cancel", "kill"} \subseteq AllFaults
        => suffered \cup kinds \subseteq AllFaults /\ suffered \cup kinds \cup {"late"} \subseteq AllFaults
  OBVIOUS
<1>2. AllFaults = {"raise", "cancel", "kill", "late", "expire", "rebalance"}
  BY DEF AllFaults
<1>3. ASSUME NEW w \in Workers, Review(w)
      PROVE  /\ faults' \in {faults, faults + 1} /\ suffered' \subseteq AllFaults
             /\ suffered \subseteq suffered'
  <2>1. CASE \E kinds \in {{"raise"}, {"cancel"}, {"kill"}} :
                 Abandon(w, kinds) /\ faults' = faults + 1
    BY <1>1, <1>2, <2>1 DEF Abandon
  <2>2. CASE (NoFault \/ Fault("raise"))
    BY <1>2, <2>2 DEF NoFault, Fault, Counted
  <2>. QED
    BY <1>3, <2>1, <2>2
    DEF Review, Begin, RunPipeline, ReadCheck, WriteCheck, Publish, MarkCompleted, ReadJob,
        ReadRecord, Write, SaveFails, MarkFailed, Raise, Cancel, Release, Kill, Counted
<1>4. ASSUME NEW m \in Members, Feedback(m)
      PROVE  /\ faults' \in {faults, faults + 1} /\ suffered' \subseteq AllFaults
             /\ suffered \subseteq suffered'
  <2>1. CASE \E kinds \in {{"raise"}, {"kill"}} : Ended(m, kinds) /\ faults' = faults + 1
    BY <1>1, <1>2, <2>1 DEF Ended
  <2>2. CASE NoFault \/ Fault("rebalance")
    BY <1>2, <2>2 DEF NoFault, Fault, Counted
  <2>. QED
    BY <1>4, <2>1, <2>2
    DEF Feedback, Fetch, Select, Upsert, Commit, FRaise, FStop, Assign, Rebalance, Counted
<1>5. CASE \E j \in Jobs : ExpireKey(j) \/ React(j)
  <2>1. faults' \in {faults, faults + 1} /\ suffered' \in {suffered, suffered \cup {"expire"}}
    BY <1>5 DEF ExpireKey, React, Fault, Counted, NoFault
  <2>. QED
    BY <1>2, <2>1
<1>6. CASE OrphanEnds \/ UNCHANGED vars
  BY <1>6 DEF OrphanEnds, NoFault, vars
<1>. QED
  BY <1>3, <1>4, <1>5, <1>6 DEF Next

\* Every variable has its type: rows, messages, offsets, and what workers, members and
\* orphans hold of them.
THEOREM StoreTypeCorrect == Spec => []TypeOK
<1>1. Init => FeedbackTypeInv /\ faults \in Nat /\ suffered \subseteq AllFaults
  BY DEF Init, FeedbackTypeInv, FeedbackTypeOK, MemberOK, FStages, Row
<1>2. FeedbackTypeInv /\ faults \in Nat /\ suffered \subseteq AllFaults /\ [Next]_vars
      => (FeedbackTypeInv /\ faults \in Nat /\ suffered \subseteq AllFaults)'
  BY FeedbackTypeStep, FaultsTyped
<1>3. ReviewTypeOK /\ FeedbackTypeInv /\ faults \in Nat /\ suffered \subseteq AllFaults => TypeOK
  BY DEF TypeOK, FeedbackTypeInv
<1>. QED
  BY <1>1, <1>2, <1>3, ReviewTypeCorrect, PTL DEF Spec

-----------------------------------------------------------------------------
(* The latest feedback. *)

\* The messages about job j among the first n of the list, but for the dropped ones d.
Told(list, d, j, n) == {i \in 1..n : list[i].job = j /\ i \notin d}

\* The row holds the opinion of the last of them.
TellsLast(list, d, row, j, n) ==
  \/ Told(list, d, j, n) = {} /\ row = None
  \/ \E i \in Told(list, d, j, n) :
       (\A k \in Told(list, d, j, n) : k <= i) /\ row = list[i].opinion

Tells(j, n) == TellsLast(log, dropped, feedback[j], j, n)

Disturbed == suffered \cap {"raise", "rebalance"} # {}

\* Without calls that raise and without rebalances the partition has one reader, who
\* handles the first message that is not committed.
ReaderOK(m) ==
  /\ fpc[m] # "fetch" => /\ owner = m /\ at[m] = position
                         /\ position = committed + 1 /\ position <= Len(log)
  /\ fpc[m] = "fetch" /\ owner = m => position = committed
  /\ fpc[m] = "upsert" => found[m] = feedback[Message(m).job]
  /\ fpc[m] = "commit" => \A j \in Jobs : Tells(j, committed + 1)

FeedbackInv ==
  /\ committed <= Len(log)
  /\ \A m \in Members : ReaderOK(m)
  /\ \A j \in Jobs : Tells(j, committed) \/ (committed < Len(log) /\ Tells(j, committed + 1))

\* Messages after the n-th and the refusal of other messages do not matter.
LEMMA TellsSame ==
  ASSUME NEW list, NEW d, NEW row, NEW j, NEW n \in Nat, NEW list2, NEW d2,
         TellsLast(list, d, row, j, n),
         \A i \in 1..n : list2[i] = list[i] /\ (list[i].job = j => (i \in d2 <=> i \in d))
  PROVE  TellsLast(list2, d2, row, j, n)
<1>1. Told(list2, d2, j, n) = Told(list, d, j, n)
  BY DEF Told
<1>2. Told(list, d, j, n) \subseteq 1..n
  BY DEF Told
<1>. QED
  BY <1>1, <1>2 DEF TellsLast

\* Neither does the next message, if it is dropped or about another job.
LEMMA TellsSkip ==
  ASSUME NEW list, NEW d, NEW row, NEW j, NEW n \in Nat,
         n + 1 \in d \/ list[n + 1].job # j
  PROVE  /\ TellsLast(list, d, row, j, n) => TellsLast(list, d, row, j, n + 1)
         /\ TellsLast(list, d, row, j, n + 1) => TellsLast(list, d, row, j, n)
<1>1. Told(list, d, j, n + 1) = Told(list, d, j, n)
  BY DEF Told
<1>. QED
  BY <1>1 DEF TellsLast

LEMMA TellsNew ==
  ASSUME NEW list, NEW d, NEW j, NEW n \in Nat, list[n + 1].job = j, n + 1 \notin d
  PROVE  /\ TellsLast(list, d, list[n + 1].opinion, j, n + 1)
         /\ \A row : TellsLast(list, d, row, j, n + 1) => row = list[n + 1].opinion
<1>1. n + 1 \in Told(list, d, j, n + 1) /\ \A k \in Told(list, d, j, n + 1) : k \in Nat /\ k <= n + 1
  BY DEF Told
<1>. QED
  BY <1>1 DEF TellsLast

\* An upsert that stores its message or is refused: every row tells the messages up to
\* this one.
LEMMA UpsertTells ==
  ASSUME FeedbackTypeInv, FeedbackInv, NEW m \in Members, fpc[m] = "upsert",
         \/ Store(m)
         \/ IntegrityError(m) /\ dropped' = dropped \cup {at[m]} /\ UNCHANGED feedback,
         NEW j \in Jobs
  PROVE  TellsLast(log, dropped', feedback'[j], j, committed + 1)
<1>1. /\ at[m] = committed + 1 /\ committed \in Nat /\ found[m] = feedback[Message(m).job]
      /\ Tells(j, committed) \/ Tells(j, committed + 1)
  BY DEF FeedbackInv, ReaderOK, FeedbackTypeInv, FeedbackTypeOK
<1>2. PICK n \in Nat : n = committed
  BY <1>1
<1>3. Message(m) = log[n + 1] /\ Message(m).opinion \in Opinions /\ None \notin Opinions
  BY <1>1, <1>2, MessageTyped, StoreAssumption DEF Message
<1>4. \A i \in 1..n : i \in dropped' <=> i \in dropped
  BY <1>1, <1>2 DEF Store
<1>5. CASE Message(m).job # j
  <2>1. Tells(j, n + 1)
    BY <1>1, <1>2, <1>3, <1>5, TellsSkip DEF Tells
  <2>2. \A i \in 1..(n + 1) : log[i].job = j => (i \in dropped' <=> i \in dropped)
    BY <1>1, <1>2, <1>3, <1>5 DEF Store
  <2>3. feedback'[j] = feedback[j]
    BY <1>5, StoreWrites
  <2>. QED
    BY <1>2, <2>1, <2>2, <2>3, TellsSame DEF Tells
<1>6. CASE Message(m).job = j /\ Store(m)
  <2>1. feedback'[j] = log[n + 1].opinion /\ n + 1 \notin dropped'
    BY <1>1, <1>2, <1>3, <1>6, StoreWrites
  <2>. QED
    BY <1>2, <1>3, <1>6, <2>1, TellsNew
<1>7. CASE /\ Message(m).job = j /\ IntegrityError(m)
           /\ dropped' = dropped \cup {at[m]} /\ UNCHANGED feedback
  <2>1. feedback[j] = None /\ n + 1 \in dropped'
    BY <1>1, <1>2, <1>7 DEF IntegrityError, Duplicate
  <2>2. TellsLast(log, dropped, feedback[j], j, n)
    <3>1. TellsLast(log, dropped, feedback[j], j, n) \/ TellsLast(log, dropped, feedback[j], j, n + 1)
      BY <1>1, <1>2 DEF Tells
    <3>2. CASE n + 1 \in dropped
      BY <3>1, <3>2, TellsSkip
    <3>3. CASE n + 1 \notin dropped
      <4>1. \A row : TellsLast(log, dropped, row, j, n + 1) => row = log[n + 1].opinion
        BY <1>3, <1>7, <3>3, TellsNew
      <4>2. feedback[j] # log[n + 1].opinion
        BY <1>3, <2>1
      <4>. QED
        BY <3>1, <4>1, <4>2
    <3>. QED
      BY <3>2, <3>3
  <2>3. TellsLast(log, dropped', feedback[j], j, n)
    BY <1>4, <2>2, TellsSame
  <2>. QED
    BY <1>2, <1>7, <2>1, <2>3, TellsSkip
<1>. QED
  BY <1>5, <1>6, <1>7

\* What the members do that are not at this step.
OthersWait(m) ==
  \A o \in Members \ {m} : fpc'[o] = fpc[o] /\ at'[o] = at[o] /\ found'[o] = found[o]

LEMMA OneReader ==
  ASSUME FeedbackInv, NEW m \in Members, owner \in {m, NoMember}, NEW o \in Members \ {m}
  PROVE  fpc[o] = "fetch"
BY StoreAssumption DEF FeedbackInv, ReaderOK

\* Steps of a member, without a call that raises and without a rebalance.
LEMMA MemberKeepsFeedbackInv ==
  ASSUME FeedbackTypeInv, FeedbackInv, NEW m \in Members,
         Fetch(m) \/ Select(m) \/ Upsert(m) \/ Commit(m) \/ FStop(m) \/ Assign(m)
  PROVE  FeedbackInv'
<1>1. /\ committed \in Nat /\ position \in Nat /\ Len(log) \in Nat /\ log' = log
      /\ fpc \in [Members -> FStages] /\ at \in [Members -> Nat] /\ owner \in Members \cup {NoMember}
      /\ found \in [Members -> Row(Opinions)] /\ NoMember \notin Members
      /\ committed <= Len(log)
  <2>1. ASSUME NEW S, log \in Seq(S) PROVE Len(log) \in Nat
    BY <2>1
  <2>2. log' = log
    BY DEF Fetch, Select, Upsert, Commit, FStop, Assign, AssignTo
  <2>. QED
    BY <2>1, <2>2, StoreAssumption DEF FeedbackTypeInv, FeedbackTypeOK, FeedbackInv
<1>2. OthersWait(m)
  BY <1>1 DEF Fetch, Select, Upsert, Commit, FStop, Assign, AssignTo, FLeave, FGoto, member, OthersWait
<1>3. owner \in {m, NoMember} \/ FStop(m)
  BY <1>1 DEF FeedbackInv, ReaderOK, Fetch, Select, Upsert, Commit, Assign
<1>4. ReaderOK(m) /\ (fpc[m] = "upsert" => at[m] = committed + 1)
  BY DEF FeedbackInv, ReaderOK
<1> DEFINE Latest(c, d, f) ==
             \A j \in Jobs : \/ TellsLast(log, d, f[j], j, c)
                             \/ c < Len(log) /\ TellsLast(log, d, f[j], j, c + 1)
<1>5. Latest(committed, dropped, feedback)
  BY DEF FeedbackInv, Tells
<1>6. ASSUME committed' <= Len(log), ReaderOK(m)', Latest(committed', dropped', feedback'),
             \A o \in Members \ {m} : ReaderOK(o)'
      PROVE  FeedbackInv'
  BY <1>1, <1>6 DEF FeedbackInv, Tells
<1> HIDE DEF Latest
<1>7. ASSUME owner \in {m, NoMember}, owner' \in {m, NoMember}, NEW o \in Members \ {m}
      PROVE  ReaderOK(o)'
  BY <1>1, <1>2, <1>7, OneReader DEF ReaderOK, OthersWait
<1>8. CASE Fetch(m)
  <2>1. ReaderOK(m)'
    BY <1>1, <1>4, <1>8 DEF Fetch, FGoto, ReaderOK
  <2>. QED
    BY <1>1, <1>3, <1>5, <1>6, <1>7, <1>8, <2>1 DEF Fetch
<1>9. CASE Select(m)
  <2>1. ReaderOK(m)'
    BY <1>1, <1>4, <1>9 DEF Select, FGoto, ReaderOK, Message, group
  <2>. QED
    BY <1>1, <1>3, <1>4, <1>5, <1>6, <1>7, <1>9, <2>1 DEF Select, group, ReaderOK
<1>10. CASE Upsert(m)
  <2>1. \A j \in Jobs : TellsLast(log, dropped', feedback'[j], j, committed + 1)
    BY <1>10, UpsertTells DEF Upsert
  <2>2. committed' = committed /\ committed < Len(log) /\ owner' = owner /\ owner = m
    BY <1>1, <1>4, <1>10 DEF Upsert, group, ReaderOK
  <2>3. ReaderOK(m)'
    BY <1>1, <1>4, <1>10, <2>1, <2>2 DEF Upsert, FGoto, ReaderOK, group, Tells
  <2>4. Latest(committed', dropped', feedback')
    BY <2>1, <2>2 DEF Latest
  <2>. QED
    BY <1>1, <1>6, <1>7, <2>2, <2>3, <2>4
<1>11. CASE Commit(m)
  <2>1. /\ owner = m /\ owner' = m /\ committed' = committed + 1 /\ committed + 1 <= Len(log)
        /\ position' = committed + 1
    BY <1>1, <1>4, <1>11 DEF Commit, ReaderOK
  <2>2. ReaderOK(m)'
    BY <1>1, <1>11, <2>1 DEF Commit, FLeave, FGoto, ReaderOK
  <2>3. Latest(committed', dropped', feedback')
    BY <1>1, <1>4, <1>11, <2>1 DEF Commit, ReaderOK, Tells, Latest
  <2>. QED
    BY <1>1, <1>6, <1>7, <2>1, <2>2, <2>3
<1>12. CASE FStop(m)
  <2>1. committed' = committed /\ position' = position /\ fpc'[m] = "fetch" /\ owner' # m
    BY <1>1, <1>12 DEF FStop, Ended, FLeave, FGoto
  <2>2. ReaderOK(m)'
    BY <2>1 DEF ReaderOK
  <2>3. Latest(committed', dropped', feedback')
    <3>1. CASE UNCHANGED << committed, feedback, dropped >>
      BY <1>5, <3>1
    <3>2. CASE fpc[m] = "upsert" /\ Store(m)
      <4>1. \A j \in Jobs : TellsLast(log, dropped', feedback'[j], j, committed + 1)
        BY <3>2, UpsertTells
      <4>2. committed < Len(log)
        BY <1>1, <1>4, <3>2 DEF ReaderOK
      <4>. QED
        BY <2>1, <4>1, <4>2 DEF Latest
    <3>. QED
      BY <1>12, <3>1, <3>2 DEF FStop, Ended
  <2>4. ASSUME NEW o \in Members \ {m} PROVE ReaderOK(o)'
    <3>1. CASE owner = m
      BY <1>1, <1>7, <1>12, <3>1 DEF FStop
    <3>2. CASE owner # m
      <4>1. fpc[m] = "fetch" /\ UNCHANGED << owner, feedback, dropped >>
        BY <1>4, <1>12, <3>2 DEF ReaderOK, FStop, Ended
      <4>. QED
        BY <1>1, <1>2, <2>1, <4>1 DEF OthersWait, ReaderOK, FeedbackInv, Message, Tells
    <3>. QED
      BY <3>1, <3>2
  <2>. QED
    BY <1>1, <1>6, <2>1, <2>2, <2>3, <2>4
<1>13. CASE Assign(m)
  <2>1. owner = NoMember /\ owner' = m /\ position' = committed /\ UNCHANGED << committed, fpc, feedback, dropped >>
    BY <1>13 DEF Assign, AssignTo, member
  <2>2. fpc[m] = "fetch"
    BY <1>1, <1>4, <2>1 DEF ReaderOK
  <2>3. ReaderOK(m)'
    BY <2>1, <2>2 DEF ReaderOK
  <2>. QED
    BY <1>1, <1>5, <1>6, <1>7, <2>1, <2>3
<1>. QED
  BY <1>8, <1>9, <1>10, <1>11, <1>12, <1>13

\* A reaction is about a message nobody has read.
LEMMA ReactKeepsFeedbackInv ==
  ASSUME FeedbackTypeInv, FeedbackInv, NEW i \in Jobs, React(i)
  PROVE  FeedbackInv'
<1>1. /\ Len(log) \in Nat /\ Len(log') = Len(log) + 1 /\ committed \in Nat /\ committed <= Len(log)
      /\ \A k \in 1..Len(log) : log'[k] = log[k]
      /\ UNCHANGED << committed, owner, position, fpc, at, found, feedback, dropped >>
  BY ReactAppends DEF group, member, FeedbackTypeInv, FeedbackTypeOK, FeedbackInv
<1>2. ASSUME NEW j \in Jobs, NEW n \in Nat, n <= Len(log), Tells(j, n)
      PROVE  TellsLast(log', dropped', feedback'[j], j, n)
  <2>1. \A k \in 1..n : log'[k] = log[k]
    BY <1>1, <1>2
  <2>. QED
    BY <1>1, <1>2, <2>1, TellsSame DEF Tells
<1>3. ASSUME NEW m \in Members
      PROVE  ReaderOK(m)'
  <2>1. fpc[m] # "fetch" => at[m] \in 1..Len(log) /\ committed + 1 <= Len(log) /\ ReaderOK(m)
    BY <1>1 DEF FeedbackInv, ReaderOK
  <2>2. fpc[m] = "commit" => \A j \in Jobs : TellsLast(log', dropped', feedback'[j], j, committed + 1)
    BY <1>1, <1>2, <2>1 DEF ReaderOK
  <2>. QED
    BY <1>1, <2>1, <2>2 DEF FeedbackInv, ReaderOK, Message, Tells
<1>4. ASSUME NEW j \in Jobs
      PROVE  \/ TellsLast(log', dropped', feedback'[j], j, committed)
             \/ committed < Len(log) /\ TellsLast(log', dropped', feedback'[j], j, committed + 1)
  BY <1>1, <1>2, <1>4 DEF FeedbackInv
<1>. QED
  BY <1>1, <1>3, <1>4 DEF FeedbackInv, Tells

LEMMA FeedbackStep ==
  ASSUME FeedbackTypeInv, suffered \subseteq suffered', Disturbed \/ FeedbackInv, [Next]_vars
  PROVE  Disturbed' \/ FeedbackInv'
<1>1. Disturbed => Disturbed'
  BY DEF Disturbed
<1>2. CASE UNCHANGED feeds
  BY <1>1, <1>2 DEF FeedbackInv, ReaderOK, Tells, Message, feeds, group, member
<1>3. ASSUME NEW m \in Members, Feedback(m)
      PROVE  Disturbed' \/ FeedbackInv'
  <2>1. CASE FRaise(m) \/ Rebalance(m)
    BY <2>1 DEF FRaise, Rebalance, Ended, Fault, Disturbed
  <2>2. CASE ~(FRaise(m) \/ Rebalance(m))
    BY <1>1, <1>3, <2>2, MemberKeepsFeedbackInv DEF Feedback
  <2>. QED
    BY <2>1, <2>2
<1>. QED
  BY <1>1, <1>2, <1>3, ReactKeepsFeedbackInv, ReviewLeavesFeedback DEF Next, vars

\* What a row tells is the opinion LatestFeedback asks for.
LEMMA TellsOpinion ==
  ASSUME NEW j \in Jobs, NEW n \in Nat, Tells(j, n)
  PROVE  feedback[j] = Opinion(j, n)
<1> DEFINE told == Told(log, dropped, j, n)
<1>1. Opinion(j, n) = IF told = {} THEN None
                      ELSE log[CHOOSE i \in told : \A k \in told : k <= i].opinion
  BY DEF Opinion, Told
<1>2. \A k \in told : k \in Nat
  BY DEF Told
<1>3. ASSUME NEW i \in told, \A k \in told : k <= i
      PROVE  i = CHOOSE l \in told : \A k \in told : k <= l
  <2>1. \A l \in told : (\A k \in told : k <= l) => l = i
    BY <1>2, <1>3
  <2>. QED
    BY <1>3, <2>1
<1>. QED
  BY <1>1, <1>3 DEF Tells, TellsLast

\* Where no call raised and the partition was not moved, the row of a finding holds the
\* latest feedback that was committed, or the one that is being handled.
THEOREM LatestFeedbackAlways == Spec => []LatestFeedback
<1>1. Init => FeedbackTypeInv /\ faults \in Nat /\ suffered \subseteq AllFaults
  BY DEF Init, FeedbackTypeInv, FeedbackTypeOK, MemberOK, FStages, Row
<1>2. Init => FeedbackInv
  <2>1. ASSUME Init PROVE \A j : Told(log, dropped, j, 0) = {}
    BY DEF Told
  <2>. QED
    BY <2>1, StoreAssumption DEF Init, FeedbackInv, ReaderOK, Tells, TellsLast
<1>3. /\ FeedbackTypeInv /\ faults \in Nat /\ suffered \subseteq AllFaults
      /\ Disturbed \/ FeedbackInv
      /\ [Next]_vars
      => (/\ FeedbackTypeInv /\ faults \in Nat /\ suffered \subseteq AllFaults
          /\ Disturbed \/ FeedbackInv)'
  BY FeedbackTypeStep, FaultsTyped, FeedbackStep
<1>4. FeedbackTypeInv /\ (Disturbed \/ FeedbackInv) => LatestFeedback
  BY TellsOpinion DEF LatestFeedback, Disturbed, FeedbackInv, FeedbackTypeInv, FeedbackTypeOK
<1>. QED
  BY <1>1, <1>2, <1>3, <1>4, PTL DEF Spec

-----------------------------------------------------------------------------
(* The last review. *)

\* The outcomes in E among the first n of job j that were not lost.
Kept(list, L, E, j, n) == {i \in 1..n : list[i] \in E /\ << j, i >> \notin L}

\* A row is what f says of the last index in S.
Holds(S, row, f) ==
  \/ S = {} /\ row = None
  \/ \E i \in S : (\A k \in S : k <= i) /\ row = f[i]

SaveTells(list, L, row, record, j, n) ==
  /\ Holds(Kept(list, L, Outcomes, j, n), row, [i \in 1..n |-> JobOf(list[i])])
  /\ Holds(Kept(list, L, Completions, j, n), record, [i \in 1..n |-> RecordOf(list[i])])

CheckTells(list, L, row, j, n) ==
  Holds(Kept(list, L, Checked, j, n), row, [i \in 1..n |-> list[i].summary])

Saving == {"mark", "readJob", "readRecord", "write"}
Calm == suffered \subseteq {"expire", "rebalance"}

\* No run of job j is under way.
Settled(j) ==
  /\ SaveTells(outcomes[j], lost, jobRow[j], recordRow[j], j, Len(outcomes[j]))
  /\ Calm => CheckTells(outcomes[j], lost, checkRow[j], j, Len(outcomes[j]))

\* Worker w runs job j: while it saves, the rows are those before its own outcome, and
\* what it has read is what is there.
SaveOK(w, j) ==
  /\ pc[w] \in Saving =>
       /\ Len(outcomes[j]) # 0 /\ outcomes[j][Len(outcomes[j])] = event[w]
       /\ << j, Len(outcomes[j]) >> \notin lost
       /\ SaveTells(outcomes[j], lost, jobRow[j], recordRow[j], j, Len(outcomes[j]) - 1)
  /\ pc[w] \notin Saving =>
       SaveTells(outcomes[j], lost, jobRow[j], recordRow[j], j, Len(outcomes[j]))
  /\ pc[w] \in {"readRecord", "write"} => read[w].job = jobRow[j]
  /\ pc[w] = "readRecord" => event[w] \in Completions
  /\ pc[w] = "write" /\ event[w] \in Completions => read[w].record = recordRow[j]

CheckOK(w, j) ==
  /\ pc[w] \in {"readCheck", "writeCheck"} => event[w] \in Checked
  /\ pc[w] = "writeCheck" => read[w].check = checkRow[j]
  /\ pc[w] = "publish" /\ event[w] \in Checked => checkRow[j] = event[w].summary
  /\ ~(pc[w] = "publish" /\ event[w] \in Checked) =>
       CheckTells(outcomes[j], lost, checkRow[j], j, Len(outcomes[j]))

\* Without transactions that outlive their callers the key keeps the runs of a job apart.
RowsInv ==
  /\ orphans = {}
  /\ \A w \in Workers : pc[w] # "idle" =>
       /\ key[job[w]] # "none"
       /\ \A v \in Workers \ {w} : pc[v] # "idle" => job[v] # job[w]
  /\ \A j \in Jobs : \A i \in Nat : << j, i >> \in lost => i <= Len(outcomes[j])
  /\ \A w \in Workers, j \in Jobs :
       pc[w] # "idle" /\ job[w] = j => SaveOK(w, j) /\ (Calm => CheckOK(w, j))
  /\ \A j \in Jobs : ~Busy(j) => Settled(j)

LEMMA HoldsSame ==
  ASSUME NEW S, NEW row, NEW f, NEW g, Holds(S, row, f), \A i \in S : g[i] = f[i]
  PROVE  Holds(S, row, g)
BY DEF Holds

\* What is told of n outcomes depends on these outcomes only.
LEMMA RowsTellSame ==
  ASSUME NEW list, NEW L, NEW list2, NEW L2, NEW j, NEW n \in Nat,
         \A i \in 1..n : list2[i] = list[i] /\ (<< j, i >> \in L2 <=> << j, i >> \in L)
  PROVE  /\ \A row, record : SaveTells(list, L, row, record, j, n)
                             => SaveTells(list2, L2, row, record, j, n)
         /\ \A row : CheckTells(list, L, row, j, n) => CheckTells(list2, L2, row, j, n)
<1>1. \A E : Kept(list2, L2, E, j, n) = Kept(list, L, E, j, n)
  BY DEF Kept
<1>2. /\ [i \in 1..n |-> JobOf(list2[i])] = [i \in 1..n |-> JobOf(list[i])]
      /\ [i \in 1..n |-> RecordOf(list2[i])] = [i \in 1..n |-> RecordOf(list[i])]
      /\ [i \in 1..n |-> list2[i].summary] = [i \in 1..n |-> list[i].summary]
  OBVIOUS
<1>. QED
  BY <1>1, <1>2 DEF SaveTells, CheckTells

\* An outcome that is not in E or is lost says nothing.
LEMMA KeptSkip ==
  ASSUME NEW list, NEW L, NEW E, NEW j, NEW n \in Nat, NEW row, NEW f, NEW g,
         list[n + 1] \notin E \/ << j, n + 1 >> \in L,
         \A i \in 1..n : g[i] = f[i],
         Holds(Kept(list, L, E, j, n), row, f)
  PROVE  Holds(Kept(list, L, E, j, n + 1), row, g)
<1>1. Kept(list, L, E, j, n + 1) = Kept(list, L, E, j, n)
  BY DEF Kept
<1>2. Kept(list, L, E, j, n) \subseteq 1..n
  BY DEF Kept
<1>. QED
  BY <1>1, <1>2, HoldsSame

LEMMA KeptNew ==
  ASSUME NEW list, NEW L, NEW E, NEW j, NEW n \in Nat, NEW f,
         list[n + 1] \in E, << j, n + 1 >> \notin L
  PROVE  Holds(Kept(list, L, E, j, n + 1), f[n + 1], f)
<1>1. n + 1 \in Kept(list, L, E, j, n + 1) /\ \A k \in Kept(list, L, E, j, n + 1) : k <= n + 1
  BY DEF Kept
<1>. QED
  BY <1>1 DEF Holds

\* An outcome that is lost.
LEMMA RowsTellLost ==
  ASSUME NEW list, NEW L, NEW j, NEW n \in Nat, << j, n + 1 >> \in L,
         NEW row, NEW record, SaveTells(list, L, row, record, j, n)
  PROVE  SaveTells(list, L, row, record, j, n + 1)
<1>1. \A i \in 1..n : /\ [k \in 1..(n + 1) |-> JobOf(list[k])][i] = [k \in 1..n |-> JobOf(list[k])][i]
                      /\ [k \in 1..(n + 1) |-> RecordOf(list[k])][i] = [k \in 1..n |-> RecordOf(list[k])][i]
  OBVIOUS
<1>. QED
  BY <1>1, KeptSkip DEF SaveTells

\* An outcome that is saved.
LEMMA RowsTellSaved ==
  ASSUME NEW list, NEW L, NEW j, NEW n \in Nat, << j, n + 1 >> \notin L, list[n + 1] \in Outcomes,
         NEW row, NEW record, SaveTells(list, L, row, record, j, n),
         NEW row2, NEW record2, row2 = JobOf(list[n + 1]),
         list[n + 1] \in Completions => record2 = RecordOf(list[n + 1]),
         list[n + 1] \notin Completions => record2 = record
  PROVE  SaveTells(list, L, row2, record2, j, n + 1)
<1> DEFINE J(m) == [k \in 1..m |-> JobOf(list[k])]
           R(m) == [k \in 1..m |-> RecordOf(list[k])]
<1>1. J(n + 1)[n + 1] = JobOf(list[n + 1]) /\ R(n + 1)[n + 1] = RecordOf(list[n + 1])
  OBVIOUS
<1>2. \A i \in 1..n : R(n + 1)[i] = R(n)[i]
  OBVIOUS
<1>3. Holds(Kept(list, L, Outcomes, j, n + 1), row2, J(n + 1))
  <2>1. Holds(Kept(list, L, Outcomes, j, n + 1), J(n + 1)[n + 1], J(n + 1))
    BY KeptNew
  <2>. QED
    BY <1>1, <2>1
<1>4. Holds(Kept(list, L, Completions, j, n + 1), record2, R(n + 1))
  <2>1. CASE list[n + 1] \in Completions
    <3>1. Holds(Kept(list, L, Completions, j, n + 1), R(n + 1)[n + 1], R(n + 1))
      BY <2>1, KeptNew
    <3>. QED
      BY <1>1, <2>1, <3>1
  <2>2. CASE list[n + 1] \notin Completions
    <3>1. Holds(Kept(list, L, Completions, j, n), record, R(n))
      BY DEF SaveTells
    <3>2. Holds(Kept(list, L, Completions, j, n + 1), record, R(n + 1))
      BY <1>2, <2>2, <3>1, KeptSkip
    <3>. QED
      BY <2>2, <3>2
  <2>. QED
    BY <2>1, <2>2
<1>. QED
  BY <1>3, <1>4 DEF SaveTells

\* The line check of an outcome that is published.
LEMMA CheckTellsNext ==
  ASSUME NEW list, NEW L, NEW j, NEW n \in Nat, << j, n + 1 >> \notin L, NEW row,
         list[n + 1] \in Checked => row = list[n + 1].summary,
         list[n + 1] \notin Checked => CheckTells(list, L, row, j, n)
  PROVE  CheckTells(list, L, row, j, n + 1)
<1> DEFINE C(m) == [k \in 1..m |-> list[k].summary]
<1>1. C(n + 1)[n + 1] = list[n + 1].summary /\ \A i \in 1..n : C(n + 1)[i] = C(n)[i]
  OBVIOUS
<1>2. CASE list[n + 1] \in Checked
  <2>1. Holds(Kept(list, L, Checked, j, n + 1), C(n + 1)[n + 1], C(n + 1))
    BY <1>2, KeptNew
  <2>. QED
    BY <1>1, <1>2, <2>1 DEF CheckTells
<1>3. CASE list[n + 1] \notin Checked
  <2>1. Holds(Kept(list, L, Checked, j, n), row, C(n))
    BY <1>3 DEF CheckTells
  <2>2. Holds(Kept(list, L, Checked, j, n + 1), row, C(n + 1))
    BY <1>1, <1>3, <2>1, KeptSkip
  <2>. QED
    BY <2>2 DEF CheckTells
<1>. QED
  BY <1>2, <1>3

\* A step of a run of job j leaves the other jobs alone.
Apart(j) ==
  \A i \in Jobs \ {j} :
    /\ outcomes'[i] = outcomes[i] /\ key'[i] = key[i]
    /\ jobRow'[i] = jobRow[i] /\ recordRow'[i] = recordRow[i] /\ checkRow'[i] = checkRow[i]
    /\ \A k \in Nat : << i, k >> \in lost' <=> << i, k >> \in lost

LEMMA OutcomesTyped ==
  ASSUME StoreInv, NEW j \in Jobs
  PROVE  /\ Len(outcomes[j]) \in Nat
         /\ \A i \in 1..Len(outcomes[j]) : outcomes[j][i] \in Outcomes
<1>1. outcomes[j] \in Seq(Outcomes)
  BY DEF StoreInv, ReviewTypeOK
<1>. QED
  BY <1>1, ElementTyped

\* What a step of worker w in a run of job j has to do for the invariant.
LEMMA RunStep ==
  ASSUME StoreInv, RowsInv, NEW w \in Workers, NEW j \in Jobs, OnlyMoves(w), Apart(j),
         orphans' = {}, Calm' => Calm,
         \A i \in Nat : << j, i >> \in lost' => i <= Len(outcomes'[j]),
         IF pc[w] = "idle" THEN key[j] = "none" ELSE job[w] = j,
         pc'[w] # "idle" => job'[w] = j /\ key'[j] # "none" /\ SaveOK(w, j)' /\ (Calm' => CheckOK(w, j)'),
         pc'[w] = "idle" => Settled(j)'
  PROVE  RowsInv'
<1>1. /\ pc \in [Workers -> Stages] /\ job \in [Workers -> Jobs]
      /\ \A v \in Workers : pc[v] # "idle" =>
           /\ key[job[v]] # "none"
           /\ \A u \in Workers \ {v} : pc[u] # "idle" => job[u] # job[v]
  BY DEF StoreInv, ReviewTypeOK, RowsInv
<1>2. ASSUME NEW v \in Workers \ {w}
      PROVE  /\ pc'[v] = pc[v] /\ job'[v] = job[v] /\ event'[v] = event[v] /\ read'[v] = read[v]
             /\ pc[v] # "idle" => job[v] # j /\ job[v] \in Jobs
  BY <1>1, <1>2 DEF OnlyMoves
<1>3. ASSUME NEW i \in Jobs \ {j}, NEW n \in Nat
      PROVE  /\ SaveTells(outcomes[i], lost, jobRow[i], recordRow[i], i, n)
                => SaveTells(outcomes'[i], lost', jobRow'[i], recordRow'[i], i, n)
             /\ CheckTells(outcomes[i], lost, checkRow[i], i, n)
                => CheckTells(outcomes'[i], lost', checkRow'[i], i, n)
  <2>1. \A k \in 1..n : outcomes'[i][k] = outcomes[i][k] /\ (<< i, k >> \in lost' <=> << i, k >> \in lost)
    BY <1>3 DEF Apart
  <2>. QED
    BY <1>3, <2>1, RowsTellSame DEF Apart
<1>4. ASSUME NEW v \in Workers, pc'[v] # "idle"
      PROVE  /\ key'[job'[v]] # "none"
             /\ \A u \in Workers \ {v} : pc'[u] # "idle" => job'[u] # job'[v]
  BY <1>1, <1>2, <1>4 DEF Apart
<1>5. ASSUME NEW v \in Workers, NEW i \in Jobs, pc'[v] # "idle", job'[v] = i
      PROVE  SaveOK(v, i)' /\ (Calm' => CheckOK(v, i)')
  <2>1. CASE v = w
    BY <1>5, <2>1
  <2>2. CASE v # w
    <3>1. /\ i # j /\ pc'[v] = pc[v] /\ event'[v] = event[v] /\ read'[v] = read[v]
          /\ SaveOK(v, i) /\ (Calm => CheckOK(v, i))
      BY <1>2, <1>5, <2>2 DEF RowsInv
    <3>2. /\ outcomes'[i] = outcomes[i] /\ jobRow'[i] = jobRow[i] /\ recordRow'[i] = recordRow[i]
          /\ checkRow'[i] = checkRow[i]
          /\ << i, Len(outcomes[i]) >> \in lost' <=> << i, Len(outcomes[i]) >> \in lost
      BY <3>1, OutcomesTyped DEF Apart
    <3>3. PICK n \in Nat : n = Len(outcomes[i])
      BY OutcomesTyped
    <3>4. SaveOK(v, i)'
      <4>1. n # 0 => n - 1 \in Nat
        OBVIOUS
      <4>. QED
        BY <1>3, <3>1, <3>2, <3>3, <4>1 DEF SaveOK
    <3>5. CheckOK(v, i) => CheckOK(v, i)'
      BY <1>3, <3>1, <3>2, <3>3 DEF CheckOK
    <3>. QED
      BY <3>1, <3>4, <3>5
  <2>. QED
    BY <2>1, <2>2
<1>6. ASSUME NEW i \in Jobs, ~Busy(i)'
      PROVE  Settled(i)'
  <2>1. CASE i = j
    BY <1>6, <2>1 DEF Busy
  <2>2. CASE i # j
    <3>1. ~Busy(i)
      BY <1>2, <1>6, <2>2 DEF Busy
    <3>2. Settled(i) /\ outcomes'[i] = outcomes[i]
      BY <2>2, <3>1 DEF RowsInv, Apart
    <3>3. PICK n \in Nat : n = Len(outcomes[i])
      BY OutcomesTyped
    <3>. QED
      BY <1>3, <2>2, <3>2, <3>3 DEF Settled
  <2>. QED
    BY <2>1, <2>2
<1>7. ASSUME NEW i \in Jobs, NEW k \in Nat, << i, k >> \in lost'
      PROVE  k <= Len(outcomes'[i])
  BY <1>7 DEF Apart, RowsInv
<1>. QED
  BY <1>4, <1>5, <1>6, <1>7 DEF RowsInv

LEMMA BeginKeepsRows ==
  ASSUME StoreInv, RowsInv, NEW w \in Workers, NEW j \in Jobs, Begin(w, j)
  PROVE  RowsInv'
<1>1. /\ pc[w] = "idle" /\ key[j] = "none" /\ pc'[w] = "pipeline" /\ job'[w] = j /\ key'[j] = "in_progress"
      /\ UNCHANGED << outcomes, lost, jobRow, recordRow, checkRow, orphans, suffered >>
  BY DEF Begin, StoreInv, ReviewTypeOK, tables, NoFault
<1>2. Settled(j)
  BY <1>1 DEF RowsInv, Busy
<1>3. SaveOK(w, j)' /\ (Calm' => CheckOK(w, j)')
  BY <1>1, <1>2 DEF Settled, SaveOK, CheckOK, Saving, Calm
<1>4. OnlyMoves(w) /\ Apart(j)
  BY <1>1, EarlySteps DEF Begin, Apart, StoreInv, ReviewTypeOK
<1>. QED
  BY <1>1, <1>3, <1>4, RunStep DEF RowsInv, Calm

\* The steps of a run that leave the rows and the outcomes alone.
LEMMA QuietStepKeepsRows ==
  ASSUME StoreInv, RowsInv, NEW w \in Workers,
         RunPipeline(w) \/ ReadCheck(w) \/ MarkCompleted(w) \/ ReadJob(w) \/ ReadRecord(w)
  PROVE  RowsInv'
<1>1. PICK j \in Jobs : j = job[w]
  BY DEF StoreInv, ReviewTypeOK
<1>2. /\ pc[w] # "idle" /\ pc'[w] # "idle" /\ job'[w] = j
      /\ pc \in [Workers -> Stages] /\ read \in [Workers -> Reads] /\ key \in [Jobs -> {"none", "in_progress", "completed"}]
      /\ event \in [Workers -> Outcomes \cup {None}]
      /\ UNCHANGED << outcomes, lost, jobRow, recordRow, checkRow, orphans, suffered >>
  BY <1>1 DEF RunPipeline, ReadCheck, MarkCompleted, ReadJob, ReadRecord, Goto, tables, NoFault,
              StoreInv, ReviewTypeOK
<1>3. key[j] # "none" /\ SaveOK(w, j) /\ (Calm => CheckOK(w, j))
  BY <1>1, <1>2 DEF RowsInv
<1>4. key'[j] # "none" /\ OnlyMoves(w) /\ Apart(j)
  <2>1. key'[j] # "none" /\ \A i \in Jobs \ {j} : key'[i] = key[i]
    BY <1>1, <1>2, <1>3 DEF RunPipeline, ReadCheck, MarkCompleted, ReadJob, ReadRecord
  <2>. QED
    BY <1>2, <2>1, EarlySteps DEF Apart
<1>5. SaveOK(w, j)' /\ (Calm => CheckOK(w, j)')
  <2>1. CASE RunPipeline(w)
    BY <1>2, <1>3, <2>1 DEF RunPipeline, SaveOK, CheckOK, Saving
  <2>2. CASE ReadCheck(w)
    BY <1>1, <1>2, <1>3, <2>2 DEF ReadCheck, Goto, SaveOK, CheckOK, Saving, Reads
  <2>3. CASE MarkCompleted(w)
    BY <1>1, <1>2, <1>3, <2>3 DEF MarkCompleted, Goto, SaveOK, CheckOK, Saving
  <2>4. CASE ReadJob(w)
    BY <1>1, <1>2, <1>3, <2>4 DEF ReadJob, Goto, SaveOK, CheckOK, Saving, Reads
  <2>5. CASE ReadRecord(w)
    BY <1>1, <1>2, <1>3, <2>5 DEF ReadRecord, Goto, SaveOK, CheckOK, Saving, Reads
  <2>. QED
    BY <2>1, <2>2, <2>3, <2>4, <2>5
<1>. QED
  BY <1>1, <1>2, <1>3, <1>4, <1>5, RunStep DEF RowsInv, Calm

LEMMA WriteCheckKeepsRows ==
  ASSUME StoreInv, RowsInv, NEW w \in Workers, WriteCheck(w)
  PROVE  RowsInv'
<1>1. PICK j \in Jobs : j = job[w]
  BY DEF StoreInv, ReviewTypeOK
<1>2. /\ pc[w] = "writeCheck" /\ pc'[w] = "publish" /\ job'[w] = j /\ event' = event
      /\ UNCHANGED << key, outcomes, lost, jobRow, recordRow, orphans >>
      /\ checkRow \in [Jobs -> Row(Summaries)]
  BY <1>1 DEF WriteCheck, Goto, StoreInv, ReviewTypeOK
<1>3. key[j] # "none" /\ SaveOK(w, j) /\ (Calm => CheckOK(w, j))
  BY <1>1, <1>2 DEF RowsInv
<1>4. OnlyMoves(w) /\ Apart(j)
  BY <1>1, <1>2, CheckStep DEF WriteCheck, Apart
<1>5. SaveOK(w, j)'
  BY <1>2, <1>3 DEF SaveOK, Saving
<1>6. Calm' => Calm
  BY DEF WriteCheck, Fault, NoFault, Calm
<1>7. ASSUME Calm'
      PROVE  CheckOK(w, j)'
  <2>1. event[w] \in Checked /\ read[w].check = checkRow[j]
    BY <1>2, <1>3, <1>6, <1>7 DEF CheckOK
  <2>2. checkRow'[j] = event[w].summary
    <3>1. ~Duplicate(checkRow[job[w]], read[w].check) /\ ~Fault("raise")
      BY <1>1, <1>7, <2>1 DEF Duplicate, Fault, Calm
    <3>. QED
      BY <1>1, <1>2, <3>1 DEF WriteCheck
  <2>. QED
    BY <1>2, <2>1, <2>2 DEF CheckOK
<1>. QED
  BY <1>1, <1>2, <1>3, <1>4, <1>5, <1>6, <1>7, RunStep DEF RowsInv

LEMMA PublishKeepsRows ==
  ASSUME StoreInv, RowsInv, NEW w \in Workers, Publish(w)
  PROVE  RowsInv'
<1>1. PICK j \in Jobs : j = job[w]
  BY DEF StoreInv, ReviewTypeOK
<1>2. PICK n \in Nat : n = Len(outcomes[j])
  BY OutcomesTyped
<1>3. /\ pc[w] = "publish" /\ pc'[w] \in {"mark", "readJob"} /\ job'[w] = j /\ event' = event
      /\ UNCHANGED << key, lost, jobRow, recordRow, checkRow, orphans, suffered >>
      /\ event[w] \in Outcomes
  BY <1>1 DEF Publish, Goto, StoreInv, ReviewTypeOK, tables, NoFault, WorkerOK, WithOutcome
<1>4. /\ Len(outcomes'[j]) = n + 1 /\ outcomes'[j][n + 1] = event[w]
      /\ \A i \in 1..n : outcomes'[j][i] = outcomes[j][i]
      /\ \A i \in Jobs \ {j} : outcomes'[i] = outcomes[i]
  <2>1. outcomes[j] \in Seq(Outcomes) /\ outcomes \in [Jobs -> Seq(Outcomes)]
    BY DEF StoreInv, ReviewTypeOK
  <2>2. /\ outcomes'[j] = Append(outcomes[j], event[w])
        /\ \A i \in Jobs \ {j} : outcomes'[i] = outcomes[i]
    BY <1>1, <2>1 DEF Publish
  <2>. QED
    BY <1>2, <1>3, <2>1, <2>2, AppendTyped
<1>5. key[j] # "none" /\ SaveOK(w, j) /\ (Calm => CheckOK(w, j)) /\ << j, n + 1 >> \notin lost
  <2>1. n + 1 \in Nat /\ ~(n + 1 <= n)
    OBVIOUS
  <2>. QED
    BY <1>1, <1>2, <1>3, <2>1 DEF RowsInv
<1>6. OnlyMoves(w) /\ Apart(j)
  BY <1>3, <1>4, EarlySteps DEF Apart
<1>7. SaveOK(w, j)'
  <2>1. SaveTells(outcomes[j], lost, jobRow[j], recordRow[j], j, n)
    BY <1>2, <1>3, <1>5 DEF SaveOK, Saving
  <2>2. SaveTells(outcomes'[j], lost, jobRow[j], recordRow[j], j, n)
    BY <1>4, <2>1, RowsTellSame
  <2>3. (n + 1) - 1 = n /\ n + 1 # 0
    OBVIOUS
  <2>. QED
    BY <1>3, <1>4, <1>5, <2>2, <2>3 DEF SaveOK, Saving
<1>8. ASSUME Calm
      PROVE  CheckOK(w, j)'
  <2>1. event[w] \in Checked => checkRow[j] = event[w].summary
    BY <1>3, <1>5, <1>8 DEF CheckOK
  <2>2. event[w] \notin Checked => CheckTells(outcomes'[j], lost, checkRow[j], j, n)
    BY <1>2, <1>3, <1>4, <1>5, <1>8, RowsTellSame DEF CheckOK
  <2>3. CheckTells(outcomes'[j], lost, checkRow[j], j, n + 1)
    BY <1>4, <1>5, <2>1, <2>2, CheckTellsNext
  <2>. QED
    BY <1>3, <1>4, <2>3 DEF CheckOK
<1>9. ASSUME NEW i \in Nat, << j, i >> \in lost
      PROVE  i <= n + 1
  <2>1. i <= n
    BY <1>2, <1>9 DEF RowsInv
  <2>. QED
    BY <2>1
<1>. QED
  BY <1>1, <1>3, <1>4, <1>5, <1>6, <1>7, <1>8, <1>9, RunStep DEF RowsInv, Calm

\* An UPDATE of a row that is what was read leaves the new row.
LEMMA WrittenSame ==
  /\ \A row \in Row(JobRows), new \in JobRows : Written(row, row, new) = new
  /\ \A row \in Row(RecordRows), new \in RecordRows : Written(row, row, new) = new
BY DEF Written, Changed, Row, JobRows, RecordRows

\* The transaction of a run whose rows are as it has read them.
LEMMA SaveWrites ==
  ASSUME StoreInv, NEW w \in Workers, pc[w] = "write", NEW j \in Jobs, j = job[w],
         read[w].job = jobRow[j], event[w] \in Completions => read[w].record = recordRow[j]
  PROVE  /\ ~Refused(Transaction(w))
         /\ Save(Transaction(w)) =>
              /\ jobRow'[j] = JobOf(event[w])
              /\ event[w] \in Completions => recordRow'[j] = RecordOf(event[w])
              /\ event[w] \notin Completions => recordRow'[j] = recordRow[j]
              /\ UNCHANGED checkRow
              /\ \A i \in Jobs \ {j} : jobRow'[i] = jobRow[i] /\ recordRow'[i] = recordRow[i]
<1>1. /\ event[w] \in Outcomes /\ jobRow \in [Jobs -> Row(JobRows)]
      /\ recordRow \in [Jobs -> Row(RecordRows)]
  BY DEF StoreInv, WorkerOK, WithOutcome, ReviewTypeOK
<1>2. ~Refused(Transaction(w))
  BY DEF Refused, Transaction, Duplicate
<1>3. /\ Written(jobRow[j], jobRow[j], JobOf(event[w])) = JobOf(event[w])
      /\ event[w] \in Completions =>
           Written(recordRow[j], recordRow[j], RecordOf(event[w])) = RecordOf(event[w])
  BY <1>1, WrittenSame, OutcomeColumns
<1>. QED
  BY <1>1, <1>2, <1>3 DEF Save, Transaction

LEMMA WriteKeepsRows ==
  ASSUME StoreInv, RowsInv, NEW w \in Workers, Write(w)
  PROVE  RowsInv'
<1>1. PICK j \in Jobs : j = job[w]
  BY DEF StoreInv, ReviewTypeOK
<1>2. /\ pc[w] = "write" /\ event[w] \in Outcomes /\ SaveOK(w, j) /\ (Calm => CheckOK(w, j)) /\ key[j] # "none"
      /\ UNCHANGED << key, orphans, outcomes, suffered >>
  BY <1>1 DEF Write, RowsInv, StoreInv, WorkerOK, WithOutcome, NoFault
<1>3. PICK m \in Nat : m + 1 = Len(outcomes[j])
  <2>1. Len(outcomes[j]) \in Nat /\ Len(outcomes[j]) # 0
    BY <1>2, OutcomesTyped DEF SaveOK, Saving
  <2>. QED
    BY <2>1
<1>4. /\ outcomes[j][m + 1] = event[w] /\ << j, m + 1 >> \notin lost
      /\ SaveTells(outcomes[j], lost, jobRow[j], recordRow[j], j, m)
      /\ read[w].job = jobRow[j] /\ (event[w] \in Completions => read[w].record = recordRow[j])
  <2>1. (m + 1) - 1 = m
    OBVIOUS
  <2>. QED
    BY <1>2, <1>3, <2>1 DEF SaveOK, Saving
<1>5. /\ jobRow'[j] = JobOf(event[w])
      /\ event[w] \in Completions => recordRow'[j] = RecordOf(event[w])
      /\ event[w] \notin Completions => recordRow'[j] = recordRow[j]
      /\ UNCHANGED << checkRow, lost >>
      /\ \A i \in Jobs \ {j} : jobRow'[i] = jobRow[i] /\ recordRow'[i] = recordRow[i]
  BY <1>1, <1>2, <1>4, SaveWrites DEF Write
<1>6. SaveTells(outcomes[j], lost, jobRow'[j], recordRow'[j], j, m + 1)
  BY <1>2, <1>4, <1>5, RowsTellSaved
<1>7. OnlyMoves(w) /\ Apart(j)
  BY <1>2, <1>5, SaveSteps DEF Apart
<1>8. pc'[w] \in {"idle", "unlock"} /\ (pc'[w] = "unlock" => job'[w] = j /\ event'[w] = event[w])
  BY <1>1 DEF Write, AfterSave, Leave, Goto, StoreInv, ReviewTypeOK
<1>9. SaveTells(outcomes'[j], lost', jobRow'[j], recordRow'[j], j, Len(outcomes'[j]))
  BY <1>2, <1>3, <1>5, <1>6
<1>10. Calm' => Calm /\ CheckTells(outcomes'[j], lost', checkRow'[j], j, Len(outcomes'[j]))
  BY <1>2, <1>5 DEF CheckOK, Calm
<1>11. pc'[w] = "idle" => Settled(j)'
  BY <1>9, <1>10 DEF Settled
<1>12. pc'[w] # "idle" => SaveOK(w, j)' /\ (Calm' => CheckOK(w, j)')
  BY <1>8, <1>9, <1>10 DEF SaveOK, CheckOK, Saving
<1>. QED
  BY <1>1, <1>2, <1>5, <1>7, <1>8, <1>10, <1>11, <1>12, RunStep DEF RowsInv

\* A caller that goes away while it saves loses its outcome, and no other.
LEMMA AbandonTells ==
  ASSUME StoreInv, RowsInv, NEW w \in Workers, pc[w] # "idle", NEW j \in Jobs, j = job[w],
         NEW kinds, Abandon(w, kinds)
  PROVE  /\ SaveTells(outcomes[j], lost', jobRow[j], recordRow[j], j, Len(outcomes[j]))
         /\ \A i \in Jobs \ {j} : \A k \in Nat : << i, k >> \in lost' <=> << i, k >> \in lost
         /\ \A i \in Nat : << j, i >> \in lost' => i <= Len(outcomes[j])
<1>1. SaveOK(w, j)
  BY DEF RowsInv
<1>2. CASE pc[w] \in Saving
  <2>1. lost' = lost \cup {<< j, Len(outcomes[j]) >>}
    BY <1>2 DEF Abandon, Lose, Saving
  <2>2. PICK m \in Nat : m + 1 = Len(outcomes[j])
    <3>1. Len(outcomes[j]) \in Nat /\ Len(outcomes[j]) # 0
      BY <1>1, <1>2, OutcomesTyped DEF SaveOK
    <3>2. Len(outcomes[j]) - 1 \in Nat /\ (Len(outcomes[j]) - 1) + 1 = Len(outcomes[j])
      BY <3>1
    <3>. QED
      BY <3>2
  <2>3. SaveTells(outcomes[j], lost, jobRow[j], recordRow[j], j, m)
    <3>1. (m + 1) - 1 = m
      OBVIOUS
    <3>. QED
      BY <1>1, <1>2, <2>2, <3>1 DEF SaveOK
  <2>4. \A i \in 1..m : << j, i >> \in lost' <=> << j, i >> \in lost
    BY <2>1, <2>2
  <2>5. SaveTells(outcomes[j], lost', jobRow[j], recordRow[j], j, m)
    BY <2>3, <2>4, RowsTellSame
  <2>6. SaveTells(outcomes[j], lost', jobRow[j], recordRow[j], j, m + 1)
    BY <2>1, <2>2, <2>5, RowsTellLost
  <2>7. \A i \in Jobs \ {j} : \A k \in Nat : << i, k >> \in lost' <=> << i, k >> \in lost
    BY <2>1
  <2>8. \A i \in Nat : << j, i >> \in lost' => i <= Len(outcomes[j])
    BY <2>1, <2>2 DEF RowsInv
  <2>. QED
    BY <2>2, <2>6, <2>7, <2>8
<1>3. CASE pc[w] \notin Saving
  BY <1>1, <1>3 DEF Abandon, Saving, SaveOK, RowsInv
<1>. QED
  BY <1>2, <1>3

\* Failures, cancellations and kills.
LEMMA FaultKeepsRows ==
  ASSUME StoreInv, RowsInv, NEW w \in Workers, "late" \notin suffered',
         SaveFails(w) \/ Raise(w) \/ Cancel(w) \/ Kill(w)
  PROVE  RowsInv'
<1>1. PICK j \in Jobs : j = job[w]
  BY DEF StoreInv, ReviewTypeOK
<1>2. /\ pc[w] # "idle" /\ job'[w] = j /\ pc'[w] \in {"idle", "unlock", "release"}
      /\ UNCHANGED << key, outcomes, jobRow, recordRow, checkRow >>
  BY <1>1 DEF SaveFails, AfterSave, Raise, Cancel, Kill, Leave, Goto, StoreInv, ReviewTypeOK, tables
<1>3. PICK kinds \in {{"raise"}, {"cancel"}, {"kill"}} : Abandon(w, kinds)
  BY DEF SaveFails, Raise, Cancel, Kill
<1>4. orphans' = {} /\ ~Calm'
  BY <1>3 DEF Abandon, RowsInv, Calm
<1>5. /\ SaveTells(outcomes[j], lost', jobRow[j], recordRow[j], j, Len(outcomes[j]))
      /\ \A i \in Jobs \ {j} : \A k \in Nat : << i, k >> \in lost' <=> << i, k >> \in lost
      /\ \A i \in Nat : << j, i >> \in lost' => i <= Len(outcomes[j])
  BY <1>1, <1>2, <1>3, AbandonTells
<1>6. OnlyMoves(w) /\ Apart(j)
  BY <1>2, <1>5, SaveSteps, EndSteps DEF Apart
<1>7. key[j] # "none"
  BY <1>1, <1>2 DEF RowsInv
<1>8. SaveOK(w, j)' \/ pc'[w] = "idle"
  BY <1>2, <1>5 DEF SaveOK, Saving
<1>9. Settled(j)'
  BY <1>2, <1>4, <1>5 DEF Settled
<1>. QED
  BY <1>1, <1>2, <1>4, <1>5, <1>6, <1>7, <1>8, <1>9, RunStep

\* The key is given up where the rows are settled.
LEMMA UnlockKeepsRows ==
  ASSUME StoreInv, RowsInv, NEW w \in Workers, MarkFailed(w) \/ Release(w)
  PROVE  RowsInv'
<1>1. PICK j \in Jobs : j = job[w]
  BY DEF StoreInv, ReviewTypeOK
<1>2. /\ pc[w] \in {"unlock", "release"} /\ pc'[w] = "idle"
      /\ UNCHANGED << orphans, outcomes, lost, jobRow, recordRow, checkRow, suffered >>
      /\ \A i \in Jobs \ {j} : key'[i] = key[i]
  BY <1>1 DEF MarkFailed, Release, Leave, StoreInv, ReviewTypeOK, tables, NoFault
<1>3. SaveOK(w, j) /\ (Calm => CheckOK(w, j))
  BY <1>1, <1>2 DEF RowsInv
<1>4. Settled(j)'
  BY <1>2, <1>3 DEF Settled, SaveOK, CheckOK, Saving, Calm
<1>5. OnlyMoves(w) /\ Apart(j)
  BY <1>2, EndSteps DEF Apart
<1>. QED
  BY <1>1, <1>2, <1>4, <1>5, RunStep DEF RowsInv, Calm

\* A step that leaves the runs, their rows and the keys of running jobs alone.
LEMMA OutsideKeepsRows ==
  ASSUME RowsInv, Calm' => Calm, UNCHANGED << worker, orphans, tables, outcomes, lost >>,
         \A j \in Jobs : Busy(j) => key'[j] = key[j],
         job \in [Workers -> Jobs]
  PROVE  RowsInv'
<1>1. \A w \in Workers : pc[w] # "idle" => key'[job[w]] = key[job[w]]
  BY DEF Busy
<1>. QED
  BY <1>1 DEF RowsInv, worker, tables, Settled, SaveOK, CheckOK, Busy

LEMMA RowsStep ==
  ASSUME StoreInv, "late" \in suffered \/ RowsInv, suffered \subseteq suffered', [Next]_vars
  PROVE  "late" \in suffered' \/ RowsInv'
<1>. SUFFICES ASSUME "late" \notin suffered' PROVE RowsInv'
  OBVIOUS
<1>1. RowsInv /\ (Calm' => Calm)
  BY DEF Calm
<1>2. ASSUME NEW w \in Workers, Review(w)
      PROVE  RowsInv'
  BY <1>1, <1>2, BeginKeepsRows, QuietStepKeepsRows, WriteCheckKeepsRows, PublishKeepsRows,
     WriteKeepsRows, FaultKeepsRows, UnlockKeepsRows DEF Review
<1>3. job \in [Workers -> Jobs]
  BY DEF StoreInv, ReviewTypeOK
<1>4. ASSUME UNCHANGED review
      PROVE  RowsInv'
  BY <1>1, <1>3, <1>4, OutsideKeepsRows DEF review
<1>5. ASSUME NEW j \in Jobs, ExpireKey(j)
      PROVE  RowsInv'
  BY <1>1, <1>3, <1>5, OutsideKeepsRows DEF ExpireKey
<1>6. ~OrphanEnds
  BY <1>1 DEF OrphanEnds, RowsInv
<1>7. (\E m \in Members : Feedback(m)) \/ (\E j \in Jobs : React(j)) \/ UNCHANGED vars
      => UNCHANGED review
  BY FeedbackLeavesReviews DEF React, vars
<1>. QED
  BY <1>2, <1>4, <1>5, <1>6, <1>7 DEF Next

\* What the rows tell is what StoreTellsLastReview asks for.
LEMMA NoneSaved ==
  ASSUME NEW j \in Jobs, NEW E, Kept(outcomes[j], lost, E, j, Len(outcomes[j])) = {}
  PROVE  LastSaved(j, E) = None
BY DEF LastSaved, Kept

LEMMA LastSavedIs ==
  ASSUME StoreInv, NEW j \in Jobs, NEW E, E \subseteq Outcomes,
         NEW i \in Kept(outcomes[j], lost, E, j, Len(outcomes[j])),
         \A k \in Kept(outcomes[j], lost, E, j, Len(outcomes[j])) : k <= i
  PROVE  /\ i \in 1..Len(outcomes[j])
         /\ LastSaved(j, E) = outcomes[j][i] /\ LastSaved(j, E) # None
<1> DEFINE saved == Kept(outcomes[j], lost, E, j, Len(outcomes[j]))
<1>1. LastSaved(j, E) = IF saved = {} THEN None
                        ELSE outcomes[j][CHOOSE l \in saved : \A k \in saved : k <= l]
  BY DEF LastSaved, Kept
<1>2. \A k \in saved : k \in 1..Len(outcomes[j]) /\ k \in Nat /\ outcomes[j][k] \in Outcomes
  BY OutcomesTyped DEF Kept
<1>3. \A l \in saved : (\A k \in saved : k <= l) => l = i
  BY <1>2
<1>4. i = CHOOSE l \in saved : \A k \in saved : k <= l
  BY <1>3
<1>. QED
  BY <1>1, <1>2, <1>4, StoreAssumption

LEMMA SettledTellsLast ==
  ASSUME StoreInv, NEW j \in Jobs, Settled(j)
  PROVE  LET last == LastSaved(j, Outcomes)
             reviewed == LastSaved(j, Completions)
             checked == LastSaved(j, Checked) IN
         /\ jobRow[j] = IF last = None THEN None ELSE JobOf(last)
         /\ recordRow[j] = IF reviewed = None THEN None ELSE RecordOf(reviewed)
         /\ suffered \subseteq {"expire", "rebalance"} =>
              checkRow[j] = IF checked = None THEN None ELSE checked.summary
<1>1. Outcomes \subseteq Outcomes /\ Completions \subseteq Outcomes /\ Checked \subseteq Outcomes
  BY DEF Outcomes, Checked
<1>2. jobRow[j] = IF LastSaved(j, Outcomes) = None THEN None ELSE JobOf(LastSaved(j, Outcomes))
  <2>1. PICK f : f = [i \in 1..Len(outcomes[j]) |-> JobOf(outcomes[j][i])]
    OBVIOUS
  <2>2. Holds(Kept(outcomes[j], lost, Outcomes, j, Len(outcomes[j])), jobRow[j], f)
    BY <2>1 DEF Settled, SaveTells
  <2>3. ASSUME NEW i \in Kept(outcomes[j], lost, Outcomes, j, Len(outcomes[j])),
               \A k \in Kept(outcomes[j], lost, Outcomes, j, Len(outcomes[j])) : k <= i
        PROVE  /\ LastSaved(j, Outcomes) = outcomes[j][i] /\ LastSaved(j, Outcomes) # None
               /\ f[i] = JobOf(LastSaved(j, Outcomes))
    BY <1>1, <2>1, <2>3, LastSavedIs
  <2>. QED
    BY <1>1, <2>2, <2>3, NoneSaved DEF Holds
<1>3. recordRow[j] = IF LastSaved(j, Completions) = None THEN None ELSE RecordOf(LastSaved(j, Completions))
  <2>1. PICK f : f = [i \in 1..Len(outcomes[j]) |-> RecordOf(outcomes[j][i])]
    OBVIOUS
  <2>2. Holds(Kept(outcomes[j], lost, Completions, j, Len(outcomes[j])), recordRow[j], f)
    BY <2>1 DEF Settled, SaveTells
  <2>3. ASSUME NEW i \in Kept(outcomes[j], lost, Completions, j, Len(outcomes[j])),
               \A k \in Kept(outcomes[j], lost, Completions, j, Len(outcomes[j])) : k <= i
        PROVE  /\ LastSaved(j, Completions) = outcomes[j][i] /\ LastSaved(j, Completions) # None
               /\ f[i] = RecordOf(LastSaved(j, Completions))
    BY <1>1, <2>1, <2>3, LastSavedIs
  <2>. QED
    BY <1>1, <2>2, <2>3, NoneSaved DEF Holds
<1>4. ASSUME Calm
      PROVE  checkRow[j] = IF LastSaved(j, Checked) = None THEN None ELSE LastSaved(j, Checked).summary
  <2>1. PICK f : f = [i \in 1..Len(outcomes[j]) |-> outcomes[j][i].summary]
    OBVIOUS
  <2>2. Holds(Kept(outcomes[j], lost, Checked, j, Len(outcomes[j])), checkRow[j], f)
    BY <1>4, <2>1 DEF Settled, CheckTells
  <2>3. ASSUME NEW i \in Kept(outcomes[j], lost, Checked, j, Len(outcomes[j])),
               \A k \in Kept(outcomes[j], lost, Checked, j, Len(outcomes[j])) : k <= i
        PROVE  /\ LastSaved(j, Checked) = outcomes[j][i] /\ LastSaved(j, Checked) # None
               /\ f[i] = LastSaved(j, Checked).summary
    BY <1>1, <2>1, <2>3, LastSavedIs
  <2>. QED
    BY <1>1, <2>2, <2>3, NoneSaved DEF Holds
<1>. QED
  BY <1>2, <1>3, <1>4 DEF Calm

\* When no run of a job is under way, its row tells the last outcome that was not lost on
\* its way to the database, its record the last review, and its line check, where nothing
\* was interrupted, the last review of code; as long as no transaction outlived its caller.
THEOREM StoreTellsLastReviewAlways == Spec => []StoreTellsLastReview
<1>1. Init => StoreInv /\ faults \in Nat /\ suffered \subseteq AllFaults
  BY StoreInvInit DEF Init
<1>2. Init => RowsInv
  <2>. SUFFICES ASSUME Init PROVE RowsInv
    OBVIOUS
  <2>1. \A j \in Jobs : outcomes[j] = << >> /\ Len(outcomes[j]) = 0
    BY DEF Init
  <2>2. \A E, j : Kept(<< >>, lost, E, j, 0) = {}
    BY DEF Kept
  <2>3. \A j \in Jobs : Settled(j)
    BY <2>1, <2>2 DEF Init, Settled, SaveTells, CheckTells, Holds
  <2>. QED
    BY <2>3 DEF Init, RowsInv
<1>3. /\ StoreInv /\ faults \in Nat /\ suffered \subseteq AllFaults
      /\ "late" \in suffered \/ RowsInv
      /\ [Next]_vars
      => (/\ StoreInv /\ faults \in Nat /\ suffered \subseteq AllFaults
          /\ "late" \in suffered \/ RowsInv)'
  BY StoreInvStep, FaultsTyped, RowsStep
<1>4. StoreInv /\ ("late" \in suffered \/ RowsInv) => StoreTellsLastReview
  BY SettledTellsLast DEF StoreTellsLastReview, RowsInv
<1>. QED
  BY <1>1, <1>2, <1>3, <1>4, PTL DEF Spec
=============================================================================
