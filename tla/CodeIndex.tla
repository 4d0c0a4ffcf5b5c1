------------------------------- MODULE CodeIndex -------------------------------
(***************************************************************************)
(* The index of a repository's code in Qdrant: QdrantVectorStore           *)
(* (app/rag/vector_store.py), RepoIndexConsumer, which indexes the files   *)
(* of a push (app/rag/index_consumer.py), the script that indexes a clone  *)
(* (scripts/index_repo.py), and the merging of small chunks                *)
(* (merge_small_chunks of app/review/chunking.py).                         *)
(*                                                                         *)
(* The calls to Qdrant and to the embedding model are synchronous: they    *)
(* hold the event loop, so a handler is never cancelled between them, but  *)
(* its member misses heartbeats and the partition may move meanwhile.      *)
(***************************************************************************)
EXTENDS Integers, SequencesExt

CONSTANTS
  Workers,    \* members of the consumer group of repo.index.requested
  NoWorker,   \* the partition has no owner
  Script,     \* a run of index_repo.py
  Repos, Paths, Contents,
  NodesOf,    \* the boundary nodes of a content
  None,       \* a file that is gone, or sent without content
  Messages,   \* bound: pushes; << >> is also a payload the event class refuses
  Clones,     \* bound: what the script may find in a clone
  MinChars,   \* min_chars of merge_small_chunks
  Faults,     \* which of AllFaults may happen
  MaxLog,     \* bound: pushes on the topic
  MaxFaults   \* bound: faults in a behaviour

Files == Repos \X Paths
Changes == [file : Files, content : Contents \cup {None}]

AllFaults ==
  { "kill",       \* the process dies
    "raise",      \* a call to Qdrant, to the model or to Kafka raises
    "late",       \* a call that raised had already taken effect
    "cancel",     \* the task is cancelled while it waits for Kafka
    "rebalance" } \* the partition moves although its owner still runs

ASSUME IndexAssumption ==
  /\ {NoWorker, Script} \cap Workers = {} /\ NoWorker # Script
  /\ None \notin Contents
  /\ \A c \in Contents : \A node \in NodesOf[c] :
       /\ {node.first, node.last, node.chars} \subseteq Nat
       /\ node.first <= node.last
  /\ Messages \cup Clones \subseteq Seq(Changes)
  /\ \A list \in Messages \cup Clones : \A a, b \in Range(list) : a.file[1] = b.file[1]
  /\ Faults \subseteq AllFaults
  /\ {MinChars, MaxLog, MaxFaults} \subseteq Nat

VARIABLES
  log,        \* the partition of repo.index.requested
  committed,  \* committed offset of the group
  owner,      \* the member the partition is assigned to
  position,   \* how far the owner's assignment has been read
  pc,         \* where each indexer waits
  at,         \* the message a worker handles, 0 for none
  todo,       \* the changes an indexer has still to do, the current one first
  collection, \* the collection exists
  points,     \* the points in it
  seen,       \* history: the last message ever read
  broken,     \* history: files whose last reindexing was given up
  outside,    \* history: files touched by another than the reader of the topic
  contended,  \* history: files that two indexers reindexed at the same time
  faults      \* number of faults so far

Indexers == Workers \cup {Script}

store   == << collection, points >>
group   == << owner, position >>
history == << seen, broken, outside, contended >>
vars == << log, committed, group, pc, at, todo, store, history, faults >>

(***************************************************************************)
(* chunking.py                                                             *)
(***************************************************************************)
\* extract_all_chunks: the functions and classes, nested ones too, by first line.
Chunks(content) ==
  SetToSortSeq(NodesOf[content],
    LAMBDA a, b : a.first < b.first \/ (a.first = b.first /\ a.last > b.last))

CharsOf(buffer) == FoldLeft(LAMBDA n, c : n + c.chars, 0, buffer)
EndOf(buffer) == FoldLeft(LAMBDA n, c : IF c.last > n THEN c.last ELSE n, -1, buffer)

\* A chunk joins the last buffer unless that is full or overlaps the chunk.
Place(buffers, chunk) ==
  LET n == Len(buffers) IN
    IF n > 0 /\ CharsOf(buffers[n]) < MinChars /\ chunk.first > EndOf(buffers[n])
    THEN [buffers EXCEPT ![n] = Append(@, chunk)]
    ELSE Append(buffers, << chunk >>)

MergeSmallChunks(content) == FoldLeft(Place, << >>, Chunks(content))

(***************************************************************************)
(* vector_store.py                                                         *)
(***************************************************************************)
\* _point_id: repository, path, lines, node type and name.
PointId(file, buffer) ==
  << file, buffer[1].first, buffer[Len(buffer)].last,
     IF Len(buffer) = 1 THEN buffer[1].name ELSE "merged" >>

PointsFor(change) ==
  IF change.content = None THEN {}
  ELSE {[id |-> PointId(change.file, buffer), file |-> change.file, source |-> change.content] :
          buffer \in Range(MergeSmallChunks(change.content))}

\* upsert_chunks: a point with the same id is replaced.
UpsertChunks(change) ==
  LET new == PointsFor(change) IN
    /\ points' = {p \in points : \A q \in new : p.id # q.id} \cup new
    /\ UNCHANGED collection

\* Mutant: the upsert is thought to replace the old points.
DeleteByFile_Never(file) == UNCHANGED store

DeleteByFile(file) ==
  points' = {p \in points : p.file # file} /\ UNCHANGED collection

EnsureCollection == collection' = TRUE /\ UNCHANGED points

\* What a search for a repository may find.
Search(repo) == {p \in points : p.file[1] = repo}

(***************************************************************************)
(* Control.                                                                *)
(***************************************************************************)
Init ==
  /\ log = << >> /\ committed = 0 /\ owner = NoWorker /\ position = 0
  /\ pc = [x \in Indexers |-> IF x = Script THEN "down" ELSE "fetch"]
  /\ at = [w \in Workers |-> 0]
  /\ todo = [x \in Indexers |-> << >>]
  /\ collection \in BOOLEAN /\ points = {}
  /\ seen = 0 /\ broken = {} /\ outside = {} /\ contended = {}
  /\ faults = 0

Fault(f) == f \in Faults /\ faults < MaxFaults /\ faults' = faults + 1
NoFault == UNCHANGED faults

Current(x) == Head(todo[x])
Reindexing(x, file) == pc[x] = "embed" /\ Current(x).file = file

\* The worker handles the last message that was read, and no one has yet done so.
Reads(x) == x \in Workers /\ owner = x /\ at[x] = position /\ committed < position

Touch(x, file) ==
  outside' = IF Reads(x) THEN outside ELSE outside \cup {file}

\* The stage that follows when `rest` is left to do.
After(x, rest) == IF rest # << >> THEN "delete" ELSE IF x = Script THEN "down" ELSE "commit"

Proceed(x, stage) == pc' = [pc EXCEPT ![x] = stage] /\ UNCHANGED << at, todo >>
Turn(x) ==
  /\ todo' = [todo EXCEPT ![x] = Tail(@)]
  /\ pc' = [pc EXCEPT ![x] = After(x, Tail(todo[x]))]
  /\ UNCHANGED at

\* The indexer's process or run is over.
End(x) ==
  /\ pc' = [pc EXCEPT ![x] = "down"]
  /\ todo' = [todo EXCEPT ![x] = << >>]
  /\ at' = IF x \in Workers THEN [at EXCEPT ![x] = 0] ELSE at
  /\ owner' = IF owner = x THEN NoWorker ELSE owner
  /\ UNCHANGED position

\* handle() goes on with the next file; the script ends.
GiveUp(x) ==
  /\ broken' = broken \cup {Current(x).file}
  /\ \/ x \in Workers /\ Turn(x) /\ UNCHANGED group
     \/ x = Script /\ End(x)

Fetch(w) ==
  /\ pc[w] = "fetch" /\ owner = w /\ position < Len(log)
  /\ position' = position + 1
  /\ at' = [at EXCEPT ![w] = position + 1]
  /\ todo' = [todo EXCEPT ![w] = log[position + 1]]
  /\ pc' = [pc EXCEPT ![w] = After(w, log[position + 1])]
  /\ seen' = IF position + 1 > seen THEN position + 1 ELSE seen
  /\ NoFault
  /\ UNCHANGED << log, committed, owner, store, broken, outside, contended >>

\* The script walks a clone.
StartScript ==
  /\ pc[Script] = "down" /\ todo[Script] = << >>
  /\ \E clone \in Clones :
       /\ todo' = [todo EXCEPT ![Script] = clone]
       /\ pc' = [pc EXCEPT ![Script] = After(Script, clone)]
  /\ EnsureCollection
  /\ NoFault
  /\ UNCHANGED << log, committed, group, at, history >>

\* delete_by_file, which comes before anything else is done with the file.
Delete(x) ==
  /\ pc[x] = "delete" /\ collection
  /\ LET change == Current(x) IN
       /\ DeleteByFile(change.file)
       /\ contended' = IF \E y \in Indexers \ {x} : Reindexing(y, change.file)
                       THEN contended \cup {change.file} ELSE contended \ {change.file}
       /\ outside' = IF Reads(x) THEN outside \ {change.file} ELSE outside \cup {change.file}
       /\ \/ PointsFor(change) = {} /\ Turn(x) /\ broken' = broken \ {change.file}
          \/ PointsFor(change) # {} /\ Proceed(x, "embed") /\ UNCHANGED broken
  /\ NoFault
  /\ UNCHANGED << log, committed, group, seen >>

\* Without the collection Qdrant refuses the call.
NoCollection(x) ==
  /\ pc[x] = "delete" /\ ~collection
  /\ GiveUp(x)
  /\ NoFault
  /\ UNCHANGED << log, committed, store, seen, outside, contended >>

DeleteRaises(x) ==
  /\ pc[x] = "delete" /\ Fault("raise")
  /\ \/ UNCHANGED << store, outside >>
     \/ "late" \in Faults /\ DeleteByFile(Current(x).file) /\ Touch(x, Current(x).file)
  /\ GiveUp(x)
  /\ UNCHANGED << log, committed, seen, contended >>

\* embed_documents changes nothing; it and the upsert are one step.
Upsert(x) ==
  /\ pc[x] = "embed"
  /\ UpsertChunks(Current(x)) /\ Touch(x, Current(x).file)
  /\ Turn(x)
  /\ broken' = broken \ {Current(x).file}
  /\ NoFault
  /\ UNCHANGED << log, committed, group, seen, contended >>

\* The model or Qdrant raises.
UpsertRaises(x) ==
  /\ pc[x] = "embed" /\ Fault("raise")
  /\ \/ UNCHANGED << store, outside >>
     \/ "late" \in Faults /\ UpsertChunks(Current(x)) /\ Touch(x, Current(x).file)
  /\ GiveUp(x)
  /\ UNCHANGED << log, committed, seen, contended >>

\* Mutant: a commit that is not fenced.
CommitOffset_Unfenced(w) == committed' = position

\* A member commits the positions of its own assignment, if it has one.
CommitOffset(w) == committed' = IF owner = w THEN position ELSE committed

Commit(w) ==
  /\ pc[w] = "commit"
  /\ CommitOffset(w)
  /\ pc' = [pc EXCEPT ![w] = "fetch"] /\ at' = [at EXCEPT ![w] = 0]
  /\ NoFault
  /\ UNCHANGED << log, group, todo, store, history >>

\* The loop is started again on the same consumer.
CommitRaises(w) ==
  /\ pc[w] = "commit" /\ Fault("raise")
  /\ UNCHANGED committed \/ ("late" \in Faults /\ CommitOffset(w))
  /\ pc' = [pc EXCEPT ![w] = "fetch"] /\ at' = [at EXCEPT ![w] = 0]
  /\ UNCHANGED << log, group, todo, store, history >>

\* Only the waits for Kafka can be cancelled.
Cancel(w) ==
  /\ pc[w] \in {"fetch", "commit"} /\ Fault("cancel")
  /\ UNCHANGED committed \/ ("late" \in Faults /\ pc[w] = "commit" /\ CommitOffset(w))
  /\ End(w)
  /\ UNCHANGED << log, store, history >>

Kill(x) ==
  /\ pc[x] # "down" /\ Fault("kill")
  /\ End(x)
  /\ UNCHANGED << log, committed, store, history >>

Restart(w) ==
  /\ pc[w] = "down"
  /\ pc' = [pc EXCEPT ![w] = "fetch"]
  /\ NoFault
  /\ UNCHANGED << log, committed, group, at, todo, store, history >>

Assign(w) ==
  /\ pc[w] # "down" /\ owner # w
  /\ \/ owner = NoWorker /\ NoFault
     \/ owner # NoWorker /\ Fault("rebalance")
  /\ owner' = w /\ position' = committed
  /\ UNCHANGED << log, committed, pc, at, todo, store, history >>

Push(m) ==
  /\ Len(log) < MaxLog
  /\ log' = Append(log, m)
  /\ NoFault
  /\ UNCHANGED << committed, group, pc, at, todo, store, history >>

Index(x) ==
  \/ Delete(x) \/ NoCollection(x) \/ DeleteRaises(x)
  \/ Upsert(x) \/ UpsertRaises(x) \/ Kill(x)

Next ==
  \/ \E x \in Indexers : Index(x)
  \/ \E w \in Workers : Fetch(w) \/ Commit(w) \/ CommitRaises(w) \/ Cancel(w)
                          \/ Restart(w) \/ Assign(w)
  \/ \E m \in Messages : Push(m)
  \/ StartScript

Spec == Init /\ [][Next]_vars

(***************************************************************************)
(* Properties.                                                             *)
(***************************************************************************)
Stages == {"fetch", "delete", "embed", "commit", "down"}

GroupTypeOK ==
  /\ log \in Seq(Messages)
  /\ {committed, position, seen} \subseteq 0..Len(log)
  /\ owner \in Workers \cup {NoWorker}
  /\ at \in [Workers -> 0..Len(log)]

IndexerTypeOK ==
  /\ pc \in [Indexers -> Stages]
  /\ todo \in [Indexers -> Seq(Changes)]
  /\ \A x \in Indexers : pc[x] \in {"delete", "embed"} <=> todo[x] # << >>

TypeOK ==
  /\ GroupTypeOK /\ IndexerTypeOK
  /\ \A p \in points : p.file \in Files /\ p.source \in Contents
  /\ broken \cup outside \cup contended \subseteq Files
  /\ faults \in Nat

PointsOf(file) == {p \in points : p.file = file}

\* The points of a file come from one version of it, whatever fails or dies,
\* unless two indexers reindexed the file at the same time: delete_by_file
\* before every upsert leaves no stale point to be found.
OneVersion ==
  \A file \in Files \ contended : \A p, q \in PointsOf(file) : p.source = q.source

\* The changes of a message to a file, and the last message about it.
About(i, file) == {k \in DOMAIN log[i] : log[i][k].file = file}
Final(i, file) == log[i][CHOOSE k \in About(i, file) : \A j \in About(i, file) : j <= k]

\* Once the last message read about a file is committed, and the file was not
\* given up, its points are those of the version in that message, or none.
CommittedIsIndexed ==
  \A file \in Files \ (broken \cup outside) : \A i \in 1..seen :
    /\ i <= committed /\ About(i, file) # {}
    /\ \A j \in (i + 1)..seen : About(j, file) = {}
    => PointsOf(file) = PointsFor(Final(i, file))
=============================================================================
