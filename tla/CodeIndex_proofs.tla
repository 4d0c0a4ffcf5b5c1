---------------------------- MODULE CodeIndex_proofs ----------------------------
(***************************************************************************)
(* Machine-checked proofs about CodeIndex, for every set of workers,       *)
(* repositories, files and contents, and any number of faults.             *)
(***************************************************************************)
EXTENDS CodeIndex, TLAPS

-----------------------------------------------------------------------------
(* Types. *)

\* The points of a change hold its file and its content.
LEMMA PointsForHolds ==
  ASSUME NEW change \in Changes, NEW p \in PointsFor(change)
  PROVE  /\ p.file = change.file /\ p.source = change.content
         /\ p.file \in Files /\ p.source \in Contents
BY DEF PointsFor, Changes

\* The stage after a list of changes goes with what is left of it.
LEMMA AfterStage ==
  ASSUME NEW x \in Indexers, NEW rest \in Seq(Changes)
  PROVE  /\ After(x, rest) \in Stages \ {"embed"}
         /\ After(x, rest) \in {"delete", "embed"} <=> rest # << >>
BY DEF After, Stages

\* An indexer at work has a current change.
LEMMA CurrentIsChange ==
  ASSUME IndexerTypeOK, NEW x \in Indexers, pc[x] \in {"delete", "embed"}
  PROVE  todo[x] # << >> /\ Current(x) \in Changes /\ Tail(todo[x]) \in Seq(Changes)
<1>1. todo[x] \in Seq(Changes) /\ todo[x] # << >>
  BY DEF IndexerTypeOK
<1>2. QED  BY <1>1 DEF Current

LEMMA TurnTypes ==
  ASSUME IndexerTypeOK, NEW x \in Indexers, pc[x] \in {"delete", "embed"}, Turn(x)
  PROVE  IndexerTypeOK'
<1>1. Tail(todo[x]) \in Seq(Changes)
  BY CurrentIsChange
<1> DEFINE rest == Tail(todo[x])
<1>2. After(x, rest) \in Stages /\ (After(x, rest) \in {"delete", "embed"} <=> rest # << >>)
  BY <1>1, AfterStage
<1>3. pc' = [pc EXCEPT ![x] = After(x, rest)] /\ todo' = [todo EXCEPT ![x] = rest]
  BY DEF Turn
<1> HIDE DEF rest
<1>4. QED  BY <1>1, <1>2, <1>3 DEF IndexerTypeOK, rest

LEMMA EndTypes ==
  ASSUME IndexerTypeOK, NEW x \in Indexers, End(x)
  PROVE  IndexerTypeOK'
<1>1. << >> \in Seq(Changes) /\ "down" \in Stages
  BY DEF Stages
<1>2. QED  BY <1>1 DEF End, IndexerTypeOK

LEMMA GiveUpTypes ==
  ASSUME IndexerTypeOK, NEW x \in Indexers, pc[x] \in {"delete", "embed"}, GiveUp(x)
  PROVE  IndexerTypeOK'
BY TurnTypes, EndTypes DEF GiveUp

\* A worker that takes up a list of changes from a stage without one.
LEMMA TakeUpTypes ==
  ASSUME IndexerTypeOK, NEW x \in Indexers, NEW list \in Seq(Changes),
         todo' = [todo EXCEPT ![x] = list],
         pc' = [pc EXCEPT ![x] = After(x, list)]
  PROVE  IndexerTypeOK'
<1>1. After(x, list) \in Stages /\ (After(x, list) \in {"delete", "embed"} <=> list # << >>)
  BY AfterStage
<1>2. QED  BY <1>1 DEF IndexerTypeOK

LEMMA IndexerTypes ==
  TypeOK /\ [Next]_vars => IndexerTypeOK'
<1> SUFFICES ASSUME TypeOK, [Next]_vars PROVE IndexerTypeOK'
  OBVIOUS
<1> USE DEF TypeOK
<1>1. ASSUME NEW x \in Indexers, Delete(x) PROVE IndexerTypeOK'
  <2>1. pc[x] = "delete" /\ (Turn(x) \/ Proceed(x, "embed"))
    BY <1>1 DEF Delete
  <2>2. CASE Proceed(x, "embed")
    BY <2>1, <2>2 DEF Proceed, IndexerTypeOK, Stages
  <2>3. QED  BY <2>1, <2>2, TurnTypes
<1>2. ASSUME NEW x \in Indexers, NoCollection(x) \/ DeleteRaises(x) \/ UpsertRaises(x)
      PROVE  IndexerTypeOK'
  BY <1>2, GiveUpTypes DEF NoCollection, DeleteRaises, UpsertRaises
<1>3. ASSUME NEW x \in Indexers, Upsert(x) PROVE IndexerTypeOK'
  BY <1>3, TurnTypes DEF Upsert
<1>4. ASSUME NEW x \in Indexers, Kill(x) PROVE IndexerTypeOK'
  BY <1>4, EndTypes DEF Kill
<1>5. ASSUME NEW w \in Workers, Fetch(w) PROVE IndexerTypeOK'
  <2>1. log[position + 1] \in Seq(Changes)
    BY <1>5, IndexAssumption DEF Fetch, GroupTypeOK
  <2>2. QED  BY <1>5, <2>1, TakeUpTypes DEF Fetch, Indexers
<1>6. ASSUME NEW w \in Workers, Commit(w) \/ CommitRaises(w) \/ Restart(w)
      PROVE  IndexerTypeOK'
  BY <1>6 DEF Commit, CommitRaises, Restart, IndexerTypeOK, Stages, Indexers
<1>7. ASSUME NEW w \in Workers, Cancel(w) PROVE IndexerTypeOK'
  BY <1>7, EndTypes DEF Cancel, Indexers
<1>8. ASSUME NEW w \in Workers, Assign(w) PROVE IndexerTypeOK'
  BY <1>8 DEF Assign, IndexerTypeOK
<1>9. ASSUME NEW m \in Messages, Push(m) PROVE IndexerTypeOK'
  BY <1>9 DEF Push, IndexerTypeOK
<1>10. CASE StartScript
  <2>1. PICK clone \in Clones : /\ todo' = [todo EXCEPT ![Script] = clone]
                                /\ pc' = [pc EXCEPT ![Script] = After(Script, clone)]
    BY <1>10 DEF StartScript
  <2>2. clone \in Seq(Changes)
    BY IndexAssumption
  <2>3. QED  BY <2>1, <2>2, TakeUpTypes DEF Indexers
<1>11. CASE UNCHANGED vars
  BY <1>11 DEF vars, IndexerTypeOK
<1>12. QED
  BY <1>1, <1>2, <1>3, <1>4, <1>5, <1>6, <1>7, <1>8, <1>9, <1>10, <1>11 DEF Next, Index

LEMMA GroupTypes ==
  TypeOK /\ [Next]_vars => GroupTypeOK'
<1> SUFFICES ASSUME TypeOK, [Next]_vars PROVE GroupTypeOK'
  OBVIOUS
<1>1. GroupTypeOK /\ Len(log) \in Nat
  BY DEF TypeOK, GroupTypeOK
<1>2. ASSUME UNCHANGED << log, committed, position, seen, owner, at >> PROVE GroupTypeOK'
  BY <1>1, <1>2 DEF GroupTypeOK
<1>3. ASSUME NEW x \in Indexers, End(x), UNCHANGED << log, seen >>, committed' \in {committed, position}
      PROVE  GroupTypeOK'
  BY <1>1, <1>3 DEF End, GroupTypeOK
<1>4. ASSUME NEW x \in Indexers, GiveUp(x), UNCHANGED << log, seen, committed >> PROVE GroupTypeOK'
  BY <1>2, <1>3, <1>4 DEF GiveUp, Turn, group
<1>5. ASSUME NEW x \in Indexers, Index(x) PROVE GroupTypeOK'
  <2>1. CASE Delete(x) \/ Upsert(x)
    BY <1>2, <2>1 DEF Delete, Upsert, Turn, Proceed, group
  <2>2. CASE NoCollection(x) \/ DeleteRaises(x) \/ UpsertRaises(x)
    BY <1>4, <2>2 DEF NoCollection, DeleteRaises, UpsertRaises
  <2>3. CASE Kill(x)
    BY <1>3, <2>3 DEF Kill, history
  <2>4. QED  BY <1>5, <2>1, <2>2, <2>3 DEF Index
<1>6. ASSUME NEW w \in Workers, Fetch(w) PROVE GroupTypeOK'
  BY <1>1, <1>6 DEF Fetch, GroupTypeOK
<1>7. ASSUME NEW w \in Workers, Commit(w) \/ CommitRaises(w) PROVE GroupTypeOK'
  BY <1>1, <1>7 DEF Commit, CommitRaises, CommitOffset, GroupTypeOK, group, history
<1>8. ASSUME NEW w \in Workers, Cancel(w) PROVE GroupTypeOK'
  <2>1. committed' \in {committed, position} /\ End(w) /\ UNCHANGED << log, seen >>
    BY <1>8 DEF Cancel, CommitOffset, history
  <2>2. QED  BY <1>3, <2>1 DEF Indexers
<1>9. ASSUME NEW w \in Workers, Assign(w) \/ Restart(w) PROVE GroupTypeOK'
  BY <1>1, <1>9 DEF Assign, Restart, GroupTypeOK, group, history
<1>10. ASSUME NEW m \in Messages, Push(m) PROVE GroupTypeOK'
  <2>1. log' \in Seq(Messages) /\ Len(log') = Len(log) + 1
    BY <1>1, <1>10 DEF Push, GroupTypeOK
  <2>2. QED  BY <1>1, <1>10, <2>1 DEF Push, GroupTypeOK, group, history
<1>11. CASE StartScript
  BY <1>2, <1>11 DEF StartScript, group, history
<1>12. CASE UNCHANGED vars
  BY <1>2, <1>12 DEF vars, group, history
<1>13. QED
  BY <1>5, <1>6, <1>7, <1>8, <1>9, <1>10, <1>11, <1>12 DEF Next

StoreOK ==
  /\ \A p \in points : p.file \in Files /\ p.source \in Contents
  /\ broken \cup outside \cup contended \subseteq Files

\* What a step writes: points of the current change, and files of the histories.
LEMMA StoreTypes ==
  TypeOK /\ [Next]_vars => StoreOK' /\ faults' \in Nat
<1> SUFFICES ASSUME TypeOK, [Next]_vars
             PROVE  StoreOK' /\ faults' \in Nat
  OBVIOUS
<1>1. faults' \in Nat
  <2>1. faults' \in {faults, faults + 1}
    BY DEF Next, Index, Fetch, StartScript, Delete, NoCollection, DeleteRaises, Upsert,
           UpsertRaises, Commit, CommitRaises, Cancel, Kill, Restart, Assign, Push,
           Fault, NoFault, vars
  <2>2. QED  BY <2>1 DEF TypeOK
<1>2. StoreOK
  BY DEF TypeOK, StoreOK
<1>3. ASSUME UNCHANGED << points, broken, outside, contended >> PROVE StoreOK'
  BY <1>2, <1>3 DEF StoreOK
<1>4. ASSUME NEW x \in Indexers, Index(x) PROVE StoreOK'
  <2>1. CASE Kill(x)
    BY <1>3, <2>1 DEF Kill, store, history
  <2>2. ASSUME pc[x] \in {"delete", "embed"} PROVE Current(x) \in Changes /\ Current(x).file \in Files
    BY <2>2, CurrentIsChange DEF TypeOK, Changes
  <2>3. CASE Delete(x) \/ NoCollection(x) \/ DeleteRaises(x)
    BY <1>2, <2>2, <2>3 DEF Delete, NoCollection, DeleteRaises, GiveUp, Touch, DeleteByFile, store,
                          StoreOK
  <2>4. CASE Upsert(x) \/ UpsertRaises(x)
    BY <1>2, <2>2, <2>4, PointsForHolds
    DEF Upsert, UpsertRaises, GiveUp, Touch, UpsertChunks, store, StoreOK
  <2>5. QED  BY <1>4, <2>1, <2>3, <2>4 DEF Index
<1>5. ASSUME NEW w \in Workers,
             Fetch(w) \/ Commit(w) \/ CommitRaises(w) \/ Cancel(w) \/ Restart(w) \/ Assign(w)
      PROVE  StoreOK'
  BY <1>3, <1>5 DEF Fetch, Commit, CommitRaises, Cancel, Restart, Assign, store, history
<1>6. ASSUME NEW m \in Messages, Push(m) PROVE StoreOK'
  BY <1>3, <1>6 DEF Push, store, history
<1>7. ASSUME StartScript PROVE StoreOK'
  BY <1>3, <1>7 DEF StartScript, EnsureCollection, history
<1>8. ASSUME UNCHANGED vars PROVE StoreOK'
  BY <1>3, <1>8 DEF vars, store, history
<1>9. StoreOK'
  BY <1>4, <1>5, <1>6, <1>7, <1>8 DEF Next
<1>10. QED  BY <1>1, <1>9

\* Every variable keeps its type: the log holds pushes, offsets stay within it,
\* and an indexer has changes to do exactly in the stages that work on one.
THEOREM TypeCorrect == Spec => []TypeOK
<1>1. Init => TypeOK
  <2> SUFFICES ASSUME Init PROVE TypeOK
    OBVIOUS
  <2>1. log \in Seq(Messages) /\ Len(log) = 0
    BY DEF Init
  <2>2. \A x \in Indexers : << >> \in Seq(Changes) /\ pc[x] \in {"down", "fetch"}
    BY DEF Init
  <2>3. GroupTypeOK
    BY <2>1 DEF Init, GroupTypeOK
  <2>4. IndexerTypeOK
    BY <2>2 DEF Init, IndexerTypeOK, Stages
  <2>5. QED  BY <2>3, <2>4 DEF Init, TypeOK
<1>2. TypeOK /\ [Next]_vars => TypeOK'
  BY IndexerTypes, GroupTypes, StoreTypes DEF TypeOK, StoreOK
<1>3. QED  BY <1>1, <1>2, PTL DEF Spec

-----------------------------------------------------------------------------
(* One version of a file. *)

\* A file that is not contended has one indexer at most between delete_by_file
\* and upsert_chunks; while it has one it has no points.
SoleIndexer ==
  \A file \in Files \ contended :
    /\ \A x, y \in Indexers : Reindexing(x, file) /\ Reindexing(y, file) => x = y
    /\ \A x \in Indexers : Reindexing(x, file) => PointsOf(file) = {}

IndexInv == SoleIndexer /\ OneVersion

\* Nobody but x reaches the stage between the two calls, or changes what it does there.
OthersStay(x) ==
  \A y \in Indexers \ {x} : pc'[y] = pc[y] /\ todo'[y] = todo[y]

\* Most steps: points only go away, and x is not between the two calls after it.
Quiet(x) ==
  /\ points' \subseteq points
  /\ contended' = contended
  /\ pc'[x] # "embed" /\ OthersStay(x)

\* upsert_chunks, whether the call returns or not: x is no longer between the two.
Writes(x) ==
  /\ pc[x] = "embed" /\ UpsertChunks(Current(x))
  /\ contended' = contended
  /\ pc'[x] # "embed" /\ OthersStay(x)

LEMMA QuietKeepsIndexInv ==
  ASSUME IndexInv, NEW x \in Indexers, Quiet(x)
  PROVE  IndexInv'
<1>1. \A y \in Indexers, file \in Files : Reindexing(y, file)' => Reindexing(y, file)
  BY DEF Quiet, OthersStay, Reindexing, Current
<1>2. \A file \in Files : PointsOf(file)' \subseteq PointsOf(file)
  BY DEF Quiet, PointsOf
<1>3. contended' = contended
  BY DEF Quiet
<1>4. QED  BY <1>1, <1>2, <1>3 DEF IndexInv, SoleIndexer, OneVersion

LEMMA WritesKeepsIndexInv ==
  ASSUME TypeOK, IndexInv, NEW x \in Indexers, Writes(x)
  PROVE  IndexInv'
<1> PICK change \in Changes : change = Current(x)
  BY CurrentIsChange DEF TypeOK, Writes
<1>1. change.file \in Files
  BY DEF Changes
<1>2. \A y \in Indexers, file \in Files :
        Reindexing(y, file)' => Reindexing(y, file) /\ y # x
  BY DEF Writes, OthersStay, Reindexing, Current
<1>3. Reindexing(x, change.file) /\ contended' = contended
  BY DEF Writes, Reindexing
<1>4. ASSUME NEW file \in Files \ contended, file # change.file
      PROVE  PointsOf(file)' \subseteq PointsOf(file)
  BY <1>1, <1>4, PointsForHolds DEF Writes, UpsertChunks, PointsOf
<1>5. ASSUME change.file \notin contended
      PROVE  /\ \A y \in Indexers : ~Reindexing(y, change.file)'
             /\ \A p \in PointsOf(change.file)' : p.source = change.content
  <2>1. PointsOf(change.file) = {}
    BY <1>1, <1>3, <1>5 DEF IndexInv, SoleIndexer
  <2>2. \A p \in PointsOf(change.file)' : p \in PointsFor(change)
    BY <2>1 DEF Writes, UpsertChunks, PointsOf
  <2>3. \A y \in Indexers : ~Reindexing(y, change.file)'
    BY <1>1, <1>2, <1>3, <1>5 DEF IndexInv, SoleIndexer
  <2>4. QED  BY <1>1, <2>2, <2>3, PointsForHolds
<1>6. SoleIndexer'
  BY <1>1, <1>2, <1>3, <1>4, <1>5 DEF IndexInv, SoleIndexer
<1>7. OneVersion'
  BY <1>1, <1>3, <1>4, <1>5 DEF IndexInv, OneVersion
<1>8. QED  BY <1>6, <1>7 DEF IndexInv

\* delete_by_file: the file has no points, and is contended if another indexer
\* is between the two calls.
LEMMA DeleteKeepsIndexInv ==
  ASSUME TypeOK, IndexInv, NEW x \in Indexers, Delete(x)
  PROVE  IndexInv'
<1> PICK file \in Files : file = Current(x).file
  BY CurrentIsChange DEF Delete, TypeOK, Changes
<1>1. pc[x] = "delete" /\ points' = {p \in points : p.file # file} /\ OthersStay(x)
  BY DEF Delete, DeleteByFile, Turn, Proceed, OthersStay, TypeOK, IndexerTypeOK
<1>2. pc'[x] = "embed" => Current(x)' = Current(x)
  <2>1. CASE Turn(x)
    BY <1>1, <2>1, CurrentIsChange, AfterStage DEF Turn, TypeOK, IndexerTypeOK
  <2>2. CASE Proceed(x, "embed")
    BY <2>2 DEF Proceed, Current
  <2>3. QED  BY <2>1, <2>2 DEF Delete
<1>3. contended' = IF \E y \in Indexers \ {x} : Reindexing(y, file)
                   THEN contended \cup {file} ELSE contended \ {file}
  BY DEF Delete
<1>4. PointsOf(file)' = {} /\ \A f \in Files : PointsOf(f)' \subseteq PointsOf(f)
  BY <1>1 DEF PointsOf
<1>5. \A y \in Indexers \ {x}, f \in Files : Reindexing(y, f)' <=> Reindexing(y, f)
  BY <1>1 DEF OthersStay, Reindexing, Current
<1>6. \A f \in Files : Reindexing(x, f)' => f = file
  BY <1>2 DEF Reindexing
<1>7. ASSUME NEW f \in Files \ contended', f = file
      PROVE  /\ \A y, z \in Indexers : Reindexing(y, f)' /\ Reindexing(z, f)' => y = z
             /\ PointsOf(f)' = {}
  BY <1>3, <1>4, <1>5, <1>7
<1>8. ASSUME NEW f \in Files \ contended', f # file
      PROVE  /\ f \notin contended /\ PointsOf(f)' \subseteq PointsOf(f)
             /\ \A y \in Indexers : Reindexing(y, f)' => Reindexing(y, f)
  BY <1>3, <1>4, <1>5, <1>6, <1>8
<1>9. SoleIndexer'
  BY <1>7, <1>8 DEF IndexInv, SoleIndexer
<1>10. OneVersion'
  BY <1>7, <1>8 DEF IndexInv, OneVersion
<1>11. QED  BY <1>9, <1>10 DEF IndexInv

\* The ways an indexer's turn ends keep it out of the stage between the calls.
LEMMA TurnLeaves ==
  ASSUME TypeOK, NEW x \in Indexers, \/ pc[x] \in {"delete", "embed"} /\ Turn(x)
                                     \/ End(x)
  PROVE  pc'[x] # "embed" /\ OthersStay(x)
<1>1. CASE pc[x] \in {"delete", "embed"} /\ Turn(x)
  BY <1>1, CurrentIsChange, AfterStage DEF Turn, OthersStay, TypeOK, IndexerTypeOK
<1>2. CASE End(x)
  BY <1>2 DEF End, OthersStay, TypeOK, IndexerTypeOK
<1>3. QED  BY <1>1, <1>2

LEMMA IndexStepKeepsIndexInv ==
  ASSUME TypeOK, IndexInv, NEW x \in Indexers, Index(x)
  PROVE  IndexInv'
<1>1. CASE Delete(x)
  BY <1>1, DeleteKeepsIndexInv
<1>2. CASE NoCollection(x) \/ DeleteRaises(x)
  <2>1. pc'[x] # "embed" /\ OthersStay(x)
    BY <1>2, TurnLeaves DEF NoCollection, DeleteRaises, GiveUp
  <2>2. points' \subseteq points /\ contended' = contended
    BY <1>2 DEF NoCollection, DeleteRaises, DeleteByFile, store
  <2>3. QED  BY <2>1, <2>2, QuietKeepsIndexInv DEF Quiet
<1>3. CASE Upsert(x)
  <2>1. pc'[x] # "embed" /\ OthersStay(x)
    BY <1>3, TurnLeaves DEF Upsert
  <2>2. QED  BY <1>3, <2>1, WritesKeepsIndexInv DEF Upsert, Writes
<1>4. CASE UpsertRaises(x)
  <2>1. pc'[x] # "embed" /\ OthersStay(x)
    BY <1>4, TurnLeaves DEF UpsertRaises, GiveUp
  <2>2. CASE UpsertChunks(Current(x))
    BY <1>4, <2>1, <2>2, WritesKeepsIndexInv DEF UpsertRaises, Writes
  <2>3. CASE points' = points
    BY <1>4, <2>1, <2>3, QuietKeepsIndexInv DEF UpsertRaises, Quiet
  <2>4. QED  BY <1>4, <2>2, <2>3 DEF UpsertRaises, store
<1>5. CASE Kill(x)
  <2>1. pc'[x] # "embed" /\ OthersStay(x)
    BY <1>5, TurnLeaves DEF Kill
  <2>2. QED  BY <1>5, <2>1, QuietKeepsIndexInv DEF Kill, Quiet, store, history
<1>6. QED  BY <1>1, <1>2, <1>3, <1>4, <1>5 DEF Index

LEMMA IndexInvStep ==
  TypeOK /\ IndexInv /\ [Next]_vars => IndexInv'
<1> SUFFICES ASSUME TypeOK, IndexInv, [Next]_vars PROVE IndexInv'
  OBVIOUS
<1>1. ASSUME NEW x \in Indexers, Index(x) PROVE IndexInv'
  BY <1>1, IndexStepKeepsIndexInv
<1>2. ASSUME NEW w \in Workers, Fetch(w) PROVE IndexInv'
  <2>1. log[position + 1] \in Seq(Changes)
    BY <1>2, IndexAssumption DEF Fetch, TypeOK, GroupTypeOK
  <2>2. w \in Indexers /\ pc'[w] # "embed" /\ OthersStay(w)
    BY <1>2, <2>1, AfterStage DEF Fetch, OthersStay, Indexers, TypeOK, IndexerTypeOK
  <2>3. QED  BY <1>2, <2>2, QuietKeepsIndexInv DEF Fetch, Quiet, store
<1>3. ASSUME NEW w \in Workers, Commit(w) \/ CommitRaises(w) \/ Restart(w) PROVE IndexInv'
  <2>1. w \in Indexers /\ pc'[w] # "embed" /\ OthersStay(w)
    BY <1>3 DEF Commit, CommitRaises, Restart, OthersStay, Indexers, TypeOK, IndexerTypeOK
  <2>2. QED
    BY <1>3, <2>1, QuietKeepsIndexInv DEF Commit, CommitRaises, Restart, Quiet, store, history
<1>4. ASSUME NEW w \in Workers, Cancel(w) PROVE IndexInv'
  <2>1. w \in Indexers /\ pc'[w] # "embed" /\ OthersStay(w)
    BY <1>4, TurnLeaves DEF Cancel, Indexers
  <2>2. QED  BY <1>4, <2>1, QuietKeepsIndexInv DEF Cancel, Quiet, store, history
<1>5. CASE StartScript
  <2>1. PICK clone \in Clones : /\ todo' = [todo EXCEPT ![Script] = clone]
                                /\ pc' = [pc EXCEPT ![Script] = After(Script, clone)]
    BY <1>5 DEF StartScript
  <2>2. clone \in Seq(Changes)
    BY IndexAssumption
  <2>3. Script \in Indexers /\ pc'[Script] # "embed" /\ OthersStay(Script)
    BY <2>1, <2>2, AfterStage DEF OthersStay, Indexers, TypeOK, IndexerTypeOK
  <2>4. QED
    BY <1>5, <2>3, QuietKeepsIndexInv DEF StartScript, EnsureCollection, Quiet, history
<1>6. ASSUME UNCHANGED << pc, todo, points, contended >> PROVE IndexInv'
  BY <1>6 DEF IndexInv, SoleIndexer, OneVersion, Reindexing, Current, PointsOf
<1>7. ASSUME NEW w \in Workers, Assign(w) PROVE IndexInv'
  BY <1>6, <1>7 DEF Assign, store, history
<1>8. ASSUME NEW m \in Messages, Push(m) PROVE IndexInv'
  BY <1>6, <1>8 DEF Push, store, history
<1>9. CASE UNCHANGED vars
  BY <1>6, <1>9 DEF vars, store, history
<1>10. QED  BY <1>1, <1>2, <1>3, <1>4, <1>5, <1>7, <1>8, <1>9 DEF Next

\* The points of a file come from one version of it, unless two indexers were at
\* the file at the same time, whatever else fails, dies or moves.
THEOREM OneVersionAlways == Spec => []OneVersion
<1>1. Init => IndexInv
  BY DEF Init, IndexInv, SoleIndexer, OneVersion, Reindexing, PointsOf
<1>2. TypeOK /\ IndexInv /\ [Next]_vars => IndexInv'
  BY IndexInvStep
<1>3. IndexInv => OneVersion
  BY DEF IndexInv
<1>4. QED  BY <1>1, <1>2, <1>3, TypeCorrect, PTL DEF Spec

-----------------------------------------------------------------------------
(* A committed push is in the index. *)

HasFile(list, file) == \E k \in 1..Len(list) : list[k].file = file

\* What an indexer has still to do is the end of the list it took up.
EndOfList(rest, list) ==
  /\ Len(rest) <= Len(list)
  /\ \A k \in 1..Len(rest) : rest[k] = list[k + (Len(list) - Len(rest))]

\* The reader of the topic has a change to the file before it, in message i.
Pending(file, i) ==
  \E w \in Workers : Reads(w) /\ at[w] = i /\ HasFile(todo[w], file)

LastAbout(i, file) == About(i, file) # {} /\ \A j \in (i + 1)..seen : About(j, file) = {}

\* What the owner has read counts before it is committed, since it commits all of it.
Known(i) == i <= committed \/ (owner # NoWorker /\ i <= position)

IdsOK == \A p \in points : p.id[1] = p.file

OffsetsOK ==
  /\ position <= seen /\ committed <= seen
  /\ owner # NoWorker => committed <= position

ListsOK ==
  \A w \in Workers : todo[w] # << >> => at[w] \in 1..Len(log) /\ EndOfList(todo[w], log[at[w]])

\* The reader upserts into a file without points, unless others were at it.
ClearedOK ==
  \A w \in Workers :
    pc[w] = "embed" /\ Reads(w) /\ Current(w).file \notin outside => PointsOf(Current(w).file) = {}

IndexedOK ==
  \A file \in Files \ (broken \cup outside) : \A i \in 1..seen :
    LastAbout(i, file) /\ Known(i) /\ ~Pending(file, i)
    => PointsOf(file) = PointsFor(Final(i, file))

PushInv == IdsOK /\ OffsetsOK /\ ListsOK /\ ClearedOK /\ IndexedOK

LEMMA IdsHold ==
  ASSUME NEW change \in Changes, NEW p \in PointsFor(change)
  PROVE  p.id[1] = p.file
BY DEF PointsFor, PointId

LEMMA UpsertPoints ==
  ASSUME IdsOK, NEW change \in Changes, UpsertChunks(change)
  PROVE  /\ IdsOK'
         /\ \A file : file # change.file => PointsOf(file)' = PointsOf(file)
         /\ PointsOf(change.file) = {} => PointsOf(change.file)' = PointsFor(change)
<1> DEFINE new == PointsFor(change)
<1>1. points' = {p \in points : \A q \in new : p.id # q.id} \cup new
  BY DEF UpsertChunks
<1>2. \A q \in new : q.file = change.file /\ q.id[1] = change.file
  BY IdsHold, PointsForHolds
<1> HIDE DEF new
<1>3. IdsOK'
  BY <1>1, <1>2 DEF IdsOK
<1>4. ASSUME NEW file, file # change.file
      PROVE  PointsOf(file)' = PointsOf(file)
  <2>1. \A p \in points, q \in new : p.file = file => p.id # q.id
    BY <1>2, <1>4 DEF IdsOK
  <2>. QED  BY <1>1, <1>2, <1>4, <2>1 DEF PointsOf
<1>5. PointsOf(change.file) = {} => PointsOf(change.file)' = new
  BY <1>1, <1>2 DEF PointsOf
<1>. QED  BY <1>3, <1>4, <1>5 DEF new

LEMMA DeletePoints ==
  ASSUME IdsOK, NEW file, DeleteByFile(file)
  PROVE  /\ IdsOK' /\ PointsOf(file)' = {}
         /\ \A other : other # file => PointsOf(other)' = PointsOf(other)
BY DEF IdsOK, DeleteByFile, PointsOf

\* Of the changes to a file the one with no other after it is the final one.
LEMMA LastChange ==
  ASSUME NEW rest \in Seq(Changes), rest # << >>, NEW i, log[i] \in Seq(Changes),
         EndOfList(rest, log[i]), NEW file, Head(rest).file = file, ~HasFile(Tail(rest), file)
  PROVE  Final(i, file) = Head(rest)
<1> DEFINE n == Len(log[i])
           k == n - Len(rest) + 1
<1>1. n \in Nat /\ Len(rest) \in 1..n /\ k \in 1..n
  BY DEF EndOfList
<1>2. log[i][k] = rest[1] /\ Head(rest) = rest[1]
  BY <1>1 DEF EndOfList
<1>3. ASSUME NEW j \in 1..n, k < j PROVE log[i][j].file # file
  <2>1. j - k \in 1..Len(Tail(rest)) /\ Tail(rest)[j - k] = rest[j - k + 1]
    <3>1. Len(Tail(rest)) = Len(rest) - 1 /\ \A m \in 1..Len(rest) - 1 : Tail(rest)[m] = rest[m + 1]
      OBVIOUS
    <3>2. j - k \in 1..Len(rest) - 1
      BY <1>1, <1>3
    <3>. QED  BY <3>1, <3>2
  <2>2. rest[j - k + 1] = log[i][j]
    <3>1. j - k + 1 \in 1..Len(rest) /\ (j - k + 1) + (n - Len(rest)) = j
      BY <1>1, <1>3
    <3>2. \A m \in 1..Len(rest) : rest[m] = log[i][m + (n - Len(rest))]
      BY DEF EndOfList
    <3>. QED  BY <3>1, <3>2
  <2>3. log[i][j].file = file => HasFile(Tail(rest), file)
    BY <2>1, <2>2 DEF HasFile
  <2>. QED  BY <2>3
<1>4. k \in About(i, file) /\ \A j \in About(i, file) : j <= k
  BY <1>1, <1>2, <1>3 DEF About
<1>5. \A m \in About(i, file) : (\A j \in About(i, file) : j <= m) => m = k
  <2>1. About(i, file) \subseteq Int
    BY DEF About
  <2>. QED  BY <1>4, <2>1
<1>6. (CHOOSE m \in About(i, file) : \A j \in About(i, file) : j <= m) = k
  BY <1>4, <1>5
<1>. QED  BY <1>2, <1>6 DEF Final

LEMMA TailOfEnd ==
  ASSUME NEW rest \in Seq(Changes), rest # << >>, NEW list \in Seq(Changes), EndOfList(rest, list)
  PROVE  EndOfList(Tail(rest), list)
BY DEF EndOfList

LEMMA HeadOfEnd ==
  ASSUME NEW rest \in Seq(Changes), rest # << >>, NEW list \in Seq(Changes), EndOfList(rest, list)
  PROVE  \E k \in 1..Len(list) : list[k] = Head(rest)
<1>1. Len(rest) \in 1..Len(list) /\ Head(rest) = rest[1]
  BY DEF EndOfList
<1>2. rest[1] = list[1 + (Len(list) - Len(rest))]
  BY <1>1 DEF EndOfList
<1>. QED  BY <1>1, <1>2

\* A file that is not the first one left is still left afterwards.
LEMMA TailHasFile ==
  ASSUME NEW rest \in Seq(Changes), rest # << >>, NEW file, HasFile(rest, file), Head(rest).file # file
  PROVE  HasFile(Tail(rest), file)
<1>1. PICK k \in 1..Len(rest) : rest[k].file = file
  BY DEF HasFile
<1>2. k # 1 /\ k - 1 \in 1..Len(Tail(rest)) /\ Tail(rest)[k - 1] = rest[k]
  BY <1>1
<1>. QED  BY <1>1, <1>2 DEF HasFile

\* A step of an indexer that is not a delivery: what it may do to the rest.
IndexerStep(x) ==
  /\ UNCHANGED << log, committed, position, seen >>
  /\ OthersStay(x)
  /\ \/ UNCHANGED << owner, at >> /\ todo'[x] \in {todo[x], Tail(todo[x])}
        /\ (todo'[x] = todo[x] \/ pc[x] \in {"delete", "embed"})
     \/ End(x)

LEMMA IndexIsStep ==
  ASSUME TypeOK, NEW x \in Indexers, Index(x)
  PROVE  IndexerStep(x)
<1>1. OthersStay(x)
  <2>1. CASE Delete(x)
    BY <2>1 DEF Delete, Turn, Proceed, OthersStay, TypeOK, IndexerTypeOK
  <2>2. CASE ~Delete(x)
    BY <2>2, TurnLeaves DEF Index, NoCollection, DeleteRaises, Upsert, UpsertRaises, GiveUp, Kill
  <2>. QED  BY <2>1, <2>2
<1>2. todo \in [Indexers -> Seq(Changes)]
  BY DEF TypeOK, IndexerTypeOK
<1>3. CASE Delete(x) \/ Upsert(x)
  BY <1>1, <1>2, <1>3 DEF Delete, Upsert, Turn, Proceed, IndexerStep, group
<1>4. CASE NoCollection(x) \/ DeleteRaises(x) \/ UpsertRaises(x)
  <2>1. UNCHANGED << log, committed, seen >> /\ pc[x] \in {"delete", "embed"}
    BY <1>4 DEF NoCollection, DeleteRaises, UpsertRaises
  <2>2. GiveUp(x)
    BY <1>4 DEF NoCollection, DeleteRaises, UpsertRaises
  <2>3. CASE End(x)
    BY <1>1, <2>1, <2>3 DEF IndexerStep, End
  <2>4. CASE Turn(x) /\ UNCHANGED group
    BY <1>1, <1>2, <2>1, <2>4 DEF IndexerStep, Turn, group
  <2>. QED  BY <2>2, <2>3, <2>4 DEF GiveUp
<1>5. CASE Kill(x)
  BY <1>1, <1>5 DEF Kill, End, IndexerStep, history
<1>. QED  BY <1>3, <1>4, <1>5 DEF Index

\* The part of the invariant that has nothing to do with the points.
LEMMA StepKeepsLists ==
  ASSUME TypeOK, PushInv, NEW x \in Indexers, IndexerStep(x)
  PROVE  OffsetsOK' /\ ListsOK'
<1>1. OffsetsOK'
  <2>1. owner' \in {owner, NoWorker}
    BY DEF IndexerStep, End
  <2>. QED  BY <2>1 DEF PushInv, OffsetsOK, IndexerStep
<1>2. ASSUME NEW w \in Workers, todo'[w] # << >>
      PROVE  at'[w] \in 1..Len(log') /\ EndOfList(todo'[w], log'[at'[w]])
  <2>1. w \in Indexers /\ log' = log
    BY DEF Indexers, IndexerStep
  <2>2. todo[w] \in Seq(Changes) /\ todo \in [Indexers -> Seq(Changes)]
    BY <2>1 DEF TypeOK, IndexerTypeOK
  <2>3. CASE at'[w] = at[w] /\ todo'[w] = todo[w]
    BY <1>2, <2>1, <2>3 DEF PushInv, ListsOK
  <2>4. CASE w = x /\ at'[w] = at[w] /\ todo'[w] = Tail(todo[w]) /\ pc[w] \in {"delete", "embed"}
    <3>1. todo[w] # << >>
      BY <2>1, <2>4 DEF TypeOK, IndexerTypeOK
    <3>2. at[w] \in 1..Len(log) /\ EndOfList(todo[w], log[at[w]])
      BY <3>1 DEF PushInv, ListsOK
    <3>3. log[at[w]] \in Seq(Changes)
      BY <3>2, IndexAssumption DEF TypeOK, GroupTypeOK
    <3>. QED  BY <2>1, <2>2, <2>4, <3>1, <3>2, <3>3, TailOfEnd
  <2>5. CASE w = x /\ End(x)
    BY <1>2, <2>1, <2>2, <2>5 DEF End
  <2>6. CASE w # x /\ End(x)
    <3>1. at'[w] = at[w] /\ todo'[w] = todo[w]
      BY <2>1, <2>6 DEF IndexerStep, OthersStay, End, TypeOK, GroupTypeOK
    <3>. QED  BY <2>3, <3>1
  <2>7. CASE w # x /\ UNCHANGED at
    BY <2>1, <2>3, <2>7 DEF IndexerStep, OthersStay
  <2>. QED  BY <2>3, <2>4, <2>5, <2>6, <2>7 DEF IndexerStep
<1>. QED  BY <1>1, <1>2 DEF ListsOK

\* The reader stays the reader, and nobody becomes one.
LEMMA StepReads ==
  ASSUME TypeOK, NEW x \in Indexers, IndexerStep(x), NEW w \in Workers
  PROVE  /\ Reads(w)' => Reads(w)
         /\ Reads(w) /\ w # x => Reads(w)' /\ at'[w] = at[w] /\ todo'[w] = todo[w]
         /\ Reads(w) /\ ~End(x) => Reads(w)' /\ at'[w] = at[w]
<1>1. at \in [Workers -> 0..Len(log)] /\ owner # Script /\ NoWorker # w
  BY IndexAssumption DEF TypeOK, GroupTypeOK
<1>2. CASE End(x)
  <2>1. Reads(w)' => w # x
    BY <1>1, <1>2, IndexAssumption DEF Reads, End
  <2>2. w # x => at'[w] = at[w] /\ (owner = w => owner' = w) /\ (owner' = w => owner = w)
    BY <1>1, <1>2 DEF End
  <2>. QED  BY <1>2, <2>1, <2>2 DEF IndexerStep, Reads, OthersStay, Indexers
<1>3. CASE UNCHANGED << owner, at >>
  BY <1>3 DEF IndexerStep, Reads, OthersStay, Indexers
<1>. QED  BY <1>2, <1>3 DEF IndexerStep

\* A file the step leaves alone.
Spared(file) ==
  /\ PointsOf(file)' = PointsOf(file)
  /\ file \in outside => file \in outside'
  /\ file \in broken => file \in broken'

LEMMA SparedStaysIndexed ==
  ASSUME TypeOK, PushInv, NEW x \in Indexers, IndexerStep(x),
         NEW file \in Files, Spared(file), file \notin broken' \cup outside',
         pc[x] \in {"delete", "embed"} => todo'[x] = todo[x] \/ Current(x).file # file \/ End(x),
         NEW i \in 1..seen, LastAbout(i, file)', Known(i)', ~Pending(file, i)'
  PROVE  PointsOf(file)' = PointsFor(Final(i, file))'
<1>1. log' = log /\ seen' = seen /\ committed' = committed /\ position' = position
  BY DEF IndexerStep
<1>2. LastAbout(i, file) /\ Final(i, file)' = Final(i, file)
  BY <1>1 DEF LastAbout, About, Final
<1>3. Known(i)
  <2>1. owner' \in {owner, NoWorker}
    BY DEF IndexerStep, End
  <2>. QED  BY <1>1, <2>1 DEF Known
<1>4. ASSUME Pending(file, i) PROVE FALSE
  <2>1. PICK w \in Workers : Reads(w) /\ at[w] = i /\ HasFile(todo[w], file)
    BY <1>4 DEF Pending
  <2>2. w = x
    BY <2>1, StepReads DEF Pending
  <2>3. CASE End(x)
    <3>1. owner' = NoWorker
      BY <2>1, <2>2, <2>3 DEF Reads, End
    <3>2. i > committed
      BY <2>1 DEF Reads, TypeOK, GroupTypeOK
    <3>. QED  BY <1>1, <3>1, <3>2 DEF Known, TypeOK, GroupTypeOK
  <2>4. CASE ~End(x)
    <3>1. Reads(w)' /\ at'[w] = i
      BY <2>1, <2>4, StepReads
    <3>2. todo[w] \in Seq(Changes) /\ (todo'[w] = todo[w] \/ todo'[w] = Tail(todo[w]))
      BY <2>2, <2>4 DEF IndexerStep, TypeOK, IndexerTypeOK
    <3>3. ~HasFile(todo'[w], file)
      BY <3>1, <1>1 DEF Pending
    <3>4. todo[w] # << >> /\ Head(todo[w]).file # file
      BY <2>1, <2>2, <2>4, <3>2, <3>3 DEF IndexerStep, Current, HasFile
    <3>. QED  BY <2>1, <3>2, <3>3, <3>4, TailHasFile
  <2>. QED  BY <2>3, <2>4
<1>5. PointsOf(file) = PointsFor(Final(i, file))
  BY <1>2, <1>3, <1>4 DEF PushInv, IndexedOK, Spared
<1>. QED  BY <1>2, <1>5 DEF Spared

\* The reader is at the last message about its file, if it counts as read.
LEMMA ReaderIsAtLast ==
  ASSUME TypeOK, PushInv, NEW x \in Workers, Reads(x), pc[x] \in {"delete", "embed"},
         NEW i \in 1..seen, LastAbout(i, Current(x).file), Known(i)
  PROVE  at[x] = i
<1>1. todo[x] \in Seq(Changes) /\ todo[x] # << >>
  BY DEF TypeOK, IndexerTypeOK, Indexers
<1>2. at[x] \in 1..Len(log) /\ EndOfList(todo[x], log[at[x]])
  BY <1>1 DEF PushInv, ListsOK
<1>3. log[at[x]] \in Seq(Changes)
  BY <1>2, IndexAssumption DEF TypeOK, GroupTypeOK
<1>4. PICK k \in 1..Len(log[at[x]]) : log[at[x]][k] = Current(x)
  BY <1>1, <1>2, <1>3, HeadOfEnd DEF Current
<1>5. About(at[x], Current(x).file) # {}
  BY <1>3, <1>4 DEF About
<1>6. at[x] = position /\ committed < position /\ position <= seen /\ {committed, position, seen} \subseteq Nat
  BY DEF Reads, PushInv, OffsetsOK, TypeOK, GroupTypeOK
<1>7. at[x] <= i
  BY <1>5, <1>6 DEF LastAbout
<1>. QED  BY <1>6, <1>7 DEF Known

\* A file is what its last change says once the reader has turned to the next.
LEMMA TurnIndexes ==
  ASSUME TypeOK, PushInv, NEW x \in Workers, IndexerStep(x), Reads(x), ~End(x), Turn(x),
         pc[x] \in {"delete", "embed"},
         NEW file, file = Current(x).file,
         NEW i \in 1..seen, LastAbout(i, file), Known(i), ~Pending(file, i)'
  PROVE  Final(i, file) = Current(x)
<1>1. at[x] = i
  BY ReaderIsAtLast
<1>2. todo[x] \in Seq(Changes) /\ todo[x] # << >> /\ todo'[x] = Tail(todo[x]) /\ x \in Indexers
  BY DEF TypeOK, IndexerTypeOK, Indexers, Turn
<1>3. at[x] \in 1..Len(log) /\ EndOfList(todo[x], log[at[x]])
  BY <1>2 DEF PushInv, ListsOK
<1>4. log[i] \in Seq(Changes)
  BY <1>1, <1>3, IndexAssumption DEF TypeOK, GroupTypeOK
<1>5. Reads(x)' /\ at'[x] = i
  BY <1>1, <1>2, StepReads
<1>6. ~HasFile(Tail(todo[x]), file)
  BY <1>2, <1>5 DEF Pending
<1>. QED  BY <1>1, <1>2, <1>3, <1>4, <1>6, LastChange DEF Current

\* A call of an indexer touches no file but its own, which is outside the topic
\* then unless the indexer is the reader.
LEMMA OthersSpared ==
  ASSUME TypeOK, PushInv, NEW x \in Indexers, Index(x)
  PROVE  /\ IdsOK'
         /\ \A file \in Files :
              \/ Spared(file)
              \/ /\ pc[x] \in {"delete", "embed"} /\ file = Current(x).file
                 /\ file \in outside' \/ Reads(x)
<1>1. CASE Kill(x)
  BY <1>1 DEF Kill, store, history, Spared, PointsOf, PushInv, IdsOK
<1>2. CASE pc[x] \in {"delete", "embed"}
  <2>1. PICK change \in Changes : change = Current(x)
    BY <1>2, CurrentIsChange DEF TypeOK
  <2>2. IdsOK /\ change.file \in Files
    BY <2>1 DEF PushInv, Changes
  <2>3. CASE Delete(x)
    <3>1. DeleteByFile(change.file)
      BY <2>1, <2>3 DEF Delete
    <3>2. /\ IdsOK' /\ \A file : file # change.file => PointsOf(file)' = PointsOf(file)
      BY <2>2, <3>1, DeletePoints
    <3>3. \A file \in Files : file # change.file => Spared(file)
      BY <2>1, <2>3, <3>2 DEF Delete, Spared
    <3>4. change.file \in outside' \/ Reads(x)
      BY <2>1, <2>2, <2>3 DEF Delete
    <3>. QED  BY <1>2, <2>1, <2>3, <3>2, <3>3, <3>4
  <2>4. CASE NoCollection(x)
    BY <2>2, <2>4 DEF NoCollection, GiveUp, store, Spared, PointsOf, IdsOK
  <2>5. ASSUME broken' = broken \cup {change.file}, UNCHANGED << store, outside >>
        PROVE  IdsOK' /\ \A file \in Files : Spared(file)
    BY <2>2, <2>5 DEF store, Spared, PointsOf, IdsOK
  <2>6. ASSUME Touch(x, change.file), broken' = broken \cup {change.file} \/ broken' = broken \ {change.file},
               \A file : file # change.file => PointsOf(file)' = PointsOf(file)
        PROVE  /\ \A file \in Files : file # change.file => Spared(file)
               /\ change.file \in outside' \/ Reads(x)
    BY <2>2, <2>6 DEF Touch, Spared
  <2>7. CASE DeleteRaises(x)
    <3>1. broken' = broken \cup {change.file}
      BY <2>1, <2>7 DEF DeleteRaises, GiveUp
    <3>2. CASE UNCHANGED << store, outside >>
      BY <2>5, <3>1, <3>2
    <3>3. CASE DeleteByFile(change.file) /\ Touch(x, change.file)
      <4>1. IdsOK' /\ \A file : file # change.file => PointsOf(file)' = PointsOf(file)
        BY <2>2, <3>3, DeletePoints
      <4>. QED  BY <1>2, <2>1, <2>2, <2>6, <3>1, <3>3, <4>1
    <3>. QED  BY <2>1, <2>7, <3>2, <3>3 DEF DeleteRaises
  <2>8. CASE Upsert(x)
    <3>1. UpsertChunks(change) /\ Touch(x, change.file) /\ broken' = broken \ {change.file}
      BY <2>1, <2>8 DEF Upsert
    <3>2. IdsOK' /\ \A file : file # change.file => PointsOf(file)' = PointsOf(file)
      BY <2>2, <3>1, UpsertPoints
    <3>. QED  BY <1>2, <2>1, <2>6, <2>8, <3>1, <3>2
  <2>9. CASE UpsertRaises(x)
    <3>1. broken' = broken \cup {change.file}
      BY <2>1, <2>9 DEF UpsertRaises, GiveUp
    <3>2. CASE UNCHANGED << store, outside >>
      BY <2>5, <3>1, <3>2
    <3>3. CASE UpsertChunks(change) /\ Touch(x, change.file)
      <4>1. IdsOK' /\ \A file : file # change.file => PointsOf(file)' = PointsOf(file)
        BY <2>2, <3>3, UpsertPoints
      <4>. QED  BY <1>2, <2>1, <2>2, <2>6, <3>1, <3>3, <4>1
    <3>. QED  BY <2>1, <2>9, <3>2, <3>3 DEF UpsertRaises
  <2>. QED  BY <1>1, <2>3, <2>4, <2>7, <2>8, <2>9 DEF Index
<1>. QED  BY <1>1, <1>2 DEF Index, Delete, NoCollection, DeleteRaises, Upsert, UpsertRaises

\* delete_by_file or upsert_chunks of the reader, when it is the last of the file.
LEMMA OwnFileIndexed ==
  ASSUME TypeOK, PushInv, NEW x \in Indexers, Delete(x) \/ Upsert(x), Reads(x),
         NEW file \in Files, file = Current(x).file, file \notin broken' \cup outside',
         NEW i \in 1..seen, LastAbout(i, file)', Known(i)', ~Pending(file, i)'
  PROVE  PointsOf(file)' = PointsFor(Final(i, file))'
<1>1. IndexerStep(x) /\ pc[x] \in {"delete", "embed"} /\ x \in Workers
  BY IndexIsStep DEF Index, Delete, Upsert, Reads
<1>2. UNCHANGED << log, committed, position, seen, owner, at >>
  BY DEF Delete, Upsert, Turn, Proceed, group
<1>3. LastAbout(i, file) /\ Final(i, file)' = Final(i, file) /\ Known(i)
  BY <1>2 DEF LastAbout, About, Final, Known
<1>4. PICK change \in Changes : change = Current(x)
  BY <1>1, CurrentIsChange DEF TypeOK
<1>5. at[x] = i
  BY <1>1, <1>3, ReaderIsAtLast
<1>6. CASE Proceed(x, "embed")
  <2>1. todo'[x] = todo[x] /\ todo[x] \in Seq(Changes) /\ todo[x] # << >>
    BY <1>1, <1>6 DEF Proceed, TypeOK, IndexerTypeOK
  <2>2. HasFile(todo'[x], file)
    <3>1. todo[x][1].file = file /\ 1 \in 1..Len(todo[x])
      BY <2>1 DEF Current
    <3>. QED  BY <2>1, <3>1 DEF HasFile
  <2>3. Reads(x)' /\ at'[x] = i
    BY <1>2, <1>5 DEF Reads
  <2>. QED  BY <1>1, <2>2, <2>3 DEF Pending
<1>7. CASE Turn(x)
  <2>1. owner' = owner /\ owner = x /\ x # NoWorker
    BY <1>1, <1>2, IndexAssumption DEF Reads
  <2>2. Final(i, file) = change
    BY <1>1, <1>3, <1>4, <1>7, <2>1, TurnIndexes DEF End
  <2>3. CASE Delete(x)
    <3>1. pc'[x] # "embed"
      BY <1>1, <1>7, TurnLeaves
    <3>2. PointsFor(change) = {} /\ DeleteByFile(file)
      BY <1>1, <1>4, <2>3, <3>1 DEF Delete, Proceed, TypeOK, IndexerTypeOK
    <3>3. PointsOf(file)' = {}
      BY <3>2, DeletePoints DEF PushInv
    <3>. QED  BY <1>3, <2>2, <3>2, <3>3
  <2>4. CASE Upsert(x)
    <3>1. UpsertChunks(change) /\ file \notin outside
      BY <1>4, <2>4 DEF Upsert, Touch
    <3>2. PointsOf(file) = {}
      BY <1>1, <2>4, <3>1 DEF PushInv, ClearedOK, Upsert
    <3>3. PointsOf(file)' = PointsFor(change)
      BY <1>4, <3>1, <3>2, UpsertPoints DEF PushInv
    <3>. QED  BY <1>3, <2>2, <3>3
  <2>. QED  BY <2>3, <2>4
<1>. QED  BY <1>6, <1>7 DEF Delete, Upsert

LEMMA IndexKeepsIndexed ==
  ASSUME TypeOK, PushInv, NEW x \in Indexers, Index(x)
  PROVE  IndexedOK'
<1>1. IndexerStep(x)
  BY IndexIsStep
<1> SUFFICES ASSUME NEW file \in Files, file \notin broken' \cup outside',
                    NEW i \in 1..seen, LastAbout(i, file)', Known(i)', ~Pending(file, i)'
             PROVE  PointsOf(file)' = PointsFor(Final(i, file))'
  BY <1>1 DEF IndexedOK, IndexerStep
<1>2. CASE pc[x] \in {"delete", "embed"} /\ Reads(x) /\ file = Current(x).file /\ (Delete(x) \/ Upsert(x))
  BY <1>2, OwnFileIndexed
<1>3. ASSUME Spared(file), ~(pc[x] \in {"delete", "embed"} /\ file = Current(x).file)
      PROVE  PointsOf(file)' = PointsFor(Final(i, file))'
  BY <1>1, <1>3, SparedStaysIndexed
<1>4. CASE pc[x] \in {"delete", "embed"} /\ file = Current(x).file
  <2>1. CASE Kill(x)
    BY <1>1, <2>1, SparedStaysIndexed DEF Kill, store, history, Spared, PointsOf
  <2>2. CASE Delete(x) \/ Upsert(x)
    <3>1. Reads(x)
      BY <1>4, <2>2 DEF Delete, Upsert, Touch
    <3>. QED  BY <1>2, <1>4, <2>2, <3>1
  <2>3. CASE NoCollection(x) \/ DeleteRaises(x) \/ UpsertRaises(x)
    <3>1. file \in broken'
      BY <1>4, <2>3 DEF NoCollection, DeleteRaises, UpsertRaises, GiveUp
    <3>. QED  BY <3>1
  <2>. QED  BY <2>1, <2>2, <2>3 DEF Index
<1>. QED  BY <1>2, <1>3, <1>4, OthersSpared

\* Whoever else touches the file of the reader is an outsider.
LEMMA IndexKeepsCleared ==
  ASSUME TypeOK, PushInv, NEW x \in Indexers, Index(x)
  PROVE  ClearedOK'
<1>1. IndexerStep(x)
  BY IndexIsStep
<1> SUFFICES ASSUME NEW w \in Workers, pc'[w] = "embed", Reads(w)', Current(w)'.file \notin outside'
             PROVE  PointsOf(Current(w).file)' = {}
  BY DEF ClearedOK
<1>2. Reads(w) /\ w \in Indexers
  BY <1>1, StepReads DEF Indexers
<1>3. CASE w = x
  <2>1. Delete(x) /\ Proceed(x, "embed")
    BY <1>2, <1>3, TurnLeaves
    DEF Index, Delete, NoCollection, DeleteRaises, Upsert, UpsertRaises, GiveUp, Kill
  <2>2. Current(x)' = Current(x)
    BY <2>1 DEF Proceed, Current
  <2>3. \A file : file = Current(x).file => PointsOf(file)' = {}
    BY <2>1, DeletePoints DEF Delete, PushInv
  <2>. QED  BY <1>3, <2>2, <2>3 DEF PointsOf
<1>4. CASE w # x
  <2>1. pc[w] = "embed" /\ Current(w)' = Current(w)
    BY <1>1, <1>2, <1>4 DEF IndexerStep, OthersStay, Current
  <2>2. PICK file \in Files : file = Current(w).file
    BY <1>2, <2>1, CurrentIsChange DEF TypeOK, Changes
  <2>3. ~Reads(x)
    BY <1>2, <1>4 DEF Reads
  <2>4. Spared(file)
    BY <2>1, <2>2, <2>3, OthersSpared
  <2>5. PointsOf(file) = {}
    BY <1>2, <2>1, <2>2, <2>4 DEF PushInv, ClearedOK, Spared
  <2>6. PointsOf(file)' = {}
    BY <2>4, <2>5 DEF Spared
  <2>. QED  BY <2>1, <2>2, <2>6 DEF PointsOf
<1>. QED  BY <1>3, <1>4

LEMMA IndexKeepsPushInv ==
  ASSUME TypeOK, PushInv, NEW x \in Indexers, Index(x)
  PROVE  PushInv'
BY IndexIsStep, StepKeepsLists, OthersSpared, IndexKeepsIndexed, IndexKeepsCleared DEF PushInv

\* A step that leaves the points and what is known of the files.
SameFiles == UNCHANGED << points, broken, outside >>

\* A worker without changes to do commits, ends, begins again, or gets the partition.
LEMMA GroupStepKeepsPushInv ==
  ASSUME TypeOK, PushInv, NEW w \in Workers,
         Commit(w) \/ CommitRaises(w) \/ Cancel(w) \/ Restart(w) \/ Assign(w)
  PROVE  PushInv'
<1>1. SameFiles /\ log' = log /\ seen' = seen
  BY DEF Commit, CommitRaises, Cancel, Restart, Assign, SameFiles, store, history
<1>2. /\ owner \in Workers \cup {NoWorker} /\ NoWorker \notin Workers /\ w \in Indexers
      /\ {committed, position, seen} \subseteq Nat
      /\ at \in [Workers -> 0..Len(log)] /\ pc \in [Indexers -> Stages]
      /\ todo \in [Indexers -> Seq(Changes)]
      /\ Workers \subseteq Indexers
  BY IndexAssumption DEF TypeOK, GroupTypeOK, IndexerTypeOK, Indexers
<1>3. /\ committed' \in {committed} \cup (IF owner = w THEN {position} ELSE {})
      /\ \/ UNCHANGED << owner, position >>
         \/ Assign(w)
         \/ Cancel(w) /\ position' = position /\ owner' = IF owner = w THEN NoWorker ELSE owner
  BY <1>2 DEF Commit, CommitRaises, Cancel, Restart, Assign, CommitOffset, End, group
<1>4. OffsetsOK'
  BY <1>1, <1>2, <1>3 DEF PushInv, OffsetsOK, Assign
<1>5. \A v \in Workers : todo'[v] = todo[v] /\ (pc'[v] = pc[v] \/ pc'[v] \notin {"embed", "delete"})
  <2>1. ASSUME NEW v \in Workers
        PROVE  todo'[v] = todo[v] /\ (pc'[v] = pc[v] \/ pc'[v] \notin {"embed", "delete"})
    <3>1. Cancel(w) => todo[w] = << >>
      BY <1>2 DEF Cancel, TypeOK, IndexerTypeOK
    <3>. QED  BY <1>2, <3>1 DEF Commit, CommitRaises, Cancel, Restart, Assign, End
  <2>. QED  BY <2>1
<1>6. \A v \in Workers : todo[v] # << >> => at'[v] = at[v]
  <2>1. Commit(w) \/ CommitRaises(w) \/ Cancel(w) => todo[w] = << >>
    BY <1>2 DEF Commit, CommitRaises, Cancel, TypeOK, IndexerTypeOK
  <2>. QED  BY <1>2, <2>1 DEF Commit, CommitRaises, Cancel, Restart, Assign, End
<1>7. ListsOK'
  BY <1>1, <1>5, <1>6 DEF PushInv, ListsOK
<1>8. ASSUME NEW v \in Workers, todo[v] # << >>, Reads(v)'
      PROVE  Reads(v)
  <2>1. ~Assign(w) /\ owner = v /\ position' = position
    BY <1>2, <1>3, <1>8 DEF Reads, Assign
  <2>2. v # w \/ committed' = committed
    BY <1>2, <1>8 DEF Commit, CommitRaises, Cancel, Restart, Assign, TypeOK, IndexerTypeOK
  <2>3. committed' = committed
    BY <1>2, <1>3, <2>1, <2>2
  <2>. QED  BY <1>6, <1>8, <2>1, <2>3 DEF Reads
<1>9. ClearedOK'
  <2> SUFFICES ASSUME NEW v \in Workers, pc'[v] = "embed", Reads(v)', Current(v)'.file \notin outside'
               PROVE  PointsOf(Current(v).file)' = {}
    BY DEF ClearedOK
  <2>1. pc[v] = "embed" /\ todo'[v] = todo[v] /\ todo[v] # << >>
    BY <1>2, <1>5 DEF TypeOK, IndexerTypeOK
  <2>2. Reads(v)
    BY <1>8, <2>1
  <2>3. Current(v)' = Current(v)
    BY <2>1 DEF Current
  <2>. QED  BY <1>1, <2>1, <2>2, <2>3 DEF PushInv, ClearedOK, SameFiles, PointsOf
<1>10. IndexedOK'
  <2> SUFFICES ASSUME NEW file \in Files, file \notin broken' \cup outside',
                      NEW i \in 1..seen, LastAbout(i, file)', Known(i)', ~Pending(file, i)'
               PROVE  PointsOf(file)' = PointsFor(Final(i, file))'
    BY <1>1 DEF IndexedOK
  <2>1. LastAbout(i, file) /\ Final(i, file)' = Final(i, file) /\ PointsOf(file)' = PointsOf(file)
    BY <1>1 DEF LastAbout, About, Final, PointsOf, SameFiles
  <2>2. Known(i)
    BY <1>2, <1>3 DEF Known, Assign
  <2>3. ~Pending(file, i)
    <3> SUFFICES ASSUME NEW v \in Workers, Reads(v), at[v] = i, HasFile(todo[v], file) PROVE FALSE
      BY DEF Pending
    <3>1. todo[v] # << >> /\ todo'[v] = todo[v] /\ at'[v] = i
      BY <1>5, <1>6 DEF HasFile
    <3>2. v # w \/ (committed' = committed /\ ~Cancel(w) /\ ~Assign(w))
      BY <1>2, <3>1 DEF Commit, CommitRaises, Cancel, Restart, Assign, Reads, TypeOK, IndexerTypeOK
    <3>3. committed' = committed
      BY <1>3, <3>2 DEF Reads
    <3>4. CASE Assign(w)
      <4>1. i > committed /\ position' = committed
        BY <1>2, <3>4 DEF Reads, Assign
      <4>. QED  BY <1>2, <3>3, <4>1 DEF Known
    <3>5. CASE ~Assign(w)
      <4>1. owner' = owner /\ position' = position
        BY <1>3, <3>2, <3>5 DEF Reads
      <4>2. Reads(v)'
        BY <3>1, <3>3, <4>1 DEF Reads
      <4>. QED  BY <3>1, <4>2 DEF Pending
    <3>. QED  BY <3>4, <3>5
  <2>. QED  BY <1>1, <2>1, <2>2, <2>3 DEF PushInv, IndexedOK, SameFiles
<1>11. IdsOK'
  BY <1>1 DEF PushInv, IdsOK, SameFiles
<1>. QED  BY <1>4, <1>7, <1>9, <1>10, <1>11 DEF PushInv

\* The message that is read has its files before the reader, or is about none.
LEMMA FetchKeepsPushInv ==
  ASSUME TypeOK, PushInv, NEW w \in Workers, Fetch(w)
  PROVE  PushInv'
<1>1. SameFiles /\ log' = log /\ committed' = committed /\ owner' = owner /\ owner = w
  BY DEF Fetch, SameFiles, store
<1>2. /\ {committed, position, seen} \subseteq 0..Len(log) /\ w # NoWorker
      /\ at \in [Workers -> 0..Len(log)] /\ pc \in [Indexers -> Stages]
      /\ todo \in [Indexers -> Seq(Changes)] /\ Workers \subseteq Indexers
  BY IndexAssumption DEF TypeOK, GroupTypeOK, IndexerTypeOK, Indexers
<1> DEFINE n == position + 1
<1>3. /\ n \in 1..Len(log) /\ position' = n /\ at' = [at EXCEPT ![w] = n]
      /\ todo' = [todo EXCEPT ![w] = log[n]] /\ committed < n
      /\ seen' = IF n > seen THEN n ELSE seen
  BY <1>1, <1>2 DEF Fetch, PushInv, OffsetsOK
<1>4. log[n] \in Seq(Changes)
  BY <1>3, IndexAssumption DEF TypeOK, GroupTypeOK
<1>5. pc'[w] # "embed" /\ \A v \in Workers \ {w} : pc'[v] = pc[v]
  BY <1>2, <1>4, AfterStage DEF Fetch
<1> HIDE DEF n
<1>6. OffsetsOK'
  BY <1>1, <1>2, <1>3 DEF PushInv, OffsetsOK, n
<1>7. ListsOK'
  <2>1. EndOfList(log[n], log[n])
    BY <1>4 DEF EndOfList
  <2>. QED  BY <1>1, <1>2, <1>3, <2>1 DEF PushInv, ListsOK
<1>8. ClearedOK'
  BY <1>1, <1>5 DEF ClearedOK, Reads
<1>9. IndexedOK'
  <2> SUFFICES ASSUME NEW file \in Files, file \notin broken' \cup outside',
                      NEW i \in 1..seen', LastAbout(i, file)', Known(i)', ~Pending(file, i)'
               PROVE  PointsOf(file)' = PointsFor(Final(i, file))'
    BY DEF IndexedOK
  <2>1. About(i, file)' = About(i, file) /\ Final(i, file)' = Final(i, file) /\ PointsOf(file)' = PointsOf(file)
    BY <1>1 DEF About, Final, PointsOf, SameFiles
  <2>2. i # n
    <3> SUFFICES ASSUME i = n PROVE FALSE
      OBVIOUS
    <3>1. PICK k \in DOMAIN log[n] : log[n][k].file = file
      BY <2>1 DEF LastAbout, About
    <3>2. HasFile(todo'[w], file)
      <4>1. todo'[w] = log[n]
        BY <1>2, <1>3
      <4>. QED  BY <1>4, <3>1, <4>1 DEF HasFile
    <3>3. Reads(w)' /\ at'[w] = n
      BY <1>1, <1>2, <1>3 DEF Reads
    <3>. QED  BY <3>2, <3>3 DEF Pending
  <2>3. i \in 1..seen /\ Known(i)
    BY <1>1, <1>2, <1>3, <2>2 DEF Known, n, PushInv, OffsetsOK
  <2>4. LastAbout(i, file)
    <3>1. \A j \in (i + 1)..seen : About(j, file)' = {}
      BY <1>2, <1>3 DEF LastAbout
    <3>2. \A j : About(j, file)' = About(j, file)
      BY <1>1 DEF About
    <3>. QED  BY <2>1, <3>1, <3>2 DEF LastAbout
  <2>5. ~Pending(file, i)
    <3> SUFFICES ASSUME NEW v \in Workers, Reads(v), HasFile(todo[v], file) PROVE FALSE
      BY DEF Pending
    <3>1. v = w /\ pc[w] = "fetch"
      BY <1>1 DEF Reads, Fetch
    <3>2. todo[w] = << >>
      BY <1>2, <3>1 DEF TypeOK, IndexerTypeOK
    <3>. QED  BY <3>1, <3>2 DEF HasFile
  <2>. QED  BY <1>1, <2>1, <2>3, <2>4, <2>5 DEF PushInv, IndexedOK, SameFiles
<1>10. IdsOK'
  BY <1>1 DEF PushInv, IdsOK, SameFiles
<1>. QED  BY <1>6, <1>7, <1>8, <1>9, <1>10 DEF PushInv

\* Pushes that were not read, and the script's list, are not yet anybody's business.
LEMMA OutsideKeepsPushInv ==
  ASSUME TypeOK, PushInv, (\E m \in Messages : Push(m)) \/ StartScript \/ UNCHANGED vars
  PROVE  PushInv'
<1>1. /\ SameFiles /\ UNCHANGED << committed, owner, position, seen, at >>
      /\ Script \notin Workers /\ Workers \subseteq Indexers
  BY IndexAssumption
  DEF Push, StartScript, EnsureCollection, SameFiles, vars, store, group, history, Indexers
<1>2. ASSUME NEW w \in Workers PROVE pc'[w] = pc[w] /\ todo'[w] = todo[w]
  BY <1>1 DEF Push, StartScript, vars, TypeOK, IndexerTypeOK
<1>3. /\ {committed, position, seen} \subseteq 0..Len(log) /\ Len(log') >= Len(log) /\ Len(log') \in Nat
      /\ \A i \in 1..Len(log) : log'[i] = log[i]
  <2>1. log \in Seq(Messages) /\ {committed, position, seen} \subseteq 0..Len(log)
    BY DEF TypeOK, GroupTypeOK
  <2>. QED  BY <2>1 DEF Push, StartScript, vars
<1>4. OffsetsOK' /\ IdsOK'
  BY <1>1 DEF PushInv, OffsetsOK, IdsOK, SameFiles
<1>5. ListsOK'
  BY <1>1, <1>2, <1>3 DEF PushInv, ListsOK
<1>6. \A w \in Workers : Reads(w)' <=> Reads(w)
  BY <1>1 DEF Reads
<1>7. ClearedOK'
  BY <1>1, <1>2, <1>6 DEF PushInv, ClearedOK, Current, PointsOf, SameFiles
<1>8. IndexedOK'
  <2> SUFFICES ASSUME NEW file \in Files, file \notin broken' \cup outside',
                      NEW i \in 1..seen', LastAbout(i, file)', Known(i)', ~Pending(file, i)'
               PROVE  PointsOf(file)' = PointsFor(Final(i, file))'
    BY DEF IndexedOK
  <2>1. i \in 1..seen /\ Known(i)
    BY <1>1 DEF Known
  <2>2. \A j \in i..seen : About(j, file)' = About(j, file) /\ Final(j, file)' = Final(j, file)
    <3> SUFFICES ASSUME NEW j \in i..seen
                 PROVE  About(j, file)' = About(j, file) /\ Final(j, file)' = Final(j, file)
      OBVIOUS
    <3>1. log'[j] = log[j]
      BY <1>3, <2>1
    <3>. QED  BY <3>1 DEF About, Final
  <2>3. LastAbout(i, file)
    BY <1>1, <1>3, <2>1, <2>2 DEF LastAbout
  <2>4. ~Pending(file, i)
    BY <1>1, <1>2, <1>6 DEF Pending
  <2>. QED  BY <1>1, <1>3, <2>1, <2>2, <2>3, <2>4 DEF PushInv, IndexedOK, SameFiles, PointsOf
<1>. QED  BY <1>4, <1>5, <1>7, <1>8 DEF PushInv

\* What the topic has said of a file, up to the committed offset, is what the index
\* holds of it, unless its reindexing was given up or somebody else touched it last,
\* whatever workers, pushes and faults there are.
THEOREM CommittedIsIndexedAlways == Spec => []CommittedIsIndexed
<1>1. Init => PushInv
  BY DEF Init, PushInv, IdsOK, OffsetsOK, ListsOK, ClearedOK, IndexedOK, Reads, Indexers
<1>2. TypeOK /\ PushInv /\ [Next]_vars => PushInv'
  BY IndexKeepsPushInv, GroupStepKeepsPushInv, FetchKeepsPushInv, OutsideKeepsPushInv DEF Next
<1>3. TypeOK /\ PushInv => CommittedIsIndexed
  <2> SUFFICES ASSUME TypeOK, PushInv, NEW file \in Files \ (broken \cup outside), NEW i \in 1..seen,
                      i <= committed, LastAbout(i, file)
               PROVE  PointsOf(file) = PointsFor(Final(i, file))
    BY DEF CommittedIsIndexed, LastAbout
  <2>1. ~Pending(file, i)
    BY DEF Pending, Reads, TypeOK, GroupTypeOK
  <2>. QED  BY <2>1 DEF PushInv, IndexedOK, Known
<1>. QED  BY <1>1, <1>2, <1>3, TypeCorrect, PTL DEF Spec
=============================================================================
