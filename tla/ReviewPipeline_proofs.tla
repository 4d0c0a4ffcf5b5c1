------------------------- MODULE ReviewPipeline_proofs -------------------------
(***************************************************************************)
(* Proofs about ReviewPipeline, for every list of pieces, their sizes, the *)
(* limits, and the answers of the model.  Invariants build on each other:  *)
(* FlowInv is about batches, prompts and results; CallsInv and FailInv are *)
(* about calls, VerifyInv about comments, and NotesInv about the notes.    *)
(***************************************************************************)
EXTENDS ReviewPipeline, Folds_proofs

(***************************************************************************)
(* What a prompt shows of the pieces of a batch.                           *)
(***************************************************************************)
\* The constants are natural numbers.
LEMMA BudgetConstants ==
  /\ HeaderChars \in Nat /\ MarkChars \in Nat /\ MaxFileChars \in Nat /\ LineChars \in Nat \ {0}
  /\ FirstChars \in Nat /\ RestChars \in Nat /\ FirstTokens \in Nat /\ RestTokens \in Nat
  /\ MaxBatches \in Nat \ {0}
BY BudgetAssumption

LEMMA CutTyped ==
  ASSUME NEW limit \in Int
  PROVE  Cut(limit) \in Int /\ (limit >= 0 => Cut(limit) \in 0..limit)
BY BudgetConstants DEF Cut

\* What a diff has shown so far.
ShownBlocks ==
  {shown \in [whole : SUBSET Pieces, cut : SUBSET Pieces, dropped : SUBSET Pieces, chars : Nat] :
     IsFiniteSet(shown.whole) /\ IsFiniteSet(shown.cut)}

LEMMA ShowTyped ==
  ASSUME NEW shown \in ShownBlocks, NEW p \in Pieces, NEW size \in Nat, NEW limit \in Nat
  PROVE  Show(shown, p, size, limit) \in ShownBlocks
<1>0. /\ shown \in [whole : SUBSET Pieces, cut : SUBSET Pieces, dropped : SUBSET Pieces, chars : Nat]
      /\ IsFiniteSet(shown.whole) /\ IsFiniteSet(shown.cut)
  BY DEF ShownBlocks
<1>1. PICK cap \in Int : cap = Min({MaxFileChars, limit - shown.chars})
  <2>1. limit - shown.chars \in Int /\ MaxFileChars \in Int
    BY <1>0, BudgetConstants
  <2>. QED
    BY <2>1, MinOfTwo
<1>2. PICK kept \in Int : kept = Cut(cap - MarkChars)
  BY BudgetConstants, CutTyped
<1>3. CASE shown.dropped = {} /\ size <= cap
  <2>1. Show(shown, p, size, limit)
          = [shown EXCEPT !.whole = @ \cup {p}, !.chars = @ + size]
    BY <1>1, <1>3 DEF Show
  <2>2. Show(shown, p, size, limit)
          = [whole |-> shown.whole \cup {p}, cut |-> shown.cut, dropped |-> shown.dropped,
             chars |-> shown.chars + size]
    BY <1>0, <2>1
  <2>3. IsFiniteSet(shown.whole \cup {p})
    BY <1>0, FS_AddElement
  <2>. QED
    BY <1>0, <2>2, <2>3 DEF ShownBlocks
<1>4. CASE ~(shown.dropped = {} /\ size <= cap)
           /\ shown.dropped = {} /\ cap >= MarkChars /\ kept > HeaderChars
  <2>1. Show(shown, p, size, limit)
          = [shown EXCEPT !.cut = @ \cup {p}, !.chars = @ + kept + MarkChars]
    BY <1>1, <1>2, <1>4 DEF Show
  <2>2. Show(shown, p, size, limit)
          = [whole |-> shown.whole, cut |-> shown.cut \cup {p}, dropped |-> shown.dropped,
             chars |-> shown.chars + kept + MarkChars]
    BY <1>0, <2>1
  <2>3. IsFiniteSet(shown.cut \cup {p})
    BY <1>0, FS_AddElement
  <2>4. shown.chars + kept + MarkChars \in Nat
    BY <1>0, <1>4, BudgetConstants
  <2>5. shown.cut \cup {p} \in SUBSET Pieces
    BY <1>0
  <2>6. Show(shown, p, size, limit)
          \in [whole : SUBSET Pieces, cut : SUBSET Pieces, dropped : SUBSET Pieces, chars : Nat]
    BY <1>0, <2>2, <2>4, <2>5
  <2>. QED
    BY <1>0, <2>2, <2>3, <2>6 DEF ShownBlocks
<1>5. CASE /\ ~(shown.dropped = {} /\ size <= cap)
           /\ ~(shown.dropped = {} /\ cap >= MarkChars /\ kept > HeaderChars)
  <2>1. Show(shown, p, size, limit) = [shown EXCEPT !.dropped = @ \cup {p}]
    BY <1>1, <1>2, <1>5 DEF Show
  <2>2. Show(shown, p, size, limit)
          = [whole |-> shown.whole, cut |-> shown.cut, dropped |-> shown.dropped \cup {p},
             chars |-> shown.chars]
    BY <1>0, <2>1
  <2>. QED
    BY <1>0, <2>2 DEF ShownBlocks
<1>. QED
  BY <1>3, <1>4, <1>5

\* Each piece of E is shown in full, cut or dropped, and only once if it is there
\* once.
Parts(shown, E, once) ==
  /\ shown.whole \cup shown.cut \cup shown.dropped = E
  /\ once => /\ shown.whole \cap shown.cut = {} /\ shown.whole \cap shown.dropped = {}
             /\ shown.cut \cap shown.dropped = {}

LEMMA ShowKeepsParts ==
  ASSUME NEW shown \in ShownBlocks, NEW p, NEW size, NEW limit, NEW E, NEW once \in BOOLEAN,
         Parts(shown, E, once), once => p \notin E
  PROVE  Parts(Show(shown, p, size, limit), E \cup {p}, once)
<1>0. PICK new : new = Show(shown, p, size, limit)
  OBVIOUS
<1>1. shown \in [whole : SUBSET Pieces, cut : SUBSET Pieces, dropped : SUBSET Pieces, chars : Nat]
  BY DEF ShownBlocks
<1>2. \/ new.whole = shown.whole \cup {p} /\ new.cut = shown.cut /\ new.dropped = shown.dropped
      \/ new.whole = shown.whole /\ new.cut = shown.cut \cup {p} /\ new.dropped = shown.dropped
      \/ new.whole = shown.whole /\ new.cut = shown.cut /\ new.dropped = shown.dropped \cup {p}
  BY <1>0, <1>1 DEF Show
<1>3. new.whole \cup new.cut \cup new.dropped = E \cup {p}
  BY <1>2 DEF Parts
<1>4. once => /\ p \notin shown.whole /\ p \notin shown.cut /\ p \notin shown.dropped
              /\ shown.whole \cap shown.cut = {} /\ shown.whole \cap shown.dropped = {}
              /\ shown.cut \cap shown.dropped = {}
  BY DEF Parts
<1>5. once => /\ new.whole \cap new.cut = {} /\ new.whole \cap new.dropped = {}
              /\ new.cut \cap new.dropped = {}
  BY <1>2, <1>4
<1>. QED
  BY <1>0, <1>3, <1>5 DEF Parts

LEMMA ShowAllIs ==
  ASSUME NEW batch \in Seq(Pieces), NEW lengths \in [Pieces -> Nat], NEW limit \in Nat
  PROVE  /\ ShowAll(batch, lengths, limit) \in ShownBlocks
         /\ Parts(ShowAll(batch, lengths, limit), Range(batch), IsInjective(batch))
<1>1. PICK len \in Nat : len = Len(batch) /\ DOMAIN batch = 1..len /\ \A i \in 1..len : batch[i] \in Pieces
  OBVIOUS
<1>2. \A i \in 1..len : lengths[batch[i]] \in Nat
  BY <1>1
<1>3. PICK h : h = CHOOSE g : g = [t \in SUBSET (1..len) |->
                     IF t = {} THEN Shown
                     ELSE Show(g[t \ {Max(t)}], batch[Max(t)], lengths[batch[Max(t)]], limit)]
  OBVIOUS
<1>4. ShowAll(batch, lengths, limit) = h[1..len]
  BY <1>1, <1>3 DEF ShowAll, FoldLeft, MapThenFoldSet
<1>5. PICK D : D = [q \in ShownBlocks \X (1..len) |->
                      Show(q[1], batch[q[2]], lengths[batch[q[2]]], limit)]
  OBVIOUS
<1>6. ASSUME NEW g, Turns(g, ShownBlocks, Shown, len, D)
      PROVE  Unfolds(h, ShownBlocks, Shown, len, D)
  <2>1. g = [t \in SUBSET (1..len) |->
               IF t = {} THEN Shown
               ELSE Show(g[t \ {Max(t)}], batch[Max(t)], lengths[batch[Max(t)]], limit)]
    BY <1>5, <1>6 DEF Turns
  <2>2. h = [t \in SUBSET (1..len) |->
               IF t = {} THEN Shown
               ELSE Show(h[t \ {Max(t)}], batch[Max(t)], lengths[batch[Max(t)]], limit)]
    BY <1>3, <2>1
  <2>. QED
    BY <1>5, <1>6, <2>2 DEF Unfolds, Turns
<1>7. Shown \in ShownBlocks
  BY FS_EmptySet DEF Shown, ShownBlocks
<1>8. RunsTo(h, ShownBlocks, Shown, len, D)
  <2>1. D \in [ShownBlocks \X (1..len) -> ShownBlocks]
    BY <1>1, <1>2, <1>5, ShowTyped
  <2>. QED
    BY <1>6, <1>7, <2>1, FoldLeftRuns
<1>9. PICK once \in BOOLEAN : once = IsInjective(batch)
  BY DEF IsInjective
<1> DEFINE I == {q \in (0..len) \X ShownBlocks : Parts(q[2], FirstOf(batch, q[1]), once)}
<1>10. << 0, Shown >> \in I
  <2>1. FirstOf(batch, 0) = {} /\ 0 \in 0..len
    BY DEF FirstOf
  <2>2. Parts(Shown, {}, once)
    BY DEF Parts, Shown
  <2>. QED
    BY <1>7, <2>1, <2>2
<1>11. ASSUME NEW k \in 1..len, NEW v \in ShownBlocks, << k - 1, v >> \in I
       PROVE  << k, D[<< v, k >>] >> \in I
  <2>1. Parts(v, FirstOf(batch, k - 1), once)
    BY <1>11
  <2>2. k \in 0..len /\ batch[k] \in Pieces /\ lengths[batch[k]] \in Nat
    BY <1>1, <1>2
  <2>3. once => batch[k] \notin FirstOf(batch, k - 1)
    <3>1. \A i \in 1..(k - 1) : i \in 1..len /\ i # k
      OBVIOUS
    <3>. QED
      BY <1>1, <1>9, <3>1 DEF FirstOf, IsInjective
  <2>4. PICK new : new = Show(v, batch[k], lengths[batch[k]], limit) /\ new = D[<< v, k >>]
    BY <1>5
  <2>5. new \in ShownBlocks
    BY <2>2, <2>4, ShowTyped
  <2>6. Parts(new, FirstOf(batch, k), once)
    <3>1. Parts(Show(v, batch[k], lengths[batch[k]], limit),
                FirstOf(batch, k - 1) \cup {batch[k]}, once)
      BY <2>1, <2>3, ShowKeepsParts
    <3>2. FirstOf(batch, k) = FirstOf(batch, k - 1) \cup {batch[k]}
      BY FirstOfNext
    <3>. QED
      BY <2>4, <3>1, <3>2
  <2>. QED
    BY <2>2, <2>4, <2>5, <2>6
<1>12. h[1..len] \in ShownBlocks /\ << len, h[1..len] >> \in I
  <2>1. Preserved(I, ShownBlocks, len, D)
    BY <1>11 DEF Preserved
  <2> HIDE DEF I
  <2>. QED
    BY <1>8, <1>10, <2>1, FoldInduction
<1>13. FirstOf(batch, len) = Range(batch)
  BY <1>1 DEF FirstOf, Range
<1>. QED
  BY <1>4, <1>9, <1>12, <1>13

(***************************************************************************)
(* Packing.                                                                *)
(***************************************************************************)
\* The lists of pieces a prompt may be made of.
PieceLists == Seq(Pieces)

\* Batches of the pieces in E: each piece is in one of them, once, and a batch is
\* over budget only if it has a single piece.
PackedOK(packed, E, lengths, counts) ==
  /\ packed \in Seq(PieceLists)
  /\ \A i \in DOMAIN packed : packed[i] # << >> /\ IsInjective(packed[i])
  /\ \A i, j \in DOMAIN packed : i # j => Range(packed[i]) \cap Range(packed[j]) = {}
  /\ UNION {Range(packed[i]) : i \in DOMAIN packed} = E
  /\ \A i \in DOMAIN packed : Len(packed[i]) > 1 => Fits(packed[i], i, lengths, counts)

\* What becomes of one batch, the m-th, when q is put into it.
Extends(new, packed, m, q) ==
  /\ DOMAIN new = DOMAIN packed /\ m \in DOMAIN packed
  /\ new[m] = Append(packed[m], q)
  /\ \A i \in DOMAIN packed \ {m} : new[i] = packed[i]

\* What becomes of the batches when q is put into a new one, the m-th.
Opens(new, packed, m, q) ==
  /\ DOMAIN new = DOMAIN packed \cup {m} /\ m \notin DOMAIN packed
  /\ new[m] = << q >>
  /\ \A i \in DOMAIN packed : new[i] = packed[i]

LEMMA PutIntoCases ==
  ASSUME NEW packed \in Seq(PieceLists), NEW q \in Pieces, NEW lengths, NEW counts
  PROVE  LET new == PutInto(packed, q, lengths, counts) IN
         /\ new \in Seq(PieceLists)
         /\ \E m \in Nat : \/ /\ Extends(new, packed, m, q)
                              /\ Fits(new[m], m, lengths, counts)
                           \/ Opens(new, packed, m, q)
<1>1. PICK len \in Nat : /\ len = Len(packed) /\ DOMAIN packed = 1..len
                       /\ \A i \in 1..len : packed[i] \in PieceLists
  OBVIOUS
<1>2. PICK new : new = PutInto(packed, q, lengths, counts)
  OBVIOUS
<1>3. CASE len > 0 /\ Fits(Append(packed[len], q), len, lengths, counts)
  <2>1. PICK last : last = Append(packed[len], q)
    OBVIOUS
  <2>2. last \in PieceLists
    BY <1>1, <1>3, <2>1 DEF PieceLists
  <2>3. new = [packed EXCEPT ![len] = last]
    BY <1>1, <1>2, <1>3, <2>1 DEF PutInto
  <2>4. len \in 1..len
    BY <1>3
  <2>5. Extends(new, packed, len, q)
    BY <1>1, <2>1, <2>3, <2>4 DEF Extends
  <2>6. new \in Seq(PieceLists)
    BY <1>1, <2>2, <2>3, <2>4
  <2>7. Fits(new[len], len, lengths, counts)
    BY <1>1, <1>3, <2>1, <2>3, <2>4
  <2>. QED
    BY <1>2, <2>5, <2>6, <2>7
<1>4. CASE ~(len > 0 /\ Fits(Append(packed[len], q), len, lengths, counts))
  <2>1. PICK first : first = << q >>
    OBVIOUS
  <2>2. first \in PieceLists
    BY <2>1 DEF PieceLists
  <2>3. new = Append(packed, first)
    BY <1>1, <1>2, <1>4, <2>1 DEF PutInto
  <2>4. new \in Seq(PieceLists)
    BY <2>2, <2>3
  <2>5. DOMAIN new = 1..(len + 1) /\ new[len + 1] = first /\ \A i \in 1..len : new[i] = packed[i]
    BY <1>1, <2>2, <2>3
  <2>6. 1..(len + 1) = 1..len \cup {len + 1} /\ len + 1 \notin 1..len /\ len + 1 \in Nat
    BY <1>1
  <2>7. Opens(new, packed, len + 1, q)
    BY <1>1, <2>1, <2>5, <2>6 DEF Opens
  <2>. QED
    BY <1>2, <2>4, <2>6, <2>7
<1>. QED
  BY <1>3, <1>4

LEMMA PutIntoKeepsPacked ==
  ASSUME NEW packed, NEW E, NEW lengths, NEW counts, PackedOK(packed, E, lengths, counts),
         NEW q \in Pieces \ E
  PROVE  PackedOK(PutInto(packed, q, lengths, counts), E \cup {q}, lengths, counts)
<1>1. /\ packed \in Seq(PieceLists)
      /\ \A i \in DOMAIN packed : packed[i] # << >> /\ IsInjective(packed[i])
      /\ \A i, j \in DOMAIN packed : i # j => Range(packed[i]) \cap Range(packed[j]) = {}
      /\ UNION {Range(packed[i]) : i \in DOMAIN packed} = E
      /\ \A i \in DOMAIN packed : Len(packed[i]) > 1 => Fits(packed[i], i, lengths, counts)
  BY DEF PackedOK
<1>2. \A i \in DOMAIN packed : q \notin Range(packed[i])
  BY <1>1
<1>3. PICK new : new = PutInto(packed, q, lengths, counts)
  OBVIOUS
<1>4. PICK m \in Nat : /\ new \in Seq(PieceLists)
                       /\ \/ Extends(new, packed, m, q) /\ Fits(new[m], m, lengths, counts)
                          \/ Opens(new, packed, m, q)
  BY <1>1, <1>3, PutIntoCases
<1>5. CASE Extends(new, packed, m, q) /\ Fits(new[m], m, lengths, counts)
  <2>1. packed[m] \in Seq(Pieces) /\ m \in DOMAIN packed
    BY <1>1, <1>5 DEF Extends, PieceLists
  <2>2. PICK last : last = Append(packed[m], q) /\ last = new[m]
    BY <1>5 DEF Extends
  <2>3. /\ last # << >> /\ IsInjective(last)
        /\ Range(last) = Range(packed[m]) \cup {q}
    <3>1. PICK old \in Seq(Pieces) : old = packed[m] /\ IsInjective(old) /\ q \notin Range(old)
      BY <1>1, <1>2, <2>1
    <3>2. /\ Append(old, q) # << >> /\ Range(Append(old, q)) = Range(old) \cup {q}
          /\ IsInjective(Append(old, q))
      BY <3>1, RangeOfAppend
    <3>. QED
      BY <2>2, <3>1, <3>2
  <2>4. \A i \in DOMAIN new : new[i] # << >> /\ IsInjective(new[i])
    BY <1>1, <1>5, <2>2, <2>3 DEF Extends
  <2>5. \A i, j \in DOMAIN new : i # j => Range(new[i]) \cap Range(new[j]) = {}
    <3>1. \A i \in DOMAIN packed : i # m => Range(new[m]) \cap Range(new[i]) = {}
      BY <1>1, <1>2, <1>5, <2>1, <2>2, <2>3 DEF Extends
    <3>2. \A i, j \in DOMAIN packed \ {m} : i # j => Range(new[i]) \cap Range(new[j]) = {}
      BY <1>1, <1>5 DEF Extends
    <3>3. DOMAIN new = DOMAIN packed
      BY <1>5 DEF Extends
    <3>. QED
      BY <3>1, <3>2, <3>3
  <2>6. UNION {Range(new[i]) : i \in DOMAIN new} = E \cup {q}
    <3>1. DOMAIN new = DOMAIN packed /\ m \in DOMAIN packed
          /\ Range(new[m]) = Range(packed[m]) \cup {q}
          /\ \A i \in DOMAIN packed \ {m} : Range(new[i]) = Range(packed[i])
      BY <1>5, <2>2, <2>3 DEF Extends
    <3>2. \A x : (\E i \in DOMAIN new : x \in Range(new[i])) => x \in E \/ x = q
      BY <1>1, <3>1
    <3>3. \A x \in E \cup {q} : \E i \in DOMAIN new : x \in Range(new[i])
      BY <1>1, <3>1
    <3>. QED
      BY <3>2, <3>3
  <2>7. \A i \in DOMAIN new : Len(new[i]) > 1 => Fits(new[i], i, lengths, counts)
    BY <1>1, <1>5 DEF Extends
  <2>. QED
    BY <1>3, <1>4, <2>4, <2>5, <2>6, <2>7 DEF PackedOK
<1>6. CASE Opens(new, packed, m, q)
  <2>1. PICK one : one = << q >> /\ one = new[m]
    BY <1>6 DEF Opens
  <2>2. one # << >> /\ IsInjective(one) /\ Range(one) = {q} /\ Len(one) = 1
    BY <2>1, RangeOfOne
  <2>3. \A i \in DOMAIN new : new[i] # << >> /\ IsInjective(new[i])
    BY <1>1, <1>6, <2>1, <2>2 DEF Opens
  <2>4. \A i, j \in DOMAIN new : i # j => Range(new[i]) \cap Range(new[j]) = {}
    BY <1>1, <1>2, <1>6, <2>1, <2>2 DEF Opens
  <2>5. UNION {Range(new[i]) : i \in DOMAIN new} = E \cup {q}
    <3>1. \A x : (\E i \in DOMAIN new : x \in Range(new[i])) <=> (x \in E \/ x = q)
      BY <1>1, <1>6, <2>1, <2>2 DEF Opens
    <3>. QED
      BY <3>1
  <2>6. \A i \in DOMAIN new : Len(new[i]) > 1 => Fits(new[i], i, lengths, counts)
    <3>1. ~(Len(new[m]) > 1)
      BY <2>1, <2>2
    <3>. QED
      BY <1>1, <1>6, <3>1 DEF Opens
  <2>. QED
    BY <1>3, <1>4, <2>3, <2>4, <2>5, <2>6 DEF PackedOK
<1>. QED
  BY <1>4, <1>5, <1>6

LEMMA PackIs ==
  ASSUME NEW pieces \in Seq(Pieces), IsInjective(pieces), NEW lengths, NEW counts
  PROVE  PackedOK(Pack(pieces, lengths, counts), Range(pieces), lengths, counts)
<1>1. PICK len \in Nat : len = Len(pieces) /\ DOMAIN pieces = 1..len /\ \A i \in 1..len : pieces[i] \in Pieces
  OBVIOUS
<1>2. PICK h : h = CHOOSE g : g = [t \in SUBSET (1..len) |->
                     IF t = {} THEN << >>
                     ELSE PutInto(g[t \ {Max(t)}], pieces[Max(t)], lengths, counts)]
  OBVIOUS
<1>3. Pack(pieces, lengths, counts) = h[1..len]
  BY <1>1, <1>2 DEF Pack, FoldLeft, MapThenFoldSet
<1>4. PICK V : V = Seq(PieceLists)
  OBVIOUS
<1>5. PICK D : D = [q \in V \X (1..len) |-> PutInto(q[1], pieces[q[2]], lengths, counts)]
  OBVIOUS
<1>6. ASSUME NEW g, Turns(g, V, << >>, len, D)
      PROVE  Unfolds(h, V, << >>, len, D)
  <2>1. g = [t \in SUBSET (1..len) |->
               IF t = {} THEN << >> ELSE PutInto(g[t \ {Max(t)}], pieces[Max(t)], lengths, counts)]
    BY <1>5, <1>6 DEF Turns
  <2>2. h = [t \in SUBSET (1..len) |->
               IF t = {} THEN << >> ELSE PutInto(h[t \ {Max(t)}], pieces[Max(t)], lengths, counts)]
    BY <1>2, <2>1
  <2>. QED
    BY <1>5, <1>6, <2>2 DEF Unfolds, Turns
<1>7. << >> \in V
  BY <1>4
<1>8. RunsTo(h, V, << >>, len, D)
  <2>1. D \in [V \X (1..len) -> V]
    <3>1. ASSUME NEW v \in V, NEW k \in 1..len
          PROVE  PutInto(v, pieces[k], lengths, counts) \in V
      BY <1>1, <1>4, PutIntoCases
    <3>. QED
      BY <1>5, <3>1
  <2>. QED
    BY <1>6, <1>7, <2>1, FoldLeftRuns
<1> DEFINE I == {q \in (0..len) \X V : PackedOK(q[2], FirstOf(pieces, q[1]), lengths, counts)}
<1>9. << 0, << >> >> \in I
  <2>1. FirstOf(pieces, 0) = {} /\ 0 \in 0..len
    BY DEF FirstOf
  <2>2. PackedOK(<< >>, {}, lengths, counts)
    <3>1. << >> \in Seq(PieceLists) /\ DOMAIN << >> = {}
      OBVIOUS
    <3>. QED
      BY <3>1 DEF PackedOK
  <2>. QED
    BY <1>7, <2>1, <2>2
<1>10. ASSUME NEW k \in 1..len, NEW v \in V, << k - 1, v >> \in I
       PROVE  << k, D[<< v, k >>] >> \in I
  <2>1. PackedOK(v, FirstOf(pieces, k - 1), lengths, counts)
    BY <1>10
  <2>2. pieces[k] \in Pieces \ FirstOf(pieces, k - 1)
    <3>1. \A i \in 1..(k - 1) : i \in 1..len /\ i # k
      OBVIOUS
    <3>. QED
      BY <1>1, <3>1 DEF FirstOf, IsInjective
  <2>3. PackedOK(PutInto(v, pieces[k], lengths, counts), FirstOf(pieces, k - 1) \cup {pieces[k]},
                 lengths, counts)
    BY <2>1, <2>2, PutIntoKeepsPacked
  <2>4. FirstOf(pieces, k) = FirstOf(pieces, k - 1) \cup {pieces[k]}
    BY FirstOfNext
  <2>5. D[<< v, k >>] = PutInto(v, pieces[k], lengths, counts)
    BY <1>5
  <2>6. D[<< v, k >>] \in V /\ k \in 0..len
    BY <1>4, <2>3, <2>5 DEF PackedOK
  <2>. QED
    BY <2>3, <2>4, <2>5, <2>6
<1>11. << len, h[1..len] >> \in I
  <2>1. Preserved(I, V, len, D)
    BY <1>10 DEF Preserved
  <2> HIDE DEF I
  <2>. QED
    BY <1>8, <1>9, <2>1, FoldInduction
<1>12. FirstOf(pieces, len) = Range(pieces)
  BY <1>1 DEF FirstOf, Range
<1>. QED
  BY <1>3, <1>11, <1>12

\* The order of the pieces changes, nothing else.
LEMMA OrderedIs ==
  ASSUME NEW pieces \in Seq(Pieces), IsInjective(pieces)
  PROVE  /\ Ordered(pieces) \in Seq(Pieces) /\ IsInjective(Ordered(pieces))
         /\ Range(Ordered(pieces)) = Range(pieces)
<1>1. PICK s, t : s = Select(pieces, Pieces \ LowPieces) /\ t = Select(pieces, LowPieces)
  OBVIOUS
<1>2. /\ Selected(s, Pieces, Range(pieces), Pieces \ LowPieces, IsInjective(pieces))
      /\ Selected(t, Pieces, Range(pieces), LowPieces, IsInjective(pieces))
  BY <1>1, SelectIs
<1>3. Range(pieces) \subseteq Pieces
  BY DEF Range
<1>4. /\ s \in Seq(Pieces) /\ t \in Seq(Pieces) /\ IsInjective(s) /\ IsInjective(t)
      /\ Range(s) \cap Range(t) = {} /\ Range(s) \cup Range(t) = Range(pieces)
  BY <1>2, <1>3 DEF Selected
<1>5. /\ s \o t \in Seq(Pieces) /\ Range(s \o t) = Range(s) \cup Range(t)
      /\ IsInjective(s) /\ IsInjective(t) /\ Range(s) \cap Range(t) = {} => IsInjective(s \o t)
  <2>1. s \in Seq(Pieces) /\ t \in Seq(Pieces)
    BY <1>4
  <2>. QED
    BY <2>1, ConcatOnce
<1>6. Ordered(pieces) = s \o t
  BY <1>1 DEF Ordered
<1>. QED
  BY <1>4, <1>5, <1>6

LEMMA AllBatchesIs ==
  ASSUME NEW pieces \in Seq(Pieces), IsInjective(pieces), NEW lengths, NEW counts
  PROVE  PackedOK(AllBatches(pieces, lengths, counts), Range(pieces), lengths, counts)
<1>1. PackedOK(Pack(pieces, lengths, counts), Range(pieces), lengths, counts)
  BY PackIs
<1>2. PICK ordered : /\ ordered = Ordered(pieces) /\ ordered \in Seq(Pieces)
                     /\ IsInjective(ordered) /\ Range(ordered) = Range(pieces)
  BY OrderedIs
<1>3. PackedOK(Pack(ordered, lengths, counts), Range(pieces), lengths, counts)
  BY <1>2, PackIs
<1>. QED
  BY <1>1, <1>2, <1>3 DEF AllBatches

\* The batches that are tried and the pieces beyond the cap share all pieces.
LEMMA BatchesIs ==
  ASSUME NEW pieces \in Seq(Pieces), IsInjective(pieces), NEW lengths, NEW counts
  PROVE  LET tried == Batches(pieces, lengths, counts)
             rest  == BeyondCap(pieces, lengths, counts)
         IN  /\ PackedOK(tried, Range(pieces) \ rest, lengths, counts)
             /\ rest \subseteq Range(pieces)
             /\ Len(tried) \in 0..MaxBatches
             /\ pieces # << >> => tried # << >>
<1>1. PICK packed : /\ packed = AllBatches(pieces, lengths, counts)
                    /\ PackedOK(packed, Range(pieces), lengths, counts)
  BY AllBatchesIs
<1>2. /\ packed \in Seq(PieceLists)
      /\ \A i \in DOMAIN packed : packed[i] # << >> /\ IsInjective(packed[i])
      /\ \A i, j \in DOMAIN packed : i # j => Range(packed[i]) \cap Range(packed[j]) = {}
      /\ UNION {Range(packed[i]) : i \in DOMAIN packed} = Range(pieces)
      /\ \A i \in DOMAIN packed : Len(packed[i]) > 1 => Fits(packed[i], i, lengths, counts)
  BY <1>1 DEF PackedOK
<1>3. PICK len \in Nat : len = Len(packed) /\ DOMAIN packed = 1..len
  BY <1>2
<1>4. PICK m \in Nat : m = Min({len, MaxBatches}) /\ m <= len /\ m <= MaxBatches
                       /\ (len > 0 => m > 0) /\ (m < len => m = MaxBatches)
  BY MinOfTwo, BudgetConstants
<1>5. PICK tried : tried = SubSeq(packed, 1, m)
  OBVIOUS
<1>6. /\ tried \in Seq(PieceLists) /\ Len(tried) = m /\ DOMAIN tried = 1..m
      /\ \A i \in 1..m : tried[i] = packed[i]
  <2>1. \A i \in 1..m : i \in 1..len
    BY <1>3, <1>4
  <2>2. m \in 0..len
    BY <1>3, <1>4
  <2>3. tried = [i \in 1..m |-> packed[i]]
    BY <1>2, <1>3, <1>4, <1>5
  <2>4. \A i \in 1..m : packed[i] \in PieceLists
    BY <1>2, <1>3, <2>1
  <2>. QED
    BY <2>3, <2>4
<1>7. PICK rest : rest = UNION {ToSet(packed[i]) : i \in (MaxBatches + 1)..len}
  OBVIOUS
<1>8. \A i \in 1..len : i \in 1..m \/ i \in (MaxBatches + 1)..len
  BY <1>3, <1>4, BudgetConstants
<1>9. /\ \A i \in 1..m : i \in 1..len /\ i \notin (MaxBatches + 1)..len
      /\ \A i \in (MaxBatches + 1)..len : i \in 1..len /\ i \notin 1..m
  <2>1. MaxBatches \in Nat /\ len \in Nat /\ m \in Nat /\ m <= len /\ m <= MaxBatches
    BY <1>3, <1>4, BudgetConstants
  <2>. QED
    BY <2>1
<1>10. \A i \in 1..len : ToSet(packed[i]) = Range(packed[i])
  BY DEF ToSet, Range
<1>11. rest \subseteq Range(pieces)
  BY <1>2, <1>3, <1>7, <1>9, <1>10
<1>12. UNION {Range(tried[i]) : i \in DOMAIN tried} = Range(pieces) \ rest
  <2>1. ASSUME NEW i \in 1..m, NEW x \in Range(tried[i])
        PROVE  x \in Range(pieces) \ rest
    <3>1. i \in 1..len /\ x \in Range(packed[i])
      BY <1>6, <1>9, <2>1
    <3>2. ASSUME NEW j \in (MaxBatches + 1)..len
          PROVE  x \notin ToSet(packed[j])
      <4>1. j \in 1..len /\ i # j
        BY <1>9, <2>1
      <4>2. Range(packed[i]) \cap Range(packed[j]) = {} /\ ToSet(packed[j]) = Range(packed[j])
        BY <1>2, <1>3, <1>10, <3>1, <4>1
      <4>. QED
        BY <3>1, <4>2
    <3>. QED
      BY <1>2, <1>3, <1>7, <3>1, <3>2
  <2>2. ASSUME NEW x \in Range(pieces) \ rest
        PROVE  \E i \in 1..m : x \in Range(tried[i])
    <3>1. PICK i \in 1..len : x \in Range(packed[i])
      BY <1>2, <1>3
    <3>2. i \notin (MaxBatches + 1)..len
      BY <1>7, <1>10, <3>1
    <3>. QED
      BY <1>6, <1>8, <3>1, <3>2
  <2>. QED
    BY <1>6, <2>1, <2>2
<1>13. PackedOK(tried, Range(pieces) \ rest, lengths, counts)
  <2>1. \A i \in DOMAIN tried : i \in DOMAIN packed /\ tried[i] = packed[i]
    BY <1>3, <1>6, <1>9
  <2>. QED
    BY <1>2, <1>6, <1>12, <2>1 DEF PackedOK
<1>14. pieces # << >> => tried # << >>
  <2>1. ASSUME pieces # << >>
        PROVE  len > 0
    <3>1. 1 \in DOMAIN pieces
      BY <2>1
    <3>2. pieces[1] \in Range(pieces)
      BY <3>1 DEF Range
    <3>3. PICK i \in 1..len : pieces[1] \in Range(packed[i])
      BY <1>2, <1>3, <3>2
    <3>. QED
      BY <3>3
  <2>. QED
    BY <1>4, <1>6, <2>1
<1>15. tried = Batches(pieces, lengths, counts) /\ rest = BeyondCap(pieces, lengths, counts)
  BY <1>1, <1>3, <1>4, <1>5, <1>7 DEF Batches, BeyondCap
<1>. QED
  BY <1>4, <1>6, <1>11, <1>13, <1>14, <1>15

(***************************************************************************)
(* The split of the pull request.                                          *)
(***************************************************************************)
LEMMA SplitIsSound ==
  ASSUME NEW sizes, NEW counts
  PROVE  LET tried == Batches(Targets, sizes, counts)
             rest  == BeyondCap(Targets, sizes, counts)
         IN  /\ PackedOK(tried, Pieces \ rest, sizes, counts)
             /\ rest \subseteq Pieces
             /\ Targets # << >> => tried # << >>
             /\ Targets = << >> => tried = << >>
             /\ IsInjective(Joined(tried)) /\ Range(Joined(tried)) = Pieces \ rest
<1>1. Targets \in Seq(Pieces) /\ IsInjective(Targets) /\ Range(Targets) = Pieces
  BY PipelineAssumption
<1>2. PICK tried, rest : /\ tried = Batches(Targets, sizes, counts)
                         /\ rest = BeyondCap(Targets, sizes, counts)
                         /\ PackedOK(tried, Range(Targets) \ rest, sizes, counts)
                         /\ rest \subseteq Range(Targets)
                         /\ Targets # << >> => tried # << >>
  BY <1>1, BatchesIs
<1>3. PackedOK(tried, Pieces \ rest, sizes, counts)
  BY <1>1, <1>2
<1>4. /\ tried \in Seq(Seq(Pieces)) /\ Apart(tried)
      /\ UNION {Range(tried[i]) : i \in DOMAIN tried} = Pieces \ rest
      /\ \A i \in DOMAIN tried : tried[i] # << >>
  BY <1>3 DEF PackedOK, PieceLists, Apart
<1>5. JoinOf(Joined(tried), Pieces, tried, Len(tried), Apart(tried))
  BY <1>4, JoinedIs
<1>6. IsInjective(Joined(tried)) /\ Range(Joined(tried)) = Pieces \ rest
  <2>1. DOMAIN tried = 1..Len(tried)
    BY <1>4
  <2>. QED
    BY <1>4, <1>5, <2>1 DEF JoinOf, InLists
<1>7. Targets = << >> => tried = << >>
  <2>1. ASSUME Targets = << >>, NEW i \in DOMAIN tried
        PROVE  FALSE
    <3>1. Pieces = {}
      BY <1>1, <2>1 DEF Range
    <3>2. tried[i] \in Seq({})
      BY <1>4, <2>1, <3>1
    <3>3. tried[i] = << >>
      BY <3>2
    <3>. QED
      BY <1>4, <2>1, <3>3
  <2>. QED
    BY <1>4, <2>1
<1>. QED
  BY <1>1, <1>2, <1>3, <1>6, <1>7

(***************************************************************************)
(* The course of a review.                                                 *)
(***************************************************************************)
Unplanned == {"prepare", "raised"}
Working == {"assemble", "generate", "shorten"}
After == {"reduce", "verify", "completed", "failed"}

Prompts ==
  [batch : Nat, short : BOOLEAN, whole : SUBSET Pieces, cut : SUBSET Pieces,
   dropped : SUBSET Pieces]

Results == [prompt : Prompts, sent : Prompts, findings : Seq(Findings)]

\* A prompt for the k-th batch accounts for each of its pieces, once.
PromptFor(k, p) == p.batch = k /\ Parts(p, Range(batches[k]), TRUE)

DataOK ==
  /\ chars \in [Pieces -> CharSizes] /\ tokens \in [Pieces -> TokenSizes]
  /\ pc \in Stages /\ again \in BOOLEAN /\ reason \in Reasons
  /\ rounds \in 0..MaxVerifyBatches

\* The batches are those of the pull request, and n is the one at work.
PlanOK ==
  /\ batches \in Seq(PieceLists) /\ n \in Nat
  /\ pc \in Unplanned => batches = << >> /\ n = 1
  /\ pc \notin Unplanned => batches = Batches(Targets, chars, tokens)
  /\ pc \in Working => n \in 1..Len(batches)
  /\ pc \in After => n = Len(batches) + 1

PromptsOK ==
  /\ prompt \in Prompts /\ report \in Prompts
  /\ pc \in {"generate", "shorten"} => PromptFor(n, prompt) /\ PromptFor(n, report)
  /\ pc = "generate" => prompt = report /\ ~prompt.short
  /\ pc = "shorten" => prompt.short

\* A result comes from a prompt of a batch that is done, and is kept with it.
ResultsOK ==
  /\ successful \in Seq(Results)
  /\ pc \in Unplanned => successful = << >>
  /\ \A i \in DOMAIN successful :
       /\ successful[i].prompt = successful[i].sent
       /\ successful[i].sent.batch \in 1..(n - 1)
       /\ PromptFor(successful[i].sent.batch, successful[i].sent)

NotesTyped == omitted \subseteq Files /\ partial \subseteq Files /\ reviewed \subseteq Files

FlowInv == DataOK /\ PlanOK /\ PromptsOK /\ ResultsOK /\ NotesTyped

LEMMA StagesAre ==
  /\ Stages = Unplanned \cup Working \cup After
  /\ Unplanned \cap Working = {} /\ Unplanned \cap After = {} /\ Working \cap After = {}
BY DEF Stages, Unplanned, Working, After

LEMMA FilesOfPieces ==
  ASSUME NEW s \in SUBSET Pieces
  PROVE  FilesOf(s) \subseteq Files
BY DEF FilesOf, Files, Pieces, Range

\* The planned batches.
LEMMA PlannedBatches ==
  ASSUME FlowInv, pc \notin Unplanned
  PROVE  /\ PackedOK(batches, Pieces \ BeyondCap(Targets, chars, tokens), chars, tokens)
         /\ \A k \in DOMAIN batches : batches[k] \in Seq(Pieces) /\ IsInjective(batches[k])
                                      /\ Range(batches[k]) \subseteq Pieces
<1>1. PackedOK(batches, Pieces \ BeyondCap(Targets, chars, tokens), chars, tokens)
  BY SplitIsSound DEF FlowInv, PlanOK
<1>2. \A k \in DOMAIN batches : batches[k] \in Seq(Pieces) /\ IsInjective(batches[k])
  BY <1>1 DEF PackedOK, PieceLists
<1>. QED
  BY <1>1, <1>2 DEF Range

\* A prompt that is assembled shows, cuts or drops each piece of its batch.
LEMMA AssembledIs ==
  ASSUME FlowInv, pc \in Working, NEW short \in BOOLEAN, NEW p \in Assembled(short)
  PROVE  p \in Prompts /\ p.short = short /\ PromptFor(n, p)
<1>1. /\ batches[n] \in Seq(Pieces) /\ IsInjective(batches[n])
      /\ chars \in [Pieces -> Nat] /\ n \in Nat
  <2>1. n \in DOMAIN batches /\ n \in Nat
    BY DEF FlowInv, PlanOK
  <2>2. chars \in [Pieces -> Nat]
    BY PipelineAssumption DEF FlowInv, DataOK
  <2>3. pc \notin Unplanned
    BY StagesAre
  <2>. QED
    BY <2>1, <2>2, <2>3, PlannedBatches
<1>2. FullLimit \in Nat
  <2>1. CharsFor(n) - RiskChars \in Int
    BY PipelineAssumption, BudgetConstants DEF CharsFor
  <2>. QED
    BY <2>1, MaxZero DEF FullLimit
<1>3. PICK limit \in Nat : p = PromptOf(short, ShowAll(Batch, chars, limit))
  <2>1. \A l \in DiffLimits : l \in Nat
    BY PipelineAssumption
  <2>. QED
    BY <1>2, <2>1 DEF Assembled
<1>4. PICK shown : shown = ShowAll(Batch, chars, limit)
  OBVIOUS
<1>5. shown \in ShownBlocks /\ Parts(shown, Range(batches[n]), TRUE)
  <2>1. PICK batch \in Seq(Pieces) : batch = Batch /\ IsInjective(batch) /\ batch = batches[n]
    BY <1>1 DEF Batch
  <2>2. /\ ShowAll(batch, chars, limit) \in ShownBlocks
        /\ Parts(ShowAll(batch, chars, limit), Range(batch), IsInjective(batch))
    BY <1>1, ShowAllIs
  <2>. QED
    BY <1>4, <2>1, <2>2 DEF Parts
<1>6. /\ shown.whole \in SUBSET Pieces /\ shown.cut \in SUBSET Pieces
      /\ shown.dropped \in SUBSET Pieces
  BY <1>5 DEF ShownBlocks
<1>7. p = [batch |-> n, short |-> short, whole |-> shown.whole, cut |-> shown.cut,
           dropped |-> shown.dropped]
  BY <1>3, <1>4 DEF PromptOf
<1>. QED
  BY <1>1, <1>5, <1>6, <1>7 DEF Prompts, PromptFor, Parts

(***************************************************************************)
(* The end of a batch.                                                     *)
(***************************************************************************)
\* A loop that ends goes where results say.
LEMMA NextBatchMoves ==
  ASSUME FlowInv, pc \in Working, NEW results, NextBatch(results),
         batches' = batches, chars' = chars, tokens' = tokens
  PROVE  PlanOK' /\ pc' \in {"assemble", "failed", "reduce"} /\ n' = n + 1
<1>1. n \in 1..Len(batches) /\ Len(batches) \in Nat /\ pc \notin Unplanned
  BY StagesAre DEF FlowInv, PlanOK
<1>2. n' = n + 1 /\ \/ n < Len(batches) /\ pc' = "assemble"
                    \/ n = Len(batches) /\ pc' \in {"failed", "reduce"}
  BY <1>1 DEF NextBatch
<1>3. pc' \in {"assemble", "failed", "reduce"}
  BY <1>2
<1>4. pc' \notin Unplanned
  BY <1>3 DEF Unplanned
<1>5. pc' \in Working => n' \in 1..Len(batches')
  BY <1>1, <1>2 DEF Working
<1>6. pc' \in After => n' = Len(batches') + 1
  BY <1>1, <1>2 DEF After
<1>. QED
  BY <1>1, <1>2, <1>3, <1>4, <1>5, <1>6 DEF FlowInv, PlanOK

LEMMA GiveUpKeepsFlow ==
  ASSUME FlowInv, pc \in Working, GiveUp, reason' \in Reasons,
         batches' = batches, chars' = chars, tokens' = tokens, rounds' = rounds
  PROVE  FlowInv'
<1>1. NextBatch(successful) /\ successful' = successful /\ partial' = partial
      /\ reviewed' = reviewed /\ omitted' = omitted \cup FilesOf(Range(Batch))
  BY DEF GiveUp
<1>2. PlanOK' /\ pc' \in {"assemble", "failed", "reduce"} /\ n' = n + 1
  BY <1>1, NextBatchMoves
<1>3. n \in 1..Len(batches) /\ n \in Nat /\ pc \notin Unplanned
  BY StagesAre DEF FlowInv, PlanOK
<1>4. DataOK'
  <2>1. again' \in BOOLEAN
    BY <1>1 DEF NextBatch
  <2>2. pc' \in Stages
    BY <1>2 DEF Stages
  <2>. QED
    BY <2>1, <2>2 DEF FlowInv, DataOK
<1>5. PromptsOK'
  <2>1. prompt' = NoPrompt /\ report' = NoPrompt
    BY <1>1 DEF NextBatch
  <2>2. NoPrompt \in Prompts
    BY DEF NoPrompt, Prompts
  <2>. QED
    BY <1>2, <2>1, <2>2 DEF PromptsOK
<1>6. ResultsOK'
  <2>1. \A i \in DOMAIN successful : successful[i].sent.batch \in 1..(n' - 1)
    BY <1>2, <1>3 DEF FlowInv, ResultsOK
  <2>2. pc' \notin Unplanned
    BY <1>2 DEF Unplanned
  <2>. QED
    BY <1>1, <2>1, <2>2 DEF FlowInv, ResultsOK, PromptFor
<1>7. NotesTyped'
  <2>1. Range(Batch) \subseteq Pieces
    BY <1>3, PlannedBatches DEF Batch
  <2>. QED
    BY <1>1, <2>1, FilesOfPieces DEF FlowInv, NotesTyped
<1>. QED
  BY <1>2, <1>4, <1>5, <1>6, <1>7 DEF FlowInv

LEMMA SucceedKeepsFlow ==
  ASSUME FlowInv, pc \in {"generate", "shorten"}, NEW answer \in Seq(Findings),
         Succeed(answer, prompt, prompt), reason' = reason,
         batches' = batches, chars' = chars, tokens' = tokens, rounds' = rounds
  PROVE  FlowInv'
<1> DEFINE result == [prompt |-> prompt, sent |-> prompt, findings |-> answer]
<1>1. NextBatch(Append(successful, result)) /\ successful' = Append(successful, result)
      /\ omitted' = omitted \cup FilesOf(report.dropped)
      /\ partial' = partial \cup FilesOf(report.cut)
      /\ reviewed' = reviewed \cup (FilesOf(Range(Batch)) \ FilesOf(report.dropped))
  BY DEF Succeed
<1>2. pc \in Working
  BY DEF Working
<1>3. PlanOK' /\ pc' \in {"assemble", "failed", "reduce"} /\ n' = n + 1
  BY <1>1, <1>2, NextBatchMoves
<1>4. n \in 1..Len(batches) /\ n \in Nat /\ pc \notin Unplanned
  BY <1>2, StagesAre DEF FlowInv, PlanOK
<1>5. DataOK'
  <2>1. again' \in BOOLEAN
    BY <1>1 DEF NextBatch
  <2>2. pc' \in Stages
    BY <1>3 DEF Stages
  <2>. QED
    BY <2>1, <2>2 DEF FlowInv, DataOK
<1>6. PromptsOK'
  <2>1. prompt' = NoPrompt /\ report' = NoPrompt
    BY <1>1 DEF NextBatch
  <2>2. NoPrompt \in Prompts
    BY DEF NoPrompt, Prompts
  <2>. QED
    BY <1>3, <2>1, <2>2 DEF PromptsOK
<1>7. ResultsOK'
  <2>1. PICK new : new = result
    OBVIOUS
  <2>2. /\ new \in Results /\ new.prompt = new.sent /\ new.sent.batch = n
        /\ PromptFor(n, new.sent)
    BY <2>1 DEF FlowInv, PromptsOK, Results, PromptFor
  <2>3. PICK m \in Nat : m = Len(successful) /\ DOMAIN successful = 1..m
    BY DEF FlowInv, ResultsOK
  <2>4. /\ successful' \in Seq(Results) /\ DOMAIN successful' = 1..(m + 1)
        /\ successful'[m + 1] = new
        /\ \A i \in 1..m : successful'[i] = successful[i]
    BY <1>1, <2>1, <2>2, <2>3 DEF FlowInv, ResultsOK
  <2>5. ASSUME NEW i \in 1..(m + 1)
        PROVE  /\ successful'[i].prompt = successful'[i].sent
               /\ successful'[i].sent.batch \in 1..(n' - 1)
               /\ PromptFor(successful'[i].sent.batch, successful'[i].sent)
    <3>1. CASE i \in 1..m
      BY <1>3, <1>4, <2>3, <2>4, <3>1 DEF FlowInv, ResultsOK
    <3>2. CASE i = m + 1
      BY <1>3, <1>4, <2>2, <2>4, <3>2
    <3>. QED
      BY <2>3, <3>1, <3>2
  <2>6. pc' \notin Unplanned
    BY <1>3 DEF Unplanned
  <2>. QED
    BY <2>4, <2>5, <2>6 DEF ResultsOK, PromptFor
<1>8. NotesTyped'
  <2>1. Range(Batch) \subseteq Pieces /\ report.dropped \subseteq Pieces /\ report.cut \subseteq Pieces
    BY <1>4, PlannedBatches DEF Batch, FlowInv, PromptsOK, Prompts
  <2>. QED
    BY <1>1, <2>1, FilesOfPieces DEF FlowInv, NotesTyped
<1>. QED
  BY <1>3, <1>5, <1>6, <1>7, <1>8 DEF FlowInv

(***************************************************************************)
(* Every step keeps the course.                                            *)
(***************************************************************************)
LEMMA InitFlow == Init => FlowInv
<1>. SUFFICES ASSUME Init PROVE FlowInv
  OBVIOUS
<1>1. DataOK
  <2>1. chars \in [Pieces -> CharSizes] /\ tokens \in [Pieces -> TokenSizes]
    BY DEF Init
  <2>2. rounds \in 0..MaxVerifyBatches
    BY PipelineAssumption DEF Init
  <2>. QED
    BY <2>1, <2>2 DEF Init, DataOK, Stages, Reasons
<1>2. PlanOK
  BY DEF Init, PlanOK, Unplanned, Working, After
<1>3. PromptsOK
  BY DEF Init, PromptsOK, Prompts, NoPrompt
<1>4. ResultsOK
  BY DEF Init, ResultsOK
<1>5. NotesTyped
  BY DEF Init, NotesTyped
<1>. QED
  BY <1>1, <1>2, <1>3, <1>4, <1>5 DEF FlowInv

\* A step of one stage that leaves the batch at work alone.
LEMMA StayKeepsFlow ==
  ASSUME FlowInv,
         UNCHANGED << inputs, batchVars, notes, again, prompt, report, successful, calls >>,
         pc' = pc, reason' = reason, rounds' \in 0..MaxVerifyBatches
  PROVE  FlowInv'
<1>1. DataOK' /\ PlanOK'
  BY DEF FlowInv, DataOK, PlanOK, inputs, batchVars
<1>2. PromptsOK' /\ ResultsOK' /\ NotesTyped'
  BY DEF FlowInv, PromptsOK, ResultsOK, NotesTyped, PromptFor, batchVars, notes
<1>. QED
  BY <1>1, <1>2 DEF FlowInv

\* A prompt is assembled, and the stage that sends it entered.
LEMMA AssembledKeepsFlow ==
  ASSUME FlowInv, pc \in Working, NEW short \in BOOLEAN, prompt' \in Assembled(short),
         UNCHANGED << inputs, batchVars, notes, again, successful, reason, rounds >>,
         \/ pc' = "generate" /\ ~short /\ report' = prompt'
         \/ pc' = "shorten" /\ short /\ report' = report /\ pc = "generate"
  PROVE  FlowInv'
<1>1. prompt' \in Prompts /\ prompt'.short = short /\ PromptFor(n, prompt')
  BY AssembledIs
<1>2. DataOK'
  BY DEF FlowInv, DataOK, inputs, Stages
<1>3. pc' \in Working /\ pc' \notin Unplanned /\ pc' \notin After /\ pc \notin Unplanned
  BY DEF Working, After, Unplanned
<1>4. PlanOK'
  BY <1>3 DEF FlowInv, PlanOK, inputs, batchVars
<1>5. PromptsOK'
  BY <1>1 DEF FlowInv, PromptsOK, PromptFor, batchVars
<1>6. ResultsOK' /\ NotesTyped'
  BY <1>3 DEF FlowInv, ResultsOK, NotesTyped, PromptFor, batchVars, notes
<1>. QED
  BY <1>2, <1>4, <1>5, <1>6 DEF FlowInv

LEMMA PrepareKeepsFlow ==
  ASSUME FlowInv, Prepare
  PROVE  FlowInv'
<1>1. /\ pc \in Unplanned /\ batches' = Batches(Targets, chars, tokens)
      /\ omitted' = FilesOf(BeyondCap(Targets, chars, tokens))
      /\ n = 1 /\ n' = n /\ successful = << >> /\ successful' = successful
      /\ chars' = chars /\ tokens' = tokens
  BY DEF Prepare, Unplanned, FlowInv, PlanOK, ResultsOK, inputs
<1>2. /\ PackedOK(batches', Pieces \ BeyondCap(Targets, chars, tokens), chars, tokens)
      /\ BeyondCap(Targets, chars, tokens) \subseteq Pieces
      /\ Targets # << >> => batches' # << >>
      /\ Targets = << >> => batches' = << >>
  BY <1>1, SplitIsSound
<1>3. DataOK'
  BY DEF Prepare, FlowInv, DataOK, inputs, verifyVars, Stages
<1>4. PlanOK'
  <2>1. batches' \in Seq(PieceLists) /\ Len(batches') \in Nat
    BY <1>2 DEF PackedOK
  <2>2. CASE Targets = << >>
    <3>1. pc' = "completed" /\ Len(batches') = 0
      BY <1>2, <2>2 DEF Prepare
    <3>. QED
      BY <1>1, <2>1, <3>1 DEF PlanOK, Unplanned, Working, After
  <2>3. CASE Targets # << >>
    <3>1. pc' = "assemble" /\ Len(batches') > 0
      BY <1>2, <2>1, <2>3 DEF Prepare
    <3>. QED
      BY <1>1, <2>1, <3>1 DEF PlanOK, Unplanned, Working, After
  <2>. QED
    BY <2>2, <2>3
<1>5. PromptsOK'
  <2>1. pc' \notin {"generate", "shorten"} /\ prompt' = prompt /\ report' = report
    BY DEF Prepare
  <2>. QED
    BY <2>1 DEF FlowInv, PromptsOK
<1>6. ResultsOK'
  BY <1>1 DEF ResultsOK
<1>7. NotesTyped'
  <2>1. omitted' \subseteq Files
    BY <1>1, <1>2, FilesOfPieces
  <2>. QED
    BY <2>1 DEF Prepare, FlowInv, NotesTyped
<1>. QED
  BY <1>3, <1>4, <1>5, <1>6, <1>7 DEF FlowInv

LEMMA ShortenedTyped ==
  ASSUME NEW answer \in Seq(Findings)
  PROVE  Shortened(answer) \in Seq(Findings)
<1>1. PICK m \in Nat : m = Min({Len(answer), MaxShortened}) /\ m <= Len(answer)
  BY MinOfTwo, PipelineAssumption
<1>2. PICK first : first = SubSeq(answer, 1, m)
  OBVIOUS
<1>3. first = [i \in 1..m |-> answer[i]]
  BY <1>1, <1>2
<1>4. \A i \in 1..m : answer[i] \in Findings
  BY <1>1
<1>5. first \in Seq(Findings)
  BY <1>3, <1>4
<1>. QED
  BY <1>1, <1>2, <1>5 DEF Shortened

\* What a step of the verification does to the number of calls.
LEMMA ProceedKeepsRounds ==
  ASSUME NEW k, NEW round \in 0..MaxVerifyBatches, Proceed(k, round)
  PROVE  rounds' \in 0..MaxVerifyBatches
BY PipelineAssumption DEF Proceed

LEMMA NextKeepsFlow ==
  ASSUME FlowInv, [Next]_vars
  PROVE  FlowInv'
<1>1. CASE RetrievalFails
  <2>1. pc \in Unplanned /\ pc' \in Unplanned /\ pc' = "raised"
    BY <1>1 DEF RetrievalFails, Unplanned
  <2>2. DataOK' /\ PlanOK'
    BY <1>1, <2>1, StagesAre
       DEF RetrievalFails, FlowInv, DataOK, PlanOK, inputs, batchVars, verifyVars, Stages
  <2>3. PromptsOK' /\ ResultsOK' /\ NotesTyped'
    BY <1>1, <2>1
       DEF RetrievalFails, FlowInv, PromptsOK, ResultsOK, NotesTyped, PromptFor, batchVars, notes
  <2>. QED
    BY <2>2, <2>3 DEF FlowInv
<1>2. CASE Prepare
  BY <1>2, PrepareKeepsFlow
<1>3. CASE Assemble
  <2>0. pc \in Working
    BY <1>3 DEF Assemble, Working
  <2>1. CASE prompt' \in Assembled(FALSE) /\ report' = prompt' /\ pc' = "generate"
             /\ UNCHANGED << n, again, notes, successful >>
    <3>1. UNCHANGED << inputs, batchVars, notes, again, successful, reason, rounds >>
      BY <1>3, <2>1 DEF Assemble, batchVars, verifyVars
    <3>. QED
      BY <2>0, <2>1, <3>1, AssembledKeepsFlow
  <2>2. CASE GiveUp
    <3>1. /\ reason' \in Reasons /\ batches' = batches /\ chars' = chars /\ tokens' = tokens
          /\ rounds' = rounds
      BY <1>3 DEF Assemble, FlowInv, DataOK, inputs, verifyVars
    <3>. QED
      BY <2>0, <2>2, <3>1, GiveUpKeepsFlow
  <2>. QED
    BY <1>3, <2>1, <2>2 DEF Assemble
<1>4. CASE Generate
  <2>1. PICK answer \in Answers : Succeed(answer, prompt, prompt)
    BY <1>4 DEF Generate
  <2>2. answer \in Seq(Findings)
    BY PipelineAssumption
  <2>3. /\ pc \in {"generate", "shorten"} /\ reason' = reason /\ batches' = batches
        /\ chars' = chars /\ tokens' = tokens /\ rounds' = rounds
    BY <1>4 DEF Generate, inputs, verifyVars
  <2>. QED
    BY <2>1, <2>2, <2>3, SucceedKeepsFlow
<1>5. CASE GenerateTimesOut
  <2>1. /\ GiveUp /\ pc \in Working /\ reason' \in Reasons /\ batches' = batches
        /\ chars' = chars /\ tokens' = tokens /\ rounds' = rounds
    BY <1>5 DEF GenerateTimesOut, inputs, verifyVars, Working, Reasons
  <2>. QED
    BY <2>1, GiveUpKeepsFlow
<1>6. CASE GenerateFails
  <2>1. CASE GiveUp /\ reason' \in {"parse_error", "server_error"}
    <3>1. /\ pc \in Working /\ reason' \in Reasons /\ batches' = batches
          /\ chars' = chars /\ tokens' = tokens /\ rounds' = rounds
      BY <1>6, <2>1 DEF GenerateFails, inputs, verifyVars, Working, Reasons
    <3>. QED
      BY <2>1, <3>1, GiveUpKeepsFlow
  <2>2. CASE ~(GiveUp /\ reason' \in {"parse_error", "server_error"})
    <3>1. /\ again' \in BOOLEAN /\ pc' = pc /\ reason' = reason /\ rounds' = rounds
          /\ UNCHANGED << inputs, batchVars, notes, prompt, report, successful >>
      BY <1>6, <2>2 DEF GenerateFails, verifyVars, batchVars
    <3>2. DataOK' /\ PlanOK'
      BY <3>1 DEF FlowInv, DataOK, PlanOK, inputs, batchVars
    <3>3. PromptsOK' /\ ResultsOK' /\ NotesTyped'
      BY <3>1 DEF FlowInv, PromptsOK, ResultsOK, NotesTyped, PromptFor, batchVars, notes
    <3>. QED
      BY <3>2, <3>3 DEF FlowInv
  <2>. QED
    BY <2>1, <2>2
<1>7. CASE GenerateTruncated
  <2>1. CASE GiveUp /\ reason' = "output_truncated"
    <3>1. /\ pc \in Working /\ reason' \in Reasons /\ batches' = batches
          /\ chars' = chars /\ tokens' = tokens /\ rounds' = rounds
      BY <1>7, <2>1 DEF GenerateTruncated, inputs, verifyVars, Working, Reasons
    <3>. QED
      BY <2>1, <3>1, GiveUpKeepsFlow
  <2>2. CASE ~(GiveUp /\ reason' = "output_truncated")
    <3>1. /\ prompt' \in Assembled(TRUE) /\ pc' = "shorten" /\ pc = "generate"
          /\ report' = report
          /\ UNCHANGED << inputs, batchVars, notes, again, successful, reason, rounds >>
      BY <1>7, <2>2 DEF GenerateTruncated, verifyVars, batchVars
    <3>2. pc \in Working
      BY <3>1 DEF Working
    <3>. QED
      BY <3>1, <3>2, AssembledKeepsFlow
  <2>. QED
    BY <2>1, <2>2
<1>8. CASE Retry
  <2>1. PICK answer \in Answers : Succeed(Shortened(answer), prompt, prompt)
    BY <1>8 DEF Retry
  <2>2. Shortened(answer) \in Seq(Findings)
    BY ShortenedTyped, PipelineAssumption
  <2>3. /\ pc \in {"generate", "shorten"} /\ reason' = reason /\ batches' = batches
        /\ chars' = chars /\ tokens' = tokens /\ rounds' = rounds
    BY <1>8 DEF Retry, inputs, verifyVars
  <2>. QED
    BY <2>1, <2>2, <2>3, SucceedKeepsFlow
<1>9. CASE RetryFails
  <2>1. /\ GiveUp /\ pc \in Working /\ reason' \in Reasons /\ batches' = batches
        /\ chars' = chars /\ tokens' = tokens /\ rounds' = rounds
    BY <1>9 DEF RetryFails, inputs, verifyVars, Working, Reasons
  <2>. QED
    BY <2>1, GiveUpKeepsFlow
<1>10. CASE Reduce
  <2>1. /\ pc = "reduce" /\ pc' = "verify" /\ reason' = reason /\ rounds' = rounds
        /\ again' = again /\ reviewed' = reviewed
        /\ omitted' = omitted \ reviewed
        /\ partial' = (partial \cup (omitted \cap reviewed)) \ omitted'
        /\ UNCHANGED << inputs, batchVars, prompt, report, successful >>
    BY <1>10 DEF Reduce
  <2>2. DataOK' /\ PlanOK'
    BY <2>1 DEF FlowInv, DataOK, PlanOK, inputs, batchVars, Stages, Unplanned, Working, After
  <2>3. PromptsOK' /\ ResultsOK'
    BY <2>1 DEF FlowInv, PromptsOK, ResultsOK, PromptFor, batchVars, Unplanned
  <2>4. NotesTyped'
    BY <2>1 DEF FlowInv, NotesTyped
  <2>. QED
    BY <2>2, <2>3, <2>4 DEF FlowInv
<1>11. CASE Verify
  <2>1. /\ UNCHANGED << inputs, batchVars, notes, again, prompt, report, successful, calls >>
        /\ pc' = pc /\ reason' = reason
    BY <1>11 DEF Verify
  <2>2. rounds' \in 0..MaxVerifyBatches
    <3>1. PICK k : Proceed(k, rounds + 1)
      BY <1>11 DEF Verify
    <3>2. rounds + 1 \in 0..MaxVerifyBatches
      BY <1>11, PipelineAssumption DEF Verify, FlowInv, DataOK
    <3>. QED
      BY <3>1, <3>2, ProceedKeepsRounds
  <2>. QED
    BY <2>1, <2>2, StayKeepsFlow
<1>12. CASE Discard
  <2>1. /\ UNCHANGED << inputs, batchVars, notes, again, prompt, report, successful, calls >>
        /\ pc' = pc /\ reason' = reason
    BY <1>12 DEF Discard
  <2>2. rounds' \in 0..MaxVerifyBatches
    BY <1>12, ProceedKeepsRounds DEF Discard, FlowInv, DataOK
  <2>. QED
    BY <2>1, <2>2, StayKeepsFlow
<1>13. CASE Publish
  <2>1. /\ pc = "verify" /\ pc' = "completed" /\ reason' = reason /\ rounds' = rounds
        /\ UNCHANGED << inputs, batchVars, notes, again, prompt, report, successful >>
    BY <1>13 DEF Publish
  <2>2. DataOK' /\ PlanOK'
    BY <2>1 DEF FlowInv, DataOK, PlanOK, inputs, batchVars, Stages, Unplanned, Working, After
  <2>3. PromptsOK' /\ ResultsOK' /\ NotesTyped'
    BY <2>1 DEF FlowInv, PromptsOK, ResultsOK, NotesTyped, PromptFor, batchVars, notes, Unplanned
  <2>. QED
    BY <2>2, <2>3 DEF FlowInv
<1>14. CASE UNCHANGED vars
  <2>1. rounds' \in 0..MaxVerifyBatches
    BY <1>14 DEF vars, verifyVars, FlowInv, DataOK
  <2>. QED
    BY <1>14, <2>1, StayKeepsFlow DEF vars
<1>. QED
  BY <1>1, <1>2, <1>3, <1>4, <1>5, <1>6, <1>7, <1>8, <1>9, <1>10, <1>11, <1>12, <1>13,
     <1>14 DEF Next

LEMMA FlowAlways == Spec => []FlowInv
<1>1. FlowInv /\ [Next]_vars => FlowInv'
  BY NextKeepsFlow
<1>. QED
  BY InitFlow, <1>1, PTL DEF Spec

LEMMA FlowGivesTypes == FlowInv => TypeOK
<1>. SUFFICES ASSUME FlowInv PROVE TypeOK
  OBVIOUS
<1>1. n \in 1..(Len(batches) + 1)
  BY StagesAre DEF FlowInv, DataOK, PlanOK
<1>2. \A i \in DOMAIN batches : batches[i] \in Seq(Pieces)
  BY DEF FlowInv, PlanOK, PieceLists
<1>3. prompt.whole \cup prompt.cut \cup prompt.dropped \subseteq Pieces
  BY DEF FlowInv, PromptsOK, Prompts
<1>4. \A i \in DOMAIN successful : successful[i].prompt.batch \in DOMAIN batches
  <2>1. Len(batches) \in Nat /\ n \in Nat /\ DOMAIN batches = 1..Len(batches)
    BY DEF FlowInv, PlanOK
  <2>. QED
    BY <1>1, <2>1 DEF FlowInv, ResultsOK
<1>5. omitted \cup partial \cup reviewed \subseteq Files
  BY DEF FlowInv, NotesTyped
<1>. QED
  BY <1>1, <1>2, <1>3, <1>4, <1>5 DEF TypeOK, FlowInv, DataOK

\* The state of a review keeps its type (run() in app/review/pipeline.py): the
\* number of the batch at work stays within the batches, and what a prompt shows,
\* the notes and the results name only pieces, files and batches of the review.
THEOREM PipelineTypeCorrect == Spec => []TypeOK
BY FlowAlways, FlowGivesTypes, PTL

\* The batches that are tried and the pieces beyond the cap are the pieces of the
\* pull request, each of them once, and only a piece alone in its batch is over
\* budget (_split_targets_into_batches, app/review/pipeline.py).
THEOREM SplitSoundAlways == Spec => []SplitSound
<1>1. ASSUME FlowInv PROVE SplitSound
  <2>. SUFFICES ASSUME pc = "assemble" /\ n = 1
       PROVE  LET tried == Joined(batches)
                  rest == BeyondCap(Targets, chars, tokens)
              IN  /\ IsInjective(tried) /\ Range(tried) = Pieces \ rest
                  /\ \A i \in DOMAIN batches :
                       Len(batches[i]) > 1 =>
                         /\ TokensOf(batches[i], tokens) <= TokensFor(i)
                         /\ CharsOf(batches[i], chars) <= CharsFor(i)
    BY DEF SplitSound
  <2>1. batches = Batches(Targets, chars, tokens)
    BY <1>1 DEF FlowInv, PlanOK, Unplanned
  <2>. QED
    BY <2>1, SplitIsSound DEF PackedOK, Fits
<1>. QED
  BY <1>1, FlowAlways, PTL

(***************************************************************************)
(* The calls of a batch.                                                   *)
(***************************************************************************)
\* Calls of the batches that are done, of the one at work and of the others.
CallsInv ==
  /\ calls \in [1..Len(batches) -> Nat]
  /\ \A i \in 1..Len(batches) : calls[i] <= 3 /\ (i > n => calls[i] = 0)
  /\ pc = "assemble" => calls[n] = 0
  /\ pc \in {"prepare", "assemble"} => ~again
  /\ pc = "generate" => calls[n] = IF again THEN 1 ELSE 0
  /\ pc = "shorten" => calls[n] <= 2
  /\ timeouts \subseteq 1..(n - 1)

\* The reason is that of the batches that failed so far, as long as none succeeded.
FailInv ==
  /\ pc = "failed" => successful = << >>
  /\ successful = << >> =>
       (reason = "context_overflow" <=> \A i \in 1..(n - 1) : calls[i] = 0)

\* The calls of a batch that goes on or ends after one call more.
LEMMA CallCounts ==
  ASSUME FlowInv, CallsInv, pc \in {"generate", "shorten"}, Call,
         batches' = batches
  PROVE  /\ calls' \in [1..Len(batches') -> Nat]
         /\ \A i \in 1..Len(batches) : i # n => calls'[i] = calls[i]
         /\ calls'[n] = calls[n] + 1 /\ calls'[n] \in 1..3
         /\ n \in 1..Len(batches) /\ Len(batches) \in Nat
<1>1. n \in 1..Len(batches) /\ Len(batches) \in Nat
  BY DEF FlowInv, PlanOK, Working
<1>2. calls[n] \in 0..2
  BY <1>1 DEF CallsInv
<1>. QED
  BY <1>1, <1>2 DEF CallsInv, Call

\* The end of a batch after a call.
LEMMA EndKeepsCalls ==
  ASSUME FlowInv, CallsInv, pc \in {"generate", "shorten"}, Call, NEW results,
         NextBatch(results), batches' = batches, timeouts' \in {timeouts, timeouts \cup {n}}
  PROVE  CallsInv'
<1>1. /\ calls' \in [1..Len(batches') -> Nat]
      /\ \A i \in 1..Len(batches) : i # n => calls'[i] = calls[i]
      /\ calls'[n] = calls[n] + 1 /\ calls'[n] \in 1..3
      /\ n \in 1..Len(batches) /\ Len(batches) \in Nat
  BY CallCounts
<1>2. /\ n' = n + 1 /\ again' = FALSE
      /\ pc' = IF n < Len(batches) THEN "assemble" ELSE IF results = << >> THEN "failed" ELSE "reduce"
  BY DEF NextBatch
<1>3. timeouts' \subseteq 1..(n' - 1)
  <2>1. timeouts \subseteq 1..(n - 1)
    BY DEF CallsInv
  <2>2. \A i \in 1..(n - 1) : i \in 1..n
    BY <1>1
  <2>3. n \in 1..n /\ n' - 1 = n
    BY <1>1, <1>2
  <2>. QED
    BY <2>1, <2>2, <2>3
<1>4. \A i \in 1..Len(batches') : calls'[i] <= 3 /\ (i > n' => calls'[i] = 0)
  BY <1>1, <1>2 DEF CallsInv
<1>5. pc' = "assemble" => calls'[n'] = 0
  BY <1>1, <1>2 DEF CallsInv
<1>6. pc' \notin {"generate", "shorten"}
  BY <1>2
<1>. QED
  BY <1>1, <1>2, <1>3, <1>4, <1>5, <1>6 DEF CallsInv

\* A step without a call that does not end a batch.
LEMMA NoCallKeepsCalls ==
  ASSUME FlowInv, CallsInv, UNCHANGED << batches, n, again, calls, timeouts >>,
         \/ pc' = pc
         \/ pc = "assemble" /\ pc' = "generate"
         \/ pc' \notin Working \cup {"prepare"}
  PROVE  CallsInv'
BY DEF CallsInv, Working

LEMMA NextKeepsCalls ==
  ASSUME FlowInv, FlowInv', CallsInv, [Next]_vars
  PROVE  CallsInv'
<1>1. CASE RetrievalFails
  BY <1>1, NoCallKeepsCalls DEF RetrievalFails, batchVars, Working
<1>2. CASE Prepare
  <2>1. /\ n = 1 /\ n' = 1 /\ timeouts' = timeouts /\ pc' \notin {"generate", "shorten"}
        /\ calls' = [i \in DOMAIN batches' |-> 0] /\ again' = again
    BY <1>2 DEF Prepare, FlowInv, PlanOK, Unplanned
  <2>2. DOMAIN batches' = 1..Len(batches')
    BY DEF FlowInv, PlanOK
  <2>3. pc' = "assemble" => n' \in 1..Len(batches')
    BY DEF FlowInv, PlanOK, Working
  <2>4. ~again
    BY <1>2 DEF Prepare, CallsInv
  <2>5. timeouts \subseteq 1..(n - 1)
    BY DEF CallsInv
  <2>. QED
    BY <2>1, <2>2, <2>3, <2>4, <2>5 DEF CallsInv
<1>3. CASE Assemble
  <2>0. pc = "assemble" /\ calls' = calls /\ timeouts' = timeouts /\ batches' = batches
    BY <1>3 DEF Assemble
  <2>1. CASE pc' = "generate" /\ n' = n /\ again' = again
    BY <2>0, <2>1, NoCallKeepsCalls
  <2>2. CASE GiveUp
    <3>1. /\ n' = n + 1 /\ again' = FALSE /\ pc' \notin {"generate", "shorten"}
      BY <2>2 DEF GiveUp, NextBatch
    <3>2. n \in 1..Len(batches) /\ Len(batches) \in Nat
      BY <2>0 DEF FlowInv, PlanOK, Working
    <3>3. calls[n] = 0
      BY <2>0 DEF CallsInv
    <3>4. pc' = "assemble" => n' \in 1..Len(batches')
      BY DEF FlowInv, PlanOK, Working
    <3>5. timeouts' \subseteq 1..(n' - 1)
      BY <2>0, <3>1, <3>2 DEF CallsInv
    <3>. QED
      BY <2>0, <3>1, <3>2, <3>3, <3>4, <3>5 DEF CallsInv
  <2>. QED
    BY <1>3, <2>1, <2>2 DEF Assemble
<1>4. CASE Generate \/ Retry
  <2>1. /\ Call /\ pc \in {"generate", "shorten"} /\ batches' = batches /\ timeouts' = timeouts
    BY <1>4 DEF Generate, Retry
  <2>2. \E results : NextBatch(results)
    BY <1>4 DEF Generate, Retry, Succeed
  <2>. QED
    BY <2>1, <2>2, EndKeepsCalls
<1>5. CASE GenerateTimesOut \/ RetryFails
  <2>1. /\ Call /\ pc \in {"generate", "shorten"} /\ batches' = batches
        /\ timeouts' \in {timeouts, timeouts \cup {n}} /\ NextBatch(successful)
    BY <1>5 DEF GenerateTimesOut, RetryFails, GiveUp
  <2>. QED
    BY <2>1, EndKeepsCalls
<1>6. CASE GenerateFails \/ GenerateTruncated
  <2>0. Call /\ pc = "generate" /\ batches' = batches /\ timeouts' = timeouts
    BY <1>6 DEF GenerateFails, GenerateTruncated
  <2>1. CASE GiveUp
    BY <2>0, <2>1, EndKeepsCalls DEF GiveUp
  <2>2. CASE ~GiveUp
    <3>1. /\ calls' \in [1..Len(batches') -> Nat]
          /\ \A i \in 1..Len(batches) : i # n => calls'[i] = calls[i]
          /\ calls'[n] = calls[n] + 1 /\ calls'[n] \in 1..3
          /\ n \in 1..Len(batches) /\ Len(batches) \in Nat
      BY <2>0, CallCounts
    <3>2. n' = n /\ \/ pc' = "generate" /\ ~again /\ again' = TRUE
                    \/ pc' = "shorten" /\ again' = again
      BY <1>6, <2>0, <2>2 DEF GenerateFails, GenerateTruncated
    <3>3. calls[n] = IF again THEN 1 ELSE 0
      BY <2>0 DEF CallsInv
    <3>4. /\ pc' = "generate" => calls'[n'] = IF again' THEN 1 ELSE 0
          /\ pc' = "shorten" => calls'[n'] <= 2
          /\ pc' \notin {"prepare", "assemble"}
      BY <3>1, <3>2, <3>3
    <3>5. \A i \in 1..Len(batches') : calls'[i] <= 3 /\ (i > n' => calls'[i] = 0)
      BY <2>0, <3>1, <3>2 DEF CallsInv
    <3>6. timeouts' \subseteq 1..(n' - 1)
      BY <2>0, <3>2 DEF CallsInv
    <3>. QED
      BY <3>1, <3>4, <3>5, <3>6 DEF CallsInv
  <2>. QED
    BY <2>1, <2>2
<1>7. CASE Reduce \/ Verify \/ Discard \/ Publish
  BY <1>7, NoCallKeepsCalls DEF Reduce, Verify, Discard, Publish, batchVars, Working
<1>8. CASE UNCHANGED vars
  <2>1. UNCHANGED << batches, n, again, calls, timeouts, pc >>
    BY <1>8 DEF vars, batchVars
  <2>2. UNCHANGED << batches, n, again, calls, timeouts >> /\ pc' = pc
    BY <2>1
  <2>. QED
    BY <2>2, NoCallKeepsCalls
<1>. QED
  BY <1>1, <1>2, <1>3, <1>4, <1>5, <1>6, <1>7, <1>8 DEF Next

LEMMA InitCalls == Init => CallsInv
<1>1. ASSUME Init PROVE CallsInv
  <2>1. calls = << >> /\ batches = << >> /\ timeouts = {} /\ pc = "prepare" /\ 1..0 = {}
    BY <1>1 DEF Init
  <2>. QED
    BY <1>1, <2>1 DEF CallsInv, Init
<1>. QED
  BY <1>1

LEMMA CallsAlways == Spec => []CallsInv
<1>1. FlowInv /\ FlowInv' /\ CallsInv /\ [Next]_vars => CallsInv'
  BY NextKeepsCalls
<1>. QED
  BY InitCalls, FlowAlways, <1>1, PTL DEF Spec

\* A batch costs at most three calls to the model, and none after one that timed
\* out (_generate_batch and _retry_shortened, app/review/pipeline.py).
THEOREM CallsBoundedAlways == Spec => []CallsBounded
<1>1. ASSUME FlowInv, CallsInv PROVE CallsBounded
  <2>1. n \in Nat
    BY <1>1 DEF FlowInv, PlanOK
  <2>2. n \notin 1..(n - 1)
    BY <2>1
  <2>. QED
    BY <1>1, <2>2 DEF CallsInv, CallsBounded
<1>. QED
  BY <1>1, FlowAlways, CallsAlways, PTL

(***************************************************************************)
(* The reason of a review that fails.                                      *)
(***************************************************************************)
\* A batch fails after a call, for another reason than its size.
LEMMA FailedCallKeepsReason ==
  ASSUME FlowInv, CallsInv, FailInv, pc \in {"generate", "shorten"}, Call, GiveUp,
         reason' # "context_overflow", batches' = batches
  PROVE  FailInv'
<1>1. /\ calls'[n] \in 1..3 /\ n \in 1..Len(batches) /\ Len(batches) \in Nat
  BY CallCounts
<1>2. /\ n' = n + 1 /\ successful' = successful
      /\ pc' = IF n < Len(batches) THEN "assemble"
               ELSE IF successful = << >> THEN "failed" ELSE "reduce"
  BY DEF GiveUp, NextBatch
<1>3. n \in 1..(n' - 1) /\ calls'[n] # 0
  BY <1>1, <1>2
<1>4. pc' = "failed" => successful' = << >>
  BY <1>2
<1>. QED
  BY <1>3, <1>4 DEF FailInv

\* A batch whose prompt does not fit fails without a call.
LEMMA OverflowKeepsReason ==
  ASSUME FlowInv, CallsInv, FailInv, pc = "assemble", GiveUp,
         reason' = reason, calls' = calls
  PROVE  FailInv'
<1>1. n \in 1..Len(batches) /\ Len(batches) \in Nat /\ calls[n] = 0
  BY DEF FlowInv, PlanOK, CallsInv, Working
<1>2. /\ n' = n + 1 /\ successful' = successful
      /\ pc' = IF n < Len(batches) THEN "assemble"
               ELSE IF successful = << >> THEN "failed" ELSE "reduce"
  BY DEF GiveUp, NextBatch
<1>3. 1..(n' - 1) = 1..(n - 1) \cup {n}
  BY <1>1, <1>2
<1>4. (\A i \in 1..(n' - 1) : calls'[i] = 0) <=> (\A i \in 1..(n - 1) : calls[i] = 0)
  BY <1>1, <1>3
<1>5. pc' = "failed" => successful' = << >>
  BY <1>2
<1>. QED
  BY <1>2, <1>4, <1>5 DEF FailInv

\* A step that ends no batch.
LEMMA StayKeepsReason ==
  ASSUME FlowInv, FailInv, n' = n, successful' = successful, reason' = reason,
         \A i \in 1..(n - 1) : calls'[i] = calls[i],
         pc' # "failed" \/ pc = "failed"
  PROVE  FailInv'
<1>1. (\A i \in 1..(n' - 1) : calls'[i] = 0) <=> (\A i \in 1..(n - 1) : calls[i] = 0)
  OBVIOUS
<1>2. pc' = "failed" => successful' = << >>
  BY DEF FailInv
<1>. QED
  BY <1>1, <1>2 DEF FailInv

LEMMA NextKeepsReason ==
  ASSUME FlowInv, CallsInv, FailInv, [Next]_vars
  PROVE  FailInv'
<1>1. CASE Prepare
  <2>1. /\ n' = n /\ n = 1 /\ successful' = successful /\ reason' = reason /\ pc' # "failed"
    BY <1>1 DEF Prepare, FlowInv, PlanOK, Unplanned
  <2>2. \A i \in 1..(n - 1) : calls'[i] = calls[i]
    BY <2>1
  <2>. QED
    BY <2>1, <2>2, StayKeepsReason
<1>2. CASE Assemble
  <2>1. CASE GiveUp
    BY <1>2, <2>1, OverflowKeepsReason DEF Assemble
  <2>2. CASE ~GiveUp
    <3>1. /\ n' = n /\ successful' = successful /\ reason' = reason /\ pc' # "failed"
          /\ calls' = calls
      BY <1>2, <2>2 DEF Assemble
    <3>. QED
      BY <3>1, StayKeepsReason
  <2>. QED
    BY <2>1, <2>2
<1>3. CASE Generate \/ Retry
  <2>1. PICK result : /\ successful' = Append(successful, result)
                      /\ NextBatch(Append(successful, result))
    BY <1>3 DEF Generate, Retry, Succeed
  <2>2. Append(successful, result) # << >>
    <3>1. PICK m \in Nat : m = Len(successful)
      BY DEF FlowInv, ResultsOK
    <3>2. Len(Append(successful, result)) = m + 1
      BY <3>1 DEF FlowInv, ResultsOK
    <3>. QED
      BY <3>1, <3>2
  <2>3. pc' # "failed"
    BY <2>1, <2>2 DEF NextBatch
  <2>. QED
    BY <2>1, <2>2, <2>3 DEF FailInv
<1>4. CASE GenerateTimesOut \/ RetryFails
  <2>1. /\ Call /\ pc \in {"generate", "shorten"} /\ batches' = batches /\ GiveUp
        /\ reason' # "context_overflow"
    BY <1>4 DEF GenerateTimesOut, RetryFails
  <2>. QED
    BY <2>1, FailedCallKeepsReason
<1>5. CASE GenerateFails \/ GenerateTruncated
  <2>0. Call /\ pc = "generate" /\ batches' = batches
    BY <1>5 DEF GenerateFails, GenerateTruncated
  <2>1. CASE GiveUp /\ reason' # "context_overflow"
    BY <2>0, <2>1, FailedCallKeepsReason
  <2>2. CASE ~(GiveUp /\ reason' # "context_overflow")
    <3>1. /\ n' = n /\ successful' = successful /\ reason' = reason
          /\ pc' \in {"generate", "shorten"}
      BY <1>5, <2>0, <2>2 DEF GenerateFails, GenerateTruncated
    <3>2. \A i \in 1..(n - 1) : calls'[i] = calls[i]
      <4>1. n \in 1..Len(batches) /\ Len(batches) \in Nat
        BY <2>0 DEF FlowInv, PlanOK, Working
      <4>2. \A i \in 1..(n - 1) : i \in 1..Len(batches) /\ i # n
        BY <4>1
      <4>. QED
        BY <2>0, <4>2, CallCounts
    <3>. QED
      BY <3>1, <3>2, StayKeepsReason
  <2>. QED
    BY <2>1, <2>2
<1>6. CASE RetrievalFails \/ Reduce \/ Verify \/ Discard \/ Publish
  <2>1. /\ n' = n /\ successful' = successful /\ reason' = reason /\ calls' = calls
        /\ pc' # "failed" \/ pc = "failed"
    BY <1>6 DEF RetrievalFails, Reduce, Verify, Discard, Publish, batchVars
  <2>. QED
    BY <2>1, StayKeepsReason
<1>7. CASE UNCHANGED vars
  <2>1. /\ n' = n /\ successful' = successful /\ reason' = reason /\ calls' = calls
        /\ pc' = pc
    BY <1>7 DEF vars, batchVars
  <2>. QED
    BY <2>1, StayKeepsReason
<1>. QED
  BY <1>1, <1>2, <1>3, <1>4, <1>5, <1>6, <1>7 DEF Next

LEMMA InitReason == Init => FailInv
BY DEF Init, FailInv

\* A review fails only if no call gave an answer, and its reason is the size of
\* the prompt exactly if there was no call at all (run(), app/review/pipeline.py).
THEOREM FailureTrueAlways == Spec => []FailureTrue
<1>1. FlowInv /\ CallsInv /\ FailInv /\ [Next]_vars => FailInv'
  BY NextKeepsReason
<1>2. ASSUME FlowInv, CallsInv, FailInv PROVE FailureTrue
  <2>. SUFFICES ASSUME pc = "failed" PROVE FailureTrue
    BY DEF FailureTrue
  <2>1. n - 1 = Len(batches) /\ DOMAIN calls = 1..Len(batches)
    BY <1>2 DEF FlowInv, PlanOK, CallsInv, After
  <2>. QED
    BY <1>2, <2>1 DEF FailInv, FailureTrue
<1>. QED
  BY <1>1, <1>2, InitReason, FlowAlways, CallsAlways, PTL DEF Spec

(***************************************************************************)
(* The choice of the inline comments.                                      *)
(***************************************************************************)
\* Findings that can be sorted.
Ranked(X) == \A x \in X : x.severity \in DOMAIN SeverityOrder /\ x.confidence \in Int

InOrder(s) == \A i, j \in DOMAIN s : i < j => ~Before(s[j], s[i])
Distinct(s) == \A i, j \in DOMAIN s : s[i].place = s[j].place => i = j

\* Before is an order by rank.
LEMMA BeforeIsOrder ==
  ASSUME NEW X, Ranked(X), NEW x \in X, NEW y \in X
  PROVE  /\ ~Before(x, x)
         /\ Before(x, y) => ~Before(y, x)
         /\ ~Before(y, x) => SeverityOrder[x.severity] <= SeverityOrder[y.severity]
         /\ \A z \in X : ~Before(y, x) /\ ~Before(z, y) => ~Before(z, x)
<1>1. \A z \in X : SeverityOrder[z.severity] \in Nat /\ z.confidence \in Int
  BY DEF Ranked, SeverityOrder
<1>. QED
  BY <1>1 DEF Before

\* The elements a sorted list has before x are its first ones.
LEMMA FirstAreBefore ==
  ASSUME NEW X, Ranked(X), NEW s \in Seq(X), InOrder(s), NEW x \in X
  PROVE  \E m \in 0..Len(s) :
           /\ Cardinality({i \in 1..Len(s) : ~Before(x, s[i])}) = m
           /\ \A i \in 1..m : ~Before(x, s[i])
           /\ \A i \in (m + 1)..Len(s) : Before(x, s[i])
<1>1. PICK l \in Nat : l = Len(s) /\ DOMAIN s = 1..l /\ \A i \in 1..l : s[i] \in X
  OBVIOUS
<1>2. PICK P \in SUBSET (1..l) : P = {i \in 1..l : ~Before(x, s[i])}
  OBVIOUS
<1>3. ASSUME NEW j \in P, NEW i \in 1..l, i < j
      PROVE  i \in P
  <2>1. ~Before(x, s[j]) /\ ~Before(s[j], s[i]) /\ s[i] \in X /\ s[j] \in X
    BY <1>1, <1>2, <1>3 DEF InOrder
  <2>2. ~Before(x, s[i])
    BY <2>1, BeforeIsOrder
  <2>. QED
    BY <1>2, <2>2
<1>4. PICK m \in 0..l : P = 1..m
  <2>1. CASE P = {}
    BY <2>1
  <2>2. CASE P # {}
    <3>1. PICK b : b = Max(P)
      OBVIOUS
    <3>2. b \in P /\ \A i \in P : i <= b
      BY <1>1, <2>2, <3>1, MaxOfNats
    <3>3. b \in 1..l /\ \A i \in 1..b : i \in 1..l /\ (i = b \/ i < b)
      BY <3>2
    <3>4. \A i \in 1..b : i \in P
      BY <1>3, <3>2, <3>3
    <3>5. \A i \in P : i \in 1..b
      BY <3>2, <3>3
    <3>6. P = 1..b
      BY <3>4, <3>5
    <3>. QED
      BY <3>3, <3>6
  <2>. QED
    BY <2>1, <2>2
<1>5. Cardinality(P) = m
  <2>1. Cardinality(1..m) = m
    <3>1. 1 \in Int /\ m \in Int
      BY <1>4
    <3>2. Cardinality(1..m) = IF 1 > m THEN 0 ELSE m - 1 + 1
      BY <3>1, FS_Interval
    <3>. QED
      BY <1>4, <3>2
  <2>. QED
    BY <1>4, <2>1
<1>6. \A i \in (m + 1)..l : i \in 1..l /\ i \notin 1..m
  BY <1>4
<1>7. /\ Cardinality({i \in 1..Len(s) : ~Before(x, s[i])}) = m
      /\ \A i \in 1..m : ~Before(x, s[i])
      /\ \A i \in (m + 1)..Len(s) : Before(x, s[i])
  <2>1. {i \in 1..Len(s) : ~Before(x, s[i])} = P
    BY <1>1, <1>2
  <2>2. \A i \in 1..m : ~Before(x, s[i])
    BY <1>2, <1>4
  <2>3. \A i \in (m + 1)..l : Before(x, s[i])
    BY <1>2, <1>4, <1>6
  <2>. QED
    BY <1>1, <1>5, <2>1, <2>2, <2>3
<1>. QED
  BY <1>1, <1>4, <1>7

\* The list u is s, of length k, and then t, of length l.
ConcatOf(u, X, s, t, k, l) ==
  /\ u \in Seq(X) /\ Len(u) = k + l /\ DOMAIN u = 1..(k + l)
  /\ \A i \in 1..k : u[i] = s[i]
  /\ \A i \in (k + 1)..(k + l) : u[i] = t[i - k]

LEMMA ConcatIs ==
  ASSUME NEW X, NEW s \in Seq(X), NEW t \in Seq(X)
  PROVE  ConcatOf(s \o t, X, s, t, Len(s), Len(t))
<1>1. PICK k \in Nat, l \in Nat : k = Len(s) /\ DOMAIN s = 1..k /\ l = Len(t) /\ DOMAIN t = 1..l
  OBVIOUS
<1>2. PICK u : u = s \o t
  OBVIOUS
<1>3. /\ u \in Seq(X) /\ Len(u) = k + l /\ DOMAIN u = 1..(k + l)
      /\ \A i \in 1..k : u[i] = s[i]
      /\ \A i \in (k + 1)..(k + l) : u[i] = t[i - k]
  BY <1>1, <1>2
<1>. QED
  BY <1>1, <1>2, <1>3 DEF ConcatOf

\* The list t is s, of length l, with x in place m + 1.
PlacedIn(t, X, s, l, x, m) ==
  /\ t \in Seq(X) /\ DOMAIN t = 1..(l + 1)
  /\ \A i \in 1..m : t[i] = s[i]
  /\ t[m + 1] = x
  /\ \A i \in (m + 2)..(l + 1) : t[i] = s[i - 1]

LEMMA PutAt ==
  ASSUME NEW X, NEW s \in Seq(X), NEW x \in X, NEW m \in 0..Len(s), NEW t,
         t = SubSeq(s, 1, m) \o << x >> \o SubSeq(s, m + 1, Len(s))
  PROVE  PlacedIn(t, X, s, Len(s), x, m)
<1>1. PICK l \in Nat : l = Len(s) /\ DOMAIN s = 1..l /\ \A i \in 1..l : s[i] \in X
  OBVIOUS
<1>2. PICK a : a = SubSeq(s, 1, m)
  OBVIOUS
<1>3. a \in Seq(X) /\ Len(a) = m /\ \A i \in 1..m : a[i] = s[i]
  <2>1. a = [i \in 1..m |-> s[i]]
    BY <1>1, <1>2
  <2>2. \A i \in 1..m : s[i] \in X
    BY <1>1
  <2>. QED
    BY <1>1, <2>1, <2>2
<1>4. PICK c : c = SubSeq(s, m + 1, l)
  OBVIOUS
<1>5. c \in Seq(X) /\ Len(c) = l - m /\ \A i \in 1..(l - m) : c[i] = s[i + m]
  <2>1. l - m \in Nat /\ \A i \in 1..(l - m) : i + m \in 1..l
    BY <1>1
  <2>2. c = [i \in 1..(l - m) |-> s[i + m]]
    BY <1>1, <1>4, <2>1
  <2>3. \A i \in 1..(l - m) : s[i + m] \in X
    BY <1>1, <2>1
  <2>. QED
    BY <2>1, <2>2, <2>3
<1>6. PICK one : one = << x >>
  OBVIOUS
<1>7. one \in Seq(X) /\ Len(one) = 1 /\ one[1] = x
  BY <1>6
<1>8. PICK d : d = a \o one
  OBVIOUS
<1>9. d \in Seq(X) /\ Len(d) = m + 1 /\ d[m + 1] = x /\ \A i \in 1..m : d[i] = s[i]
  <2>1. /\ d \in Seq(X) /\ Len(d) = m + 1
        /\ \A i \in 1..m : d[i] = a[i]
        /\ \A i \in (m + 1)..(m + 1) : d[i] = one[i - m]
    <3>1. ConcatOf(a \o one, X, a, one, Len(a), Len(one))
      BY <1>3, <1>7, ConcatIs
    <3>. QED
      BY <1>3, <1>8, <1>7, <3>1 DEF ConcatOf
  <2>2. d[m + 1] = one[1]
    BY <1>1, <2>1
  <2>. QED
    BY <1>3, <1>7, <2>1, <2>2
<1>10. t = d \o c
  BY <1>1, <1>2, <1>4, <1>6, <1>8
<1>11. PICK k : k = l - m
  OBVIOUS
<1>12. k \in Nat /\ (m + 1) + k = l + 1
  BY <1>1, <1>11
<1>13. /\ t \in Seq(X) /\ DOMAIN t = 1..(l + 1)
       /\ \A i \in 1..(m + 1) : t[i] = d[i]
       /\ \A i \in (m + 2)..(l + 1) : t[i] = c[i - (m + 1)]
  <2>1. m + 1 \in Nat /\ (m + 1) + 1 = m + 2
    BY <1>1
  <2>2. /\ d \o c \in Seq(X) /\ DOMAIN (d \o c) = 1..((m + 1) + k)
        /\ \A i \in 1..(m + 1) : (d \o c)[i] = d[i]
        /\ \A i \in ((m + 1) + 1)..((m + 1) + k) : (d \o c)[i] = c[i - (m + 1)]
    <3>1. ConcatOf(d \o c, X, d, c, Len(d), Len(c))
      BY <1>5, <1>9, ConcatIs
    <3>. QED
      BY <1>5, <1>9, <1>11, <3>1 DEF ConcatOf
  <2>. QED
    BY <1>10, <1>12, <2>1, <2>2
<1>14. \A i \in (m + 2)..(l + 1) : t[i] = s[i - 1]
  <2>1. ASSUME NEW i \in (m + 2)..(l + 1)
        PROVE  i - (m + 1) \in 1..(l - m) /\ (i - (m + 1)) + m = i - 1
    BY <1>1, <2>1
  <2>. QED
    BY <1>5, <1>13, <2>1
<1>15. \A i \in 1..m : i \in 1..(m + 1)
  BY <1>1
<1>16. m + 1 \in 1..(m + 1)
  BY <1>1
<1>. QED
  BY <1>1, <1>9, <1>13, <1>14, <1>15, <1>16 DEF PlacedIn

\* A sorted list of the elements of E.
SortedOf(s, X, E) == s \in Seq(X) /\ InOrder(s) /\ Range(s) = E

LEMMA InsertIs ==
  ASSUME NEW X, Ranked(X), NEW s \in Seq(X), InOrder(s), NEW x \in X
  PROVE  SortedOf(Insert(s, x), X, Range(s) \cup {x})
<1>1. PICK l \in Nat : l = Len(s) /\ DOMAIN s = 1..l /\ \A i \in 1..l : s[i] \in X
  OBVIOUS
<1>2. PICK m \in 0..l : /\ Cardinality({i \in 1..Len(s) : ~Before(x, s[i])}) = m
                        /\ \A i \in 1..m : ~Before(x, s[i])
                        /\ \A i \in (m + 1)..l : Before(x, s[i])
  BY <1>1, FirstAreBefore
<1>3. PICK t : t = SubSeq(s, 1, m) \o << x >> \o SubSeq(s, m + 1, Len(s))
  OBVIOUS
<1>4. t = Insert(s, x)
  BY <1>2, <1>3 DEF Insert
<1>5. /\ t \in Seq(X) /\ DOMAIN t = 1..(l + 1)
      /\ \A i \in 1..m : t[i] = s[i]
      /\ t[m + 1] = x
      /\ \A i \in (m + 2)..(l + 1) : t[i] = s[i - 1]
  <2>1. m \in 0..Len(s)
    BY <1>1
  <2>2. PlacedIn(t, X, s, Len(s), x, m)
    BY <1>3, <2>1, PutAt
  <2>. QED
    BY <1>1, <2>2 DEF PlacedIn
<1>6. \A i \in 1..(l + 1) : \/ i \in 1..m /\ i \in 1..l
                            \/ i = m + 1
                            \/ i \in (m + 2)..(l + 1) /\ i - 1 \in (m + 1)..l /\ i - 1 \in 1..l
  BY <1>1, <1>2
<1>7. Range(t) = Range(s) \cup {x}
  <2>1. \A i \in 1..(l + 1) : t[i] \in Range(s) \cup {x}
    BY <1>1, <1>5, <1>6 DEF Range
  <2>2. \A i \in 1..l : s[i] \in Range(t)
    <3>1. ASSUME NEW i \in 1..l
          PROVE  \E j \in 1..(l + 1) : t[j] = s[i]
      <4>1. CASE i <= m
        BY <1>1, <1>2, <1>5, <4>1
      <4>2. CASE i > m
        <5>1. i + 1 \in (m + 2)..(l + 1) /\ (i + 1) - 1 = i /\ i + 1 \in 1..(l + 1)
          BY <1>1, <1>2, <4>2
        <5>2. t[i + 1] = s[i]
          BY <1>5, <5>1
        <5>. QED
          BY <5>1, <5>2
      <4>. QED
        BY <1>1, <1>2, <4>1, <4>2
    <3>. QED
      BY <1>5, <3>1 DEF Range
  <2>3. x \in Range(t)
    <3>1. m + 1 \in 1..(l + 1)
      BY <1>1, <1>2
    <3>. QED
      BY <1>5, <3>1 DEF Range
  <2>4. Range(t) \subseteq Range(s) \cup {x}
    BY <1>5, <2>1 DEF Range
  <2>5. Range(s) \subseteq Range(t)
    BY <1>1, <2>2 DEF Range
  <2>. QED
    BY <2>3, <2>4, <2>5
<1>8. ASSUME NEW i \in 1..(l + 1), NEW j \in 1..(l + 1), i < j
      PROVE  ~Before(t[j], t[i])
  <2>1. CASE i \in 1..m /\ j \in 1..m
    BY <1>1, <1>5, <1>6, <1>8, <2>1 DEF InOrder
  <2>2. CASE i \in 1..m /\ j = m + 1
    BY <1>2, <1>5, <2>2
  <2>3. CASE i \in 1..m /\ j \in (m + 2)..(l + 1)
    <3>1. i \in 1..l /\ j - 1 \in 1..l /\ i < j - 1
      BY <1>1, <1>2, <2>3
    <3>. QED
      BY <1>1, <1>5, <2>3, <3>1 DEF InOrder
  <2>4. CASE i = m + 1 /\ j \in (m + 2)..(l + 1)
    <3>1. j - 1 \in (m + 1)..l /\ j - 1 \in 1..l
      BY <1>1, <1>2, <2>4
    <3>2. Before(x, s[j - 1]) /\ s[j - 1] \in X
      BY <1>1, <1>2, <3>1
    <3>3. t[i] = x /\ t[j] = s[j - 1]
      BY <1>5, <2>4
    <3>. QED
      BY <3>2, <3>3, BeforeIsOrder
  <2>5. CASE i \in (m + 2)..(l + 1) /\ j \in (m + 2)..(l + 1)
    <3>1. i - 1 \in 1..l /\ j - 1 \in 1..l /\ i - 1 < j - 1
      BY <1>1, <1>2, <1>8, <2>5
    <3>. QED
      BY <1>1, <1>5, <2>5, <3>1 DEF InOrder
  <2>6. \/ i \in 1..m /\ j \in 1..m
        \/ i \in 1..m /\ j = m + 1
        \/ i \in 1..m /\ j \in (m + 2)..(l + 1)
        \/ i = m + 1 /\ j \in (m + 2)..(l + 1)
        \/ i \in (m + 2)..(l + 1) /\ j \in (m + 2)..(l + 1)
    BY <1>1, <1>2, <1>8
  <2>. QED
    BY <2>1, <2>2, <2>3, <2>4, <2>5, <2>6
<1>. QED
  BY <1>4, <1>5, <1>7, <1>8 DEF InOrder, SortedOf

LEMMA SortedIs ==
  ASSUME NEW X, Ranked(X), NEW seq \in Seq(X)
  PROVE  SortedOf(Sorted(seq), X, Range(seq))
<1>1. PICK m \in Nat : m = Len(seq) /\ DOMAIN seq = 1..m /\ \A i \in 1..m : seq[i] \in X
  OBVIOUS
<1>2. PICK h : h = CHOOSE g : g = [t \in SUBSET (1..m) |->
                     IF t = {} THEN << >> ELSE Insert(g[t \ {Max(t)}], seq[Max(t)])]
  OBVIOUS
<1>3. Sorted(seq) = h[1..m]
  BY <1>1, <1>2 DEF Sorted, FoldLeft, MapThenFoldSet
<1>4. PICK V : V = {s \in Seq(X) : InOrder(s)}
  OBVIOUS
<1>5. PICK D : D = [q \in V \X (1..m) |-> Insert(q[1], seq[q[2]])]
  OBVIOUS
<1>6. ASSUME NEW g, Turns(g, V, << >>, m, D)
      PROVE  Unfolds(h, V, << >>, m, D)
  <2>1. g = [t \in SUBSET (1..m) |->
               IF t = {} THEN << >> ELSE Insert(g[t \ {Max(t)}], seq[Max(t)])]
    BY <1>5, <1>6 DEF Turns
  <2>2. h = [t \in SUBSET (1..m) |->
               IF t = {} THEN << >> ELSE Insert(h[t \ {Max(t)}], seq[Max(t)])]
    BY <1>2, <2>1
  <2>. QED
    BY <1>5, <1>6, <2>2 DEF Unfolds, Turns
<1>7. << >> \in V
  BY <1>4 DEF InOrder
<1>8. RunsTo(h, V, << >>, m, D)
  <2>1. D \in [V \X (1..m) -> V]
    <3>1. ASSUME NEW v \in V, NEW k \in 1..m
          PROVE  Insert(v, seq[k]) \in V
      <4>1. v \in Seq(X) /\ InOrder(v) /\ seq[k] \in X
        BY <1>1, <1>4
      <4>2. SortedOf(Insert(v, seq[k]), X, Range(v) \cup {seq[k]})
        BY <4>1, InsertIs
      <4>. QED
        BY <1>4, <4>2 DEF SortedOf
    <3>. QED
      BY <1>5, <3>1
  <2>. QED
    BY <1>6, <1>7, <2>1, FoldLeftRuns
<1> DEFINE I == {q \in (0..m) \X V : Range(q[2]) = FirstOf(seq, q[1])}
<1>9. << 0, << >> >> \in I
  <2>1. FirstOf(seq, 0) = {} /\ 0 \in 0..m /\ Range(<< >>) = {}
    BY DEF FirstOf, Range
  <2>. QED
    BY <1>7, <2>1
<1>10. ASSUME NEW k \in 1..m, NEW v \in V, << k - 1, v >> \in I
       PROVE  << k, D[<< v, k >>] >> \in I
  <2>1. PICK new : new = Insert(v, seq[k]) /\ new = D[<< v, k >>]
    BY <1>5
  <2>2. new \in V /\ Range(new) = Range(v) \cup {seq[k]}
    <3>1. v \in Seq(X) /\ InOrder(v) /\ seq[k] \in X
      BY <1>1, <1>4
    <3>2. SortedOf(Insert(v, seq[k]), X, Range(v) \cup {seq[k]})
      BY <3>1, InsertIs
    <3>. QED
      BY <1>4, <2>1, <3>2 DEF SortedOf
  <2>3. FirstOf(seq, k) = FirstOf(seq, k - 1) \cup {seq[k]}
    BY FirstOfNext
  <2>4. Range(v) = FirstOf(seq, k - 1)
    BY <1>10
  <2>5. k \in 0..m
    OBVIOUS
  <2>. QED
    BY <2>1, <2>2, <2>3, <2>4, <2>5
<1>11. h[1..m] \in V /\ << m, h[1..m] >> \in I
  <2>1. Preserved(I, V, m, D)
    BY <1>10 DEF Preserved
  <2> HIDE DEF I
  <2>. QED
    BY <1>8, <1>9, <2>1, FoldInduction
<1>12. FirstOf(seq, m) = Range(seq)
  BY <1>1 DEF FirstOf, Range
<1>. QED
  BY <1>3, <1>4, <1>11, <1>12 DEF SortedOf

\* A list that x may follow stays sorted, and without two findings at a place.
LEMMA AppendInOrder ==
  ASSUME NEW X, NEW s \in Seq(X), InOrder(s), NEW x \in X, \A y \in Range(s) : ~Before(x, y)
  PROVE  InOrder(Append(s, x))
<1>1. PICK l \in Nat : l = Len(s) /\ DOMAIN s = 1..l
  OBVIOUS
<1>2. PICK t : t = Append(s, x)
  OBVIOUS
<1>3. DOMAIN t = 1..(l + 1) /\ t[l + 1] = x /\ \A i \in 1..l : t[i] = s[i]
  BY <1>1, <1>2
<1>4. ASSUME NEW i \in 1..(l + 1), NEW j \in 1..(l + 1), i < j
      PROVE  ~Before(t[j], t[i])
  <2>1. CASE j = l + 1
    <3>1. i \in 1..l
      BY <1>1, <1>4, <2>1
    <3>. QED
      BY <1>1, <1>3, <2>1, <3>1 DEF Range
  <2>2. CASE j # l + 1
    <3>1. i \in 1..l /\ j \in 1..l
      BY <1>1, <1>4, <2>2
    <3>. QED
      BY <1>1, <1>3, <1>4, <3>1 DEF InOrder
  <2>. QED
    BY <2>1, <2>2
<1>. QED
  BY <1>2, <1>3, <1>4 DEF InOrder

LEMMA AppendDistinct ==
  ASSUME NEW X, NEW s \in Seq(X), Distinct(s), NEW x \in X,
         \A y \in Range(s) : y.place # x.place
  PROVE  Distinct(Append(s, x))
<1>1. PICK l \in Nat : l = Len(s) /\ DOMAIN s = 1..l
  OBVIOUS
<1>2. PICK t : t = Append(s, x)
  OBVIOUS
<1>3. DOMAIN t = 1..(l + 1) /\ t[l + 1] = x /\ \A i \in 1..l : t[i] = s[i]
  BY <1>1, <1>2
<1>4. \A i \in 1..l : t[i].place # x.place
  BY <1>1, <1>3 DEF Range
<1>5. \A i \in 1..(l + 1) : i \in 1..l \/ i = l + 1
  BY <1>1
<1>6. \A i, j \in 1..l : t[i].place = t[j].place => i = j
  BY <1>1, <1>3 DEF Distinct
<1>7. \A i, j \in 1..(l + 1) : t[i].place = t[j].place => i = j
  BY <1>3, <1>4, <1>5, <1>6
<1>. QED
  BY <1>2, <1>3, <1>7 DEF Distinct

\* Of the first k findings of a sorted list, one of each place that no other of the
\* place comes before.
DedupOf(d, X, s, k) ==
  /\ d \in Seq(X) /\ InOrder(d) /\ Distinct(d) /\ Range(d) \subseteq FirstOf(s, k)
  /\ \A x \in FirstOf(s, k) : \E y \in Range(d) : y.place = x.place /\ ~Before(x, y)

\* The elements of a sorted list up to the k-th do not come after it.
LEMMA FirstNotAfter ==
  ASSUME NEW X, Ranked(X), NEW l \in Nat, NEW s \in Seq(X), DOMAIN s = 1..l, InOrder(s),
         NEW k \in 1..l
  PROVE  s[k] \in X /\ \A y \in FirstOf(s, k - 1) : y \in X /\ ~Before(s[k], y)
<1>1. \A i \in 1..(k - 1) : i \in 1..l /\ i < k
  OBVIOUS
<1>. QED
  BY <1>1 DEF FirstOf, InOrder

LEMMA DedupNext ==
  ASSUME NEW X, Ranked(X), NEW l \in Nat, NEW s \in Seq(X), DOMAIN s = 1..l, InOrder(s),
         NEW k \in 1..l, NEW d, DedupOf(d, X, s, k - 1)
  PROVE  DedupOf(KeepFirst(d, s[k]), X, s, k)
<1>1. PICK x \in X : x = s[k] /\ \A y \in FirstOf(s, k - 1) : y \in X /\ ~Before(x, y)
  BY FirstNotAfter
<1>2. FirstOf(s, k) = FirstOf(s, k - 1) \cup {x}
  BY <1>1, FirstOfNext
<1>3. /\ d \in Seq(X) /\ InOrder(d) /\ Distinct(d) /\ Range(d) \subseteq FirstOf(s, k - 1)
      /\ \A z \in FirstOf(s, k - 1) : \E y \in Range(d) : y.place = z.place /\ ~Before(z, y)
  BY DEF DedupOf
<1>4. DOMAIN d = 1..Len(d)
  BY <1>3
<1>5. CASE \E i \in 1..Len(d) : d[i].place = x.place
  <2>1. PICK i \in DOMAIN d : d[i].place = x.place
    BY <1>4, <1>5
  <2>2. d[i] \in Range(d)
    BY <2>1 DEF Range
  <2>3. d[i].place = x.place /\ ~Before(x, d[i])
    BY <1>1, <1>3, <2>1, <2>2
  <2>4. KeepFirst(d, s[k]) = d
    BY <1>1, <1>5 DEF KeepFirst
  <2>. QED
    BY <1>2, <1>3, <2>2, <2>3, <2>4 DEF DedupOf
<1>6. CASE ~\E i \in 1..Len(d) : d[i].place = x.place
  <2>1. PICK t : t = Append(d, x)
    OBVIOUS
  <2>2. KeepFirst(d, s[k]) = t
    BY <1>1, <1>6, <2>1 DEF KeepFirst
  <2>3. t \in Seq(X) /\ Range(t) = Range(d) \cup {x}
    BY <1>3, <2>1, RangeOfAppend
  <2>4. \A y \in Range(d) : y.place # x.place
    BY <1>4, <1>6 DEF Range
  <2>5. InOrder(t)
    BY <1>1, <1>3, <2>1, AppendInOrder
  <2>6. Distinct(t)
    BY <1>3, <2>1, <2>4, AppendDistinct
  <2>7. x.place = x.place /\ ~Before(x, x)
    BY BeforeIsOrder
  <2>. QED
    BY <1>2, <1>3, <2>2, <2>3, <2>5, <2>6, <2>7 DEF DedupOf
<1>. QED
  BY <1>5, <1>6

LEMMA DedupedIs ==
  ASSUME NEW X, Ranked(X), NEW s \in Seq(X), InOrder(s)
  PROVE  DedupOf(Deduped(s), X, s, Len(s))
<1>1. PICK m \in Nat : m = Len(s) /\ DOMAIN s = 1..m /\ \A i \in 1..m : s[i] \in X
  OBVIOUS
<1>2. PICK h : h = CHOOSE g : g = [t \in SUBSET (1..m) |->
                     IF t = {} THEN << >> ELSE KeepFirst(g[t \ {Max(t)}], s[Max(t)])]
  OBVIOUS
<1>3. Deduped(s) = h[1..m]
  BY <1>1, <1>2 DEF Deduped, FoldLeft, MapThenFoldSet
<1>4. PICK V : V = Seq(X)
  OBVIOUS
<1>5. PICK D : D = [q \in V \X (1..m) |-> KeepFirst(q[1], s[q[2]])]
  OBVIOUS
<1>6. ASSUME NEW g, Turns(g, V, << >>, m, D)
      PROVE  Unfolds(h, V, << >>, m, D)
  <2>1. g = [t \in SUBSET (1..m) |->
               IF t = {} THEN << >> ELSE KeepFirst(g[t \ {Max(t)}], s[Max(t)])]
    BY <1>5, <1>6 DEF Turns
  <2>2. h = [t \in SUBSET (1..m) |->
               IF t = {} THEN << >> ELSE KeepFirst(h[t \ {Max(t)}], s[Max(t)])]
    BY <1>2, <2>1
  <2>. QED
    BY <1>5, <1>6, <2>2 DEF Unfolds, Turns
<1>7. << >> \in V
  BY <1>4
<1>8. RunsTo(h, V, << >>, m, D)
  <2>1. D \in [V \X (1..m) -> V]
    <3>1. ASSUME NEW v \in V, NEW k \in 1..m
          PROVE  KeepFirst(v, s[k]) \in V
      BY <1>1, <1>4, RangeOfAppend DEF KeepFirst
    <3>. QED
      BY <1>5, <3>1
  <2>. QED
    BY <1>6, <1>7, <2>1, FoldLeftRuns
<1> DEFINE I == {q \in (0..m) \X V : DedupOf(q[2], X, s, q[1])}
<1>9. << 0, << >> >> \in I
  <2>1. FirstOf(s, 0) = {} /\ 0 \in 0..m /\ Range(<< >>) = {}
    BY DEF FirstOf, Range
  <2>2. InOrder(<< >>) /\ Distinct(<< >>)
    BY DEF InOrder, Distinct
  <2>. QED
    BY <1>4, <1>7, <2>1, <2>2 DEF DedupOf
<1>10. ASSUME NEW k \in 1..m, NEW v \in V, << k - 1, v >> \in I
       PROVE  << k, D[<< v, k >>] >> \in I
  <2>1. DedupOf(v, X, s, k - 1)
    BY <1>10
  <2>2. DedupOf(KeepFirst(v, s[k]), X, s, k)
    BY <1>1, <2>1, DedupNext
  <2>3. D[<< v, k >>] = KeepFirst(v, s[k])
    BY <1>5
  <2>4. KeepFirst(v, s[k]) \in V /\ k \in 0..m
    BY <1>4, <2>2 DEF DedupOf
  <2>. QED
    BY <2>2, <2>3, <2>4
<1>11. << m, h[1..m] >> \in I
  <2>1. Preserved(I, V, m, D)
    BY <1>10 DEF Preserved
  <2> HIDE DEF I
  <2>. QED
    BY <1>8, <1>9, <2>1, FoldInduction
<1>. QED
  BY <1>1, <1>3, <1>11

\* x is not in a list because the list, or its part for the file of x, is full of
\* findings that do not come after x.
Beaten(kept, x) ==
  \/ Len(kept) = MaxComments /\ \A y \in Range(kept) : ~Before(x, y)
  \/ /\ Cardinality(InFile(kept, x.file)) = MaxPerFile
     /\ \A i \in InFile(kept, x.file) : ~Before(x, kept[i])

AdmitOf(kept, X, d, k) ==
  /\ kept \in Seq(X) /\ Distinct(kept) /\ Range(kept) \subseteq FirstOf(d, k)
  /\ Len(kept) <= MaxComments
  /\ \A f : Cardinality(InFile(kept, f)) <= MaxPerFile
  /\ \A x \in FirstOf(d, k) \ Range(kept) : Beaten(kept, x)

\* The findings of a file in a list with one finding more.
LEMMA InFileAppend ==
  ASSUME NEW X, NEW l \in Nat, NEW s \in Seq(X), l = Len(s), NEW x \in X, NEW f
  PROVE  /\ InFile(Append(s, x), f) = IF x.file = f THEN InFile(s, f) \cup {l + 1} ELSE InFile(s, f)
         /\ InFile(s, f) \subseteq 1..l
         /\ x.file = f => Cardinality(InFile(Append(s, x), f)) = Cardinality(InFile(s, f)) + 1
         /\ Cardinality(InFile(s, f)) \in Nat
<1>1. PICK t : t = Append(s, x)
  OBVIOUS
<1>2. Len(t) = l + 1 /\ t[l + 1] = x /\ \A i \in 1..l : t[i] = s[i]
  BY <1>1
<1>3. 1..(l + 1) = 1..l \cup {l + 1}
  OBVIOUS
<1>4. InFile(t, f) = IF x.file = f THEN InFile(s, f) \cup {l + 1} ELSE InFile(s, f)
  BY <1>2, <1>3 DEF InFile
<1>5. InFile(s, f) \subseteq 1..l
  BY DEF InFile
<1>6. IsFiniteSet(InFile(s, f))
  <2>1. IsFiniteSet(1..l)
    BY FS_Interval
  <2>. QED
    BY <1>5, <2>1, FS_Subset
<1>7. l + 1 \notin InFile(s, f)
  BY <1>5
<1>8. Cardinality(InFile(s, f) \cup {l + 1}) = Cardinality(InFile(s, f)) + 1
  BY <1>6, <1>7, FS_AddElement
<1>9. Cardinality(InFile(s, f)) \in Nat
  BY <1>6, FS_CardinalityType
<1>. QED
  BY <1>1, <1>4, <1>5, <1>8, <1>9

LEMMA AdmitNext ==
  ASSUME NEW X, Ranked(X), NEW l \in Nat, NEW d \in Seq(X), DOMAIN d = 1..l, InOrder(d),
         Distinct(d), NEW k \in 1..l, NEW kept, AdmitOf(kept, X, d, k - 1)
  PROVE  AdmitOf(Admit(kept, d[k]), X, d, k)
<1>1. PICK x \in X : x = d[k] /\ \A y \in FirstOf(d, k - 1) : y \in X /\ ~Before(x, y)
  BY FirstNotAfter
<1>2. FirstOf(d, k) = FirstOf(d, k - 1) \cup {x}
  BY <1>1, FirstOfNext
<1>3. /\ kept \in Seq(X) /\ Distinct(kept) /\ Range(kept) \subseteq FirstOf(d, k - 1)
      /\ Len(kept) <= MaxComments
      /\ \A f : Cardinality(InFile(kept, f)) <= MaxPerFile
      /\ \A z \in FirstOf(d, k - 1) \ Range(kept) : Beaten(kept, z)
  BY DEF AdmitOf
<1>4. PICK m \in Nat : m = Len(kept) /\ DOMAIN kept = 1..m
  BY <1>3
<1>5. \A f : Cardinality(InFile(kept, f)) \in Nat /\ InFile(kept, f) \subseteq 1..m
  BY <1>1, <1>3, <1>4, InFileAppend
<1>6. MaxComments \in Nat /\ MaxPerFile \in Nat
  BY FilterAssumption
<1>7. CASE Len(kept) < MaxComments /\ Cardinality(InFile(kept, x.file)) < MaxPerFile
  <2>1. PICK t : t = Append(kept, x)
    OBVIOUS
  <2>2. Admit(kept, d[k]) = t
    BY <1>1, <1>7, <2>1 DEF Admit
  <2>3. t \in Seq(X) /\ Range(t) = Range(kept) \cup {x}
    <3>1. kept \in Seq(X) /\ x \in X
      BY <1>1, <1>3
    <3>. QED
      BY <2>1, <3>1, RangeOfAppend
  <2>4. Len(t) = m + 1 /\ m + 1 <= MaxComments /\ \A i \in 1..m : t[i] = kept[i]
    <3>1. kept \in Seq(X) /\ x \in X
      BY <1>1, <1>3
    <3>2. Len(t) = m + 1 /\ \A i \in 1..m : t[i] = kept[i]
      BY <1>4, <2>1, <3>1
    <3>3. m + 1 <= MaxComments
      BY <1>4, <1>6, <1>7
    <3>. QED
      BY <3>2, <3>3
  <2>5. Distinct(t)
    <3>1. \A y \in FirstOf(d, k - 1) : y.place # x.place
      <4>1. \A i \in 1..(k - 1) : i \in 1..l /\ i # k
        OBVIOUS
      <4>. QED
        BY <1>1, <4>1 DEF FirstOf, Distinct
    <3>. QED
      BY <1>1, <1>3, <2>1, <3>1, AppendDistinct
  <2>6. \A f : InFile(t, f) = IF x.file = f THEN InFile(kept, f) \cup {m + 1} ELSE InFile(kept, f)
    <3>1. kept \in Seq(X) /\ x \in X
      BY <1>1, <1>3
    <3>. QED
      BY <1>4, <2>1, <3>1, InFileAppend
  <2>7. ASSUME NEW f
        PROVE  Cardinality(InFile(t, f)) <= MaxPerFile
    <3>1. CASE x.file = f
      <4>1. Cardinality(InFile(t, f)) = Cardinality(InFile(kept, f)) + 1
        <5>1. kept \in Seq(X) /\ x \in X
          BY <1>1, <1>3
        <5>. QED
          BY <1>4, <2>1, <3>1, <5>1, InFileAppend
      <4>. QED
        BY <1>5, <1>6, <1>7, <3>1, <4>1
    <3>2. CASE x.file # f
      BY <1>3, <2>6, <3>2
    <3>. QED
      BY <3>1, <3>2
  <2>8. ASSUME NEW z \in FirstOf(d, k) \ Range(t)
        PROVE  Beaten(t, z)
    <3>1. z \in FirstOf(d, k - 1) \ Range(kept)
      BY <1>2, <2>3, <2>8
    <3>2. /\ Cardinality(InFile(kept, z.file)) = MaxPerFile
          /\ \A i \in InFile(kept, z.file) : ~Before(z, kept[i])
      BY <1>3, <1>4, <1>6, <1>7, <3>1 DEF Beaten
    <3>3. z.file # x.file
      BY <1>5, <1>6, <1>7, <3>2
    <3>4. InFile(t, z.file) = InFile(kept, z.file)
      BY <2>6, <3>3
    <3>5. \A i \in InFile(t, z.file) : ~Before(z, t[i])
      BY <1>5, <2>4, <3>2, <3>4
    <3>. QED
      BY <3>2, <3>4, <3>5 DEF Beaten
  <2>9. Range(t) \subseteq FirstOf(d, k)
    BY <1>2, <1>3, <2>3
  <2>. QED
    BY <2>2, <2>3, <2>4, <2>5, <2>7, <2>8, <2>9 DEF AdmitOf
<1>8. CASE ~(Len(kept) < MaxComments /\ Cardinality(InFile(kept, x.file)) < MaxPerFile)
  <2>1. Admit(kept, d[k]) = kept
    BY <1>1, <1>8 DEF Admit
  <2>2. Beaten(kept, x)
    <3>1. \A y \in Range(kept) : ~Before(x, y)
      BY <1>1, <1>3
    <3>2. \A i \in InFile(kept, x.file) : kept[i] \in Range(kept)
      BY <1>4, <1>5 DEF Range
    <3>3. \/ Len(kept) = MaxComments
          \/ Cardinality(InFile(kept, x.file)) = MaxPerFile
      BY <1>3, <1>4, <1>5, <1>6, <1>8
    <3>. QED
      BY <3>1, <3>2, <3>3 DEF Beaten
  <2>. QED
    BY <1>2, <1>3, <2>1, <2>2 DEF AdmitOf
<1>. QED
  BY <1>7, <1>8

LEMMA AdmittedIs ==
  ASSUME NEW X, Ranked(X), NEW d \in Seq(X), InOrder(d), Distinct(d)
  PROVE  AdmitOf(FoldLeft(Admit, << >>, d), X, d, Len(d))
<1>1. PICK m \in Nat : m = Len(d) /\ DOMAIN d = 1..m /\ \A i \in 1..m : d[i] \in X
  OBVIOUS
<1>2. PICK h : h = CHOOSE g : g = [t \in SUBSET (1..m) |->
                     IF t = {} THEN << >> ELSE Admit(g[t \ {Max(t)}], d[Max(t)])]
  OBVIOUS
<1>3. FoldLeft(Admit, << >>, d) = h[1..m]
  BY <1>1, <1>2 DEF FoldLeft, MapThenFoldSet
<1>4. PICK V : V = Seq(X)
  OBVIOUS
<1>5. PICK D : D = [q \in V \X (1..m) |-> Admit(q[1], d[q[2]])]
  OBVIOUS
<1>6. ASSUME NEW g, Turns(g, V, << >>, m, D)
      PROVE  Unfolds(h, V, << >>, m, D)
  <2>1. g = [t \in SUBSET (1..m) |->
               IF t = {} THEN << >> ELSE Admit(g[t \ {Max(t)}], d[Max(t)])]
    BY <1>5, <1>6 DEF Turns
  <2>2. h = [t \in SUBSET (1..m) |->
               IF t = {} THEN << >> ELSE Admit(h[t \ {Max(t)}], d[Max(t)])]
    BY <1>2, <2>1
  <2>. QED
    BY <1>5, <1>6, <2>2 DEF Unfolds, Turns
<1>7. << >> \in V
  BY <1>4
<1>8. RunsTo(h, V, << >>, m, D)
  <2>1. D \in [V \X (1..m) -> V]
    <3>1. ASSUME NEW v \in V, NEW k \in 1..m
          PROVE  Admit(v, d[k]) \in V
      BY <1>1, <1>4, RangeOfAppend DEF Admit
    <3>. QED
      BY <1>5, <3>1
  <2>. QED
    BY <1>6, <1>7, <2>1, FoldLeftRuns
<1> DEFINE I == {q \in (0..m) \X V : AdmitOf(q[2], X, d, q[1])}
<1>9. << 0, << >> >> \in I
  <2>1. FirstOf(d, 0) = {} /\ 0 \in 0..m /\ Range(<< >>) = {} /\ Distinct(<< >>)
    BY DEF FirstOf, Range, Distinct
  <2>2. \A f : InFile(<< >>, f) = {}
    BY DEF InFile
  <2>3. Cardinality({}) = 0 /\ Len(<< >>) = 0 /\ MaxComments \in Nat /\ MaxPerFile \in Nat
    BY FS_EmptySet, FilterAssumption
  <2>. QED
    <3>1. ASSUME NEW f
          PROVE  Cardinality(InFile(<< >>, f)) <= MaxPerFile
      <4>1. Cardinality(InFile(<< >>, f)) = Cardinality({})
        BY <2>2
      <4>2. Cardinality({}) <= MaxPerFile
        BY <2>3
      <4>. QED
        BY <4>1, <4>2
    <3>2. Len(<< >>) <= MaxComments
      BY <2>3
    <3>3. AdmitOf(<< >>, X, d, 0)
      BY <1>4, <1>7, <2>1, <3>1, <3>2 DEF AdmitOf
    <3>. QED
      BY <1>7, <2>1, <3>3
<1>10. ASSUME NEW k \in 1..m, NEW v \in V, << k - 1, v >> \in I
       PROVE  << k, D[<< v, k >>] >> \in I
  <2>1. AdmitOf(v, X, d, k - 1)
    BY <1>10
  <2>2. AdmitOf(Admit(v, d[k]), X, d, k)
    BY <1>1, <2>1, AdmitNext
  <2>3. D[<< v, k >>] = Admit(v, d[k])
    BY <1>5
  <2>4. Admit(v, d[k]) \in V /\ k \in 0..m
    BY <1>4, <2>2 DEF AdmitOf
  <2>. QED
    BY <2>2, <2>3, <2>4
<1>11. << m, h[1..m] >> \in I
  <2>1. Preserved(I, V, m, D)
    BY <1>10 DEF Preserved
  <2> HIDE DEF I
  <2>. QED
    BY <1>8, <1>9, <2>1, FoldInduction
<1>. QED
  BY <1>1, <1>3, <1>11

\* The inline comments chosen of the findings in E.
ChosenOf(kept, X, E) ==
  /\ kept \in Seq(X) /\ Distinct(kept) /\ Range(kept) \subseteq E
  /\ \A x \in {y \in E : Candidate(y)} \ Range(kept) :
       \/ \E y \in Range(kept) : y.place = x.place /\ ~Before(x, y)
       \/ Beaten(kept, x)

\* Findings at one place are in one file.
Placed(X) == \A x, y \in X : x.place = y.place => x.file = y.file

LEMMA FilterIs ==
  ASSUME NEW X, Ranked(X), Placed(X), NEW found \in Seq(X)
  PROVE  ChosenOf(FilterReviews(found), X, Range(found))
<1>1. PICK S : S = {x \in ToSet(found) : Candidate(x)}
  OBVIOUS
<1>2. PICK s : s = Select(found, S)
  OBVIOUS
<1>3. s \in Seq(X) /\ Range(s) = Range(found) \cap S
  BY <1>2, SelectIs DEF Selected
<1>4. Range(s) = {x \in Range(found) : Candidate(x)}
  BY <1>1, <1>3 DEF ToSet, Range
<1>5. PICK o : o = Sorted(s) /\ SortedOf(o, X, Range(s))
  BY <1>3, SortedIs
<1>6. o \in Seq(X) /\ InOrder(o) /\ Range(o) = Range(s)
  BY <1>5 DEF SortedOf
<1>7. PICK d : d = Deduped(o) /\ DedupOf(d, X, o, Len(o))
  BY <1>6, DedupedIs
<1>8. FirstOf(o, Len(o)) = Range(s)
  <2>1. DOMAIN o = 1..Len(o) /\ Range(o) = Range(s)
    BY <1>6
  <2>. QED
    BY <2>1 DEF FirstOf, Range
<1>9. /\ d \in Seq(X) /\ InOrder(d) /\ Distinct(d) /\ Range(d) \subseteq Range(s)
      /\ \A x \in Range(s) : \E y \in Range(d) : y.place = x.place /\ ~Before(x, y)
  BY <1>7, <1>8 DEF DedupOf
<1>10. PICK kept : kept = FoldLeft(Admit, << >>, d) /\ AdmitOf(kept, X, d, Len(d))
  BY <1>9, AdmittedIs
<1>11. FilterReviews(found) = kept
  BY <1>1, <1>2, <1>5, <1>7, <1>10 DEF FilterReviews
<1>12. FirstOf(d, Len(d)) = Range(d)
  BY <1>9 DEF FirstOf, Range
<1>13. /\ kept \in Seq(X) /\ Distinct(kept) /\ Range(kept) \subseteq Range(d)
       /\ \A x \in Range(d) \ Range(kept) : Beaten(kept, x)
  BY <1>10, <1>12 DEF AdmitOf
<1>14. ASSUME NEW x \in Range(s) \ Range(kept)
       PROVE  \/ \E y \in Range(kept) : y.place = x.place /\ ~Before(x, y)
              \/ Beaten(kept, x)
  <2>1. PICK y \in Range(d) : y.place = x.place /\ ~Before(x, y)
    BY <1>9
  <2>2. x \in X /\ y \in X /\ \A z \in Range(kept) : z \in X
    BY <1>3, <1>9, <1>13, <2>1 DEF Range
  <2>3. ASSUME y \notin Range(kept)
        PROVE  Beaten(kept, x)
    <3>1. Beaten(kept, y) /\ y.file = x.file
      BY <1>13, <2>1, <2>2, <2>3 DEF Placed
    <3>2. \A z \in X : ~Before(y, z) => ~Before(x, z)
      BY <2>1, <2>2, BeforeIsOrder
    <3>3. \A i \in InFile(kept, x.file) : kept[i] \in X
      BY <1>13 DEF InFile
    <3>. QED
      BY <2>2, <3>1, <3>2, <3>3 DEF Beaten
  <2>. QED
    BY <2>1, <2>3
<1>. QED
  BY <1>4, <1>9, <1>11, <1>13, <1>14 DEF ChosenOf

\* The findings of the first m results.
FoundIn(m) == {FindingOf(x, i, k) : x \in Findings, i \in 1..m, k \in Nat}

LEMMA FoundIs ==
  ASSUME FlowInv
  PROVE  Found \in Seq(FoundIn(Len(successful)))
<1>1. PICK m \in Nat : m = Len(successful) /\ DOMAIN successful = 1..m
  BY DEF FlowInv, ResultsOK
<1>2. PICK X : X = FoundIn(m)
  OBVIOUS
<1>3. PICK seqs : seqs = [i \in DOMAIN successful |->
         [k \in DOMAIN successful[i].findings |-> FindingOf(successful[i].findings[k], i, k)]]
  OBVIOUS
<1>4. ASSUME NEW i \in 1..m
      PROVE  seqs[i] \in Seq(X)
  <2>1. PICK l \in Nat, answer \in Seq(Findings) :
          answer = successful[i].findings /\ DOMAIN answer = 1..l
    <3>1. successful[i].findings \in Seq(Findings)
      <4>1. successful \in Seq(Results)
        BY DEF FlowInv, ResultsOK
      <4>2. successful[i] \in Results
        BY <1>1, <4>1
      <4>. QED
        BY <4>2 DEF Results
    <3>. QED
      BY <3>1
  <2>2. seqs[i] = [k \in 1..l |-> FindingOf(answer[k], i, k)]
    BY <1>1, <1>3, <2>1
  <2>3. ASSUME NEW k \in 1..l
        PROVE  FindingOf(answer[k], i, k) \in X
    <3>1. answer[k] \in Findings /\ k \in Nat
      BY <2>1
    <3>. QED
      BY <1>2, <3>1 DEF FoundIn
  <2>. QED
    BY <2>1, <2>2, <2>3
<1>5. seqs \in Seq(Seq(X))
  BY <1>1, <1>3, <1>4
<1>6. JoinOf(Joined(seqs), X, seqs, Len(seqs), Apart(seqs))
  BY <1>5, JoinedIs
<1>. QED
  BY <1>1, <1>2, <1>3, <1>6 DEF Found, JoinOf

LEMMA FoundRanked ==
  ASSUME NEW m
  PROVE  Ranked(FoundIn(m)) /\ Placed(FoundIn(m))
<1>1. \A x \in Findings, i \in 1..m, k \in Nat :
        /\ FindingOf(x, i, k).severity = x.severity /\ FindingOf(x, i, k).confidence = x.confidence
        /\ FindingOf(x, i, k).place = x.place /\ FindingOf(x, i, k).file = x.file
  BY DEF FindingOf
<1>2. Ranked(FoundIn(m))
  BY <1>1, PipelineAssumption DEF Ranked, FoundIn
<1>3. Placed(FoundIn(m))
  BY <1>1, PipelineAssumption DEF Placed, FoundIn
<1>. QED
  BY <1>2, <1>3

LEMMA CommentsAreBest ==
  ASSUME FlowInv
  PROVE  CommentsBest
<1>1. PICK X : X = FoundIn(Len(successful)) /\ Ranked(X) /\ Placed(X) /\ Found \in Seq(X)
  BY FoundIs, FoundRanked
<1>2. PICK found \in Seq(X) : found = Found
  BY <1>1
<1>3. ChosenOf(FilterReviews(found), X, Range(found))
  BY <1>1, <1>2, FilterIs
<1>4. PICK kept : kept = FilterReviews(Found) /\ ChosenOf(kept, X, Range(Found))
  BY <1>2, <1>3
<1>5. /\ kept \in Seq(X) /\ Distinct(kept) /\ Range(kept) \subseteq Range(Found)
      /\ \A x \in {y \in Range(Found) : Candidate(y)} \ Range(kept) :
           \/ \E y \in Range(kept) : y.place = x.place /\ ~Before(x, y)
           \/ Beaten(kept, x)
  BY <1>4 DEF ChosenOf
<1>6. \A x \in X, y \in X :
        ~Before(x, y) => SeverityOrder[y.severity] <= SeverityOrder[x.severity]
  BY <1>1, BeforeIsOrder
<1>7. Range(Found) \subseteq X /\ \A i \in DOMAIN kept : kept[i] \in Range(kept) /\ kept[i] \in X
  BY <1>1, <1>5 DEF Range
<1>8. ASSUME NEW x \in {y \in Range(Found) : Candidate(y)} \ Range(kept)
      PROVE  \/ \E y \in Range(kept) :
                  y.place = x.place /\ SeverityOrder[y.severity] <= SeverityOrder[x.severity]
             \/ /\ Len(kept) = MaxComments
                /\ \A i \in DOMAIN kept : SeverityOrder[kept[i].severity] <= SeverityOrder[x.severity]
             \/ /\ Cardinality(InFile(kept, x.file)) = MaxPerFile
                /\ \A i \in InFile(kept, x.file) :
                     SeverityOrder[kept[i].severity] <= SeverityOrder[x.severity]
  <2>1. x \in X
    BY <1>7
  <2>2. CASE \E y \in Range(kept) : y.place = x.place /\ ~Before(x, y)
    <3>1. PICK y \in Range(kept) : y.place = x.place /\ ~Before(x, y)
      BY <2>2
    <3>2. y \in X
      BY <1>5, <1>7, <3>1
    <3>3. SeverityOrder[y.severity] <= SeverityOrder[x.severity]
      BY <1>6, <2>1, <3>1, <3>2
    <3>. QED
      BY <3>1, <3>3
  <2>3. CASE Len(kept) = MaxComments /\ \A y \in Range(kept) : ~Before(x, y)
    BY <1>6, <1>7, <2>1, <2>3
  <2>4. CASE /\ Cardinality(InFile(kept, x.file)) = MaxPerFile
             /\ \A i \in InFile(kept, x.file) : ~Before(x, kept[i])
    <3>1. \A i \in InFile(kept, x.file) : kept[i] \in X
      BY <1>5 DEF InFile
    <3>. QED
      BY <1>6, <2>1, <2>4, <3>1
  <2>. QED
    BY <1>5, <2>2, <2>3, <2>4 DEF Beaten
<1>. QED
  BY <1>4, <1>5, <1>8 DEF CommentsBest, Distinct

\* A finding fit for an inline comment is left out only for findings no less severe,
\* and no two comments are at one place (filter_reviews, app/review/result_filter.py,
\* on the findings of all batches).
THEOREM CommentsBestAlways == Spec => []CommentsBest
<1>1. FlowInv => CommentsBest
  BY CommentsAreBest
<1>. QED
  BY <1>1, FlowAlways, PTL

(***************************************************************************)
(* The verification.                                                       *)
(***************************************************************************)
\* Findings of one of the first m results.
GroupsOf(m) ==
  {g \in [from : 1..m, findings : Seq(FoundIn(m))] :
     \A x \in Range(g.findings) : x.from = g.from}

LEMMA FromOfFound ==
  ASSUME NEW m, NEW x \in FoundIn(m)
  PROVE  x.from \in 1..m
BY DEF FoundIn, FindingOf

LEMMA PutIntoGroupTyped ==
  ASSUME NEW m \in Nat, NEW grouped \in Seq(GroupsOf(m)), NEW x \in FoundIn(m)
  PROVE  PutIntoGroup(grouped, x) \in Seq(GroupsOf(m))
<1>1. PICK l \in Nat : l = Len(grouped) /\ DOMAIN grouped = 1..l
                       /\ \A i \in 1..l : grouped[i] \in GroupsOf(m)
  OBVIOUS
<1>2. CASE \E i \in DOMAIN grouped : grouped[i].from = x.from
  <2>1. ASSUME NEW i \in 1..l, grouped[i].from = x.from
        PROVE  [grouped[i] EXCEPT !.findings = Append(@, x)] \in GroupsOf(m)
    <3>1. PICK g : /\ g = grouped[i] /\ g \in [from : 1..m, findings : Seq(FoundIn(m))]
                   /\ \A y \in Range(g.findings) : y.from = g.from
      BY <1>1 DEF GroupsOf
    <3>2. PICK s \in Seq(FoundIn(m)) : s = g.findings
      BY <3>1
    <3>3. Append(s, x) \in Seq(FoundIn(m)) /\ Range(Append(s, x)) = Range(s) \cup {x}
      BY RangeOfAppend
    <3>4. PICK new : new = [g EXCEPT !.findings = Append(s, x)]
      OBVIOUS
    <3>5. /\ new \in [from : 1..m, findings : Seq(FoundIn(m))]
          /\ new.from = g.from /\ new.findings = Append(s, x)
      BY <3>1, <3>3, <3>4
    <3>6. \A y \in Range(new.findings) : y.from = new.from
      BY <2>1, <3>1, <3>2, <3>3, <3>5
    <3>7. new \in GroupsOf(m)
      BY <3>5, <3>6 DEF GroupsOf
    <3>. QED
      BY <3>1, <3>2, <3>4, <3>7
  <2>2. PutIntoGroup(grouped, x)
          = [i \in 1..l |-> IF grouped[i].from = x.from
                            THEN [grouped[i] EXCEPT !.findings = Append(@, x)] ELSE grouped[i]]
    BY <1>1, <1>2 DEF PutIntoGroup
  <2>3. PutIntoGroup(grouped, x) \in [1..l -> GroupsOf(m)]
    BY <1>1, <2>1, <2>2
  <2>. QED
    BY <2>3
<1>3. CASE ~\E i \in DOMAIN grouped : grouped[i].from = x.from
  <2>1. PICK s : s = << x >>
    OBVIOUS
  <2>2. s \in Seq(FoundIn(m)) /\ Range(s) = {x}
    BY <2>1, RangeOfOne
  <2>3. [from |-> x.from, findings |-> s] \in GroupsOf(m)
    BY <2>2, FromOfFound DEF GroupsOf
  <2>. QED
    BY <1>3, <2>1, <2>3 DEF PutIntoGroup
<1>. QED
  BY <1>2, <1>3

LEMMA GroupedTyped ==
  ASSUME NEW r \in Nat, NEW found \in Seq(FoundIn(r))
  PROVE  Grouped(found) \in Seq(GroupsOf(r))
<1>1. PICK m \in Nat : m = Len(found) /\ DOMAIN found = 1..m /\ \A i \in 1..m : found[i] \in FoundIn(r)
  OBVIOUS
<1>2. PICK h : h = CHOOSE g : g = [t \in SUBSET (1..m) |->
                     IF t = {} THEN << >> ELSE PutIntoGroup(g[t \ {Max(t)}], found[Max(t)])]
  OBVIOUS
<1>3. Grouped(found) = h[1..m]
  BY <1>1, <1>2 DEF Grouped, FoldLeft, MapThenFoldSet
<1>4. PICK V : V = Seq(GroupsOf(r))
  OBVIOUS
<1>5. PICK D : D = [q \in V \X (1..m) |-> PutIntoGroup(q[1], found[q[2]])]
  OBVIOUS
<1>6. ASSUME NEW g, Turns(g, V, << >>, m, D)
      PROVE  Unfolds(h, V, << >>, m, D)
  <2>1. g = [t \in SUBSET (1..m) |->
               IF t = {} THEN << >> ELSE PutIntoGroup(g[t \ {Max(t)}], found[Max(t)])]
    BY <1>5, <1>6 DEF Turns
  <2>2. h = [t \in SUBSET (1..m) |->
               IF t = {} THEN << >> ELSE PutIntoGroup(h[t \ {Max(t)}], found[Max(t)])]
    BY <1>2, <2>1
  <2>. QED
    BY <1>5, <1>6, <2>2 DEF Unfolds, Turns
<1>7. << >> \in V
  BY <1>4
<1>8. RunsTo(h, V, << >>, m, D)
  <2>1. D \in [V \X (1..m) -> V]
    <3>1. ASSUME NEW v \in V, NEW k \in 1..m
          PROVE  PutIntoGroup(v, found[k]) \in V
      BY <1>1, <1>4, PutIntoGroupTyped
    <3>. QED
      BY <1>5, <3>1
  <2>. QED
    BY <1>6, <1>7, <2>1, FoldLeftRuns
<1>9. h[1..m] \in V
  BY <1>8 DEF RunsTo, IsRun
<1>. QED
  BY <1>3, <1>4, <1>9

LEMMA PartOfList ==
  ASSUME NEW X, NEW s \in Seq(X), NEW a \in Nat \ {0}, NEW b \in Nat, b <= Len(s)
  PROVE  SubSeq(s, a, b) \in Seq(X) /\ Range(SubSeq(s, a, b)) \subseteq Range(s)
<1>1. PICK l \in Nat : l = Len(s) /\ DOMAIN s = 1..l /\ \A i \in 1..l : s[i] \in X
  OBVIOUS
<1>2. PICK t : t = SubSeq(s, a, b)
  OBVIOUS
<1>3. PICK k \in Nat : t = [i \in 1..k |-> s[i + a - 1]] /\ \A i \in 1..k : i + a - 1 \in 1..l
  <2>1. CASE a <= b
    <3>1. PICK k : k = b - a + 1
      OBVIOUS
    <3>2. k \in Nat /\ \A i \in 1..k : i + a - 1 \in 1..l
      BY <1>1, <2>1, <3>1
    <3>3. t = [i \in 1..k |-> s[i + a - 1]]
      BY <1>1, <1>2, <2>1, <3>1
    <3>. QED
      BY <3>2, <3>3
  <2>2. CASE a > b
    <3>1. t = << >>
      BY <1>1, <1>2, <2>2
    <3>2. t = [i \in 1..0 |-> s[i + a - 1]] /\ 1..0 = {}
      BY <3>1
    <3>. QED
      BY <3>2
  <2>. QED
    BY <2>1, <2>2
<1>4. t \in Seq(X) /\ DOMAIN t = 1..k
  BY <1>1, <1>3
<1>5. \A i \in 1..k : t[i] \in Range(s)
  BY <1>1, <1>3 DEF Range
<1>6. Range(t) \subseteq Range(s)
  BY <1>4, <1>5 DEF Range
<1>. QED
  BY <1>2, <1>4, <1>6

\* A comment is confirmed with the messages of the result it came from.
VerifyInv ==
  /\ pc \notin {"verify", "completed"} => groups = << >> /\ confirmed = {} /\ reviews = << >>
  /\ pc = "verify" => reviews = << >>
  /\ groups \in Seq(GroupsOf(Len(successful)))
  /\ \A x \in confirmed : /\ x.from \in 1..Len(successful)
                          /\ << x, successful[x.from].prompt >> \in verdicts
  /\ \A k \in DOMAIN reviews : reviews[k] \in confirmed

\* The findings of the first group, and what is left of the groups.
LEMMA ProceedTyped ==
  ASSUME NEW m \in Nat, groups \in Seq(GroupsOf(m)), groups # << >>,
         NEW k \in Nat \ {0}, NEW round, Proceed(k, round)
  PROVE  groups' \in Seq(GroupsOf(m))
<1>1. PICK l \in Nat : l = Len(groups) /\ DOMAIN groups = 1..l /\ l > 0
                       /\ \A i \in 1..l : groups[i] \in GroupsOf(m)
  OBVIOUS
<1>2. PICK g : /\ g = groups[1] /\ g \in [from : 1..m, findings : Seq(FoundIn(m))]
               /\ \A x \in Range(g.findings) : x.from = g.from
  BY <1>1 DEF GroupsOf
<1>3. PICK s \in Seq(FoundIn(m)) : s = g.findings
  BY <1>2
<1>4. CASE k < Len(s)
  <2>1. PICK rest : rest = SubSeq(s, k + 1, Len(s))
    OBVIOUS
  <2>2. rest \in Seq(FoundIn(m)) /\ Range(rest) \subseteq Range(s)
    BY <2>1, PartOfList
  <2>3. PICK new : new = [g EXCEPT !.findings = rest]
    OBVIOUS
  <2>4. /\ new \in [from : 1..m, findings : Seq(FoundIn(m))]
        /\ new.from = g.from /\ new.findings = rest
    BY <1>2, <2>2, <2>3
  <2>5. new \in GroupsOf(m)
    BY <1>2, <1>3, <2>2, <2>4 DEF GroupsOf
  <2>6. groups' = [groups EXCEPT ![1] = new]
    BY <1>2, <1>3, <1>4, <2>1, <2>3 DEF Proceed
  <2>. QED
    BY <1>1, <2>5, <2>6
<1>5. CASE ~(k < Len(s))
  <2>1. groups' = Tail(groups)
    BY <1>2, <1>3, <1>5 DEF Proceed
  <2>. QED
    BY <1>1, <2>1
<1>. QED
  BY <1>4, <1>5

\* A step that leaves the verification alone.
LEMMA StayKeepsVerified ==
  ASSUME VerifyInv, UNCHANGED verifyVars,
         \/ pc' = pc /\ successful' = successful
         \/ pc \notin {"verify", "completed"} /\ pc' # "verify" /\ Len(successful') \in Nat
  PROVE  VerifyInv'
<1>1. UNCHANGED << groups, confirmed, reviews, verdicts >>
  BY DEF verifyVars
<1>2. CASE pc' = pc /\ successful' = successful
  BY <1>1, <1>2 DEF VerifyInv
<1>3. CASE pc \notin {"verify", "completed"} /\ pc' # "verify" /\ Len(successful') \in Nat
  <2>1. groups = << >> /\ confirmed = {} /\ reviews = << >> /\ DOMAIN << >> = {}
    BY <1>3 DEF VerifyInv
  <2>2. << >> \in Seq(GroupsOf(Len(successful')))
    OBVIOUS
  <2>. QED
    BY <1>1, <1>3, <2>1, <2>2 DEF VerifyInv
<1>. QED
  BY <1>2, <1>3

LEMMA NextKeepsVerified ==
  ASSUME FlowInv, FlowInv', VerifyInv, [Next]_vars
  PROVE  VerifyInv'
<1>0. PICK m \in Nat : m = Len(successful) /\ DOMAIN successful = 1..m /\ Len(successful') \in Nat
  BY DEF FlowInv, ResultsOK
<1>1. CASE RetrievalFails \/ Prepare \/ Assemble
  <2>1. UNCHANGED verifyVars /\ pc \notin {"verify", "completed"} /\ pc' # "verify"
    BY <1>1 DEF RetrievalFails, Prepare, Assemble, GiveUp, NextBatch
  <2>. QED
    BY <1>0, <2>1, StayKeepsVerified
<1>2. CASE Generate \/ Retry
  <2>1. UNCHANGED verifyVars /\ pc \notin {"verify", "completed"} /\ pc' # "verify"
    BY <1>2 DEF Generate, Retry, Succeed, NextBatch
  <2>. QED
    BY <1>0, <2>1, StayKeepsVerified
<1>3. CASE GenerateTimesOut \/ GenerateFails \/ GenerateTruncated \/ RetryFails
  <2>1. UNCHANGED verifyVars /\ pc \notin {"verify", "completed"} /\ pc' # "verify"
    BY <1>3 DEF GenerateTimesOut, GenerateFails, GenerateTruncated, RetryFails, GiveUp, NextBatch
  <2>. QED
    BY <1>0, <2>1, StayKeepsVerified
<1>4. CASE Reduce
  <2>1. /\ pc = "reduce" /\ pc' = "verify" /\ groups' = Grouped(FilterReviews(Found))
        /\ confirmed' = confirmed /\ reviews' = reviews /\ verdicts' = verdicts
        /\ successful' = successful
    BY <1>4 DEF Reduce
  <2>2. groups' \in Seq(GroupsOf(m))
    <3>1. PICK X : X = FoundIn(m) /\ Ranked(X) /\ Placed(X) /\ Found \in Seq(X)
      BY <1>0, FoundIs, FoundRanked
    <3>2. PICK found \in Seq(X) : found = Found
      BY <3>1
    <3>3. ChosenOf(FilterReviews(found), X, Range(found))
      BY <3>1, <3>2, FilterIs
    <3>4. FilterReviews(Found) \in Seq(FoundIn(m))
      BY <3>1, <3>2, <3>3 DEF ChosenOf
    <3>. QED
      BY <2>1, <3>4, GroupedTyped
  <2>3. confirmed' = {} /\ reviews' = << >> /\ DOMAIN << >> = {}
    BY <2>1 DEF VerifyInv
  <2>. QED
    BY <1>0, <2>1, <2>2, <2>3 DEF VerifyInv
<1>5. CASE Verify
  <2>1. PICK k \in DOMAIN groups[1].findings :
          /\ Proceed(k, rounds + 1)
          /\ \E good \in SUBSET Range(SubSeq(groups[1].findings, 1, k)) :
               /\ confirmed' = confirmed \cup good
               /\ verdicts' = verdicts \cup {<< x, MessagesOf(groups[1]) >> : x \in good}
    BY <1>5 DEF Verify
  <2>2. PICK good \in SUBSET Range(SubSeq(groups[1].findings, 1, k)) :
          /\ confirmed' = confirmed \cup good
          /\ verdicts' = verdicts \cup {<< x, MessagesOf(groups[1]) >> : x \in good}
    BY <2>1
  <2>3. /\ pc = "verify" /\ pc' = pc /\ groups # << >> /\ successful' = successful
        /\ reviews' = reviews
    BY <1>5 DEF Verify
  <2>4. groups \in Seq(GroupsOf(m))
    BY <1>0 DEF VerifyInv
  <2>5. PICK s \in Seq(FoundIn(m)) : /\ s = groups[1].findings /\ groups[1].from \in 1..m
                                     /\ \A x \in Range(s) : x.from = groups[1].from
    <3>1. groups[1] \in GroupsOf(m)
      BY <2>3, <2>4
    <3>. QED
      BY <3>1 DEF GroupsOf
  <2>6. k \in 1..Len(s) /\ Len(s) \in Nat
    BY <2>1, <2>5
  <2>7. groups' \in Seq(GroupsOf(m))
    <3>1. k \in Nat \ {0}
      BY <2>6
    <3>. QED
      BY <2>1, <2>3, <2>4, <3>1, ProceedTyped
  <2>8. good \subseteq Range(s)
    <3>1. k \in Nat /\ k <= Len(s)
      BY <2>6
    <3>2. Range(SubSeq(s, 1, k)) \subseteq Range(s)
      BY <3>1, PartOfList
    <3>. QED
      BY <2>2, <2>5, <3>2
  <2>9. ASSUME NEW x \in confirmed'
        PROVE  x.from \in 1..m /\ << x, successful[x.from].prompt >> \in verdicts'
    <3>1. CASE x \in confirmed
      BY <1>0, <2>2, <3>1 DEF VerifyInv
    <3>2. CASE x \in good
      <4>1. x.from = groups[1].from /\ groups[1].from \in 1..m
        BY <2>5, <2>8, <3>2
      <4>2. MessagesOf(groups[1]) = successful[x.from].prompt
        BY <4>1 DEF MessagesOf
      <4>. QED
        BY <2>2, <3>2, <4>1, <4>2
    <3>. QED
      BY <2>2, <3>1, <3>2
  <2>10. reviews' = << >> /\ DOMAIN << >> = {}
    BY <2>3 DEF VerifyInv
  <2>. QED
    BY <1>0, <2>3, <2>7, <2>9, <2>10 DEF VerifyInv
<1>6. CASE Discard
  <2>1. /\ pc = "verify" /\ pc' = pc /\ groups # << >> /\ successful' = successful
        /\ reviews' = reviews /\ confirmed' = confirmed /\ verdicts' = verdicts
        /\ Proceed(1, rounds)
    BY <1>6 DEF Discard
  <2>2. groups' \in Seq(GroupsOf(m))
    <3>1. groups \in Seq(GroupsOf(m)) /\ 1 \in Nat \ {0}
      BY <1>0 DEF VerifyInv
    <3>. QED
      BY <2>1, <3>1, ProceedTyped
  <2>. QED
    BY <1>0, <2>1, <2>2 DEF VerifyInv
<1>7. CASE Publish
  <2>1. /\ pc' = "completed" /\ groups' = groups /\ successful' = successful
        /\ confirmed' = confirmed /\ verdicts' = verdicts
        /\ reviews' = Select(FilterReviews(Found), confirmed)
    BY <1>7 DEF Publish
  <2>2. PICK X : X = FoundIn(m) /\ Ranked(X) /\ Placed(X) /\ Found \in Seq(X)
    BY <1>0, FoundIs, FoundRanked
  <2>3. PICK found \in Seq(X) : found = Found
    BY <2>2
  <2>4. ChosenOf(FilterReviews(found), X, Range(found))
    BY <2>2, <2>3, FilterIs
  <2>5. PICK kept \in Seq(X) : kept = FilterReviews(Found)
    BY <2>3, <2>4 DEF ChosenOf
  <2>6. Range(reviews') \subseteq confirmed
    <3>1. Selected(Select(kept, confirmed), X, Range(kept), confirmed, IsInjective(kept))
      BY SelectIs
    <3>. QED
      BY <2>1, <2>5, <3>1 DEF Selected
  <2>7. \A k \in DOMAIN reviews' : reviews'[k] \in confirmed'
    BY <2>1, <2>6 DEF Range
  <2>. QED
    BY <2>1, <2>7 DEF VerifyInv
<1>8. CASE UNCHANGED vars
  <2>1. UNCHANGED verifyVars /\ pc' = pc /\ successful' = successful
    BY <1>8 DEF vars
  <2>. QED
    BY <2>1, StayKeepsVerified
<1>. QED
  BY <1>1, <1>2, <1>3, <1>4, <1>5, <1>6, <1>7, <1>8 DEF Next

LEMMA InitVerified == Init => VerifyInv
<1>1. ASSUME Init PROVE VerifyInv
  <2>1. /\ groups = << >> /\ confirmed = {} /\ reviews = << >> /\ pc = "prepare"
        /\ DOMAIN << >> = {}
    BY <1>1 DEF Init
  <2>. QED
    BY <2>1 DEF VerifyInv
<1>. QED
  BY <1>1

\* An inline comment was confirmed against the very messages that produced it, also
\* when a retry had shortened them (run() and verify_reviews, app/review/pipeline.py).
THEOREM VerifiedOnItsPromptAlways == Spec => []VerifiedOnItsPrompt
<1>1. FlowInv /\ FlowInv' /\ VerifyInv /\ [Next]_vars => VerifyInv'
  BY NextKeepsVerified
<1>2. ASSUME FlowInv, VerifyInv PROVE VerifiedOnItsPrompt
  <2>1. ASSUME NEW k \in DOMAIN reviews
        PROVE  << reviews[k], successful[reviews[k].from].sent >> \in verdicts
    <3>1. /\ reviews[k].from \in 1..Len(successful)
          /\ << reviews[k], successful[reviews[k].from].prompt >> \in verdicts
      BY <1>2, <2>1 DEF VerifyInv
    <3>2. reviews[k].from \in DOMAIN successful
      BY <1>2, <3>1 DEF FlowInv, ResultsOK
    <3>3. successful[reviews[k].from].prompt = successful[reviews[k].from].sent
      BY <1>2, <3>2 DEF FlowInv, ResultsOK
    <3>. QED
      BY <3>1, <3>3
  <2>. QED
    BY <2>1 DEF VerifiedOnItsPrompt
<1>. QED
  BY <1>1, <1>2, InitVerified, FlowAlways, PTL DEF Spec

(***************************************************************************)
(* The notes on the files.                                                 *)
(***************************************************************************)
Wholes == {p \in Pieces : SeenWhole(p)}
SeenPieces == {p \in Pieces : SeenWhole(p) \/ SeenCut(p)}
BesideDropped == {p \in Pieces : SeenBesideDropped(p)}
RetriedFiles == {f \in Files : Retried(f)}

\* The pieces beyond the cap and those of the batches that are done.
Settled ==
  {p \in Pieces : \/ p \in BeyondCap(Targets, chars, tokens)
                  \/ \E k \in 1..(n - 1) : p \in Range(batches[k])}

\* What the notes say of the settled pieces: whole and seen were shown in full or at
\* all, those beside a dropped piece of their file, and retried files were in a batch
\* whose answer came from the shortened retry.
NotedBy(whole, seen, beside, retried, settled, om, part, rev) ==
  /\ \A p \in settled : FileOf[p] \in om \cup part \cup retried \/ p \in whole
  /\ \A f \in om \ retried : \E p \in settled \ seen : FileOf[p] = f
  /\ \A f \in part \ retried : \E p \in settled \ whole : FileOf[p] = f
  /\ \A f \in (part \cup rev) \ retried : \E p \in seen : FileOf[p] = f
  /\ \A p \in seen : FileOf[p] \in rev \cup retried \/ p \in beside

NotedInv ==
  NotedBy(Wholes, SeenPieces, BesideDropped, RetriedFiles, Settled, omitted, partial, reviewed)

\* A batch that failed settles its pieces, none of which was seen.
LEMMA GiveUpNotes ==
  ASSUME NEW whole, NEW seen, NEW beside, NEW retried, NEW settled, NEW om, NEW part, NEW rev,
         NotedBy(whole, seen, beside, retried, settled, om, part, rev),
         NEW batch, batch \cap seen = {}
  PROVE  NotedBy(whole, seen, beside, retried, settled \cup batch,
                 om \cup FilesOf(batch), part, rev)
<1>1. \A p \in batch : FileOf[p] \in FilesOf(batch)
  BY DEF FilesOf
<1>2. \A f \in FilesOf(batch) : \E p \in batch : FileOf[p] = f
  BY DEF FilesOf
<1>. QED
  BY <1>1, <1>2 DEF NotedBy

\* A batch that succeeded with the prompt that was reported, of which shown, cut and
\* dropped are the parts.
LEMMA SucceedNotes ==
  ASSUME NEW whole, NEW seen, NEW beside, NEW retried, NEW settled, NEW om, NEW part, NEW rev,
         NotedBy(whole, seen, beside, retried, settled, om, part, rev),
         NEW batch, batch \cap seen = {}, batch \cap whole = {}, batch \cap settled = {},
         NEW shown, NEW cut, NEW dropped, shown \cup cut \cup dropped = batch,
         shown \cap cut = {}, shown \cap dropped = {}, cut \cap dropped = {},
         NEW beside2, beside \subseteq beside2,
         \A p \in shown \cup cut : FileOf[p] \in FilesOf(dropped) => p \in beside2
  PROVE  NotedBy(whole \cup shown, seen \cup shown \cup cut, beside2, retried,
                 settled \cup batch, om \cup FilesOf(dropped), part \cup FilesOf(cut),
                 rev \cup (FilesOf(batch) \ FilesOf(dropped)))
<1>1. \A s, p : p \in s => FileOf[p] \in FilesOf(s)
  BY DEF FilesOf
<1>2. \A s : \A f \in FilesOf(s) : \E p \in s : FileOf[p] = f
  BY DEF FilesOf
<1>3. \A p \in settled \cup batch :
        FileOf[p] \in om \cup FilesOf(dropped) \cup (part \cup FilesOf(cut)) \cup retried
          \/ p \in whole \cup shown
  BY <1>1 DEF NotedBy
<1>4. \A f \in (om \cup FilesOf(dropped)) \ retried :
        \E p \in (settled \cup batch) \ (seen \cup shown \cup cut) : FileOf[p] = f
  <2>1. ASSUME NEW f \in om \ retried
        PROVE  \E p \in (settled \cup batch) \ (seen \cup shown \cup cut) : FileOf[p] = f
    <3>1. PICK p \in settled \ seen : FileOf[p] = f
      BY <2>1 DEF NotedBy
    <3>. QED
      BY <3>1
  <2>2. ASSUME NEW f \in FilesOf(dropped)
        PROVE  \E p \in (settled \cup batch) \ (seen \cup shown \cup cut) : FileOf[p] = f
    <3>1. PICK p \in dropped : FileOf[p] = f
      BY <1>2
    <3>. QED
      BY <3>1
  <2>. QED
    BY <2>1, <2>2
<1>5. \A f \in (part \cup FilesOf(cut)) \ retried :
        \E p \in (settled \cup batch) \ (whole \cup shown) : FileOf[p] = f
  <2>1. ASSUME NEW f \in part \ retried
        PROVE  \E p \in (settled \cup batch) \ (whole \cup shown) : FileOf[p] = f
    <3>1. PICK p \in settled \ whole : FileOf[p] = f
      BY <2>1 DEF NotedBy
    <3>. QED
      BY <3>1
  <2>2. ASSUME NEW f \in FilesOf(cut)
        PROVE  \E p \in (settled \cup batch) \ (whole \cup shown) : FileOf[p] = f
    <3>1. PICK p \in cut : FileOf[p] = f
      BY <1>2
    <3>. QED
      BY <3>1
  <2>. QED
    BY <2>1, <2>2
<1>6. ASSUME NEW f \in ((part \cup FilesOf(cut)) \cup (rev \cup (FilesOf(batch) \ FilesOf(dropped))))
                        \ retried
      PROVE  \E p \in seen \cup shown \cup cut : FileOf[p] = f
  <2>1. CASE f \in part \cup rev
    BY <1>6, <2>1 DEF NotedBy
  <2>2. CASE f \in FilesOf(cut)
    BY <1>2, <2>2
  <2>3. CASE f \in FilesOf(batch) \ FilesOf(dropped)
    <3>1. PICK p \in batch : FileOf[p] = f
      BY <1>2, <2>3
    <3>2. p \notin dropped
      BY <1>1, <2>3, <3>1
    <3>. QED
      BY <3>1, <3>2
  <2>. QED
    BY <1>6, <2>1, <2>2, <2>3
<1>7. ASSUME NEW p \in seen \cup shown \cup cut
      PROVE  FileOf[p] \in (rev \cup (FilesOf(batch) \ FilesOf(dropped))) \cup retried
               \/ p \in beside2
  <2>1. CASE p \in seen
    BY <2>1 DEF NotedBy
  <2>2. CASE p \in shown \cup cut
    <3>1. FileOf[p] \in FilesOf(batch)
      BY <1>1, <2>2
    <3>. QED
      BY <2>2, <3>1
  <2>. QED
    BY <2>1, <2>2
<1>. QED
  BY <1>3, <1>4, <1>5, <1>6, <1>7 DEF NotedBy

\* A batch that succeeded with the shortened retry: its files are noted from the
\* report of another prompt.
LEMMA RetryNotes ==
  ASSUME NEW whole, NEW seen, NEW beside, NEW retried, NEW settled, NEW om, NEW part, NEW rev,
         NotedBy(whole, seen, beside, retried, settled, om, part, rev),
         NEW batch, batch \cap settled = {},
         NEW shown, NEW cut, shown \cup cut \subseteq batch,
         NEW beside2, beside \subseteq beside2,
         NEW om2, om2 \subseteq FilesOf(batch), NEW part2, part2 \subseteq FilesOf(batch),
         NEW rev2, rev2 \subseteq FilesOf(batch)
  PROVE  NotedBy(whole \cup shown, seen \cup shown \cup cut, beside2,
                 retried \cup FilesOf(batch), settled \cup batch, om \cup om2, part \cup part2,
                 rev \cup rev2)
<1>1. \A p \in batch : FileOf[p] \in FilesOf(batch)
  BY DEF FilesOf
<1>2. \A p \in settled \cup batch :
        FileOf[p] \in (om \cup om2) \cup (part \cup part2) \cup (retried \cup FilesOf(batch))
          \/ p \in whole \cup shown
  BY <1>1 DEF NotedBy
<1>3. ASSUME NEW f \in (om \cup om2) \ (retried \cup FilesOf(batch))
      PROVE  \E p \in (settled \cup batch) \ (seen \cup shown \cup cut) : FileOf[p] = f
  <2>1. PICK p \in settled \ seen : FileOf[p] = f
    BY <1>3 DEF NotedBy
  <2>. QED
    BY <2>1
<1>4. ASSUME NEW f \in (part \cup part2) \ (retried \cup FilesOf(batch))
      PROVE  \E p \in (settled \cup batch) \ (whole \cup shown) : FileOf[p] = f
  <2>1. PICK p \in settled \ whole : FileOf[p] = f
    BY <1>4 DEF NotedBy
  <2>. QED
    BY <2>1
<1>5. ASSUME NEW f \in ((part \cup part2) \cup (rev \cup rev2)) \ (retried \cup FilesOf(batch))
      PROVE  \E p \in seen \cup shown \cup cut : FileOf[p] = f
  <2>1. PICK p \in seen : FileOf[p] = f
    BY <1>5 DEF NotedBy
  <2>. QED
    BY <2>1
<1>6. \A p \in seen \cup shown \cup cut :
        FileOf[p] \in (rev \cup rev2) \cup (retried \cup FilesOf(batch)) \/ p \in beside2
  BY <1>1 DEF NotedBy
<1>. QED
  BY <1>2, <1>3, <1>4, <1>5, <1>6 DEF NotedBy

\* The batch at work is apart from what is settled or was seen.
LEMMA BatchIsAhead ==
  ASSUME FlowInv, pc \in Working
  PROVE  /\ Range(Batch) \subseteq Pieces
         /\ Range(Batch) \cap SeenPieces = {} /\ Range(Batch) \cap Wholes = {}
         /\ Range(Batch) \cap Settled = {}
<1>1. /\ n \in DOMAIN batches /\ n \in Nat /\ pc \notin Unplanned
      /\ \A k \in 1..(n - 1) : k \in DOMAIN batches /\ k # n
  <2>1. n \in 1..Len(batches) /\ DOMAIN batches = 1..Len(batches) /\ Len(batches) \in Nat
    BY DEF FlowInv, PlanOK
  <2>. QED
    BY <2>1, StagesAre
<1>2. PackedOK(batches, Pieces \ BeyondCap(Targets, chars, tokens), chars, tokens)
  BY <1>1, PlannedBatches
<1>3. Range(Batch) \subseteq Pieces \ BeyondCap(Targets, chars, tokens)
  BY <1>1, <1>2 DEF PackedOK, Batch
<1>4. \A k \in 1..(n - 1) : Range(batches[k]) \cap Range(Batch) = {}
  BY <1>1, <1>2 DEF PackedOK, Batch
<1>5. Range(Batch) \cap Settled = {}
  BY <1>3, <1>4 DEF Settled
<1>6. ASSUME NEW i \in DOMAIN successful
      PROVE  /\ successful[i].sent.whole \cap Range(Batch) = {}
             /\ successful[i].sent.cut \cap Range(Batch) = {}
  <2>1. PICK k \in 1..(n - 1) : PromptFor(k, successful[i].sent)
    BY DEF FlowInv, ResultsOK
  <2>2. /\ successful[i].sent.whole \subseteq Range(batches[k])
        /\ successful[i].sent.cut \subseteq Range(batches[k])
    BY <2>1 DEF PromptFor, Parts
  <2>. QED
    BY <1>4, <2>1, <2>2
<1>7. Range(Batch) \cap SeenPieces = {} /\ Range(Batch) \cap Wholes = {}
  BY <1>6 DEF SeenPieces, Wholes, SeenWhole, SeenCut
<1>. QED
  BY <1>3, <1>5, <1>7

\* The batch that ends is settled.
LEMMA EndSettles ==
  ASSUME FlowInv, pc \in Working, n' = n + 1, batches' = batches, chars' = chars,
         tokens' = tokens
  PROVE  Settled' = Settled \cup Range(Batch)
<1>1. n \in Nat /\ n >= 1 /\ 1..(n' - 1) = 1..(n - 1) \cup {n}
  BY DEF FlowInv, PlanOK
<1>2. Range(Batch) \subseteq Pieces
  BY BatchIsAhead
<1>3. ASSUME NEW p \in Pieces
      PROVE  (\E k \in 1..(n' - 1) : p \in Range(batches'[k]))
               <=> (\E k \in 1..(n - 1) : p \in Range(batches[k])) \/ p \in Range(Batch)
  BY <1>1 DEF Batch
<1>. QED
  BY <1>2, <1>3 DEF Settled

\* What the model has seen when an answer of it counts.
LEMMA SucceedSees ==
  ASSUME FlowInv, pc \in {"generate", "shorten"}, NEW result,
         successful' = Append(successful, result), result \in Results, result.sent = prompt,
         batches' = batches
  PROVE  /\ Wholes' = Wholes \cup prompt.whole
         /\ SeenPieces' = SeenPieces \cup prompt.whole \cup prompt.cut
         /\ BesideDropped \subseteq BesideDropped'
         /\ \A p \in prompt.whole \cup prompt.cut :
              FileOf[p] \in FilesOf(prompt.dropped) => p \in BesideDropped'
         /\ RetriedFiles'
              = RetriedFiles \cup (IF prompt.short THEN FilesOf(Range(Batch)) ELSE {})
<1>1. PICK m \in Nat : m = Len(successful) /\ DOMAIN successful = 1..m
  BY DEF FlowInv, ResultsOK
<1>2. PICK rs : rs = successful'
  OBVIOUS
<1>3. DOMAIN rs = 1..m \cup {m + 1} /\ rs[m + 1].sent = prompt
      /\ \A i \in 1..m : rs[i] = successful[i]
  BY <1>1, <1>2 DEF FlowInv, ResultsOK
<1>4. /\ prompt.whole \subseteq Pieces /\ prompt.cut \subseteq Pieces
      /\ prompt.batch = n /\ Range(Batch) \subseteq Pieces
  <2>1. pc \in Working
    BY DEF Working
  <2>. QED
    BY <2>1, BatchIsAhead DEF FlowInv, PromptsOK, Prompts, PromptFor
<1>5. \A p : /\ SeenWhole(p)' <=> SeenWhole(p) \/ p \in prompt.whole
             /\ SeenCut(p)' <=> SeenCut(p) \/ p \in prompt.cut
  BY <1>1, <1>2, <1>3 DEF SeenWhole, SeenCut
<1>6. \A p : /\ SeenBesideDropped(p) => SeenBesideDropped(p)'
             /\ p \in prompt.whole \cup prompt.cut /\ FileOf[p] \in FilesOf(prompt.dropped)
                  => SeenBesideDropped(p)'
  BY <1>1, <1>2, <1>3 DEF SeenBesideDropped
<1>7. \A f : Retried(f)' <=> \/ Retried(f)
                             \/ prompt.short /\ f \in FilesOf(Range(Batch))
  BY <1>1, <1>2, <1>3, <1>4 DEF Retried, Batch
<1>8. Wholes' = Wholes \cup prompt.whole
      /\ SeenPieces' = SeenPieces \cup prompt.whole \cup prompt.cut
  BY <1>4, <1>5 DEF Wholes, SeenPieces
<1>9. /\ BesideDropped \subseteq BesideDropped'
      /\ \A p \in prompt.whole \cup prompt.cut :
           FileOf[p] \in FilesOf(prompt.dropped) => p \in BesideDropped'
  BY <1>4, <1>6 DEF BesideDropped
<1>10. RetriedFiles' = RetriedFiles \cup (IF prompt.short THEN FilesOf(Range(Batch)) ELSE {})
  <2>1. FilesOf(Range(Batch)) \subseteq Files
    BY <1>4, FilesOfPieces
  <2>. QED
    BY <1>7, <2>1 DEF RetriedFiles
<1>. QED
  BY <1>8, <1>9, <1>10

\* What the notes of a review say once the batches are done.
ToldBy(whole, seen, beside, retried, om, part) ==
  /\ \A f \in Files :
       f \in om \cup part \cup retried \/ \A p \in Pieces : FileOf[p] = f => p \in whole
  /\ om \cap part = {}
  /\ \A f \in (om \cup part) \ retried : \E p \in Pieces \ whole : FileOf[p] = f
  /\ \A f \in part \ retried : \E p \in seen : FileOf[p] = f
  /\ \A f \in om \ retried : \A p \in seen : FileOf[p] = f => p \in beside

ToldInv == ToldBy(Wholes, SeenPieces, BesideDropped, RetriedFiles, omitted, partial)

NotesInv ==
  /\ pc \in Unplanned => partial = {} /\ reviewed = {}
  /\ pc \in Working \cup {"reduce", "failed"} => NotedInv
  /\ pc \in {"verify", "completed"} => ToldInv

\* What a step without an answer and without an end of a batch leaves alone.
LEMMA SameSeen ==
  ASSUME UNCHANGED << chars, tokens, batches, n, successful >>
  PROVE  /\ Wholes' = Wholes /\ SeenPieces' = SeenPieces /\ BesideDropped' = BesideDropped
         /\ RetriedFiles' = RetriedFiles /\ Settled' = Settled
BY DEF Wholes, SeenPieces, BesideDropped, RetriedFiles, Settled, SeenWhole, SeenCut,
       SeenBesideDropped, Retried

LEMMA StayKeepsNotes ==
  ASSUME NotesInv, UNCHANGED << chars, tokens, batches, n, successful >>, UNCHANGED notes,
         \/ pc' = pc
         \/ pc \in Working /\ pc' \in Working
         \/ pc \in Unplanned /\ pc' \in Unplanned
         \/ pc \in {"verify", "completed"} /\ pc' \in {"verify", "completed"}
  PROVE  NotesInv'
<1>1. omitted' = omitted /\ partial' = partial /\ reviewed' = reviewed
  BY DEF notes
<1>2. (NotedInv => NotedInv') /\ (ToldInv => ToldInv')
  BY <1>1, SameSeen DEF NotedInv, ToldInv
<1>3. /\ Working \cap Unplanned = {} /\ Working \cap {"verify", "completed"} = {}
      /\ Unplanned \cap {"reduce", "failed", "verify", "completed"} = {}
  BY DEF Working, Unplanned
<1>. QED
  BY <1>1, <1>2, <1>3 DEF NotesInv

LEMMA GiveUpKeepsNotes ==
  ASSUME FlowInv, NotesInv, pc \in Working, GiveUp, batches' = batches, chars' = chars,
         tokens' = tokens
  PROVE  NotesInv'
<1>1. /\ n' = n + 1 /\ pc' \in {"assemble", "failed", "reduce"}
      /\ successful' = successful /\ partial' = partial
      /\ reviewed' = reviewed /\ omitted' = omitted \cup FilesOf(Range(Batch))
  BY DEF GiveUp, NextBatch
<1>2. Settled' = Settled \cup Range(Batch)
  BY <1>1, EndSettles
<1>3. /\ Wholes' = Wholes /\ SeenPieces' = SeenPieces /\ BesideDropped' = BesideDropped
      /\ RetriedFiles' = RetriedFiles
  BY <1>1 DEF Wholes, SeenPieces, BesideDropped, RetriedFiles, SeenWhole, SeenCut,
              SeenBesideDropped, Retried
<1>4. NotedBy(Wholes, SeenPieces, BesideDropped, RetriedFiles, Settled, omitted, partial, reviewed)
  BY DEF NotesInv, NotedInv
<1>5. Range(Batch) \cap SeenPieces = {}
  BY BatchIsAhead
<1>6. NotedBy(Wholes, SeenPieces, BesideDropped, RetriedFiles, Settled \cup Range(Batch),
              omitted \cup FilesOf(Range(Batch)), partial, reviewed)
  BY <1>4, <1>5, GiveUpNotes
<1>7. NotedInv'
  BY <1>1, <1>2, <1>3, <1>6 DEF NotedInv
<1>. QED
  BY <1>1, <1>7 DEF NotesInv, Unplanned

LEMMA SucceedKeepsNotes ==
  ASSUME FlowInv, NotesInv, pc \in {"generate", "shorten"}, NEW answer \in Seq(Findings),
         Succeed(answer, prompt, prompt), batches' = batches, chars' = chars, tokens' = tokens
  PROVE  NotesInv'
<1>1. PICK result : result = [prompt |-> prompt, sent |-> prompt, findings |-> answer]
  OBVIOUS
<1>2. /\ successful' = Append(successful, result)
      /\ omitted' = omitted \cup FilesOf(report.dropped)
      /\ partial' = partial \cup FilesOf(report.cut)
      /\ reviewed' = reviewed \cup (FilesOf(Range(Batch)) \ FilesOf(report.dropped))
      /\ n' = n + 1
  BY <1>1 DEF Succeed, NextBatch
<1>3. pc' \in {"assemble", "failed", "reduce"}
  BY DEF Succeed, NextBatch
<1>4. pc \in Working
  BY DEF Working
<1>5. Settled' = Settled \cup Range(Batch)
  BY <1>2, <1>4, EndSettles
<1>6. /\ Wholes' = Wholes \cup prompt.whole
      /\ SeenPieces' = SeenPieces \cup prompt.whole \cup prompt.cut
      /\ BesideDropped \subseteq BesideDropped'
      /\ \A p \in prompt.whole \cup prompt.cut :
           FileOf[p] \in FilesOf(prompt.dropped) => p \in BesideDropped'
      /\ RetriedFiles'
           = RetriedFiles \cup (IF prompt.short THEN FilesOf(Range(Batch)) ELSE {})
  <2>1. result \in Results /\ result.sent = prompt
    BY <1>1 DEF Results, FlowInv, PromptsOK
  <2>. QED
    BY <1>2, <2>1, SucceedSees
<1>7. NotedBy(Wholes, SeenPieces, BesideDropped, RetriedFiles, Settled, omitted, partial, reviewed)
  BY <1>4 DEF NotesInv, NotedInv
<1>8. /\ Range(Batch) \cap SeenPieces = {} /\ Range(Batch) \cap Wholes = {}
      /\ Range(Batch) \cap Settled = {}
  BY <1>4, BatchIsAhead
<1>9. Parts(prompt, Range(Batch), TRUE) /\ Parts(report, Range(Batch), TRUE)
  BY DEF FlowInv, PromptsOK, PromptFor, Batch
<1>10. NotedInv'
  <2>1. CASE pc = "generate"
    <3>1. report = prompt /\ ~prompt.short
      BY <2>1 DEF FlowInv, PromptsOK
    <3>2. /\ prompt.whole \cup prompt.cut \cup prompt.dropped = Range(Batch)
          /\ prompt.whole \cap prompt.cut = {} /\ prompt.whole \cap prompt.dropped = {}
          /\ prompt.cut \cap prompt.dropped = {}
      BY <1>9 DEF Parts
    <3>3. NotedBy(Wholes \cup prompt.whole, SeenPieces \cup prompt.whole \cup prompt.cut,
                  BesideDropped', RetriedFiles, Settled \cup Range(Batch),
                  omitted \cup FilesOf(prompt.dropped), partial \cup FilesOf(prompt.cut),
                  reviewed \cup (FilesOf(Range(Batch)) \ FilesOf(prompt.dropped)))
      BY <1>6, <1>7, <1>8, <3>2, SucceedNotes
    <3>4. RetriedFiles' = RetriedFiles
      BY <1>6, <3>1
    <3>. QED
      BY <1>2, <1>5, <1>6, <3>1, <3>3, <3>4 DEF NotedInv
  <2>2. CASE pc = "shorten"
    <3>1. prompt.short
      BY <2>2 DEF FlowInv, PromptsOK
    <3>2. /\ prompt.whole \cup prompt.cut \subseteq Range(Batch)
          /\ report.dropped \subseteq Range(Batch) /\ report.cut \subseteq Range(Batch)
      BY <1>9 DEF Parts
    <3>3. PICK om, part, rev : /\ om = FilesOf(report.dropped) /\ part = FilesOf(report.cut)
                               /\ rev = FilesOf(Range(Batch)) \ FilesOf(report.dropped)
      OBVIOUS
    <3>4. /\ om \subseteq FilesOf(Range(Batch)) /\ part \subseteq FilesOf(Range(Batch))
          /\ rev \subseteq FilesOf(Range(Batch))
      BY <3>2, <3>3 DEF FilesOf
    <3>5. NotedBy(Wholes \cup prompt.whole, SeenPieces \cup prompt.whole \cup prompt.cut,
                  BesideDropped', RetriedFiles \cup FilesOf(Range(Batch)),
                  Settled \cup Range(Batch), omitted \cup om, partial \cup part, reviewed \cup rev)
      BY <1>6, <1>7, <1>8, <3>2, <3>4, RetryNotes
    <3>6. RetriedFiles' = RetriedFiles \cup FilesOf(Range(Batch))
      BY <1>6, <3>1
    <3>. QED
      BY <1>2, <1>5, <1>6, <3>3, <3>5, <3>6 DEF NotedInv
  <2>. QED
    BY <2>1, <2>2
<1>. QED
  BY <1>3, <1>10 DEF NotesInv, Unplanned

\* After the last batch every piece is settled, and the notes tell of every file.
LEMMA ReduceTells ==
  ASSUME NEW whole, NEW seen, NEW beside, NEW retried, NEW om, NEW part, NEW rev,
         NotedBy(whole, seen, beside, retried, Pieces, om, part, rev), whole \subseteq seen
  PROVE  ToldBy(whole, seen, beside, retried, om \ rev, (part \cup (om \cap rev)) \ (om \ rev))
<1>1. \A f \in Files : \/ f \in om \cup part \cup retried
                       \/ \A p \in Pieces : FileOf[p] = f => p \in whole
  BY DEF NotedBy
<1>2. (om \ rev) \cup ((part \cup (om \cap rev)) \ (om \ rev)) = om \cup part
  OBVIOUS
<1>3. ASSUME NEW f \in (om \cup part) \ retried
      PROVE  \E p \in Pieces \ whole : FileOf[p] = f
  <2>1. CASE f \in part
    BY <1>3, <2>1 DEF NotedBy
  <2>2. CASE f \in om
    <3>1. PICK p \in Pieces \ seen : FileOf[p] = f
      BY <1>3, <2>2 DEF NotedBy
    <3>. QED
      BY <3>1
  <2>. QED
    BY <1>3, <2>1, <2>2
<1>4. \A f \in (part \cup (om \cap rev)) \ retried : \E p \in seen : FileOf[p] = f
  BY DEF NotedBy
<1>5. \A f \in (om \ rev) \ retried : \A p \in seen : FileOf[p] = f => p \in beside
  BY DEF NotedBy
<1>. QED
  BY <1>1, <1>2, <1>3, <1>4, <1>5 DEF ToldBy

LEMMA AllSettled ==
  ASSUME FlowInv, pc = "reduce"
  PROVE  Settled = Pieces
<1>1. /\ pc \notin Unplanned /\ n - 1 = Len(batches) /\ DOMAIN batches = 1..(n - 1)
  BY DEF FlowInv, PlanOK, After, Unplanned
<1>2. PackedOK(batches, Pieces \ BeyondCap(Targets, chars, tokens), chars, tokens)
  BY <1>1, PlannedBatches
<1>3. UNION {Range(batches[i]) : i \in 1..(n - 1)} = Pieces \ BeyondCap(Targets, chars, tokens)
  BY <1>1, <1>2 DEF PackedOK
<1>4. ASSUME NEW p \in Pieces \ BeyondCap(Targets, chars, tokens)
      PROVE  \E k \in 1..(n - 1) : p \in Range(batches[k])
  BY <1>3
<1>. QED
  BY <1>4 DEF Settled

LEMMA PrepareKeepsNotes ==
  ASSUME FlowInv, FlowInv', NotesInv, Prepare
  PROVE  NotesInv'
<1>1. /\ pc \in Unplanned /\ successful' = << >> /\ partial' = {} /\ reviewed' = {}
      /\ n' = 1 /\ omitted' = FilesOf(BeyondCap(Targets, chars, tokens))
      /\ chars' = chars /\ tokens' = tokens /\ pc' \in {"assemble", "completed"}
      /\ pc' = "completed" => Targets = << >>
  BY DEF Prepare, Unplanned, FlowInv, PlanOK, ResultsOK, NotesInv, inputs
<1>2. DOMAIN successful' = {}
  BY <1>1
<1>3. Wholes' = {} /\ SeenPieces' = {}
  BY <1>2 DEF Wholes, SeenPieces, SeenWhole, SeenCut
<1>4. BeyondCap(Targets, chars, tokens) \subseteq Pieces
  BY SplitIsSound
<1>5. Settled' = BeyondCap(Targets, chars, tokens)
  <2>1. 1..(n' - 1) = {}
    BY <1>1
  <2>. QED
    BY <1>1, <1>4, <2>1 DEF Settled
<1>6. NotedInv'
  <2>1. \A p \in Settled' : FileOf[p] \in omitted'
    BY <1>1, <1>5 DEF FilesOf
  <2>2. \A f \in omitted' : \E p \in Settled' : FileOf[p] = f
    BY <1>1, <1>5 DEF FilesOf
  <2>. QED
    BY <1>1, <1>3, <2>1, <2>2 DEF NotedInv, NotedBy
<1>7. pc' = "completed" => ToldInv'
  <2>1. ASSUME pc' = "completed" PROVE Files = {}
    <3>1. Pieces = {}
      BY <1>1, <2>1, PipelineAssumption DEF Range
    <3>. QED
      BY <3>1 DEF Files, Pieces, Range
  <2>2. omitted' \subseteq Files /\ partial' = {}
    BY <1>1 DEF FlowInv, NotesTyped
  <2>. QED
    BY <2>1, <2>2 DEF ToldInv, ToldBy
<1>. QED
  BY <1>1, <1>6, <1>7 DEF NotesInv, Unplanned

LEMMA NextKeepsNotes ==
  ASSUME FlowInv, FlowInv', NotesInv, [Next]_vars
  PROVE  NotesInv'
<1>1. CASE RetrievalFails
  <2>1. /\ UNCHANGED << chars, tokens, batches, n, successful >> /\ UNCHANGED notes
        /\ pc \in Unplanned /\ pc' \in Unplanned
    BY <1>1 DEF RetrievalFails, Unplanned, inputs, batchVars
  <2>. QED
    BY <2>1, StayKeepsNotes
<1>2. CASE Prepare
  BY <1>2, PrepareKeepsNotes
<1>3. CASE Assemble \/ GenerateTimesOut \/ GenerateFails \/ GenerateTruncated \/ RetryFails
  <2>0. pc \in Working /\ batches' = batches /\ chars' = chars /\ tokens' = tokens
    BY <1>3 DEF Assemble, GenerateTimesOut, GenerateFails, GenerateTruncated, RetryFails,
                Working, inputs
  <2>1. CASE GiveUp
    BY <2>0, <2>1, GiveUpKeepsNotes
  <2>2. CASE ~GiveUp
    <3>1. n' = n /\ successful' = successful /\ UNCHANGED notes /\ pc' \in Working
      BY <1>3, <2>2 DEF Assemble, GenerateTimesOut, GenerateFails, GenerateTruncated,
                        RetryFails, Working
    <3>2. UNCHANGED << chars, tokens, batches, n, successful >>
      BY <2>0, <3>1
    <3>. QED
      BY <2>0, <3>1, <3>2, StayKeepsNotes
  <2>. QED
    BY <2>1, <2>2
<1>4. CASE Generate
  <2>1. PICK answer \in Answers : Succeed(answer, prompt, prompt)
    BY <1>4 DEF Generate
  <2>2. answer \in Seq(Findings)
    BY PipelineAssumption
  <2>3. /\ pc \in {"generate", "shorten"} /\ batches' = batches
        /\ chars' = chars /\ tokens' = tokens
    BY <1>4 DEF Generate, inputs
  <2>. QED
    BY <2>1, <2>2, <2>3, SucceedKeepsNotes
<1>5. CASE Retry
  <2>1. PICK answer \in Answers : Succeed(Shortened(answer), prompt, prompt)
    BY <1>5 DEF Retry
  <2>2. Shortened(answer) \in Seq(Findings)
    BY ShortenedTyped, PipelineAssumption
  <2>3. /\ pc \in {"generate", "shorten"} /\ batches' = batches
        /\ chars' = chars /\ tokens' = tokens
    BY <1>5 DEF Retry, inputs
  <2>. QED
    BY <2>1, <2>2, <2>3, SucceedKeepsNotes
<1>6. CASE Reduce
  <2>1. /\ pc = "reduce" /\ pc' = "verify"
        /\ omitted' = omitted \ reviewed
        /\ partial' = (partial \cup (omitted \cap reviewed)) \ (omitted \ reviewed)
        /\ UNCHANGED << chars, tokens, batches, n, successful >>
    BY <1>6 DEF Reduce, inputs, batchVars
  <2>2. NotedBy(Wholes, SeenPieces, BesideDropped, RetriedFiles, Pieces, omitted, partial, reviewed)
    BY <2>1, AllSettled DEF NotesInv, NotedInv
  <2>3. ToldBy(Wholes, SeenPieces, BesideDropped, RetriedFiles, omitted \ reviewed,
               (partial \cup (omitted \cap reviewed)) \ (omitted \ reviewed))
    <3>1. Wholes \subseteq SeenPieces
      BY DEF Wholes, SeenPieces
    <3>. QED
      BY <2>2, <3>1, ReduceTells
  <2>4. /\ Wholes' = Wholes /\ SeenPieces' = SeenPieces /\ BesideDropped' = BesideDropped
        /\ RetriedFiles' = RetriedFiles
    BY <2>1, SameSeen
  <2>5. ToldInv'
    BY <2>1, <2>3, <2>4 DEF ToldInv
  <2>. QED
    BY <2>1, <2>5 DEF NotesInv, Unplanned, Working
<1>7. CASE Verify \/ Discard \/ Publish
  <2>1. /\ UNCHANGED << chars, tokens, batches, n, successful >> /\ UNCHANGED notes
        /\ pc \in {"verify", "completed"} /\ pc' \in {"verify", "completed"}
    BY <1>7 DEF Verify, Discard, Publish, inputs, batchVars
  <2>. QED
    BY <2>1, StayKeepsNotes
<1>8. CASE UNCHANGED vars
  <2>1. /\ UNCHANGED << chars, tokens, batches, n, successful >> /\ UNCHANGED notes /\ pc' = pc
    BY <1>8 DEF vars, inputs, batchVars
  <2>. QED
    BY <2>1, StayKeepsNotes
<1>. QED
  BY <1>1, <1>2, <1>3, <1>4, <1>5, <1>6, <1>7, <1>8 DEF Next

LEMMA InitNotes == Init => NotesInv
BY DEF Init, NotesInv, Unplanned, Working

LEMMA NotesAlways == Spec => []NotesInv
<1>1. FlowInv /\ FlowInv' /\ NotesInv /\ [Next]_vars => NotesInv'
  BY NextKeepsNotes
<1>. QED
  BY <1>1, InitNotes, FlowAlways, PTL DEF Spec

\* A completed review names every file of which the model did not see all, but for
\* files of a batch that was retried with a shortened answer (run(),
\* app/review/pipeline.py).
THEOREM FilesAccountedAlways == Spec => []FilesAccountedButRetried
<1>1. ASSUME NotesInv PROVE FilesAccountedButRetried
  <2>1. ASSUME pc = "completed", NEW f \in Files
        PROVE  f \in omitted \cup partial \/ Retried(f) \/ InFull(f)
    <3>1. \/ f \in omitted \cup partial \cup RetriedFiles
          \/ \A p \in Pieces : FileOf[p] = f => p \in Wholes
      BY <1>1, <2>1 DEF NotesInv, ToldInv, ToldBy
    <3>. QED
      BY <3>1 DEF RetriedFiles, Wholes, InFull
  <2>. QED
    BY <2>1 DEF FilesAccountedButRetried
<1>. QED
  BY <1>1, NotesAlways, PTL

\* The notes of a completed review are true, but for batches that were retried: of a
\* file reviewed in part some was shown and some was not in full, and of an omitted
\* file nothing was shown but in a prompt that dropped another piece of it (run(),
\* app/review/pipeline.py).
THEOREM NotesTrueAlways == Spec => []NotesTrue
<1>1. ASSUME FlowInv, NotesInv PROVE NotesTrue
  <2>. SUFFICES ASSUME pc = "completed" PROVE NotesTrue
    BY DEF NotesTrue
  <2>1. ToldBy(Wholes, SeenPieces, BesideDropped, RetriedFiles, omitted, partial)
    BY <1>1 DEF NotesInv, ToldInv
  <2>2. omitted \cap partial = {}
    BY <2>1 DEF ToldBy
  <2>3. ASSUME NEW f \in omitted \cup partial, ~Retried(f)
        PROVE  LET seen == {p \in Pieces : FileOf[p] = f /\ (SeenWhole(p) \/ SeenCut(p))} IN
               /\ ~InFull(f)
               /\ IF f \in partial THEN seen # {} ELSE \A p \in seen : SeenBesideDropped(p)
    <3>1. f \in Files /\ f \notin RetriedFiles
      BY <1>1, <2>3 DEF FlowInv, NotesTyped, RetriedFiles
    <3>2. ~InFull(f)
      <4>1. PICK p \in Pieces \ Wholes : FileOf[p] = f
        BY <2>1, <2>3, <3>1 DEF ToldBy
      <4>. QED
        BY <4>1 DEF InFull, Wholes
    <3>3. CASE f \in partial
      <4>1. PICK p \in SeenPieces : FileOf[p] = f
        BY <2>1, <3>1, <3>3 DEF ToldBy
      <4>. QED
        BY <3>2, <3>3, <4>1 DEF SeenPieces
    <3>4. CASE f \notin partial
      <4>1. \A p \in SeenPieces : FileOf[p] = f => p \in BesideDropped
        BY <2>1, <2>3, <3>1, <3>4 DEF ToldBy
      <4>. QED
        BY <3>2, <3>4, <4>1 DEF SeenPieces, BesideDropped
    <3>. QED
      BY <3>3, <3>4
  <2>. QED
    BY <2>2, <2>3 DEF NotesTrue
<1>. QED
  BY <1>1, FlowAlways, NotesAlways, PTL
=============================================================================
