------------------------------ MODULE Folds_proofs ------------------------------
(***************************************************************************)
(* What a fold over a sequence computes, by induction over a set of        *)
(* numbers, since FoldLeft is defined by way of a function on the subsets  *)
(* of its indices; what Selections make of lists; lists one after another, *)
(* their sums and images; and a few facts about lists and numbers.  The    *)
(* proofs about the review pipeline, about model calls and about the       *)
(* context of a review rest on them.                                       *)
(***************************************************************************)
EXTENDS Integers, Sequences, FiniteSetsExt, Selections, WellFoundedInduction,
        FiniteSetTheorems, SequenceTheorems, TLAPS

(***************************************************************************)
(* Induction.                                                              *)
(***************************************************************************)
LEMMA NatSetInduction ==
  ASSUME NEW S, 0 \in S, \A n \in Nat : n \in S => n + 1 \in S
  PROVE  Nat \subseteq S
<1> DEFINE T == Nat \ S
<1>1. SUFFICES ASSUME T # {} PROVE FALSE
  OBVIOUS
<1>2. PICK R : R = OpToRel(<, Nat)
  OBVIOUS
<1>3. IsWellFoundedOn(R, Nat)
  BY <1>2, NatLessThanWellFounded
<1>4. PICK x \in T : \A y \in T : << y, x >> \notin R
  BY <1>1, <1>3, WFMin
<1>5. \A y \in T : ~(y < x)
  BY <1>2, <1>4 DEF OpToRel
<1>6. x # 0 /\ x - 1 \in Nat /\ (x - 1) + 1 = x /\ x - 1 < x
  BY <1>4
<1>7. x - 1 \in S
  BY <1>5, <1>6
<1>. QED
  BY <1>4, <1>6, <1>7

LEMMA MaxOfNats ==
  ASSUME NEW n \in Nat, NEW s \in SUBSET (1..n), s # {}
  PROVE  Max(s) \in s /\ \A i \in s : i <= Max(s)
<1> DEFINE S == {k \in Nat : \A t \in SUBSET (1..k) : t # {} => \E x \in t : \A i \in t : x >= i}
<1>1. 0 \in S
  <2>1. 1..0 = {}
    OBVIOUS
  <2>. QED
    BY <2>1
<1>2. ASSUME NEW k \in Nat, k \in S
      PROVE  k + 1 \in S
  <2>1. ASSUME NEW t \in SUBSET (1..(k + 1)), t # {}
        PROVE  \E x \in t : \A i \in t : x >= i
    <3>1. CASE k + 1 \in t
      BY <3>1
    <3>2. CASE k + 1 \notin t
      <4>1. t \in SUBSET (1..k)
        BY <3>2
      <4>. QED
        BY <1>2, <2>1, <4>1
    <3>. QED
      BY <3>1, <3>2
  <2>. QED
    BY <2>1
<1>3. n \in S
  <2> HIDE DEF S
  <2>. QED
    BY <1>1, <1>2, NatSetInduction
<1>4. \E x \in s : \A i \in s : x >= i
  BY <1>3
<1>5. \A i \in s : i \in Nat
  OBVIOUS
<1>. QED
  BY <1>4, <1>5 DEF Max

\* What a fold over a sequence of length n computes.
IsFold(g, V, b, n, D) ==
  /\ g \in [SUBSET (1..n) -> V]
  /\ \A s \in SUBSET (1..n) :
       g[s] = IF s = {} THEN b ELSE D[<< g[s \ {Max(s)}], Max(s) >>]

\* A fold over a sequence of length n whose results are in V is defined.
LEMMA FoldExists ==
  ASSUME NEW V, NEW b \in V, NEW n \in Nat, NEW D \in [V \X (1..n) -> V]
  PROVE  \E g : IsFold(g, V, b, n, D)
<1> DEFINE Folds(g, k) ==
      /\ g \in [SUBSET (1..k) -> V]
      /\ \A s \in SUBSET (1..k) : g[s] = IF s = {} THEN b ELSE D[<< g[s \ {Max(s)}], Max(s) >>]
           S == {k \in Nat : k <= n => \E g : Folds(g, k)}
<1>1. 0 \in S
  <2>1. Folds([s \in SUBSET (1..0) |-> b], 0)
    OBVIOUS
  <2>. QED
    BY <2>1
<1>2. ASSUME NEW k \in Nat, k \in S
      PROVE  k + 1 \in S
  <2>0. SUFFICES ASSUME k + 1 <= n PROVE \E g : Folds(g, k + 1)
    <3> HIDE DEF Folds
    <3>. QED
      OBVIOUS
  <2>1. PICK g : Folds(g, k)
    <3> HIDE DEF Folds
    <3>. QED
      BY <1>2, <2>0
  <2>2. PICK f : f = [s \in SUBSET (1..(k + 1)) |->
                        IF k + 1 \in s THEN D[<< g[s \ {k + 1}], k + 1 >>] ELSE g[s]]
    OBVIOUS
  <2>3. ASSUME NEW s \in SUBSET (1..(k + 1))
        PROVE  /\ f[s] \in V
               /\ f[s] = IF s = {} THEN b ELSE D[<< f[s \ {Max(s)}], Max(s) >>]
    <3>1. CASE k + 1 \in s
      <4>1. s \ {k + 1} \in SUBSET (1..k) /\ k + 1 \in 1..n
        BY <2>0, <2>3
      <4>2. Max(s) = k + 1
        <5>1. s # {} /\ k + 1 \in Nat /\ \A i \in s : i \in Nat /\ i <= k + 1
          BY <2>3, <3>1
        <5>2. PICK m : m = Max(s)
          OBVIOUS
        <5>3. m \in s /\ \A i \in s : i <= m
          BY <5>1, <5>2, MaxOfNats
        <5>4. m \in Nat /\ m <= k + 1 /\ k + 1 <= m
          BY <3>1, <5>1, <5>3
        <5>. QED
          BY <5>2, <5>4
      <4>3. f[s \ {k + 1}] = g[s \ {k + 1}] /\ f[s] = D[<< g[s \ {k + 1}], k + 1 >>]
        BY <2>2, <3>1, <4>1
      <4>4. g[s \ {k + 1}] \in V
        BY <2>1, <4>1
      <4>. QED
        BY <3>1, <4>1, <4>2, <4>3, <4>4
    <3>2. CASE k + 1 \notin s
      <4>1. s \in SUBSET (1..k)
        BY <3>2
      <4>2. f[s] = g[s] /\ s \ {Max(s)} \in SUBSET (1..k)
        BY <2>2, <3>2, <4>1
      <4>3. f[s \ {Max(s)}] = g[s \ {Max(s)}]
        BY <2>2, <4>2
      <4>. QED
        BY <2>1, <4>1, <4>2, <4>3
    <3>. QED
      BY <3>1, <3>2
  <2>4. Folds(f, k + 1)
    BY <2>2, <2>3
  <2>. QED
    BY <2>4
<1>3. n \in S
  <2> HIDE DEF S
  <2>. QED
    BY <1>1, <1>2, NatSetInduction
<1>4. \E g : Folds(g, n)
  <2> HIDE DEF Folds
  <2>. QED
    BY <1>3
<1>. QED
  BY <1>4 DEF IsFold

\* A function that is such a fold as far as its results are in V.
Unfolds(h, V, b, n, D) ==
  /\ h[{}] = b
  /\ \A s \in SUBSET (1..n) :
       s # {} /\ h[s \ {Max(s)}] \in V => h[s] = D[<< h[s \ {Max(s)}], Max(s) >>]

\* The results of the prefixes of the sequence.
IsRun(a, V, b, n, D) ==
  /\ a \in [0..n -> V] /\ a[0] = b
  /\ \A k \in 1..n : a[k] = D[<< a[k - 1], k >>]

RunsTo(h, V, b, n, D) == \E a : IsRun(a, V, b, n, D) /\ a[n] = h[1..n]

LEMMA FoldRuns ==
  ASSUME NEW V, NEW b \in V, NEW n \in Nat, NEW D \in [V \X (1..n) -> V], NEW h,
         Unfolds(h, V, b, n, D)
  PROVE  RunsTo(h, V, b, n, D)
<1>0. 1..0 = {}
  OBVIOUS
<1>1. ASSUME NEW k \in Nat, k + 1 <= n, h[1..k] \in V
      PROVE  h[1..(k + 1)] = D[<< h[1..k], k + 1 >>] /\ h[1..(k + 1)] \in V
  <2>1. 1..(k + 1) \in SUBSET (1..n) /\ k + 1 \in 1..(k + 1) /\ k + 1 \in 1..n
    BY <1>1
  <2>2. Max(1..(k + 1)) = k + 1
    <3>1. Max(1..(k + 1)) \in 1..(k + 1) /\ \A i \in 1..(k + 1) : i <= Max(1..(k + 1))
      BY <2>1, MaxOfNats
    <3>. QED
      BY <3>1
  <2>3. (1..(k + 1)) \ {k + 1} = 1..k
    OBVIOUS
  <2>. QED
    BY <1>1, <2>1, <2>2, <2>3 DEF Unfolds
<1> DEFINE S == {k \in Nat : k <= n => h[1..k] \in V}
<1>2. 0 \in S
  BY <1>0 DEF Unfolds
<1>3. ASSUME NEW k \in Nat, k \in S
      PROVE  k + 1 \in S
  <2>1. ASSUME k + 1 <= n
        PROVE  h[1..(k + 1)] \in V
    <3>1. k <= n
      BY <2>1
    <3>2. h[1..k] \in V
      BY <1>3, <3>1
    <3>. QED
      BY <1>1, <2>1, <3>2
  <2>2. k + 1 \in Nat
    OBVIOUS
  <2>. QED
    BY <2>1, <2>2
<1>4. \A k \in 0..n : h[1..k] \in V
  <2>1. Nat \subseteq S
    <3> HIDE DEF S
    <3>. QED
      BY <1>2, <1>3, NatSetInduction
  <2>. QED
    BY <2>1
<1>5. ASSUME NEW k \in 1..n
      PROVE  h[1..k] = D[<< h[1..(k - 1)], k >>]
  <2>1. k - 1 \in Nat /\ k - 1 \in 0..n /\ (k - 1) + 1 = k
    BY <1>5
  <2>. QED
    BY <1>1, <1>4, <2>1
<1>6. PICK a : a = [k \in 0..n |-> h[1..k]]
  OBVIOUS
<1>7. \A k \in 1..n : k - 1 \in 0..n
  OBVIOUS
<1>8. IsRun(a, V, b, n, D)
  BY <1>0, <1>4, <1>5, <1>6, <1>7 DEF IsRun, Unfolds
<1>. QED
  BY <1>6, <1>8 DEF RunsTo

\* What may be used of a fold.
Turns(g, V, b, n, D) ==
  /\ g \in [SUBSET (1..n) -> V] /\ g[{}] = b
  /\ \A s \in SUBSET (1..n) :
       s # {} => /\ Max(s) \in 1..n /\ g[s \ {Max(s)}] \in V
                 /\ g[s] = D[<< g[s \ {Max(s)}], Max(s) >>]

\* A function that unfolds wherever there is a fold at all, as FoldLeft's does.
LEMMA FoldLeftRuns ==
  ASSUME NEW V, NEW b \in V, NEW n \in Nat, NEW D \in [V \X (1..n) -> V], NEW h,
         ASSUME NEW g, Turns(g, V, b, n, D) PROVE Unfolds(h, V, b, n, D)
  PROVE  RunsTo(h, V, b, n, D)
<1>1. PICK g : IsFold(g, V, b, n, D)
  BY FoldExists
<1>2. Turns(g, V, b, n, D)
  BY <1>1, MaxOfNats DEF IsFold, Turns
<1>3. Unfolds(h, V, b, n, D)
  BY <1>2
<1>. QED
  BY <1>3, FoldRuns

\* What holds of the start and is kept by every turn holds of the result.
Preserved(I, V, n, D) ==
  \A k \in 1..n, v \in V : << k - 1, v >> \in I => << k, D[<< v, k >>] >> \in I

LEMMA FoldInduction ==
  ASSUME NEW V, NEW b, NEW n \in Nat, NEW D, NEW h, RunsTo(h, V, b, n, D),
         NEW I, << 0, b >> \in I, Preserved(I, V, n, D)
  PROVE  h[1..n] \in V /\ << n, h[1..n] >> \in I
<1>1. PICK a : IsRun(a, V, b, n, D) /\ a[n] = h[1..n]
  BY DEF RunsTo
<1> DEFINE S == {k \in Nat : k <= n => << k, a[k] >> \in I}
<1>2. 0 \in S
  BY <1>1 DEF IsRun
<1>3. ASSUME NEW k \in Nat, k \in S
      PROVE  k + 1 \in S
  <2>1. ASSUME k + 1 <= n
        PROVE  << k + 1, a[k + 1] >> \in I
    <3>1. PICK m \in 1..n : m = k + 1 /\ m - 1 = k
      BY <2>1
    <3>2. a[k] \in V /\ << k, a[k] >> \in I /\ a[m] = D[<< a[k], m >>]
      <4>1. k \in 0..n /\ k <= n
        BY <2>1
      <4>. QED
        BY <1>1, <1>3, <3>1, <4>1 DEF IsRun
    <3>. QED
      BY <3>1, <3>2 DEF Preserved
  <2>. QED
    BY <2>1
<1>4. n \in S
  <2> HIDE DEF S
  <2>. QED
    BY <1>2, <1>3, NatSetInduction
<1>. QED
  BY <1>1, <1>4 DEF IsRun

(***************************************************************************)
(* Selections.                                                             *)
(***************************************************************************)
\* The elements of a list up to the k-th.
FirstOf(seq, k) == {seq[i] : i \in 1..k}

LEMMA FirstOfNext ==
  ASSUME NEW n \in Nat, NEW seq, NEW k \in 1..n
  PROVE  FirstOf(seq, k) = FirstOf(seq, k - 1) \cup {seq[k]}
<1>1. 1..k = 1..(k - 1) \cup {k}
  OBVIOUS
<1>. QED
  BY <1>1 DEF FirstOf

LEMMA RangeOfAppend ==
  ASSUME NEW X, NEW s \in Seq(X), NEW x \in X
  PROVE  /\ Append(s, x) \in Seq(X) /\ Append(s, x) # << >>
         /\ Range(Append(s, x)) = Range(s) \cup {x}
         /\ IsInjective(s) /\ x \notin Range(s) => IsInjective(Append(s, x))
<1>1. PICK m \in Nat : m = Len(s) /\ DOMAIN s = 1..m
  OBVIOUS
<1>2. PICK t : t = Append(s, x)
  OBVIOUS
<1>3. /\ t \in Seq(X) /\ DOMAIN t = 1..(m + 1) /\ t[m + 1] = x
      /\ \A i \in 1..m : t[i] = s[i]
  BY <1>1, <1>2
<1>4. 1..(m + 1) = 1..m \cup {m + 1}
  BY <1>1
<1>5. Range(t) = Range(s) \cup {x}
  BY <1>1, <1>3, <1>4 DEF Range
<1>6. ASSUME IsInjective(s), x \notin Range(s), NEW i \in 1..(m + 1), NEW j \in 1..(m + 1), t[i] = t[j]
      PROVE  i = j
  BY <1>1, <1>3, <1>4, <1>6 DEF Range, IsInjective
<1>7. t # << >>
  BY <1>1, <1>3
<1>. QED
  BY <1>2, <1>3, <1>5, <1>6, <1>7 DEF IsInjective

\* Select keeps the elements in the set, and their order.
Selected(chosen, X, E, S, once) ==
  /\ chosen \in Seq(X) /\ Range(chosen) = E \cap S
  /\ once => IsInjective(chosen)

LEMMA SelectIs ==
  ASSUME NEW X, NEW seq \in Seq(X), NEW S
  PROVE  Selected(Select(seq, S), X, Range(seq), S, IsInjective(seq))
<1>1. PICK n \in Nat : n = Len(seq) /\ DOMAIN seq = 1..n /\ \A i \in 1..n : seq[i] \in X
  OBVIOUS
<1>2. PICK h : h = CHOOSE g : g = [t \in SUBSET (1..n) |->
                     IF t = {} THEN << >>
                     ELSE IF seq[Max(t)] \in S THEN Append(g[t \ {Max(t)}], seq[Max(t)])
                     ELSE g[t \ {Max(t)}]]
  OBVIOUS
<1>3. Select(seq, S) = h[1..n]
  BY <1>1, <1>2 DEF Select, FoldLeft, MapThenFoldSet
<1>4. PICK V : V = Seq(X)
  OBVIOUS
<1>5. PICK D : D = [p \in V \X (1..n) |->
                      IF seq[p[2]] \in S THEN Append(p[1], seq[p[2]]) ELSE p[1]]
  OBVIOUS
<1>6. ASSUME NEW g, Turns(g, V, << >>, n, D)
      PROVE  Unfolds(h, V, << >>, n, D)
  <2>1. g = [t \in SUBSET (1..n) |->
               IF t = {} THEN << >>
               ELSE IF seq[Max(t)] \in S THEN Append(g[t \ {Max(t)}], seq[Max(t)])
               ELSE g[t \ {Max(t)}]]
    BY <1>5, <1>6 DEF Turns
  <2>2. h = [t \in SUBSET (1..n) |->
               IF t = {} THEN << >>
               ELSE IF seq[Max(t)] \in S THEN Append(h[t \ {Max(t)}], seq[Max(t)])
               ELSE h[t \ {Max(t)}]]
    BY <1>2, <2>1
  <2>. QED
    BY <1>5, <1>6, <2>2 DEF Unfolds, Turns
<1>7. RunsTo(h, V, << >>, n, D)
  <2>1. D \in [V \X (1..n) -> V]
    BY <1>1, <1>4, <1>5
  <2>2. << >> \in V
    BY <1>4
  <2>. QED
    BY <1>6, <2>1, <2>2, FoldLeftRuns
<1> DEFINE I == {p \in (0..n) \X V : Selected(p[2], X, FirstOf(seq, p[1]), S, IsInjective(seq))}
<1>8. << 0, << >> >> \in I
  <2>1. FirstOf(seq, 0) = {}
    BY DEF FirstOf
  <2>2. Selected(<< >>, X, {}, S, IsInjective(seq))
    BY DEF Selected, Range, IsInjective
  <2>3. 0 \in 0..n /\ << >> \in V
    BY <1>4
  <2>. QED
    BY <2>1, <2>2, <2>3
<1>9. ASSUME NEW k \in 1..n, NEW v \in V, << k - 1, v >> \in I
      PROVE  << k, D[<< v, k >>] >> \in I
  <2>1. Selected(v, X, FirstOf(seq, k - 1), S, IsInjective(seq))
    BY <1>9
  <2>2. FirstOf(seq, k) = FirstOf(seq, k - 1) \cup {seq[k]}
    BY FirstOfNext
  <2>3. k \in 0..n /\ seq[k] \in X
    BY <1>1
  <2>4. CASE seq[k] \in S
    <3>1. D[<< v, k >>] = Append(v, seq[k])
      BY <1>5, <2>4
    <3>2. IsInjective(seq) => seq[k] \notin Range(v)
      <4>1. \A i \in 1..(k - 1) : i \in 1..n /\ i # k
        OBVIOUS
      <4>2. IsInjective(seq) => seq[k] \notin FirstOf(seq, k - 1)
        BY <1>1, <4>1 DEF FirstOf, IsInjective
      <4>. QED
        BY <2>1, <4>2 DEF Selected
    <3>3. Selected(Append(v, seq[k]), X, FirstOf(seq, k), S, IsInjective(seq))
      BY <2>1, <2>2, <2>3, <2>4, <3>2, RangeOfAppend DEF Selected
    <3>. QED
      BY <1>4, <2>3, <3>1, <3>3 DEF Selected
  <2>5. CASE seq[k] \notin S
    <3>1. D[<< v, k >>] = v
      BY <1>5, <2>5
    <3>2. Selected(v, X, FirstOf(seq, k), S, IsInjective(seq))
      BY <2>1, <2>2, <2>5 DEF Selected
    <3>. QED
      BY <2>3, <3>1, <3>2
  <2>. QED
    BY <2>4, <2>5
<1>10. << n, h[1..n] >> \in I
  <2>1. Preserved(I, V, n, D)
    BY <1>9 DEF Preserved
  <2> HIDE DEF I
  <2>. QED
    BY <1>7, <1>8, <2>1, FoldInduction
<1>11. FirstOf(seq, n) = Range(seq)
  BY <1>1 DEF FirstOf, Range
<1>. QED
  BY <1>3, <1>10, <1>11

(***************************************************************************)
(* Lists, one after the other.                                             *)
(***************************************************************************)
LEMMA RangeOfOne ==
  ASSUME NEW q
  PROVE  << q >> # << >> /\ IsInjective(<< q >>) /\ Range(<< q >>) = {q} /\ Len(<< q >>) = 1
BY DEF IsInjective, Range

\* One list after another.
LEMMA ConcatOnce ==
  ASSUME NEW X, NEW s \in Seq(X), NEW t \in Seq(X)
  PROVE  /\ s \o t \in Seq(X) /\ Range(s \o t) = Range(s) \cup Range(t)
         /\ IsInjective(s) /\ IsInjective(t) /\ Range(s) \cap Range(t) = {} => IsInjective(s \o t)
<1>1. PICK n \in Nat, m \in Nat : /\ n = Len(s) /\ DOMAIN s = 1..n
                                  /\ m = Len(t) /\ DOMAIN t = 1..m
  OBVIOUS
<1>2. PICK u : u = s \o t
  OBVIOUS
<1>3. /\ u \in Seq(X) /\ DOMAIN u = 1..(n + m)
      /\ \A i \in 1..n : u[i] = s[i]
      /\ \A i \in (n + 1)..(n + m) : u[i] = t[i - n]
  BY <1>1, <1>2
<1>4. \A i \in 1..(n + m) : i \in 1..n \/ (i \in (n + 1)..(n + m) /\ i - n \in 1..m)
  BY <1>1
<1>5. \A i \in 1..m : i + n \in (n + 1)..(n + m) /\ (i + n) - n = i /\ i + n \in 1..(n + m)
  BY <1>1
<1>6. \A i \in 1..n : i \in 1..(n + m)
  BY <1>1
<1>7. Range(u) = Range(s) \cup Range(t)
  <2>1. \A i \in 1..(n + m) : u[i] \in Range(s) \cup Range(t)
    BY <1>1, <1>3, <1>4 DEF Range
  <2>2. \A i \in 1..n : s[i] \in Range(u)
    BY <1>3, <1>6 DEF Range
  <2>3. \A i \in 1..m : t[i] \in Range(u)
    <3>1. ASSUME NEW i \in 1..m
          PROVE  u[i + n] = t[i] /\ i + n \in 1..(n + m)
      BY <1>3, <1>5
    <3>. QED
      BY <1>3, <3>1 DEF Range
  <2>4. Range(u) \subseteq Range(s) \cup Range(t)
    BY <1>3, <2>1 DEF Range
  <2>5. Range(s) \subseteq Range(u)
    BY <1>1, <2>2 DEF Range
  <2>6. Range(t) \subseteq Range(u)
    BY <1>1, <2>3 DEF Range
  <2>. QED
    BY <2>4, <2>5, <2>6
<1>8. ASSUME IsInjective(s), IsInjective(t), Range(s) \cap Range(t) = {},
             NEW i \in 1..(n + m), NEW j \in 1..(n + m), u[i] = u[j]
      PROVE  i = j
  <2>1. CASE i \in 1..n /\ j \in 1..n
    BY <1>1, <1>3, <1>8, <2>1 DEF IsInjective
  <2>2. CASE i \notin 1..n /\ j \notin 1..n
    <3>1. i - n \in 1..m /\ j - n \in 1..m /\ t[i - n] = t[j - n]
      BY <1>3, <1>4, <1>8, <2>2
    <3>2. i - n = j - n
      BY <1>1, <1>8, <3>1 DEF IsInjective
    <3>. QED
      BY <3>2
  <2>3. CASE i \in 1..n /\ j \notin 1..n
    <3>1. u[i] \in Range(s) /\ u[j] \in Range(t)
      <4>1. u[i] = s[i] /\ j \in (n + 1)..(n + m) /\ j - n \in 1..m
        BY <1>3, <1>4, <2>3
      <4>2. u[j] = t[j - n]
        BY <1>3, <4>1
      <4>3. s[i] \in Range(s) /\ t[j - n] \in Range(t)
        BY <1>1, <2>3, <4>1 DEF Range
      <4>. QED
        BY <4>1, <4>2, <4>3
    <3>. QED
      BY <1>8, <3>1
  <2>4. CASE i \notin 1..n /\ j \in 1..n
    <3>1. u[j] \in Range(s) /\ u[i] \in Range(t)
      <4>1. u[j] = s[j] /\ i \in (n + 1)..(n + m) /\ i - n \in 1..m
        BY <1>3, <1>4, <2>4
      <4>2. u[i] = t[i - n]
        BY <1>3, <4>1
      <4>3. s[j] \in Range(s) /\ t[i - n] \in Range(t)
        BY <1>1, <2>4, <4>1 DEF Range
      <4>. QED
        BY <4>1, <4>2, <4>3
    <3>. QED
      BY <1>8, <3>1
  <2>. QED
    BY <2>1, <2>2, <2>3, <2>4
<1>. QED
  BY <1>2, <1>3, <1>7, <1>8 DEF IsInjective

\* The elements of the first k lists.
InLists(seqs, k) == UNION {Range(seqs[i]) : i \in 1..k}

\* No element is in two lists, or twice in one.
Apart(seqs) ==
  /\ \A i \in DOMAIN seqs : IsInjective(seqs[i])
  /\ \A i, j \in DOMAIN seqs : i # j => Range(seqs[i]) \cap Range(seqs[j]) = {}

\* A list of the first k lists' elements, once each if the lists are apart.
JoinOf(joined, X, seqs, k, once) ==
  /\ joined \in Seq(X) /\ Range(joined) = InLists(seqs, k)
  /\ once => IsInjective(joined)

LEMMA JoinNext ==
  ASSUME NEW X, NEW m \in Nat, NEW seqs, DOMAIN seqs = 1..m, NEW k \in 1..m,
         seqs[k] \in Seq(X), NEW once \in BOOLEAN, once => Apart(seqs),
         NEW joined, JoinOf(joined, X, seqs, k - 1, once)
  PROVE  JoinOf(joined \o seqs[k], X, seqs, k, once)
<1>1. PICK s \in Seq(X), t \in Seq(X) : s = joined /\ t = seqs[k]
  BY DEF JoinOf
<1>2. /\ s \o t \in Seq(X) /\ Range(s \o t) = Range(s) \cup Range(t)
      /\ IsInjective(s) /\ IsInjective(t) /\ Range(s) \cap Range(t) = {} => IsInjective(s \o t)
  BY ConcatOnce
<1>3. InLists(seqs, k) = InLists(seqs, k - 1) \cup Range(seqs[k])
  <2>1. 1..k = 1..(k - 1) \cup {k}
    OBVIOUS
  <2>. QED
    BY <2>1 DEF InLists
<1>4. once => IsInjective(t) /\ Range(s) \cap Range(t) = {}
  <2>1. \A i \in 1..(k - 1) : i \in 1..m /\ i # k
    OBVIOUS
  <2>2. once => \A i \in 1..(k - 1) : Range(seqs[i]) \cap Range(seqs[k]) = {}
    BY <2>1 DEF Apart
  <2>3. Range(s) = InLists(seqs, k - 1)
    BY <1>1 DEF JoinOf
  <2>4. once => Range(s) \cap Range(t) = {}
    BY <1>1, <2>2, <2>3 DEF InLists
  <2>. QED
    BY <1>1, <2>4 DEF Apart
<1>. QED
  BY <1>1, <1>2, <1>3, <1>4 DEF JoinOf

LEMMA JoinedIs ==
  ASSUME NEW X, NEW seqs \in Seq(Seq(X))
  PROVE  JoinOf(Joined(seqs), X, seqs, Len(seqs), Apart(seqs))
<1>1. PICK m \in Nat : m = Len(seqs) /\ DOMAIN seqs = 1..m /\ \A i \in 1..m : seqs[i] \in Seq(X)
  OBVIOUS
<1>2. PICK h : h = CHOOSE g : g = [t \in SUBSET (1..m) |->
                     IF t = {} THEN << >> ELSE g[t \ {Max(t)}] \o seqs[Max(t)]]
  OBVIOUS
<1>3. Joined(seqs) = h[1..m]
  BY <1>1, <1>2 DEF Joined, FoldLeft, MapThenFoldSet
<1>4. PICK V : V = Seq(X)
  OBVIOUS
<1>5. PICK D : D = [q \in V \X (1..m) |-> q[1] \o seqs[q[2]]]
  OBVIOUS
<1>6. ASSUME NEW g, Turns(g, V, << >>, m, D)
      PROVE  Unfolds(h, V, << >>, m, D)
  <2>1. g = [t \in SUBSET (1..m) |->
               IF t = {} THEN << >> ELSE g[t \ {Max(t)}] \o seqs[Max(t)]]
    BY <1>5, <1>6 DEF Turns
  <2>2. h = [t \in SUBSET (1..m) |->
               IF t = {} THEN << >> ELSE h[t \ {Max(t)}] \o seqs[Max(t)]]
    BY <1>2, <2>1
  <2>. QED
    BY <1>5, <1>6, <2>2 DEF Unfolds, Turns
<1>7. << >> \in V
  BY <1>4
<1>8. RunsTo(h, V, << >>, m, D)
  <2>1. D \in [V \X (1..m) -> V]
    <3>1. ASSUME NEW v \in V, NEW k \in 1..m
          PROVE  v \o seqs[k] \in V
      BY <1>1, <1>4
    <3>. QED
      BY <1>5, <3>1
  <2>. QED
    BY <1>6, <1>7, <2>1, FoldLeftRuns
<1>9. PICK once \in BOOLEAN : once = Apart(seqs)
  BY DEF Apart
<1> DEFINE I == {q \in (0..m) \X V : JoinOf(q[2], X, seqs, q[1], once)}
<1>10. << 0, << >> >> \in I
  <2>1. InLists(seqs, 0) = {} /\ 0 \in 0..m /\ Range(<< >>) = {} /\ IsInjective(<< >>)
    BY DEF InLists, Range, IsInjective
  <2>. QED
    BY <1>4, <1>7, <2>1 DEF JoinOf
<1>11. ASSUME NEW k \in 1..m, NEW v \in V, << k - 1, v >> \in I
       PROVE  << k, D[<< v, k >>] >> \in I
  <2>1. JoinOf(v, X, seqs, k - 1, once)
    BY <1>11
  <2>2. JoinOf(v \o seqs[k], X, seqs, k, once)
    BY <1>1, <1>9, <2>1, JoinNext
  <2>3. D[<< v, k >>] = v \o seqs[k]
    BY <1>5
  <2>4. v \o seqs[k] \in V /\ k \in 0..m
    BY <1>4, <2>2 DEF JoinOf
  <2>. QED
    BY <2>2, <2>3, <2>4
<1>12. << m, h[1..m] >> \in I
  <2>1. Preserved(I, V, m, D)
    BY <1>11 DEF Preserved
  <2> HIDE DEF I
  <2>. QED
    BY <1>8, <1>10, <2>1, FoldInduction
<1>. QED
  BY <1>1, <1>3, <1>9, <1>12

(***************************************************************************)
(* Numbers.                                                                *)
(***************************************************************************)
LEMMA MinOfTwo ==
  ASSUME NEW x \in Int, NEW y \in Int
  PROVE  /\ Min({x, y}) = IF x <= y THEN x ELSE y
         /\ Max({x, y}) = IF x >= y THEN x ELSE y
<1>1. ASSUME NEW m \in {x, y}, \A i \in {x, y} : m =< i
      PROVE  Min({x, y}) = m
  <2>1. \A k \in {x, y} : (\A i \in {x, y} : k =< i) => k = m
    BY <1>1
  <2>. QED
    BY <1>1, <2>1 DEF Min
<1>2. ASSUME NEW m \in {x, y}, \A i \in {x, y} : m >= i
      PROVE  Max({x, y}) = m
  <2>1. \A k \in {x, y} : (\A i \in {x, y} : k >= i) => k = m
    BY <1>2
  <2>. QED
    BY <1>2, <2>1 DEF Max
<1>. QED
  BY <1>1, <1>2

LEMMA MaxZero ==
  ASSUME NEW x \in Int
  PROVE  Max({0, x}) \in Nat /\ (x > 0 => Max({0, x}) = x) /\ (x <= 0 => Max({0, x}) = 0)
BY MinOfTwo

\* The fold h of m = n + 1 turns goes on where the fold g of n turns ends.
GoesOn(h, g, V, D, n, m) == g[1..n] \in V /\ h[1..m] = D[<< g[1..n], m >>]
Agree(D, E, V, n) == \A v \in V, k \in 1..n : D[<< v, k >>] = E[<< v, k >>]

\* A fold over a list is the last turn of a fold over the list without its end.
LEMMA FoldSnoc ==
  ASSUME NEW V, NEW b, NEW n \in Nat, NEW m \in Nat, m = n + 1, NEW D, NEW E, NEW h, NEW g,
         RunsTo(h, V, b, m, D), RunsTo(g, V, b, n, E),
         Agree(D, E, V, n)
  PROVE  GoesOn(h, g, V, D, n, m)
<1>1. PICK a : IsRun(a, V, b, m, D) /\ a[m] = h[1..m]
  BY DEF RunsTo
<1>2. PICK c : IsRun(c, V, b, n, E) /\ c[n] = g[1..n]
  BY DEF RunsTo
<1> DEFINE S == {k \in Nat : k <= n => a[k] = c[k]}
<1>3. 0 \in S
  BY <1>1, <1>2 DEF IsRun
<1>4. ASSUME NEW k \in Nat, k \in S
      PROVE  k + 1 \in S
  <2>1. ASSUME k + 1 <= n
        PROVE  a[k + 1] = c[k + 1]
    <3>1. PICK j \in 1..n : j = k + 1 /\ j - 1 = k /\ j \in 1..m /\ k \in 0..n
      BY <2>1
    <3>2. a[k] = c[k] /\ c[k] \in V
      BY <1>2, <1>4, <3>1 DEF IsRun
    <3>3. a[j] = D[<< a[k], j >>] /\ c[j] = E[<< c[k], j >>]
      BY <1>1, <1>2, <3>1 DEF IsRun
    <3>. QED
      BY <3>1, <3>2, <3>3 DEF Agree
  <2>. QED
    BY <2>1
<1>5. n \in S
  <2> HIDE DEF S
  <2>. QED
    BY <1>3, <1>4, NatSetInduction
<1>6. a[n] = c[n] /\ c[n] \in V
  BY <1>2, <1>5 DEF IsRun
<1>7. a[m] = D[<< a[n], m >>]
  <2>1. m \in 1..m /\ m - 1 = n
    OBVIOUS
  <2>. QED
    BY <1>1, <2>1 DEF IsRun
<1>. QED
  BY <1>1, <1>2, <1>6, <1>7 DEF GoesOn

LEMMA SeqSetInduction ==
  ASSUME NEW X, NEW P, << >> \in P, \A s \in Seq(X), x \in X : s \in P => Append(s, x) \in P
  PROVE  Seq(X) \subseteq P
<1> DEFINE S == {n \in Nat : \A s \in Seq(X) : Len(s) = n => s \in P}
<1>1. 0 \in S
  <2>1. \A s \in Seq(X) : Len(s) = 0 => s = << >>
    BY EmptySeq
  <2>. QED
    BY <2>1
<1>2. ASSUME NEW n \in Nat, n \in S
      PROVE  n + 1 \in S
  <2>1. ASSUME NEW s \in Seq(X), Len(s) = n + 1
        PROVE  s \in P
    <3>1. s # << >>
      BY <2>1
    <3>2. PICK t \in Seq(X), x \in X : s = Append(t, x)
      BY <3>1, SequenceEmptyOrAppend
    <3>3. Len(t) = n
      BY <2>1, <3>2, AppendProperties, LenProperties
    <3>. QED
      BY <1>2, <3>2, <3>3
  <2>. QED
    BY <2>1
<1>3. Nat \subseteq S
  <2> HIDE DEF S
  <2>. QED
    BY <1>1, <1>2, NatSetInduction
<1>4. \A s \in Seq(X) : Len(s) \in Nat
  BY LenProperties
<1>. QED
  BY <1>3, <1>4

\* An element put at the end of a list.
LEMMA AppendIs ==
  ASSUME NEW X, NEW s \in Seq(X), NEW x \in X
  PROVE  \E n \in Nat : /\ n = Len(s) /\ DOMAIN s = 1..n /\ Len(Append(s, x)) = n + 1
                        /\ Append(s, x) \in Seq(X) /\ DOMAIN Append(s, x) = 1..(n + 1)
                        /\ \A i \in 1..n : Append(s, x)[i] = s[i]
                        /\ Append(s, x)[n + 1] = x
BY AppendProperties, LenProperties

(***************************************************************************)
(* Lists, one after the other, and sums.                                   *)
(***************************************************************************)
LEMMA JoinedRuns ==
  ASSUME NEW X, NEW seqs \in Seq(Seq(X)), NEW m \in Nat, m = Len(seqs)
  PROVE  \E h : /\ Joined(seqs) = h[1..m]
                /\ RunsTo(h, Seq(X), << >>, m, [q \in Seq(X) \X (1..m) |-> q[1] \o seqs[q[2]]])
<1>1. DOMAIN seqs = 1..m /\ \A i \in 1..m : seqs[i] \in Seq(X)
  OBVIOUS
<1>2. PICK h : h = CHOOSE g : g = [t \in SUBSET (1..m) |->
                     IF t = {} THEN << >> ELSE g[t \ {Max(t)}] \o seqs[Max(t)]]
  OBVIOUS
<1>3. Joined(seqs) = h[1..m]
  BY <1>1, <1>2 DEF Joined, FoldLeft, MapThenFoldSet
<1>4. PICK V : V = Seq(X)
  OBVIOUS
<1>5. PICK D : D = [q \in V \X (1..m) |-> q[1] \o seqs[q[2]]]
  OBVIOUS
<1>6. ASSUME NEW g, Turns(g, V, << >>, m, D)
      PROVE  Unfolds(h, V, << >>, m, D)
  <2>1. g = [t \in SUBSET (1..m) |->
               IF t = {} THEN << >> ELSE g[t \ {Max(t)}] \o seqs[Max(t)]]
    BY <1>5, <1>6 DEF Turns
  <2>2. h = [t \in SUBSET (1..m) |->
               IF t = {} THEN << >> ELSE h[t \ {Max(t)}] \o seqs[Max(t)]]
    BY <1>2, <2>1
  <2>. QED
    BY <1>5, <1>6, <2>2 DEF Unfolds, Turns
<1>7. D \in [V \X (1..m) -> V]
  <2>1. ASSUME NEW v \in V, NEW k \in 1..m
        PROVE  v \o seqs[k] \in V
    BY <1>1, <1>4
  <2>. QED
    BY <1>5, <2>1
<1>8. << >> \in V
  BY <1>4
<1>9. RunsTo(h, V, << >>, m, D)
  BY <1>6, <1>7, <1>8, FoldLeftRuns
<1>. QED
  BY <1>3, <1>4, <1>5, <1>9

LEMMA JoinedAppend ==
  ASSUME NEW X, NEW seqs \in Seq(Seq(X)), NEW s \in Seq(X)
  PROVE  Joined(seqs) \in Seq(X) /\ Joined(Append(seqs, s)) = Joined(seqs) \o s
<1>1. PICK V : V = Seq(X)
  OBVIOUS
<1>2. PICK more : more = Append(seqs, s)
  OBVIOUS
<1>3. PICK n \in Nat, m \in Nat :
                       /\ n = Len(seqs) /\ m = n + 1 /\ Len(more) = m /\ more \in Seq(V)
                       /\ \A i \in 1..n : more[i] = seqs[i]
                       /\ more[m] = s
  BY <1>1, <1>2, AppendIs
<1>4. PICK E : E = [q \in V \X (1..n) |-> q[1] \o seqs[q[2]]]
  OBVIOUS
<1>5. PICK D : D = [q \in V \X (1..m) |-> q[1] \o more[q[2]]]
  OBVIOUS
<1>6. PICK g : Joined(seqs) = g[1..n] /\ RunsTo(g, V, << >>, n, E)
  BY <1>1, <1>3, <1>4, JoinedRuns
<1>7. PICK h : Joined(more) = h[1..m] /\ RunsTo(h, V, << >>, m, D)
  BY <1>1, <1>3, <1>5, JoinedRuns
<1>8. Agree(D, E, V, n)
  <2>1. \A k \in 1..n : k \in 1..m
    BY <1>3
  <2>. QED
    BY <1>3, <1>4, <1>5, <2>1 DEF Agree
<1>9. g[1..n] \in V /\ h[1..m] = D[<< g[1..n], m >>]
  <2>1. RunsTo(h, V, << >>, m, D)
    BY <1>7
  <2>2. RunsTo(g, V, << >>, n, E)
    BY <1>6
  <2>3. m = n + 1
    BY <1>3
  <2>. QED
    BY <1>8, <2>1, <2>2, <2>3, FoldSnoc DEF GoesOn
<1>10. m \in 1..m
  BY <1>3
<1>. QED
  BY <1>1, <1>2, <1>3, <1>5, <1>6, <1>7, <1>9, <1>10

LEMMA JoinedNone == Joined(<< >>) = << >>
<1>1. PICK Y, X : Y = {} /\ X = Seq(Y)
  OBVIOUS
<1>2. PICK s \in Seq(Seq(Y)), m \in Nat : s = << >> /\ m = Len(s) /\ m = 0
  BY EmptySeq
<1>3. PICK D : D = [q \in X \X (1..m) |-> q[1] \o s[q[2]]]
  OBVIOUS
<1>4. PICK h : Joined(s) = h[1..m] /\ RunsTo(h, X, << >>, m, D)
  <2>1. m = Len(s)
    BY <1>2
  <2>. QED
    BY <1>1, <1>3, <2>1, JoinedRuns
<1>5. PICK a : IsRun(a, X, << >>, m, D) /\ a[m] = h[1..m]
  BY <1>4 DEF RunsTo
<1>. QED
  BY <1>2, <1>4, <1>5 DEF IsRun

LEMMA JoinedConcat ==
  ASSUME NEW X, NEW s \in Seq(Seq(X)), NEW t \in Seq(Seq(X))
  PROVE  Joined(s \o t) = Joined(s) \o Joined(t)
<1> DEFINE P == {u \in Seq(Seq(X)) : Joined(s \o u) = Joined(s) \o Joined(u)}
<1>0. Joined(s) \in Seq(X)
  BY JoinedAppend, EmptySeq
<1>1. << >> \in P
  <2>1. s \o << >> = s /\ Joined(s) \o << >> = Joined(s) /\ << >> \in Seq(Seq(X))
    BY <1>0, ConcatEmptySeq
  <2>. QED
    BY <2>1, JoinedNone
<1>2. ASSUME NEW u \in Seq(Seq(X)), NEW x \in Seq(X), u \in P
      PROVE  Append(u, x) \in P
  <2>1. s \o Append(u, x) = Append(s \o u, x) /\ Append(u, x) \in Seq(Seq(X)) /\ s \o u \in Seq(Seq(X))
    OBVIOUS
  <2>2. Joined(Append(s \o u, x)) = Joined(s \o u) \o x
    BY <2>1, JoinedAppend
  <2>3. Joined(Append(u, x)) = Joined(u) \o x /\ Joined(u) \in Seq(X)
    BY JoinedAppend
  <2>4. (Joined(s) \o Joined(u)) \o x = Joined(s) \o (Joined(u) \o x)
    BY <1>0, <2>3, ConcatAssociative
  <2>. QED
    BY <1>2, <2>1, <2>2, <2>3, <2>4
<1>3. Seq(Seq(X)) \subseteq P
  <2> HIDE DEF P
  <2>. QED
    BY <1>1, <1>2, SeqSetInduction
<1>. QED
  BY <1>3

LEMMA TotalRuns ==
  ASSUME NEW seq \in Seq(Nat), NEW m \in Nat, m = Len(seq)
  PROVE  \E h : /\ Total(seq) = h[1..m]
                /\ RunsTo(h, Nat, 0, m, [q \in Nat \X (1..m) |-> q[1] + seq[q[2]]])
<1>1. DOMAIN seq = 1..m /\ \A i \in 1..m : seq[i] \in Nat
  OBVIOUS
<1>2. PICK h : h = CHOOSE g : g = [t \in SUBSET (1..m) |->
                     IF t = {} THEN 0 ELSE g[t \ {Max(t)}] + seq[Max(t)]]
  OBVIOUS
<1>3. Total(seq) = h[1..m]
  BY <1>1, <1>2 DEF Total, FoldLeft, MapThenFoldSet
<1>5. PICK D : D = [q \in Nat \X (1..m) |-> q[1] + seq[q[2]]]
  OBVIOUS
<1>6. ASSUME NEW g, Turns(g, Nat, 0, m, D)
      PROVE  Unfolds(h, Nat, 0, m, D)
  <2>1. g = [t \in SUBSET (1..m) |->
               IF t = {} THEN 0 ELSE g[t \ {Max(t)}] + seq[Max(t)]]
    BY <1>5, <1>6 DEF Turns
  <2>2. h = [t \in SUBSET (1..m) |->
               IF t = {} THEN 0 ELSE h[t \ {Max(t)}] + seq[Max(t)]]
    BY <1>2, <2>1
  <2>. QED
    BY <1>5, <1>6, <2>2 DEF Unfolds, Turns
<1>7. D \in [Nat \X (1..m) -> Nat]
  <2>1. ASSUME NEW v \in Nat, NEW k \in 1..m
        PROVE  v + seq[k] \in Nat
    BY <1>1
  <2>. QED
    BY <1>5, <2>1
<1>9. RunsTo(h, Nat, 0, m, D)
  BY <1>6, <1>7, FoldLeftRuns
<1>. QED
  BY <1>3, <1>5, <1>9

LEMMA TotalAppend ==
  ASSUME NEW seq \in Seq(Nat), NEW s \in Nat
  PROVE  Total(seq) \in Nat /\ Total(Append(seq, s)) = Total(seq) + s
<1>1. PICK V, b : V = Nat /\ b = 0
  OBVIOUS
<1>2. PICK more : more = Append(seq, s)
  OBVIOUS
<1>3. PICK n \in Nat, m \in Nat :
                       /\ n = Len(seq) /\ m = n + 1 /\ Len(more) = m /\ more \in Seq(Nat)
                       /\ \A i \in 1..n : more[i] = seq[i]
                       /\ more[m] = s
  BY <1>2, AppendIs
<1>4. PICK E : E = [q \in V \X (1..n) |-> q[1] + seq[q[2]]]
  OBVIOUS
<1>5. PICK D : D = [q \in V \X (1..m) |-> q[1] + more[q[2]]]
  OBVIOUS
<1>6. PICK g : Total(seq) = g[1..n] /\ RunsTo(g, V, b, n, E)
  BY <1>1, <1>3, <1>4, TotalRuns
<1>7. PICK h : Total(more) = h[1..m] /\ RunsTo(h, V, b, m, D)
  BY <1>1, <1>3, <1>5, TotalRuns
<1>8. Agree(D, E, V, n)
  <2>1. \A k \in 1..n : k \in 1..m
    BY <1>3
  <2>. QED
    BY <1>1, <1>3, <1>4, <1>5, <2>1 DEF Agree
<1>9. g[1..n] \in V /\ h[1..m] = D[<< g[1..n], m >>]
  <2>1. RunsTo(h, V, b, m, D)
    BY <1>7
  <2>2. RunsTo(g, V, b, n, E)
    BY <1>6
  <2>3. m = n + 1
    BY <1>3
  <2>4. GoesOn(h, g, V, D, n, m)
    BY <1>8, <2>1, <2>2, <2>3, FoldSnoc
  <2>. QED
    BY <2>4 DEF GoesOn
<1>10. m \in 1..m
  BY <1>3
<1>. QED
  BY <1>1, <1>2, <1>3, <1>5, <1>6, <1>7, <1>9, <1>10

LEMMA TotalNone == Total(<< >>) = 0
<1>2. PICK s \in Seq(Nat), m \in Nat : s = << >> /\ m = Len(s) /\ m = 0
  BY EmptySeq
<1>3. PICK D : D = [q \in Nat \X (1..m) |-> q[1] + s[q[2]]]
  OBVIOUS
<1>4. PICK h : Total(s) = h[1..m] /\ RunsTo(h, Nat, 0, m, D)
  <2>1. m = Len(s)
    BY <1>2
  <2>. QED
    BY <1>3, <2>1, TotalRuns
<1>5. PICK a : IsRun(a, Nat, 0, m, D) /\ a[m] = h[1..m]
  BY <1>4 DEF RunsTo
<1>. QED
  BY <1>2, <1>4, <1>5 DEF IsRun

\* The list of the values of F, and what it is of two lists and of many.
MapOf(F, s) == [i \in DOMAIN s |-> F[s[i]]]
Maps(F, X, Y) == F \in [X -> Y]

LEMMA MapTyped ==
  ASSUME NEW X, NEW Y, NEW F, Maps(F, X, Y), NEW s \in Seq(X)
  PROVE  MapOf(F, s) \in Seq(Y) /\ Len(MapOf(F, s)) = Len(s)
<1>1. PICK n \in Nat : n = Len(s) /\ DOMAIN s = 1..n /\ \A i \in 1..n : s[i] \in X
  OBVIOUS
<1>2. MapOf(F, s) \in [1..n -> Y]
  BY <1>1 DEF MapOf, Maps
<1>. QED
  BY <1>1, <1>2

LEMMA MapAppended ==
  ASSUME NEW X, NEW Y, NEW F, Maps(F, X, Y), NEW s \in Seq(X), NEW x \in X, NEW y, y = F[x]
  PROVE  MapOf(F, s) \in Seq(Y) /\ y \in Y /\ MapOf(F, Append(s, x)) = Append(MapOf(F, s), y)
<1>1. PICK t : t = Append(s, x)
  OBVIOUS
<1>2. PICK n \in Nat : /\ n = Len(s) /\ DOMAIN s = 1..n /\ t \in Seq(X) /\ DOMAIN t = 1..(n + 1)
                       /\ \A i \in 1..n : t[i] = s[i]
                       /\ t[n + 1] = x /\ Len(t) = n + 1
  BY <1>1, AppendIs
<1>3. PICK u \in Seq(Y), v \in Seq(Y) : u = MapOf(F, s) /\ v = MapOf(F, t) /\ Len(u) = n /\ Len(v) = n + 1
  BY <1>2, MapTyped
<1>4. y \in Y
  BY DEF Maps
<1>5. PICK w : w = Append(u, y)
  OBVIOUS
<1>6. /\ w \in Seq(Y) /\ Len(w) = n + 1
      /\ \A i \in 1..n : w[i] = u[i]
      /\ w[n + 1] = y
  BY <1>3, <1>4, <1>5, AppendProperties
<1>7. ASSUME NEW i \in 1..(n + 1)
      PROVE  v[i] = w[i]
  <2>1. v[i] = F[t[i]]
    BY <1>2, <1>3 DEF MapOf
  <2>2. CASE i \in 1..n
    <3>1. u[i] = F[s[i]]
      BY <1>2, <1>3, <2>2 DEF MapOf
    <3>. QED
      BY <1>2, <1>6, <2>1, <2>2, <3>1
  <2>3. CASE i = n + 1
    BY <1>2, <1>6, <2>1, <2>3
  <2>. QED
    BY <2>2, <2>3
<1>8. v = w
  BY <1>3, <1>6, <1>7, SeqEqual
<1>. QED
  BY <1>1, <1>3, <1>4, <1>5, <1>8

LEMMA MapConcat ==
  ASSUME NEW X, NEW Y, NEW F, Maps(F, X, Y), NEW s \in Seq(X), NEW t \in Seq(X)
  PROVE  MapOf(F, s \o t) = MapOf(F, s) \o MapOf(F, t)
<1> DEFINE P == {u \in Seq(X) : MapOf(F, s \o u) = MapOf(F, s) \o MapOf(F, u)}
<1>1. << >> \in P
  <2>1. s \o << >> = s /\ MapOf(F, s) \in Seq(Y) /\ << >> \in Seq(X)
    BY MapTyped, ConcatEmptySeq
  <2>2. MapOf(F, << >>) = << >>
    BY DEF MapOf
  <2>3. MapOf(F, s) \o << >> = MapOf(F, s)
    BY <2>1, ConcatEmptySeq
  <2>. QED
    BY <2>1, <2>2, <2>3
<1>2. ASSUME NEW u \in Seq(X), NEW x \in X, u \in P
      PROVE  Append(u, x) \in P
  <2>1. s \o Append(u, x) = Append(s \o u, x) /\ Append(u, x) \in Seq(X) /\ s \o u \in Seq(X)
    OBVIOUS
  <2>0. PICK y : y = F[x]
    OBVIOUS
  <2>2. MapOf(F, Append(s \o u, x)) = Append(MapOf(F, s \o u), y)
    <3>1. PICK w \in Seq(X) : w = s \o u
      BY <2>1
    <3>2. MapOf(F, Append(w, x)) = Append(MapOf(F, w), y)
      BY <2>0, MapAppended
    <3>. QED
      BY <3>1, <3>2
  <2>3. MapOf(F, Append(u, x)) = Append(MapOf(F, u), y) /\ MapOf(F, u) \in Seq(Y)
    BY <2>0, MapAppended
  <2>4. MapOf(F, s) \in Seq(Y) /\ y \in Y
    BY <2>0, MapAppended
  <2>5. MapOf(F, s) \o Append(MapOf(F, u), y) = Append(MapOf(F, s) \o MapOf(F, u), y)
    BY <2>3, <2>4
  <2>. QED
    BY <1>2, <2>1, <2>2, <2>3, <2>5
<1>3. Seq(X) \subseteq P
  <2> HIDE DEF P
  <2>. QED
    BY <1>1, <1>2, SeqSetInduction
<1>. QED
  BY <1>3

LEMMA MapJoined ==
  ASSUME NEW X, NEW Y, NEW F, Maps(F, X, Y), NEW seqs \in Seq(Seq(X))
  PROVE  Joined([i \in DOMAIN seqs |-> MapOf(F, seqs[i])]) = MapOf(F, Joined(seqs))
<1>1. PICK G : G = [s \in Seq(X) |-> MapOf(F, s)]
  OBVIOUS
<1>2. \A s \in Seq(X) : MapOf(F, s) \in Seq(Y)
  BY MapTyped
<1>3. Maps(G, Seq(X), Seq(Y))
  BY <1>1, <1>2 DEF Maps
<1> DEFINE P == {u \in Seq(Seq(X)) : Joined(MapOf(G, u)) = MapOf(F, Joined(u))}
<1>4. << >> \in P
  <2>1. MapOf(G, << >>) = << >> /\ MapOf(F, << >>) = << >> /\ << >> \in Seq(Seq(X))
    BY DEF MapOf
  <2>. QED
    BY <2>1, JoinedNone
<1>5. ASSUME NEW u \in Seq(Seq(X)), NEW s \in Seq(X), u \in P
      PROVE  Append(u, s) \in P
  <2>0. PICK y : y = G[s] /\ y = MapOf(F, s)
    BY <1>1
  <2>1. MapOf(G, Append(u, s)) = Append(MapOf(G, u), y) /\ MapOf(G, u) \in Seq(Seq(Y))
    <3>1. PICK Z, W : Z = Seq(X) /\ W = Seq(Y)
      OBVIOUS
    <3>2. Maps(G, Z, W) /\ u \in Seq(Z) /\ s \in Z /\ y = G[s]
      BY <1>3, <2>0, <3>1
    <3>3. MapOf(G, Append(u, s)) = Append(MapOf(G, u), y) /\ MapOf(G, u) \in Seq(W)
      BY <3>2, MapAppended
    <3>. QED
      BY <3>1, <3>3
  <2>2. Joined(Append(MapOf(G, u), y)) = Joined(MapOf(G, u)) \o MapOf(F, s)
    BY <1>2, <2>0, <2>1, JoinedAppend
  <2>3. Joined(Append(u, s)) = Joined(u) \o s /\ Joined(u) \in Seq(X)
    BY JoinedAppend
  <2>4. MapOf(F, Joined(u) \o s) = MapOf(F, Joined(u)) \o MapOf(F, s)
    BY <2>3, MapConcat
  <2>5. Append(u, s) \in Seq(Seq(X))
    OBVIOUS
  <2>. QED
    BY <1>5, <2>0, <2>1, <2>2, <2>3, <2>4, <2>5
<1>6. Seq(Seq(X)) \subseteq P
  <2> HIDE DEF P
  <2>. QED
    BY <1>4, <1>5, SeqSetInduction
<1>7. MapOf(G, seqs) = [i \in DOMAIN seqs |-> MapOf(F, seqs[i])]
  <2>1. \A i \in DOMAIN seqs : seqs[i] \in Seq(X)
    OBVIOUS
  <2>. QED
    BY <1>1, <2>1 DEF MapOf
<1>. QED
  BY <1>6, <1>7

\* The last element of a list in place of another.
LEMMA LastReplaced ==
  ASSUME NEW X, NEW s \in Seq(X), NEW x \in X, NEW y \in X, NEW n \in Nat, n = Len(s)
  PROVE  [Append(s, x) EXCEPT ![n + 1] = y] = Append(s, y)
<1>1. PICK t : t = Append(s, x)
  OBVIOUS
<1>2. /\ DOMAIN s = 1..n /\ t \in Seq(X) /\ Len(t) = n + 1 /\ DOMAIN t = 1..(n + 1)
      /\ \A i \in 1..n : t[i] = s[i]
  BY <1>1, AppendIs
<1>3. PICK u : u = Append(s, y)
  OBVIOUS
<1>4. /\ u \in Seq(X) /\ Len(u) = n + 1 /\ DOMAIN u = 1..(n + 1)
      /\ \A i \in 1..n : u[i] = s[i]
      /\ u[n + 1] = y
  BY <1>3, AppendIs
<1>5. PICK v : v = [t EXCEPT ![n + 1] = y]
  OBVIOUS
<1>6. v \in Seq(X) /\ Len(v) = n + 1 /\ DOMAIN v = 1..(n + 1)
  BY <1>2, <1>5
<1>7. ASSUME NEW i \in 1..(n + 1)
      PROVE  v[i] = u[i]
  <2>1. CASE i = n + 1
    BY <1>2, <1>4, <1>5, <2>1
  <2>2. CASE i # n + 1
    <3>1. i \in 1..n
      BY <2>2
    <3>. QED
      BY <1>2, <1>4, <1>5, <2>2, <3>1
  <2>. QED
    BY <2>1, <2>2
<1>8. v = u
  BY <1>4, <1>6, <1>7, SeqEqual
<1>. QED
  BY <1>1, <1>3, <1>5, <1>8

LEMMA Appended ==
  ASSUME NEW X, NEW s \in Seq(X), NEW x \in X, NEW n \in Nat, n = Len(s)
  PROVE  /\ Append(s, x) \in Seq(X) /\ Len(Append(s, x)) = n + 1
         /\ DOMAIN Append(s, x) = 1..(n + 1)
         /\ \A i \in 1..n : Append(s, x)[i] = s[i]
         /\ Append(s, x)[n + 1] = x
BY AppendProperties, LenProperties

\* The first elements of a list.
Prefix(s, k) == SubSeq(s, 1, k)

LEMMA PrefixNext ==
  ASSUME NEW X, NEW s \in Seq(X), NEW n \in Nat, n = Len(s)
  PROVE  /\ Prefix(s, 0) = << >> /\ Prefix(s, n) = s
         /\ \A k \in 0..n : Prefix(s, k) \in Seq(X)
         /\ \A k \in 1..n : s[k] \in X /\ Prefix(s, k) = Append(Prefix(s, k - 1), s[k])
<1>1. Prefix(s, 0) = << >>
  BY SubSeqEmpty DEF Prefix
<1>2. Prefix(s, n) = s
  BY SubSeqFull DEF Prefix
<1>3. ASSUME NEW k \in 0..n
      PROVE  Prefix(s, k) \in Seq(X)
  <2>1. 1 \in Int /\ k \in Int /\ \A i \in 1..k : s[i] \in X
    OBVIOUS
  <2>. QED
    BY <2>1, SubSeqProperties DEF Prefix
<1>4. ASSUME NEW k \in 1..n
      PROVE  s[k] \in X /\ Prefix(s, k) = Append(Prefix(s, k - 1), s[k])
  <2>1. 1 \in 1..Len(s) /\ k \in 1..Len(s) /\ s[k] \in X
    OBVIOUS
  <2>2. SubSeq(s, 1, k) = SubSeq(s, 1, k - 1) \o << s[k] >>
    BY <2>1, SubSeqRecursiveSecond
  <2>3. k - 1 \in 0..n
    OBVIOUS
  <2>4. Prefix(s, k - 1) \in Seq(X)
    BY <1>3, <2>3
  <2>5. PICK p \in Seq(X), x \in X : p = Prefix(s, k - 1) /\ x = s[k]
    BY <2>1, <2>4
  <2>6. p \o << x >> = Append(p, x)
    OBVIOUS
  <2>. QED
    BY <2>1, <2>2, <2>5, <2>6 DEF Prefix
<1>. QED
  BY <1>1, <1>2, <1>3, <1>4

LEMMA PrefixStep ==
  ASSUME NEW X, NEW s \in Seq(X), NEW j \in Nat, NEW k, k = j + 1, k <= Len(s)
  PROVE  s[k] \in X /\ Prefix(s, j) \in Seq(X) /\ Prefix(s, k) = Append(Prefix(s, j), s[k])
<1>1. PICK n \in Nat : n = Len(s)
  BY LenProperties
<1>2. k \in 1..n /\ j \in 0..n /\ k - 1 = j
  BY <1>1
<1>3. /\ \A i \in 0..n : Prefix(s, i) \in Seq(X)
      /\ \A i \in 1..n : s[i] \in X /\ Prefix(s, i) = Append(Prefix(s, i - 1), s[i])
  BY <1>1, PrefixNext
<1>. QED
  BY <1>2, <1>3

(***************************************************************************)
(* The lists that F makes of the elements of a list, one after the other.  *)
(***************************************************************************)
Flat(F, s) == Joined(MapOf(F, s))

LEMMA FlatAppend ==
  ASSUME NEW X, NEW Y, NEW F, Maps(F, X, Seq(Y)), NEW s \in Seq(X), NEW x \in X
  PROVE  Flat(F, s) \in Seq(Y) /\ F[x] \in Seq(Y) /\ Flat(F, Append(s, x)) = Flat(F, s) \o F[x]
<1>1. PICK W, y : W = Seq(Y) /\ y = F[x]
  OBVIOUS
<1>2. Maps(F, X, W)
  BY <1>1
<1>3. MapOf(F, s) \in Seq(W) /\ y \in W /\ MapOf(F, Append(s, x)) = Append(MapOf(F, s), y)
  BY <1>1, <1>2, MapAppended
<1>4. PICK u \in Seq(Seq(Y)), z \in Seq(Y) : u = MapOf(F, s) /\ z = y
  BY <1>1, <1>3
<1>5. Joined(u) \in Seq(Y) /\ Joined(Append(u, z)) = Joined(u) \o z
  BY JoinedAppend
<1>. QED
  BY <1>1, <1>3, <1>4, <1>5 DEF Flat

LEMMA FlatNone == ASSUME NEW F PROVE Flat(F, << >>) = << >>
<1>1. MapOf(F, << >>) = << >>
  BY DEF MapOf
<1>. QED
  BY <1>1, JoinedNone DEF Flat

LEMMA FlatTyped ==
  ASSUME NEW X, NEW Y, NEW F, Maps(F, X, Seq(Y)), NEW s \in Seq(X)
  PROVE  Flat(F, s) \in Seq(Y)
<1>1. PICK W : W = Seq(Y)
  OBVIOUS
<1>2. Maps(F, X, W)
  BY <1>1
<1>3. MapOf(F, s) \in Seq(W)
  BY <1>2, MapTyped
<1>4. PICK u \in Seq(Seq(Y)) : u = MapOf(F, s)
  BY <1>1, <1>3
<1>5. Joined(u) \in Seq(Y)
  BY JoinedAppend, EmptySeq
<1>. QED
  BY <1>4, <1>5 DEF Flat

LEMMA FlatConcat ==
  ASSUME NEW X, NEW Y, NEW F, Maps(F, X, Seq(Y)), NEW s \in Seq(X), NEW t \in Seq(X)
  PROVE  Flat(F, s \o t) = Flat(F, s) \o Flat(F, t)
<1>1. PICK W : W = Seq(Y)
  OBVIOUS
<1>2. Maps(F, X, W)
  BY <1>1
<1>3. MapOf(F, s) \in Seq(W) /\ MapOf(F, t) \in Seq(W)
  BY <1>2, MapTyped
<1>4. MapOf(F, s \o t) = MapOf(F, s) \o MapOf(F, t)
  BY <1>2, MapConcat
<1>5. PICK u \in Seq(Seq(Y)), v \in Seq(Seq(Y)) : u = MapOf(F, s) /\ v = MapOf(F, t)
  BY <1>1, <1>3
<1>6. Joined(u \o v) = Joined(u) \o Joined(v)
  BY JoinedConcat
<1>. QED
  BY <1>4, <1>5, <1>6 DEF Flat

LEMMA FlatJoined ==
  ASSUME NEW X, NEW Y, NEW F, Maps(F, X, Seq(Y)), NEW seqs \in Seq(Seq(X))
  PROVE  Flat(F, Joined(seqs)) = Joined([i \in DOMAIN seqs |-> Flat(F, seqs[i])])
<1>1. PICK Z, W : Z = Seq(X) /\ W = Seq(Y)
  OBVIOUS
<1>2. PICK G : G = [s \in Z |-> Flat(F, s)]
  OBVIOUS
<1>3. \A s \in Z : Flat(F, s) \in W
  BY <1>1, FlatTyped
<1>4. Maps(G, Z, W)
  BY <1>2, <1>3 DEF Maps
<1> DEFINE P == {u \in Seq(Z) : Flat(F, Joined(u)) = Joined(MapOf(G, u))}
<1>5. << >> \in P
  <2>1. MapOf(G, << >>) = << >> /\ << >> \in Seq(Z)
    BY DEF MapOf
  <2>. QED
    BY <2>1, JoinedNone, FlatNone
<1>6. ASSUME NEW u \in Seq(Z), NEW s \in Z, u \in P
      PROVE  Append(u, s) \in P
  <2>1. PICK y : y = G[s] /\ y = Flat(F, s)
    BY <1>2
  <2>2. MapOf(G, u) \in Seq(W) /\ y \in W /\ MapOf(G, Append(u, s)) = Append(MapOf(G, u), y)
    <3>1. Maps(G, Z, W) /\ u \in Seq(Z) /\ s \in Z /\ y = G[s]
      BY <1>4, <2>1
    <3>. QED
      BY <3>1, MapAppended
  <2>3. PICK v \in Seq(Seq(Y)), z \in Seq(Y) : v = MapOf(G, u) /\ z = y
    BY <1>1, <2>2
  <2>4. Joined(Append(v, z)) = Joined(v) \o z
    BY JoinedAppend
  <2>5. PICK j \in Seq(X), t \in Seq(X) : j = Joined(u) /\ t = s /\ Joined(Append(u, s)) = j \o t
    <3>1. u \in Seq(Seq(X)) /\ s \in Seq(X)
      BY <1>1
    <3>. QED
      BY <3>1, JoinedAppend
  <2>6. Flat(F, j \o t) = Flat(F, j) \o Flat(F, t)
    BY FlatConcat
  <2>7. Append(u, s) \in Seq(Z)
    OBVIOUS
  <2>. QED
    BY <1>6, <2>1, <2>2, <2>3, <2>4, <2>5, <2>6, <2>7
<1>7. Seq(Z) \subseteq P
  <2> HIDE DEF P
  <2>. QED
    BY <1>5, <1>6, SeqSetInduction
<1>8. MapOf(G, seqs) = [i \in DOMAIN seqs |-> Flat(F, seqs[i])]
  <2>1. \A i \in DOMAIN seqs : seqs[i] \in Z
    BY <1>1
  <2>. QED
    BY <1>2, <2>1 DEF MapOf
<1>. QED
  BY <1>1, <1>7, <1>8

LEMMA FlatOne ==
  ASSUME NEW X, NEW Y, NEW F, Maps(F, X, Seq(Y)), NEW x \in X
  PROVE  Flat(F, << x >>) = F[x] /\ << x >> \in Seq(X)
<1>1. PICK s \in Seq(X) : s = << >>
  BY EmptySeq
<1>2. Flat(F, Append(s, x)) = Flat(F, s) \o F[x] /\ F[x] \in Seq(Y)
  BY FlatAppend
<1>3. PICK u \in Seq(Y) : u = F[x] /\ << >> \o u = u
  BY <1>2, ConcatEmptySeq
<1>4. Flat(F, s) = << >>
  BY <1>1, FlatNone
<1>5. Append(s, x) = << x >> /\ << x >> \in Seq(X)
  BY <1>1
<1>. QED
  BY <1>2, <1>3, <1>4, <1>5

LEMMA JoinedOne ==
  ASSUME NEW X, NEW s \in Seq(X)
  PROVE  Joined(<< s >>) = s
<1>1. PICK Y : Y = Seq(X)
  OBVIOUS
<1>2. PICK e \in Seq(Y) : e = << >>
  BY EmptySeq
<1>3. Joined(Append(e, s)) = Joined(e) \o s
  BY <1>1, JoinedAppend
<1>4. << >> \o s = s
  BY ConcatEmptySeq
<1>5. Append(e, s) = << s >>
  BY <1>2
<1>. QED
  BY <1>2, <1>3, <1>4, <1>5, JoinedNone

\* The elements of lists joined are those of the lists.
LEMMA InJoined ==
  ASSUME NEW X, NEW seqs \in Seq(Seq(X)), NEW x
  PROVE  x \in Range(Joined(seqs)) <=> \E i \in DOMAIN seqs : x \in Range(seqs[i])
<1>1. PICK n \in Nat : n = Len(seqs) /\ DOMAIN seqs = 1..n
  BY LenProperties
<1>2. JoinOf(Joined(seqs), X, seqs, Len(seqs), Apart(seqs))
  BY JoinedIs
<1>3. Range(Joined(seqs)) = InLists(seqs, n)
  BY <1>1, <1>2 DEF JoinOf
<1>. QED
  BY <1>1, <1>3 DEF InLists

(***************************************************************************)
(* The least and the greatest number.                                      *)
(***************************************************************************)
LEMMA LeastNat ==
  ASSUME NEW S, S \subseteq Nat, S # {}
  PROVE  \E m \in S : \A i \in S : m <= i
<1>1. PICK R : R = OpToRel(<, Nat)
  OBVIOUS
<1>2. IsWellFoundedOn(R, Nat)
  BY <1>1, NatLessThanWellFounded
<1>3. PICK x \in S : \A y \in S : << y, x >> \notin R
  BY <1>2, WFMin
<1>4. \A y \in S : ~(y < x)
  BY <1>1, <1>3 DEF OpToRel
<1>. QED
  BY <1>3, <1>4

LEMMA GreatestNat ==
  ASSUME NEW n \in Nat, NEW S, S \subseteq 0..n, S # {}
  PROVE  \E m \in S : \A i \in S : m >= i
<1> DEFINE U == {u \in Nat : \A v \in S : v <= u}
<1>1. n \in U
  OBVIOUS
<1>2. PICK u \in U : \A w \in U : u <= w
  <2>1. U \subseteq Nat /\ U # {}
    BY <1>1
  <2> HIDE DEF U
  <2>. QED
    BY <2>1, LeastNat
<1>3. u \in S
  <2>1. SUFFICES ASSUME u \notin S PROVE FALSE
    OBVIOUS
  <2>2. \A v \in S : v \in Nat /\ v <= u /\ v # u
    BY <2>1
  <2>0. PICK w : w \in S
    OBVIOUS
  <2>3. u - 1 \in Nat /\ \A v \in S : v <= u - 1
    BY <2>0, <2>2
  <2>4. u - 1 \in U
    BY <2>3
  <2>. QED
    BY <1>2, <2>4
<1>. QED
  BY <1>2, <1>3

\* Of finitely many numbers the least and the greatest are Min and Max.
Values(f, n) == {f[i] : i \in 1..n}

LEMMA ValuesBound ==
  ASSUME NEW n \in Nat, NEW f, \A i \in 1..n : f[i] \in Nat
  PROVE  \E b \in Nat : \A i \in 1..n : f[i] <= b
<1> DEFINE S == {k \in Nat : k <= n => \E b \in Nat : \A i \in 1..k : f[i] <= b}
<1>1. 0 \in S
  OBVIOUS
<1>2. ASSUME NEW k \in Nat, k \in S
      PROVE  k + 1 \in S
  <2>1. ASSUME k + 1 <= n
        PROVE  \E b \in Nat : \A i \in 1..(k + 1) : f[i] <= b
    <3>1. PICK b \in Nat : \A i \in 1..k : f[i] <= b
      BY <1>2, <2>1
    <3>2. PICK c \in Nat : c = f[k + 1]
      BY <2>1
    <3>3. \A i \in 1..(k + 1) : f[i] <= b + c
      <4>1. \A i \in 1..(k + 1) : f[i] \in Nat /\ (i \in 1..k \/ i = k + 1)
        BY <2>1
      <4>. QED
        BY <3>1, <3>2, <4>1
    <3>. QED
      BY <3>3
  <2>. QED
    BY <2>1
<1>3. n \in S
  <2> HIDE DEF S
  <2>. QED
    BY <1>1, <1>2, NatSetInduction
<1>. QED
  BY <1>3

LEMMA ValuesMaxMin ==
  ASSUME NEW n \in Nat, n > 0, NEW f, \A i \in 1..n : f[i] \in Nat
  PROVE  /\ Max(Values(f, n)) \in Nat /\ Min(Values(f, n)) \in Nat
         /\ \A i \in 1..n : Min(Values(f, n)) <= f[i] /\ f[i] <= Max(Values(f, n))
<1>1. PICK V : V = Values(f, n) /\ V \subseteq Nat /\ f[1] \in V /\ V # {}
  <2>1. 1 \in 1..n
    OBVIOUS
  <2>. QED
    BY <2>1 DEF Values
<1>2. PICK least \in V : \A v \in V : least <= v
  BY <1>1, LeastNat
<1>3. PICK b \in Nat : \A i \in 1..n : f[i] <= b
  BY ValuesBound
<1>4. V \subseteq 0..b
  BY <1>1, <1>3 DEF Values
<1>6. Max(V) \in V /\ \A v \in V : v <= Max(V)
  <2>1. \E x \in V : \A y \in V : x >= y
    BY <1>1, <1>4, GreatestNat
  <2>2. Max(V) \in V /\ \A y \in V : Max(V) >= y
    BY <2>1 DEF Max
  <2>. QED
    BY <1>1, <2>2
<1>7. Min(V) \in V /\ \A v \in V : Min(V) <= v
  BY <1>2 DEF Min
<1>8. \A i \in 1..n : f[i] \in V
  BY <1>1 DEF Values
<1>. QED
  BY <1>1, <1>6, <1>7, <1>8
=============================================================================
