----------------------------- MODULE ModelCalls_proofs -----------------------------
(***************************************************************************)
(* Proofs about what goes to the model and what comes back.                *)
(*                                                                         *)
(* PromptCascade, for every budget, rate and length: texts are shortened   *)
(* in their order, the newest comments stay, and a prompt is given up only *)
(* at its minimum or when its turns are used up.                           *)
(*                                                                         *)
(* FilePieces, for every patch git can write and every syntax tree: lines  *)
(* keep their numbers, every added line comes with the code around it, and *)
(* the pieces fit.                                                         *)
(*                                                                         *)
(* OutputRecovery, for all texts of an answer: a complete valid answer is  *)
(* taken as it is.                                                         *)
(***************************************************************************)
EXTENDS PromptCascade, FilePieces, OutputRecovery, Folds_proofs

(***************************************************************************)
(* What the sections are: lengths.                                         *)
(***************************************************************************)
\* A constant of the model is a natural number.
LEMMA Constants ==
  /\ HeaderChars \in Nat /\ MarkChars \in Nat /\ MaxFileChars \in Nat /\ LineChars \in Nat \ {0}
  /\ FixedChars \in Nat /\ TotalChars \in Nat /\ ContextChars \in Nat /\ NoteChars \in Nat
  /\ MinDiffTokens \in Nat /\ Rates \subseteq Nat \ {0}
  /\ Targets \in Seq(Pieces) /\ PieceChars \subseteq Nat /\ AuxChars \subseteq Nat
  /\ HunkChars \subseteq Nat /\ Budgets \subseteq Nat
  /\ ContextFiles \subseteq Seq(Nat) /\ Threads \subseteq Seq(Nat)
BY BudgetAssumption, CascadeAssumption

LEMMA CutTyped ==
  ASSUME NEW limit \in Int
  PROVE  Cut(limit) \in Int /\ (limit >= 0 => Cut(limit) \in 0..limit)
BY Constants DEF Cut

LEMMA ShrinkTyped ==
  ASSUME NEW chars \in Nat, NEW limit \in Nat
  PROVE  Shrink(chars, limit) \in Nat
<1>1. CASE limit <= 0 \/ (chars > limit /\ limit < MarkChars) \/ chars <= limit
  BY <1>1 DEF Shrink
<1>2. CASE ~(limit <= 0 \/ (chars > limit /\ limit < MarkChars) \/ chars <= limit)
  <2>1. limit - MarkChars \in Nat
    BY <1>2, Constants
  <2>2. PICK kept \in Nat : kept = Cut(limit - MarkChars)
    BY <2>1, CutTyped
  <2>. QED
    BY <1>2, <2>2, Constants DEF Shrink
<1>. QED
  BY <1>1, <1>2

LEMMA JoinsTyped == \A n \in Nat : Joins(n) \in Nat
BY DEF Joins

LEMMA CountPositive ==
  ASSUME NEW chars \in Nat, NEW rate \in Rates
  PROVE  Count(chars, rate) \in Nat /\ (chars # 0 => Count(chars, rate) > 0)
BY Constants DEF Count

LEMMA LessOfIt ==
  ASSUME NEW c \in Nat, NEW k \in Nat, NEW t \in Nat, k < t
  PROVE  (c * k) \div t \in Nat /\ (c # 0 => (c * k) \div t < c)
<1>1. c * k \in Nat /\ t # 0
  OBVIOUS
<1>2. c # 0 => c * k < c * t
  OBVIOUS
<1>. QED
  BY <1>1, <1>2

\* _reduced_char_limit takes something from every text that is not empty.
LEMMA ReducedLimitLess ==
  ASSUME NEW chars \in Nat, NEW overshoot \in Nat \ {0}, NEW rate \in Rates
  PROVE  /\ ReducedLimit(chars, overshoot, rate) \in Nat
         /\ chars # 0 => ReducedLimit(chars, overshoot, rate) < chars
<1>1. CASE chars = 0
  BY <1>1 DEF ReducedLimit
<1>2. CASE chars # 0
  <2>1. PICK t \in Nat : t = Count(chars, rate) /\ t > 0
    BY <1>2, CountPositive
  <2>2. t - overshoot \in Int /\ t - overshoot < t
    BY <2>1
  <2>3. PICK k \in Nat : k = Max({0, t - overshoot}) /\ k < t
    BY <2>1, <2>2, MaxZero
  <2>4. ReducedLimit(chars, overshoot, rate) = (chars * k) \div t
    BY <1>2, <2>1, <2>3 DEF ReducedLimit
  <2>. QED
    BY <1>2, <2>1, <2>3, <2>4, LessOfIt
<1>. QED
  BY <1>1, <1>2

LEMMA FloorTyped ==
  ASSUME NEW chars \in Nat, NEW rate \in Rates
  PROVE  FloorOf(chars, rate) \in Nat
<1>1. PICK t \in Nat : t = Count(chars, rate)
  BY CountPositive
<1>2. CASE t <= MinDiffTokens
  BY <1>1, <1>2 DEF FloorOf
<1>3. CASE ~(t <= MinDiffTokens)
  <2>1. (chars * MinDiffTokens) \div t \in Nat
    BY <1>3, Constants, LessOfIt
  <2>. QED
    BY <1>1, <1>3, <2>1 DEF FloorOf
<1>. QED
  BY <1>2, <1>3

LEMMA SumTyped ==
  ASSUME NEW s \in Seq(Nat)
  PROVE  SumOf(s) \in Nat
<1>1. PICK n \in Nat : n = Len(s) /\ DOMAIN s = 1..n /\ \A i \in 1..n : s[i] \in Nat
  OBVIOUS
<1>2. PICK h : h = CHOOSE g : g = [t \in SUBSET (1..n) |->
                     IF t = {} THEN 0 ELSE g[t \ {Max(t)}] + s[Max(t)]]
  OBVIOUS
<1>3. SumOf(s) = h[1..n]
  BY <1>1, <1>2 DEF SumOf, FoldLeft, MapThenFoldSet
<1>4. PICK D : D = [p \in Nat \X (1..n) |-> p[1] + s[p[2]]]
  OBVIOUS
<1>5. ASSUME NEW g, Turns(g, Nat, 0, n, D)
      PROVE  Unfolds(h, Nat, 0, n, D)
  <2>1. g = [t \in SUBSET (1..n) |-> IF t = {} THEN 0 ELSE g[t \ {Max(t)}] + s[Max(t)]]
    BY <1>1, <1>4, <1>5 DEF Turns
  <2>2. h = [t \in SUBSET (1..n) |-> IF t = {} THEN 0 ELSE h[t \ {Max(t)}] + s[Max(t)]]
    BY <1>2, <2>1
  <2>. QED
    BY <1>4, <1>5, <2>2 DEF Unfolds, Turns
<1>6. RunsTo(h, Nat, 0, n, D)
  <2>1. D \in [Nat \X (1..n) -> Nat]
    BY <1>1, <1>4
  <2>. QED
    BY <1>1, <1>5, <2>1, FoldLeftRuns
<1>. QED
  BY <1>1, <1>3, <1>6 DEF RunsTo, IsRun

\* What a context has shown so far.
ShownFiles == [files : Nat, chars : Nat, full : BOOLEAN]

LEMMA AddFileTyped ==
  ASSUME NEW shown \in ShownFiles, NEW file \in Nat, NEW limit \in Nat
  PROVE  AddFile(shown, file, limit) \in ShownFiles
<1>1. PICK room \in Int : room = limit - shown.chars - HeaderChars
  BY Constants DEF ShownFiles
<1>2. PICK cap \in Int : cap = Min({ContextChars, room}) /\ (room > 0 => cap \in Nat)
  BY Constants, MinOfTwo
<1>3. CASE shown.full \/ room <= 0 \/ (file > cap /\ cap < MarkChars)
  <2>1. AddFile(shown, file, limit) = [shown EXCEPT !.full = TRUE]
    BY <1>1, <1>2, <1>3 DEF AddFile
  <2>2. AddFile(shown, file, limit)
          = [files |-> shown.files, chars |-> shown.chars, full |-> TRUE]
    BY <2>1 DEF ShownFiles
  <2>. QED
    BY <2>2 DEF ShownFiles
<1>4. CASE ~(shown.full \/ room <= 0 \/ (file > cap /\ cap < MarkChars))
  <2>1. PICK more \in Nat : more = Min({file, cap})
    BY <1>2, <1>4, MinOfTwo
  <2>2. AddFile(shown, file, limit)
          = [shown EXCEPT !.files = @ + 1, !.chars = @ + HeaderChars + more]
    BY <1>1, <1>2, <1>4, <2>1 DEF AddFile
  <2>3. AddFile(shown, file, limit)
          = [files |-> shown.files + 1, chars |-> shown.chars + HeaderChars + more,
             full |-> shown.full]
    BY <2>2 DEF ShownFiles
  <2>4. shown.chars + HeaderChars + more \in Nat /\ shown.files + 1 \in Nat
    BY <2>1, Constants DEF ShownFiles
  <2>. QED
    BY <2>3, <2>4 DEF ShownFiles
<1>. QED
  BY <1>3, <1>4

LEMMA ContextTyped ==
  ASSUME NEW files \in Seq(Nat), NEW limit \in Nat
  PROVE  BuildContext(files, limit) \in Nat
<1>1. PICK n \in Nat : n = Len(files) /\ DOMAIN files = 1..n /\ \A i \in 1..n : files[i] \in Nat
  OBVIOUS
<1>2. PICK b : b = [files |-> 0, chars |-> 0, full |-> FALSE]
  OBVIOUS
<1>3. PICK h : h = CHOOSE g : g = [t \in SUBSET (1..n) |->
                     IF t = {} THEN b ELSE AddFile(g[t \ {Max(t)}], files[Max(t)], limit)]
  OBVIOUS
<1>4. BuildContext(files, limit) = h[1..n].chars + Joins(h[1..n].files)
  BY <1>1, <1>2, <1>3 DEF BuildContext, FoldLeft, MapThenFoldSet
<1>5. PICK D : D = [p \in ShownFiles \X (1..n) |-> AddFile(p[1], files[p[2]], limit)]
  OBVIOUS
<1>6. ASSUME NEW g, Turns(g, ShownFiles, b, n, D)
      PROVE  Unfolds(h, ShownFiles, b, n, D)
  <2>1. g = [t \in SUBSET (1..n) |->
               IF t = {} THEN b ELSE AddFile(g[t \ {Max(t)}], files[Max(t)], limit)]
    BY <1>5, <1>6 DEF Turns
  <2>2. h = [t \in SUBSET (1..n) |->
               IF t = {} THEN b ELSE AddFile(h[t \ {Max(t)}], files[Max(t)], limit)]
    BY <1>3, <2>1
  <2>. QED
    BY <1>5, <1>6, <2>2 DEF Unfolds, Turns
<1>7. RunsTo(h, ShownFiles, b, n, D)
  <2>1. D \in [ShownFiles \X (1..n) -> ShownFiles]
    BY <1>1, <1>5, AddFileTyped
  <2>2. b \in ShownFiles
    BY <1>2 DEF ShownFiles
  <2>. QED
    BY <1>1, <1>6, <2>1, <2>2, FoldLeftRuns
<1>8. h[1..n] \in ShownFiles
  BY <1>1, <1>7 DEF RunsTo, IsRun
<1>9. h[1..n].chars \in Nat /\ h[1..n].files \in Nat
  BY <1>8 DEF ShownFiles
<1>10. Joins(h[1..n].files) \in Nat
  BY <1>9, JoinsTyped
<1>. QED
  BY <1>4, <1>9, <1>10

\* What a diff has shown so far.
ShownBlocks ==
  {shown \in [whole : SUBSET Pieces, cut : SUBSET Pieces, dropped : SUBSET Pieces, chars : Nat] :
     IsFiniteSet(shown.whole) /\ IsFiniteSet(shown.cut)}

LEMMA ShowTyped ==
  ASSUME NEW shown \in ShownBlocks, NEW p \in Pieces, NEW size \in Nat, NEW limit \in Nat
  PROVE  Show(shown, p, size, limit) \in ShownBlocks
<1>0. /\ shown \in [whole : SUBSET Pieces, cut : SUBSET Pieces, dropped : SUBSET Pieces, chars : Nat]
      /\ IsFiniteSet(shown.whole) /\ IsFiniteSet(shown.cut)
  BY DEF ShownBlocks
<1>1. PICK cap \in Int : cap = Min({MaxFileChars, limit - shown.chars})
  <2>1. limit - shown.chars \in Int /\ MaxFileChars \in Int
    BY <1>0, Constants
  <2>. QED
    BY <2>1, MinOfTwo
<1>2. PICK kept \in Int : kept = Cut(cap - MarkChars)
  BY Constants, CutTyped
<1>3. CASE shown.dropped = {} /\ size <= cap
  <2>1. Show(shown, p, size, limit)
          = [shown EXCEPT !.whole = @ \cup {p}, !.chars = @ + size]
    BY <1>1, <1>3 DEF Show
  <2>2. Show(shown, p, size, limit)
          = [whole |-> shown.whole \cup {p}, cut |-> shown.cut, dropped |-> shown.dropped,
             chars |-> shown.chars + size]
    BY <1>0, <2>1
  <2>3. IsFiniteSet(shown.whole \cup {p})
    BY <1>0, FS_AddElement
  <2>. QED
    BY <1>0, <2>2, <2>3 DEF ShownBlocks
<1>4. CASE ~(shown.dropped = {} /\ size <= cap)
           /\ shown.dropped = {} /\ cap >= MarkChars /\ kept > HeaderChars
  <2>1. Show(shown, p, size, limit)
          = [shown EXCEPT !.cut = @ \cup {p}, !.chars = @ + kept + MarkChars]
    BY <1>1, <1>2, <1>4 DEF Show
  <2>2. Show(shown, p, size, limit)
          = [whole |-> shown.whole, cut |-> shown.cut \cup {p}, dropped |-> shown.dropped,
             chars |-> shown.chars + kept + MarkChars]
    BY <1>0, <2>1
  <2>3. IsFiniteSet(shown.cut \cup {p})
    BY <1>0, FS_AddElement
  <2>4. shown.chars + kept + MarkChars \in Nat
    BY <1>0, <1>4, Constants
  <2>5. shown.cut \cup {p} \in SUBSET Pieces
    BY <1>0
  <2>6. Show(shown, p, size, limit)
          \in [whole : SUBSET Pieces, cut : SUBSET Pieces, dropped : SUBSET Pieces, chars : Nat]
    BY <1>0, <2>2, <2>4, <2>5
  <2>. QED
    BY <1>0, <2>2, <2>3, <2>6 DEF ShownBlocks
<1>5. CASE /\ ~(shown.dropped = {} /\ size <= cap)
           /\ ~(shown.dropped = {} /\ cap >= MarkChars /\ kept > HeaderChars)
  <2>1. Show(shown, p, size, limit) = [shown EXCEPT !.dropped = @ \cup {p}]
    BY <1>1, <1>2, <1>5 DEF Show
  <2>2. Show(shown, p, size, limit)
          = [whole |-> shown.whole, cut |-> shown.cut, dropped |-> shown.dropped \cup {p},
             chars |-> shown.chars]
    BY <1>0, <2>1
  <2>. QED
    BY <1>0, <2>2 DEF ShownBlocks
<1>. QED
  BY <1>3, <1>4, <1>5

LEMMA ShowAllTyped ==
  ASSUME NEW batch \in Seq(Pieces), NEW chars \in [Pieces -> Nat], NEW limit \in Nat
  PROVE  ShowAll(batch, chars, limit) \in ShownBlocks
<1>1. PICK n \in Nat : n = Len(batch) /\ DOMAIN batch = 1..n /\ \A i \in 1..n : batch[i] \in Pieces
  OBVIOUS
<1>2. \A i \in 1..n : chars[batch[i]] \in Nat
  BY <1>1
<1>3. PICK h : h = CHOOSE g : g = [t \in SUBSET (1..n) |->
                     IF t = {} THEN Shown
                     ELSE Show(g[t \ {Max(t)}], batch[Max(t)], chars[batch[Max(t)]], limit)]
  OBVIOUS
<1>4. ShowAll(batch, chars, limit) = h[1..n]
  BY <1>1, <1>3 DEF ShowAll, FoldLeft, MapThenFoldSet
<1>5. PICK D : D = [q \in ShownBlocks \X (1..n) |->
                      Show(q[1], batch[q[2]], chars[batch[q[2]]], limit)]
  OBVIOUS
<1>6. ASSUME NEW g, Turns(g, ShownBlocks, Shown, n, D)
      PROVE  Unfolds(h, ShownBlocks, Shown, n, D)
  <2>1. g = [t \in SUBSET (1..n) |->
               IF t = {} THEN Shown
               ELSE Show(g[t \ {Max(t)}], batch[Max(t)], chars[batch[Max(t)]], limit)]
    BY <1>5, <1>6 DEF Turns
  <2>2. h = [t \in SUBSET (1..n) |->
               IF t = {} THEN Shown
               ELSE Show(h[t \ {Max(t)}], batch[Max(t)], chars[batch[Max(t)]], limit)]
    BY <1>3, <2>1
  <2>. QED
    BY <1>5, <1>6, <2>2 DEF Unfolds, Turns
<1>7. Shown \in ShownBlocks
  BY FS_EmptySet DEF Shown, ShownBlocks
<1>8. RunsTo(h, ShownBlocks, Shown, n, D)
  <2>1. D \in [ShownBlocks \X (1..n) -> ShownBlocks]
    BY <1>1, <1>2, <1>5, ShowTyped
  <2>. QED
    BY <1>6, <1>7, <2>1, FoldLeftRuns
<1>9. PICK a : IsRun(a, ShownBlocks, Shown, n, D) /\ a[n] = h[1..n]
  BY <1>8 DEF RunsTo
<1>. QED
  BY <1>1, <1>4, <1>9 DEF IsRun

LEMMA DiffTyped ==
  ASSUME NEW pieces \in [Pieces -> PieceChars], NEW limit \in Nat
  PROVE  DiffChars(pieces, limit) \in Nat
<1>1. Targets \in Seq(Pieces) /\ pieces \in [Pieces -> Nat]
  BY Constants
<1>2. PICK shown \in ShownBlocks : shown = ShowAll(Targets, pieces, limit)
  BY <1>1, ShowAllTyped
<1>3. shown.chars \in Nat /\ IsFiniteSet(shown.whole \cup shown.cut)
  BY <1>2, FS_Union DEF ShownBlocks
<1>4. PICK joins \in Nat : joins = Joins(Cardinality(shown.whole \cup shown.cut))
  BY <1>3, FS_CardinalityType, JoinsTyped
<1>. QED
  BY <1>2, <1>3, <1>4, Constants DEF DiffChars

(***************************************************************************)
(* The sections under some limits.                                         *)
(***************************************************************************)
IsLimits(set) == \A s \in DOMAIN set : set[s] \in Nat

LEMMA PartTyped ==
  ASSUME NEW set, IsLimits(set), NEW in, NEW section, in[section] \in Nat
  PROVE  Part(in, set, section) \in Nat
<1>1. PICK limit \in Nat : limit = LimitOf(set, section, in[section])
  BY DEF LimitOf, IsLimits
<1>2. PICK chars \in Nat : chars = in[section]
  OBVIOUS
<1>3. Part(in, set, section) = Shrink(chars, limit)
  BY <1>1, <1>2 DEF Part
<1>. QED
  BY <1>1, <1>3, ShrinkTyped

LEMMA ReviewTyped ==
  ASSUME NEW in \in ReviewInputs, NEW set, IsLimits(set)
  PROVE  ReviewSections(in, set)
           \in [docs : Nat, spec : Nat, context : Nat, body : Nat, diff : Nat]
<1>1. /\ in.docs \in Nat /\ in.spec \in Nat /\ in.body \in Nat /\ in.context \in Seq(Nat)
      /\ in.pieces \in [Pieces -> PieceChars]
  BY Constants DEF ReviewInputs
<1>2. PICK docs \in Nat : docs = Part(in, set, "docs")
  BY <1>1, PartTyped
<1>3. PICK spec \in Nat : spec = Part(in, set, "spec")
  BY <1>1, PartTyped
<1>4. PICK body \in Nat : body = Part(in, set, "body")
  BY <1>1, PartTyped
<1>5. PICK total \in Nat : total = LimitOf(set, "context", TotalChars)
  BY Constants DEF LimitOf, IsLimits
<1>6. PICK context \in Nat : context = BuildContext(in.context, total)
  BY <1>1, ContextTyped
<1>7. PICK room \in Nat : room = Max({0, TotalChars - context - docs - spec - body})
  <2>1. TotalChars - context - docs - spec - body \in Int
    BY Constants
  <2>. QED
    BY <2>1, MaxZero
<1>8. PICK limit \in Nat : limit = LimitOf(set, "diff", room)
  BY DEF LimitOf, IsLimits
<1>9. DiffChars(in.pieces, limit) \in Nat
  BY <1>1, DiffTyped
<1>10. ReviewSections(in, set)
         = [docs |-> docs, spec |-> spec, context |-> context, body |-> body,
            diff |-> DiffChars(in.pieces, limit)]
  BY <1>2, <1>3, <1>4, <1>5, <1>6, <1>7, <1>8 DEF ReviewSections
<1>. QED
  BY <1>9, <1>10

\* The sections that are shortened before the diff.
BeforeDiff == {"docs", "spec", "context", "body"}

\* Only the limit of one section is new.
Sets(new, set, s, in) ==
  /\ IsLimits(new) /\ DOMAIN new = DOMAIN set \cup {s}
  /\ \A t \in BeforeDiff \ {s} : ReviewSections(in, new)[t] = ReviewSections(in, set)[t]

\* A new limit of one section leaves the others as they are, but for the diff.
LEMMA NewLimitOfOne ==
  ASSUME NEW set, IsLimits(set), NEW s, NEW limit \in Nat, NEW in
  PROVE  Sets(WithLimit(set, s, limit), set, s, in)
<1>0. PICK new : new = WithLimit(set, s, limit)
  OBVIOUS
<1>1. /\ DOMAIN new = DOMAIN set \cup {s} /\ new[s] = limit
      /\ \A t \in DOMAIN set \ {s} : new[t] = set[t]
  BY <1>0 DEF WithLimit
<1>2. \A t : t # s => \A default : LimitOf(new, t, default) = LimitOf(set, t, default)
  BY <1>1 DEF LimitOf
<1>3. ASSUME NEW t \in BeforeDiff \ {s}
      PROVE  ReviewSections(in, new)[t] = ReviewSections(in, set)[t]
  <2>1. CASE t = "docs"
    BY <1>2, <2>1 DEF ReviewSections, Part
  <2>2. CASE t = "spec"
    BY <1>2, <2>2 DEF ReviewSections, Part
  <2>3. CASE t = "context"
    BY <1>2, <2>3 DEF ReviewSections
  <2>4. CASE t = "body"
    BY <1>2, <2>4 DEF ReviewSections, Part
  <2>. QED
    BY <2>1, <2>2, <2>3, <2>4 DEF BeforeDiff
<1>. QED
  BY <1>0, <1>1, <1>3 DEF IsLimits, Sets

(***************************************************************************)
(* A review.                                                               *)
(***************************************************************************)
\* The sections before the one in turn are used up, and the diff, which comes
\* last, has a limit only in its turn.
ReviewInv ==
  job = "review" =>
    /\ input \in ReviewInputs /\ thread = << >>
    /\ IsLimits(limits) /\ DOMAIN limits \subseteq BeforeDiff \cup {"diff"}
    /\ sections = ReviewSections(input, limits)
    /\ step \in 1..6
    /\ \A i \in 1..4 : i < step => sections[ReductionSteps[i]] = 0
    /\ "diff" \in DOMAIN limits => step >= 5
    /\ step = 6 => sections.diff <= floor
    /\ turns \in 0..MaxReviewTurns
    /\ outcome = "overflow" => step = 6 \/ turns = MaxReviewTurns

\* What both loops have in common.
CommonInv ==
  /\ job \in {"review", "answer"} /\ budget \in Nat /\ floor \in Nat /\ budget \in Budgets
  /\ outcome \in {"running", "fits", "overflow"}

LEMMA MostTurns == MaxReviewTurns = 16 /\ Len(ReductionSteps) = 5
BY DEF MaxReviewTurns, ReductionSteps

LEMMA ReviewCharsTyped ==
  ASSUME sections \in [docs : Nat, spec : Nat, context : Nat, body : Nat, diff : Nat]
  PROVE  ReviewChars \in Nat
BY Constants DEF ReviewChars

\* A section that cannot be shortened is empty or a diff at its floor.
LEMMA NewLimitLess ==
  ASSUME CommonInv, NEW section \in BeforeDiff \cup {"diff"}, sections[section] \in Nat,
         NEW overshoot \in Nat \ {0}, NEW rate \in Rates
  PROVE  /\ NewLimit(section, overshoot, rate) \in Nat
         /\ NewLimit(section, overshoot, rate) >= sections[section] =>
              sections[section] <= (IF section = "diff" THEN floor ELSE 0)
<1>1. PICK reduced \in Nat : /\ reduced = ReducedLimit(sections[section], overshoot, rate)
                             /\ sections[section] # 0 => reduced < sections[section]
  BY ReducedLimitLess
<1>2. CASE section = "diff"
  <2>1. floor \in Int /\ reduced \in Int
    BY DEF CommonInv
  <2>2. Max({floor, reduced}) = IF floor >= reduced THEN floor ELSE reduced
    BY <2>1, MinOfTwo
  <2>. QED
    BY <1>1, <1>2, <2>1, <2>2 DEF NewLimit, CommonInv
<1>3. CASE section # "diff"
  BY <1>1, <1>3 DEF NewLimit
<1>. QED
  BY <1>2, <1>3

LEMMA ShortenKeepsReviewInv ==
  ASSUME CommonInv, ReviewInv, job = "review", step <= 5, outcome = "running",
         NEW overshoot \in Nat \ {0}, Shorten(ReductionSteps[step], overshoot),
         turns' \in 0..MaxReviewTurns
  PROVE  ReviewInv' /\ CommonInv'
<1>1. PICK section : section = ReductionSteps[step]
  OBVIOUS
<1>2. /\ step \in 1..5 /\ section \in BeforeDiff \cup {"diff"}
      /\ section = "diff" <=> step = 5
      /\ \A i \in 1..4 : i < step => ReductionSteps[i] \in BeforeDiff \ {section}
      /\ \A i \in 1..4 : i < step + 1 => i < step \/ (i = step /\ ReductionSteps[i] = section)
  BY <1>1 DEF ReviewInv, ReductionSteps, BeforeDiff
<1>3. sections \in [docs : Nat, spec : Nat, context : Nat, body : Nat, diff : Nat]
  BY ReviewTyped DEF ReviewInv
<1>4. sections[section] \in Nat
  BY <1>2, <1>3 DEF BeforeDiff
<1>5. PICK rate \in Rates, limit \in Nat :
        /\ IF limit >= sections[section] THEN NextSection ELSE SetLimit(section, limit)
        /\ limit >= sections[section] =>
              sections[section] <= (IF section = "diff" THEN floor ELSE 0)
  BY <1>1, <1>2, <1>4, NewLimitLess DEF Shorten
<1>6. CASE limit >= sections[section]
  <2>1. /\ step' = step + 1 /\ UNCHANGED << Inputs, limits, sections, thread, outcome >>
    BY <1>5, <1>6 DEF NextSection
  <2>2. sections[section] <= (IF section = "diff" THEN floor ELSE 0)
    BY <1>5, <1>6
  <2>3. ASSUME NEW i \in 1..4, i < step + 1
        PROVE  sections[ReductionSteps[i]] = 0
    <3>1. CASE i < step
      BY <3>1 DEF ReviewInv
    <3>2. CASE i = step /\ ReductionSteps[i] = section
      BY <1>2, <1>4, <2>2, <3>2
    <3>. QED
      BY <1>2, <2>3, <3>1, <3>2
  <2>4. step + 1 = 6 => sections.diff <= floor
    BY <1>2, <2>2
  <2>. QED
    BY <1>2, <2>1, <2>3, <2>4 DEF ReviewInv, CommonInv, Inputs
<1>7. CASE ~(limit >= sections[section])
  <2>1. PICK new : /\ new = WithLimit(limits, section, limit)
                   /\ limits' = new /\ sections' = ReviewSections(input, new)
                   /\ UNCHANGED << Inputs, thread, step, outcome >>
    BY <1>5, <1>7 DEF SetLimit, SectionsOf
  <2>2. /\ IsLimits(new) /\ DOMAIN new = DOMAIN limits \cup {section}
        /\ \A t \in BeforeDiff \ {section} :
             ReviewSections(input, new)[t] = ReviewSections(input, limits)[t]
    <3>1. IsLimits(limits)
      BY DEF ReviewInv
    <3>2. Sets(WithLimit(limits, section, limit), limits, section, input)
      BY <1>5, <3>1, NewLimitOfOne
    <3>. QED
      BY <2>1, <3>2 DEF Sets
  <2>3. \A i \in 1..4 : i < step => sections'[ReductionSteps[i]] = 0
    BY <1>2, <2>1, <2>2 DEF ReviewInv
  <2>4. "diff" \in DOMAIN new => step >= 5
    BY <1>2, <2>2 DEF ReviewInv
  <2>. QED
    BY <1>2, <2>1, <2>2, <2>3, <2>4 DEF ReviewInv, CommonInv, Inputs, IsLimits
<1>. QED
  BY <1>6, <1>7

LEMMA ReviewTurnKeepsInv ==
  ASSUME CommonInv, ReviewInv, ReviewTurn
  PROVE  ReviewInv' /\ CommonInv'
<1>1. job = "review" /\ outcome = "running" /\ turns' = turns + 1 /\ turns' \in 0..MaxReviewTurns
  BY MostTurns DEF ReviewTurn, TakeTurn, ReviewInv
<1>2. PICK rate \in Rates, actual \in Nat :
        \/ ReturnMessages
        \/ step > Len(ReductionSteps) /\ ReturnNone
        \/ /\ actual > budget /\ step <= Len(ReductionSteps)
           /\ Shorten(ReductionSteps[step], actual - budget)
  <2>1. ReviewChars \in Nat
    BY <1>1, ReviewTyped, ReviewCharsTyped DEF ReviewInv
  <2>. QED
    BY <2>1, CountPositive DEF ReviewTurn
<1>3. CASE ReturnMessages
  BY <1>1, <1>3 DEF ReturnMessages, Inputs, ReviewInv, CommonInv, IsLimits
<1>4. CASE step > Len(ReductionSteps) /\ ReturnNone
  BY <1>1, <1>4, MostTurns DEF ReturnNone, Inputs, ReviewInv, CommonInv, IsLimits
<1>5. CASE /\ actual > budget /\ step <= Len(ReductionSteps)
           /\ Shorten(ReductionSteps[step], actual - budget)
  <2>1. actual - budget \in Nat \ {0} /\ step <= 5
    BY <1>5, MostTurns DEF CommonInv
  <2>. QED
    BY <1>1, <1>5, <2>1, ShortenKeepsReviewInv
<1>. QED
  BY <1>2, <1>3, <1>4, <1>5

(***************************************************************************)
(* An answer.                                                              *)
(***************************************************************************)
\* What is shown of a thread is its end.
EndOfThread ==
  /\ thread \in Seq(Nat) /\ input.comments \in Seq(Nat)
  /\ Len(thread) <= Len(input.comments)
  /\ \A i \in 1..Len(thread) :
       thread[i] = input.comments[Len(input.comments) - Len(thread) + i]

\* A comment is dropped in every turn that does not end the loop, so that the
\* turns are not used up before the thread is.
AnswerInv ==
  job = "answer" =>
    /\ input \in AnswerInputs /\ step = 1
    /\ IsLimits(limits) /\ DOMAIN limits \subseteq {"hunk"}
    /\ sections = AnswerSections(input, limits)
    /\ EndOfThread
    /\ "hunk" \in DOMAIN limits => thread = << >>
    /\ turns \in 0..MaxAnswerTurns
    /\ outcome = "running" /\ thread # << >> => Len(thread) + turns = Len(input.comments)
    /\ outcome = "overflow" =>
         thread = << >> /\ (sections.hunk <= floor \/ turns = MaxAnswerTurns)

LEMMA HunkTyped ==
  ASSUME NEW in \in AnswerInputs, NEW set, IsLimits(set)
  PROVE  AnswerSections(in, set) \in [hunk : Nat]
<1>1. in.hunk \in Nat
  BY Constants DEF AnswerInputs
<1>2. PICK hunk \in Nat : hunk = Part(in, set, "hunk")
  BY <1>1, PartTyped
<1>. QED
  BY <1>2 DEF AnswerSections

LEMMA DropCommentKeepsEnd ==
  ASSUME EndOfThread, thread # << >>, thread' = Tail(thread), input' = input
  PROVE  EndOfThread' /\ Len(thread') = Len(thread) - 1
<1>1. PICK n \in Nat : n = Len(thread) /\ n # 0
  BY DEF EndOfThread
<1>2. /\ thread' \in Seq(Nat) /\ Len(thread') = n - 1
      /\ \A i \in 1..(n - 1) : thread'[i] = thread[i + 1] /\ i + 1 \in 1..n
  BY <1>1 DEF EndOfThread
<1>3. PICK m \in Nat : m = Len(input.comments)
  BY DEF EndOfThread
<1>4. ASSUME NEW i \in 1..(n - 1)
      PROVE  thread'[i] = input.comments[m - (n - 1) + i]
  <2>1. thread[i + 1] = input.comments[m - n + (i + 1)]
    BY <1>1, <1>2, <1>3 DEF EndOfThread
  <2>2. m - n + (i + 1) = m - (n - 1) + i
    OBVIOUS
  <2>. QED
    BY <1>2, <2>1, <2>2
<1>. QED
  BY <1>1, <1>2, <1>3, <1>4 DEF EndOfThread

LEMMA DropKeepsAnswerInv ==
  ASSUME CommonInv, AnswerInv, job = "answer", outcome = "running", DropComment,
         turns' = turns + 1, turns' \in 0..MaxAnswerTurns
  PROVE  AnswerInv' /\ CommonInv'
<1>1. /\ thread # << >> /\ thread' = Tail(thread)
      /\ UNCHANGED << Inputs, limits, sections, step, outcome >>
  BY DEF DropComment
<1>2. EndOfThread' /\ Len(thread') = Len(thread) - 1
  BY <1>1, DropCommentKeepsEnd DEF AnswerInv, Inputs
<1>3. Len(thread') + turns' = Len(input.comments)
  BY <1>1, <1>2 DEF AnswerInv, EndOfThread
<1>4. MaxAnswerTurns' = MaxAnswerTurns
  BY <1>1 DEF MaxAnswerTurns, Inputs
<1>. QED
  BY <1>1, <1>2, <1>3, <1>4 DEF AnswerInv, CommonInv, Inputs, IsLimits

LEMMA ShortenKeepsAnswerInv ==
  ASSUME CommonInv, AnswerInv, job = "answer", outcome = "running",
         NEW overshoot \in Nat \ {0}, ShortenHunk(overshoot), turns' \in 0..MaxAnswerTurns
  PROVE  AnswerInv' /\ CommonInv'
<1>1. thread = << >>
  BY DEF ShortenHunk
<1>2. PICK hunk \in Nat : hunk = sections.hunk
  BY HunkTyped DEF AnswerInv
<1>3. PICK rate \in Rates, limit \in Nat :
        /\ IF limit >= hunk THEN ReturnNone ELSE SetLimit("hunk", limit)
        /\ limit >= hunk => hunk <= floor
  <2>1. ASSUME NEW rate \in Rates
        PROVE  LET limit == Max({floor, ReducedLimit(hunk, overshoot, rate)})
               IN  limit \in Nat /\ (limit >= hunk => hunk <= floor)
    <3>1. PICK reduced \in Nat : /\ reduced = ReducedLimit(hunk, overshoot, rate)
                                 /\ hunk # 0 => reduced < hunk
      BY ReducedLimitLess
    <3>2. floor \in Nat /\ floor \in Int /\ reduced \in Int
      BY DEF CommonInv
    <3>3. Max({floor, reduced}) = IF floor >= reduced THEN floor ELSE reduced
      BY <3>2, MinOfTwo
    <3>. QED
      BY <3>1, <3>2, <3>3
  <2>. QED
    BY <1>2, <2>1 DEF ShortenHunk
<1>4. CASE limit >= hunk
  BY <1>1, <1>2, <1>3, <1>4
     DEF ReturnNone, AnswerInv, CommonInv, Inputs, IsLimits, EndOfThread, MaxAnswerTurns
<1>5. CASE ~(limit >= hunk)
  <2>1. PICK new : /\ new = WithLimit(limits, "hunk", limit)
                   /\ limits' = new /\ sections' = AnswerSections(input, new)
                   /\ UNCHANGED << Inputs, thread, step, outcome >>
    BY <1>3, <1>5 DEF SetLimit, SectionsOf
  <2>2. IsLimits(limits)
    BY DEF AnswerInv
  <2>3. Sets(WithLimit(limits, "hunk", limit), limits, "hunk", input)
    BY <1>3, <2>2, NewLimitOfOne
  <2>4. IsLimits(new) /\ DOMAIN new \subseteq {"hunk"}
    BY <2>1, <2>3 DEF Sets, AnswerInv
  <2>. QED
    BY <1>1, <2>1, <2>4 DEF AnswerInv, CommonInv, Inputs, IsLimits, EndOfThread, MaxAnswerTurns
<1>. QED
  BY <1>4, <1>5

LEMMA AnswerTurnKeepsInv ==
  ASSUME CommonInv, AnswerInv, AnswerTurn
  PROVE  AnswerInv' /\ CommonInv'
<1>1. /\ job = "answer" /\ outcome = "running"
      /\ turns' = turns + 1 /\ turns' \in 0..MaxAnswerTurns
  <2>1. job = "answer" /\ outcome = "running" /\ turns' = turns + 1 /\ turns < MaxAnswerTurns
    BY DEF AnswerTurn, TakeTurn
  <2>2. turns \in 0..MaxAnswerTurns /\ MaxAnswerTurns \in Nat
    BY <2>1 DEF AnswerInv, EndOfThread, MaxAnswerTurns
  <2>. QED
    BY <2>1, <2>2
<1>2. PICK rate \in Rates, actual \in Nat :
        \/ ReturnMessages
        \/ DropComment
        \/ actual > budget /\ ShortenHunk(actual - budget)
  <2>1. AnswerChars \in Nat
    <3>1. SumOf(thread) \in Nat /\ Joins(Len(thread)) \in Nat
      BY <1>1, SumTyped, JoinsTyped DEF AnswerInv, EndOfThread
    <3>2. sections.hunk \in Nat
      BY <1>1, HunkTyped DEF AnswerInv
    <3>. QED
      BY <3>1, <3>2, Constants DEF AnswerChars
  <2>. QED
    BY <2>1, CountPositive DEF AnswerTurn
<1>3. CASE ReturnMessages
  BY <1>1, <1>3
     DEF ReturnMessages, Inputs, AnswerInv, CommonInv, IsLimits, EndOfThread, MaxAnswerTurns
<1>4. CASE DropComment
  BY <1>1, <1>4, DropKeepsAnswerInv
<1>5. CASE actual > budget /\ ShortenHunk(actual - budget)
  <2>1. actual - budget \in Nat \ {0}
    BY <1>5 DEF CommonInv
  <2>. QED
    BY <1>1, <1>5, <2>1, ShortenKeepsAnswerInv
<1>. QED
  BY <1>2, <1>3, <1>4, <1>5

(***************************************************************************)
(* Both.                                                                   *)
(***************************************************************************)
CascadeInv == CommonInv /\ ReviewInv /\ AnswerInv

LEMMA InitCascadeInv == Init => CascadeInv
<1>1. SUFFICES ASSUME Init PROVE CascadeInv
  OBVIOUS
<1>2. IsLimits(limits) /\ DOMAIN limits = {} /\ limits = << >>
  BY <1>1 DEF Init, IsLimits
<1>3. budget \in Nat /\ budget \in Budgets /\ job \in {"review", "answer"}
  BY <1>1, Constants DEF Init
<1>4. CASE job = "review"
  <2>1. input \in ReviewInputs /\ input.pieces \in [Pieces -> PieceChars]
    BY <1>1, <1>4 DEF Init, ReviewInputs
  <2>2. PICK diff \in Nat : diff = DiffChars(input.pieces, TotalChars)
    BY <2>1, Constants, DiffTyped
  <2>3. floor \in Nat
    BY <1>1, <1>4, <2>2, FloorTyped DEF Init
  <2>4. sections = ReviewSections(input, limits) /\ 0 \in 0..MaxReviewTurns
    BY <1>1, <1>4, MostTurns DEF Init, SectionsOf
  <2>. QED
    BY <1>1, <1>2, <1>3, <1>4, <2>1, <2>3, <2>4 DEF Init, CascadeInv, CommonInv, ReviewInv, AnswerInv
<1>5. CASE job = "answer"
  <2>1. /\ input \in AnswerInputs /\ input.hunk \in Nat /\ input.comments \in Seq(Nat)
        /\ thread = input.comments
    BY <1>1, <1>5, Constants DEF Init, AnswerInputs
  <2>2. floor \in Nat
    BY <1>1, <1>5, <2>1, FloorTyped DEF Init
  <2>3. sections = AnswerSections(input, limits) /\ 0 \in 0..MaxAnswerTurns
    BY <1>1, <1>5, <2>1 DEF Init, SectionsOf, MaxAnswerTurns
  <2>4. EndOfThread
    BY <2>1 DEF EndOfThread
  <2>5. Len(thread) + 0 = Len(input.comments)
    BY <2>1
  <2>. QED
    BY <1>1, <1>2, <1>3, <1>5, <2>1, <2>2, <2>3, <2>4, <2>5
       DEF Init, CascadeInv, CommonInv, ReviewInv, AnswerInv
<1>. QED
  BY <1>3, <1>4, <1>5

LEMMA NextKeepsCascadeInv == CascadeInv /\ [Next]_vars => CascadeInv'
<1>1. SUFFICES ASSUME CascadeInv, [Next]_vars PROVE CascadeInv'
  OBVIOUS
<1>2. CASE ReviewTurn
  <2>1. job' = "review"
    BY <1>2 DEF ReviewTurn, ReturnMessages, ReturnNone, Shorten, NextSection, SetLimit, Inputs
  <2>. QED
    BY <1>1, <1>2, <2>1, ReviewTurnKeepsInv DEF CascadeInv, AnswerInv
<1>3. CASE AnswerTurn
  <2>1. job' = "answer"
    BY <1>3 DEF AnswerTurn, ReturnMessages, ReturnNone, DropComment, ShortenHunk, SetLimit, Inputs
  <2>. QED
    BY <1>1, <1>3, <2>1, AnswerTurnKeepsInv DEF CascadeInv, ReviewInv
<1>4. CASE TurnsUsedUp
  <2>1. /\ outcome = "running" /\ outcome' = "overflow" /\ UNCHANGED turns
        /\ UNCHANGED << Inputs, limits, sections, thread, step >>
        /\ turns = IF job = "review" THEN MaxReviewTurns ELSE MaxAnswerTurns
    BY <1>4 DEF TurnsUsedUp, ReturnNone
  <2>2. job = "answer" => thread = << >>
    BY <1>1, <2>1 DEF CascadeInv, AnswerInv, EndOfThread, MaxAnswerTurns
  <2>. QED
    BY <1>1, <2>1, <2>2
       DEF CascadeInv, CommonInv, ReviewInv, AnswerInv, Inputs, IsLimits, EndOfThread, MaxAnswerTurns
<1>5. CASE UNCHANGED vars
  BY <1>1, <1>5
     DEF vars, CascadeInv, CommonInv, ReviewInv, AnswerInv, IsLimits, EndOfThread, MaxAnswerTurns
<1>. QED
  BY <1>1, <1>2, <1>3, <1>4, <1>5 DEF Next

LEMMA CascadeInvariant == Spec => []CascadeInv
BY InitCascadeInv, NextKeepsCascadeInv, PTL DEF Spec

\* The variables have their types: no limit, count or length becomes negative.
THEOREM CascadeTypeCorrect == Spec => []TypeOK
<1>1. CascadeInv => TypeOK
  <2>1. SUFFICES ASSUME CascadeInv PROVE TypeOK
    OBVIOUS
  <2>2. CASE job = "review"
    BY <2>1, <2>2, MostTurns
       DEF CascadeInv, CommonInv, ReviewInv, IsLimits, TypeOK, BeforeDiff, ReductionSteps, ToSet
  <2>3. CASE job = "answer"
    BY <2>1, <2>3, MostTurns DEF CascadeInv, CommonInv, AnswerInv, IsLimits, EndOfThread, TypeOK
  <2>. QED
    BY <2>1, <2>2, <2>3 DEF CascadeInv, CommonInv
<1>. QED
  BY <1>1, CascadeInvariant, PTL

\* The code under review is shortened last, whatever the rates, budgets and
\* lengths.
THEOREM DiffLastAlways == Spec => []DiffLast
<1>1. CascadeInv => DiffLast
  <2>1. SUFFICES ASSUME CascadeInv, "diff" \in DOMAIN limits
                 PROVE  \A s \in ToSet(ReductionSteps) \ {"diff"} : sections[s] = 0
    BY DEF DiffLast
  <2>2. job = "review"
    BY <2>1 DEF CascadeInv, CommonInv, AnswerInv
  <2>3. \A i \in 1..4 : i < step
    BY <2>1, <2>2 DEF CascadeInv, ReviewInv
  <2>4. \A i \in 1..4 : sections[ReductionSteps[i]] = 0
    BY <2>1, <2>2, <2>3 DEF CascadeInv, ReviewInv
  <2>5. \A s \in ToSet(ReductionSteps) \ {"diff"} : \E i \in 1..4 : s = ReductionSteps[i]
    BY DEF ToSet, ReductionSteps
  <2>. QED
    BY <2>4, <2>5
<1>. QED
  BY <1>1, CascadeInvariant, PTL

LEMMA EndIsSuffix ==
  ASSUME EndOfThread
  PROVE  IsSuffix(thread, input.comments)
<1>1. PICK n \in Nat, m \in Nat : n = Len(thread) /\ m = Len(input.comments) /\ n <= m
  BY DEF EndOfThread
<1>2. PICK s, t : s = Reverse(thread) /\ t = Reverse(input.comments)
  OBVIOUS
<1>3. /\ s = [i \in 1..n |-> thread[n - i + 1]]
      /\ t = [i \in 1..m |-> input.comments[m - i + 1]]
  BY <1>1, <1>2 DEF Reverse
<1>4. ASSUME NEW i \in 1..n
      PROVE  s[i] = t[i]
  <2>1. n - i + 1 \in 1..n /\ m - n + (n - i + 1) = m - i + 1
    OBVIOUS
  <2>3. i \in 1..m
    BY <1>1
  <2>2. thread[n - i + 1] = input.comments[m - n + (n - i + 1)]
    BY <1>1, <2>1 DEF EndOfThread
  <2>. QED
    BY <1>3, <2>1, <2>2, <2>3
<1>5. Len(s) = n /\ Len(t) = m
  BY <1>3
<1>6. SubSeq(s, 1, n) = [i \in 1..n |-> s[i]] /\ SubSeq(t, 1, n) = [i \in 1..n |-> t[i]]
  BY <1>1, <1>3
<1>. QED
  BY <1>1, <1>2, <1>4, <1>5, <1>6 DEF IsSuffix, IsPrefix

\* The newest comments of a thread stay, and the hunk is whole as long as one
\* is left.
THEOREM NewestCommentsAlways == Spec => []NewestComments
<1>1. CascadeInv => NewestComments
  BY EndIsSuffix DEF CascadeInv, AnswerInv, NewestComments
<1>. QED
  BY <1>1, CascadeInvariant, PTL

\* A prompt is given up only when nothing of it can be shortened, or its turns
\* are used up.
THEOREM OverflowAtMinimumAlways == Spec => []OverflowAtMinimum
<1>1. CascadeInv => OverflowAtMinimum
  <2>1. SUFFICES ASSUME CascadeInv, outcome = "overflow" PROVE OverflowAtMinimum
    BY DEF OverflowAtMinimum
  <2>2. CASE job = "review"
    <3>1. sections \in [docs : Nat, spec : Nat, context : Nat, body : Nat, diff : Nat]
      BY <2>1, <2>2, ReviewTyped DEF CascadeInv, ReviewInv
    <3>2. CASE step = 6
      <4>1. \A i \in 1..4 : sections[ReductionSteps[i]] = 0
        BY <2>1, <2>2, <3>2 DEF CascadeInv, ReviewInv
      <4>2. /\ sections["docs"] = 0 /\ sections["spec"] = 0
            /\ sections["context"] = 0 /\ sections["body"] = 0
        BY <4>1 DEF ReductionSteps
      <4>3. sections["diff"] <= floor
        BY <2>1, <2>2, <3>2 DEF CascadeInv, ReviewInv
      <4>4. \A s \in DOMAIN sections : AtMinimum(s)
        BY <3>1, <4>2, <4>3 DEF AtMinimum
      <4>. QED
        BY <2>1, <2>2, <4>4 DEF CascadeInv, ReviewInv, OverflowAtMinimum
    <3>3. CASE turns = MaxReviewTurns
      BY <2>1, <2>2, <3>3 DEF CascadeInv, ReviewInv, OverflowAtMinimum
    <3>. QED
      BY <2>1, <2>2, <3>2, <3>3 DEF CascadeInv, ReviewInv
  <2>3. CASE job = "answer"
    <3>1. thread = << >> /\ (sections.hunk <= floor \/ turns = MaxAnswerTurns)
      BY <2>1, <2>3 DEF CascadeInv, AnswerInv
    <3>2. DOMAIN sections = {"hunk"}
      BY <2>1, <2>3 DEF CascadeInv, AnswerInv, AnswerSections
    <3>3. MaxAnswerTurns = Len(input.comments) + 4
      BY <2>1, <2>3 DEF CascadeInv, AnswerInv, EndOfThread, MaxAnswerTurns
    <3>. QED
      BY <2>3, <3>1, <3>2, <3>3 DEF OverflowAtMinimum, AtMinimum
  <2>. QED
    BY <2>1, <2>2, <2>3 DEF CascadeInv, CommonInv
<1>. QED
  BY <1>1, CascadeInvariant, PTL

(***************************************************************************)
(* FilePieces: the numbers of lines.                                       *)
(***************************************************************************)
LEMMA PieceConstants ==
  /\ FileLines \in Nat /\ Radius \in Nat /\ MaxChars \in Nat /\ FileChars \in Nat
  /\ MaxContext \in Nat /\ SourceChars \in Nat /\ NumberChars \in Nat /\ MinHunkLimit \in Nat
  /\ LineLengths \subseteq Nat /\ HeaderLengths \subseteq Nat /\ Marked \subseteq BOOLEAN
  /\ MaxLines \in Nat /\ Reserve \in Nat /\ Rests \subseteq Seq(LineRests)
<1>1. Rests \subseteq Seq(LineRests)
  BY FileAssumption
<1>2. LineLengths \subseteq Nat /\ HeaderLengths \subseteq Nat
  BY FileAssumption
<1>3. { FileLines, Radius, MaxChars, FileChars, MaxContext, SourceChars, NumberChars,
        MinHunkLimit, MaxLines } \subseteq Nat /\ Marked \subseteq BOOLEAN
  BY FileAssumption
<1>. QED
  BY <1>1, <1>2, <1>3, ReserveAssumption

LEMMA NewAmongNext ==
  ASSUME NEW lines, NEW n \in Nat
  PROVE  /\ NewAmong(lines, 0) = 0 /\ NewAmong(lines, n) \in 0..n
         /\ NewAmong(lines, n + 1) = IF IsNew(lines[n + 1]) THEN NewAmong(lines, n) + 1 ELSE NewAmong(lines, n)
<1>1. PICK s : s = {i \in 1..n : IsNew(lines[i])}
  OBVIOUS
<1>2. PICK t : t = {i \in 1..(n + 1) : IsNew(lines[i])}
  OBVIOUS
<1>3. IsFiniteSet(1..n) /\ Cardinality(1..n) = n
  BY FS_Interval
<1>4. IsFiniteSet(s) /\ Cardinality(s) \in Nat /\ Cardinality(s) <= n
  <2>1. s \subseteq 1..n
    BY <1>1
  <2>. QED
    BY <1>3, <2>1, FS_Subset, FS_CardinalityType
<1>5. {i \in 1..0 : IsNew(lines[i])} = {} /\ Cardinality({}) = 0
  BY FS_EmptySet
<1>6. CASE IsNew(lines[n + 1])
  <2>1. t = s \cup {n + 1} /\ n + 1 \notin s
    BY <1>1, <1>2, <1>6
  <2>2. Cardinality(t) = Cardinality(s) + 1
    BY <1>4, <2>1, FS_AddElement
  <2>. QED
    BY <1>1, <1>2, <1>4, <1>5, <1>6, <2>2 DEF NewAmong
<1>7. CASE ~IsNew(lines[n + 1])
  <2>1. t = s
    BY <1>1, <1>2, <1>7
  <2>. QED
    BY <1>1, <1>2, <1>4, <1>5, <1>7, <2>1 DEF NewAmong
<1>. QED
  BY <1>6, <1>7

LEMMA NewAmongGrows ==
  ASSUME NEW lines, NEW n \in Nat, NEW m \in 0..n
  PROVE  NewAmong(lines, m) <= NewAmong(lines, n)
<1>1. PICK s, t : s = {i \in 1..m : IsNew(lines[i])} /\ t = {i \in 1..n : IsNew(lines[i])}
  OBVIOUS
<1>2. t \subseteq 1..n /\ s \subseteq t
  BY <1>1
<1>3. IsFiniteSet(t)
  <2>1. 1 \in Int /\ n \in Int
    OBVIOUS
  <2>2. IsFiniteSet(1..n)
    BY <2>1, FS_Interval
  <2>. QED
    BY <1>2, <2>2, FS_Subset
<1>4. Cardinality(s) <= Cardinality(t)
  BY <1>2, <1>3, FS_Subset
<1>. QED
  BY <1>1, <1>4 DEF NewAmong

\* Numbers of the lines of two lists that begin alike.
LEMMA NewAmongSame ==
  ASSUME NEW s, NEW t, NEW n \in Nat, \A i \in 1..n : s[i] = t[i]
  PROVE  NewAmong(s, n) = NewAmong(t, n)
<1>1. {i \in 1..n : IsNew(s[i])} = {i \in 1..n : IsNew(t[i])}
  OBVIOUS
<1>. QED
  BY <1>1 DEF NewAmong

\* What the proofs know of a hunk.
HunkRecords == [new : Nat, header : Nat, lines : Seq(Lines)]

\* A hunk and a line more.
Longer(hunk, line) == [hunk EXCEPT !.lines = Append(@, line)]

\* The number of a line that comes after the lines of a hunk.
NumberOf(hunk, line) == IF IsNew(line) THEN hunk.new + NewCount(hunk.lines) ELSE 0

LEMMA LongerIs ==
  ASSUME NEW hunk \in HunkRecords, NEW line \in Lines
  PROVE  /\ Longer(hunk, line) \in HunkRecords
         /\ Longer(hunk, line).new = hunk.new /\ Longer(hunk, line).header = hunk.header
         /\ Longer(hunk, line).lines = Append(hunk.lines, line)
BY DEF HunkRecords, Longer

LEMMA AnnotatedTyped ==
  ASSUME NEW hunk \in HunkRecords
  PROVE  Annotated(hunk) \in Seq(Nat) /\ Len(Annotated(hunk)) = Len(hunk.lines)
<1>1. PICK n \in Nat : n = Len(hunk.lines) /\ DOMAIN hunk.lines = 1..n
  BY DEF HunkRecords
<1>2. \A i \in 1..n : i - 1 \in Nat
  OBVIOUS
<1>3. \A i \in 1..n : NewAmong(hunk.lines, i - 1) \in Nat
  BY <1>2, NewAmongNext
<1>4. hunk.new \in Nat
  BY DEF HunkRecords
<1>5. Annotated(hunk) \in [1..n -> Nat]
  BY <1>1, <1>3, <1>4 DEF Annotated
<1>. QED
  BY <1>1, <1>5

LEMMA AnnotatedLonger ==
  ASSUME NEW hunk \in HunkRecords, NEW line \in Lines
  PROVE  /\ Annotated(Longer(hunk, line)) = Append(Annotated(hunk), NumberOf(hunk, line))
         /\ NumberOf(hunk, line) \in Nat
         /\ NewCount(Append(hunk.lines, line)) =
              IF IsNew(line) THEN NewCount(hunk.lines) + 1 ELSE NewCount(hunk.lines)
         /\ NewCount(hunk.lines) \in Nat
<1>1. PICK more : more = Longer(hunk, line)
  OBVIOUS
<1>2. PICK n \in Nat : /\ n = Len(hunk.lines) /\ DOMAIN hunk.lines = 1..n
                       /\ more \in HunkRecords /\ more.new = hunk.new
                       /\ Len(more.lines) = n + 1 /\ DOMAIN more.lines = 1..(n + 1)
                       /\ \A i \in 1..n : more.lines[i] = hunk.lines[i]
                       /\ more.lines[n + 1] = line
  <2>1. more \in HunkRecords /\ more.new = hunk.new /\ more.lines = Append(hunk.lines, line)
    BY <1>1, LongerIs
  <2>2. PICK s \in Seq(Lines) : s = hunk.lines
    BY DEF HunkRecords
  <2>3. PICK k \in Nat : /\ k = Len(s) /\ DOMAIN s = 1..k /\ Len(Append(s, line)) = k + 1
                         /\ DOMAIN Append(s, line) = 1..(k + 1)
                         /\ \A i \in 1..k : Append(s, line)[i] = s[i]
                         /\ Append(s, line)[k + 1] = line
    BY AppendIs
  <2>. QED
    BY <2>1, <2>2, <2>3
<1>3. ASSUME NEW k \in 0..n
      PROVE  NewAmong(more.lines, k) = NewAmong(hunk.lines, k)
  <2>1. \A i \in 1..k : more.lines[i] = hunk.lines[i]
    BY <1>2
  <2>. QED
    BY <2>1, NewAmongSame
<1>4. PICK u \in Seq(Nat), v \in Seq(Nat) :
         u = Annotated(hunk) /\ v = Annotated(more) /\ Len(u) = n /\ Len(v) = n + 1
  BY <1>2, AnnotatedTyped
<1>5. NewCount(hunk.lines) = NewAmong(hunk.lines, n) /\ NewAmong(hunk.lines, n) \in Nat /\ n \in 0..n
  BY <1>2, NewAmongNext DEF NewCount
<1>6. hunk.new \in Nat
  BY DEF HunkRecords
<1>7. NumberOf(hunk, line) \in Nat
  BY <1>5, <1>6 DEF NumberOf
<1>8. PICK w : w = Append(u, NumberOf(hunk, line))
  OBVIOUS
<1>9. /\ w \in Seq(Nat) /\ Len(w) = n + 1
      /\ \A i \in 1..n : w[i] = u[i]
      /\ w[n + 1] = NumberOf(hunk, line)
  BY <1>4, <1>7, <1>8, AppendProperties
<1>10. ASSUME NEW i \in 1..(n + 1)
       PROVE  v[i] = w[i]
  <2>1. v[i] = IF IsNew(more.lines[i]) THEN more.new + NewAmong(more.lines, i - 1) ELSE 0
    BY <1>2, <1>4 DEF Annotated
  <2>2. CASE i \in 1..n
    <3>1. u[i] = IF IsNew(hunk.lines[i]) THEN hunk.new + NewAmong(hunk.lines, i - 1) ELSE 0
      BY <1>2, <1>4, <2>2 DEF Annotated
    <3>2. i - 1 \in 0..n
      BY <2>2
    <3>3. NewAmong(more.lines, i - 1) = NewAmong(hunk.lines, i - 1)
      BY <1>3, <3>2
    <3>. QED
      BY <1>2, <1>9, <2>1, <2>2, <3>1, <3>3
  <2>3. CASE i = n + 1
    <3>1. NewAmong(more.lines, i - 1) = NewAmong(hunk.lines, n)
      BY <1>3, <1>5, <2>3
    <3>. QED
      BY <1>2, <1>5, <1>9, <2>1, <2>3, <3>1 DEF NumberOf
  <2>. QED
    BY <2>2, <2>3
<1>11. v = w
  BY <1>4, <1>9, <1>10, SeqEqual
<1>12. NewAmong(more.lines, n + 1) = IF IsNew(line) THEN NewAmong(hunk.lines, n) + 1 ELSE NewAmong(hunk.lines, n)
  BY <1>2, <1>3, <1>5, NewAmongNext
<1>13. more.lines = Append(hunk.lines, line)
  BY <1>1, LongerIs
<1>. QED
  BY <1>1, <1>2, <1>4, <1>5, <1>7, <1>8, <1>11, <1>12, <1>13 DEF NewCount

(***************************************************************************)
(* FilePieces: the patch and the true numbers of its lines.                *)
(***************************************************************************)
GitHunks == [new : 1..FileLines, header : {header}, lines : Seq(Lines)]

\* Where the next line is, and that no hunk but the last is empty.
PatchInv ==
  /\ PiecesTypeOK
  /\ Len(at) = Len(patch)
  /\ \A h \in 1..Len(patch) : at[h] = Annotated(patch[h])
  /\ patch # << >> => next = patch[Len(patch)].new + NewCount(patch[Len(patch)].lines)
  /\ \A h \in 1..(Len(patch) - 1) : patch[h].lines # << >>

LEMMA GitHunksAre ==
  ASSUME header \in HeaderLengths
  PROVE  GitHunks \subseteq HunkRecords
BY PieceConstants DEF GitHunks, HunkRecords

LEMMA PatchTyped ==
  ASSUME PatchInv
  PROVE  patch \in Seq(HunkRecords)
<1>1. patch \in Seq(GitHunks) /\ GitHunks \subseteq HunkRecords
  BY GitHunksAre DEF PatchInv, PiecesTypeOK, GitHunks
<1>. QED
  BY <1>1

LEMMA PiecesInitInv == PiecesInit => PatchInv
BY PieceConstants DEF PiecesInit, PatchInv, PiecesTypeOK

\* One line more in the last hunk.
LEMMA WriteKeeps ==
  ASSUME PatchInv, patch # << >>, NEW line \in Lines, NEW num \in 0..FileLines,
         num = IF IsNew(line) THEN next ELSE 0,
         patch' = [patch EXCEPT ![Len(patch)].lines = Append(@, line)],
         at' = [at EXCEPT ![Len(at)] = Append(@, num)],
         next' = IF IsNew(line) THEN next + 1 ELSE next,
         UNCHANGED << tree, textual, marked, header >>, ended' \subseteq {"old", "new"}
  PROVE  PatchInv'
<1>1. PICK n \in Nat \ {0} : n = Len(patch) /\ n = Len(at) /\ DOMAIN patch = 1..n /\ DOMAIN at = 1..n
  BY DEF PatchInv, PiecesTypeOK
<1>2. patch \in Seq(GitHunks) /\ header \in HeaderLengths /\ next \in 1..(FileLines + 1)
  BY DEF PatchInv, PiecesTypeOK, GitHunks
<1>3. PICK last : last = patch[n] /\ last \in GitHunks /\ last \in HunkRecords
  BY <1>1, <1>2, GitHunksAre
<1>4. Longer(last, line) \in GitHunks /\ Longer(last, line) \in HunkRecords
  <2>1. Append(last.lines, line) \in Seq(Lines)
    BY <1>3 DEF GitHunks
  <2>2. Longer(last, line) \in GitHunks
    BY <1>3, <2>1 DEF GitHunks, Longer
  <2>. QED
    BY <1>2, <2>2, GitHunksAre
<1>5. patch' = [patch EXCEPT ![n] = Longer(last, line)]
  BY <1>1, <1>3 DEF Longer
<1>6. at[n] = Annotated(last) /\ next = last.new + NewCount(last.lines)
  BY <1>1, <1>3 DEF PatchInv
<1>7. at' = [at EXCEPT ![n] = Annotated(Longer(last, line))]
  <2>1. num = NumberOf(last, line)
    BY <1>6 DEF NumberOf
  <2>2. Append(at[n], num) = Annotated(Longer(last, line))
    BY <1>3, <1>6, <2>1, AnnotatedLonger
  <2>. QED
    BY <1>1, <2>2
<1>8. patch' \in Seq(GitHunks) /\ Len(patch') = n /\ DOMAIN patch' = 1..n
  <2>1. n \in 1..Len(patch) /\ Longer(last, line) \in GitHunks
    BY <1>1, <1>4
  <2>2. PICK v : v = [patch EXCEPT ![n] = Longer(last, line)]
    OBVIOUS
  <2>3. v \in Seq(GitHunks) /\ Len(v) = Len(patch)
    BY <1>2, <2>1, <2>2, ExceptSeq
  <2>. QED
    BY <1>1, <1>5, <2>2, <2>3
<1>9. at' \in Seq(Seq(0..FileLines)) /\ Len(at') = n
  <2>1. at \in Seq(Seq(0..FileLines)) /\ at[n] \in Seq(0..FileLines)
    BY <1>1 DEF PatchInv, PiecesTypeOK
  <2>2. Append(at[n], num) \in Seq(0..FileLines)
    BY <2>1
  <2>3. n \in 1..Len(at) /\ at' = [at EXCEPT ![n] = Append(at[n], num)]
    BY <1>1
  <2>. QED
    BY <1>1, <2>1, <2>2, <2>3, ExceptSeq
<1>10. next' \in 1..(FileLines + 1)
  <2>1. FileLines \in Nat
    BY PieceConstants
  <2>2. IsNew(line) => next <= FileLines
    BY <2>1
  <2>3. CASE IsNew(line)
    BY <1>2, <2>1, <2>2, <2>3
  <2>4. CASE ~IsNew(line)
    BY <1>2, <2>4
  <2>. QED
    BY <2>3, <2>4
<1>11. ASSUME NEW h \in 1..n
       PROVE  at'[h] = Annotated(patch'[h])
  <2>1. at[h] = Annotated(patch[h])
    BY <1>1 DEF PatchInv
  <2>2. CASE h = n
    BY <1>1, <1>5, <1>7, <2>2
  <2>3. CASE h # n
    BY <1>1, <1>5, <1>7, <2>1, <2>3
  <2>. QED
    BY <2>2, <2>3
<1>12. next' = patch'[n].new + NewCount(patch'[n].lines)
  <2>1. patch'[n] = Longer(last, line)
    BY <1>1, <1>5
  <2>2. Longer(last, line).new = last.new /\ Longer(last, line).lines = Append(last.lines, line)
    BY <1>3, LongerIs
  <2>3. /\ NewCount(Append(last.lines, line)) = IF IsNew(line) THEN NewCount(last.lines) + 1 ELSE NewCount(last.lines)
        /\ NewCount(last.lines) \in Nat /\ last.new \in Nat
    BY <1>3, AnnotatedLonger DEF HunkRecords
  <2>4. PICK c, d, e : /\ c = NewCount(last.lines) /\ d = NewCount(Append(last.lines, line)) /\ e = last.new
                       /\ c \in Nat /\ e \in Nat /\ next = e + c
                       /\ d = IF IsNew(line) THEN c + 1 ELSE c
    BY <1>6, <2>3
  <2>5. next' = e + d
    BY <2>4
  <2>6. patch'[n].new = e /\ NewCount(patch'[n].lines) = d
    BY <2>1, <2>2, <2>4
  <2>. QED
    BY <2>5, <2>6
<1>13. \A h \in 1..(n - 1) : patch'[h].lines # << >>
  <2>1. \A h \in 1..(n - 1) : patch[h].lines # << >> /\ h # n /\ h \in 1..n
    BY <1>1 DEF PatchInv
  <2>. QED
    BY <1>1, <1>5, <2>1
<1>14. tree' \in Trees /\ textual' \in BOOLEAN /\ marked' \in Marked /\ header' \in HeaderLengths /\ GitHunks' = GitHunks
  BY DEF PatchInv, PiecesTypeOK, GitHunks
<1>15. PiecesTypeOK'
  BY <1>8, <1>9, <1>10, <1>14 DEF PiecesTypeOK, GitHunks
<1>. QED
  BY <1>8, <1>9, <1>11, <1>12, <1>13, <1>15 DEF PatchInv

LEMMA OpenKeeps ==
  ASSUME PatchInv, NEW gap \in 0..2, OpenHunk(gap)
  PROVE  PatchInv'
<1>1. PICK n \in Nat : n = Len(patch) /\ n = Len(at) /\ DOMAIN patch = 1..n /\ DOMAIN at = 1..n
  BY DEF PatchInv, PiecesTypeOK
<1>2. patch \in Seq(GitHunks) /\ header \in HeaderLengths /\ next \in 1..(FileLines + 1)
  BY DEF PatchInv, PiecesTypeOK, GitHunks
<1>3. PICK new : new = [new |-> next + gap, header |-> header, lines |-> << >>]
  OBVIOUS
<1>4. new \in GitHunks
  BY <1>2, <1>3, PieceConstants DEF GitHunks, OpenHunk
<1>5. patch' = Append(patch, new) /\ at' = Append(at, << >>) /\ next' = next + gap
  BY <1>3 DEF OpenHunk
<1>6. /\ patch' \in Seq(GitHunks) /\ Len(patch') = n + 1 /\ patch'[n + 1] = new
      /\ \A h \in 1..n : patch'[h] = patch[h]
  BY <1>1, <1>2, <1>4, <1>5, AppendIs
<1>7. /\ at' \in Seq(Seq(0..FileLines)) /\ Len(at') = n + 1 /\ at'[n + 1] = << >>
      /\ \A h \in 1..n : at'[h] = at[h]
  <2>1. at \in Seq(Seq(0..FileLines)) /\ << >> \in Seq(0..FileLines)
    BY DEF PatchInv, PiecesTypeOK
  <2>. QED
    BY <1>1, <1>5, <2>1, AppendIs
<1>8. Annotated(new) = << >>
  BY <1>3 DEF Annotated
<1>9. ASSUME NEW h \in 1..(n + 1)
      PROVE  at'[h] = Annotated(patch'[h])
  <2>1. CASE h \in 1..n
    BY <1>1, <1>6, <1>7, <2>1 DEF PatchInv
  <2>2. CASE h = n + 1
    BY <1>6, <1>7, <1>8, <2>2
  <2>. QED
    BY <2>1, <2>2
<1>10. next' = patch'[n + 1].new + NewCount(patch'[n + 1].lines)
  <2>1. NewCount(<< >>) = 0
    BY NewAmongNext DEF NewCount
  <2>2. next + gap \in Nat
    BY <1>2, PieceConstants
  <2>. QED
    BY <1>3, <1>5, <1>6, <2>1, <2>2
<1>11. ASSUME NEW h \in 1..n
       PROVE  patch'[h].lines # << >>
  <2>1. patch # << >> => patch[n].lines # << >>
    BY <1>1 DEF OpenHunk
  <2>2. CASE h = n
    BY <1>1, <1>6, <2>1, <2>2
  <2>3. CASE h # n
    <3>1. h \in 1..(n - 1)
      BY <2>3
    <3>2. patch[h].lines # << >>
      BY <1>1, <3>1 DEF PatchInv
    <3>. QED
      BY <1>6, <3>2
  <2>. QED
    BY <2>2, <2>3
<1>12. next' \in 1..(FileLines + 1)
  <2>1. next + gap <= FileLines
    BY DEF OpenHunk
  <2>2. FileLines \in Nat
    BY PieceConstants
  <2>. QED
    BY <1>2, <1>5, <2>1, <2>2
<1>13. /\ tree' \in Trees /\ textual' \in BOOLEAN /\ marked' \in Marked /\ header' \in HeaderLengths /\ GitHunks' = GitHunks
       /\ ended' \subseteq {"old", "new"}
  BY DEF PatchInv, PiecesTypeOK, GitHunks, OpenHunk
<1>14. PiecesTypeOK'
  BY <1>6, <1>7, <1>12, <1>13 DEF PiecesTypeOK, GitHunks
<1>15. Len(patch') = n + 1 /\ Len(at') = n + 1 /\ 1..(Len(patch') - 1) = 1..n
  BY <1>6, <1>7
<1>. QED
  BY <1>9, <1>10, <1>11, <1>14, <1>15 DEF PatchInv

LEMMA TakenLines == [kind : Kinds, chars : LineLengths, rest : Rests] \subseteq Lines
<1>1. PICK T, K, C : T = Seq(LineRests) /\ K = Kinds /\ C = LineLengths /\ Rests \subseteq T
  BY PieceConstants
<1>2. Lines = [kind : K, chars : C \cup {NoNewlineLength}, rest : T]
  BY <1>1 DEF Lines
<1>3. [kind : Kinds, chars : LineLengths, rest : Rests] = [kind : K, chars : C, rest : Rests]
  BY <1>1
<1>. QED
  BY <1>1, <1>2, <1>3

LEMMA PatchNext == PatchInv /\ [PiecesNext]_piecesVars => PatchInv'
<1>. SUFFICES ASSUME PatchInv, [PiecesNext]_piecesVars PROVE PatchInv'
  OBVIOUS
<1>1. ASSUME NEW gap \in 0..2, OpenHunk(gap)
      PROVE  PatchInv'
  BY <1>1, OpenKeeps
<1>2. ASSUME NEW line \in [kind : Kinds, chars : LineLengths, rest : Rests], WriteNew(line)
      PROVE  PatchInv'
  <2>1. line \in Lines /\ IsNew(line)
    <3>1. line \in Lines
      BY TakenLines
    <3>2. IsNew(line)
      BY <1>2 DEF WriteNew, IsNew
    <3>. QED
      BY <3>1, <3>2
  <2>2. next \in 0..FileLines
    BY <1>2, PieceConstants DEF PatchInv, PiecesTypeOK, WriteNew
  <2>3. patch # << >> /\ ended' \subseteq {"old", "new"}
    BY <1>2 DEF WriteNew, CanWrite, PatchInv, PiecesTypeOK
  <2>. QED
    BY <1>2, <2>1, <2>2, <2>3, WriteKeeps DEF WriteNew, Write
<1>3. ASSUME NEW line \in [kind : Kinds, chars : LineLengths, rest : Rests], WriteDeleted(line)
      PROVE  PatchInv'
  <2>1. line \in Lines /\ ~IsNew(line)
    <3>1. line \in Lines
      BY TakenLines
    <3>2. ~IsNew(line)
      BY <1>3 DEF WriteDeleted, IsNew
    <3>. QED
      BY <3>1, <3>2
  <2>2. 0 \in 0..FileLines
    BY PieceConstants
  <2>3. patch # << >> /\ ended' \subseteq {"old", "new"}
    BY <1>3 DEF WriteDeleted, CanWrite, PatchInv, PiecesTypeOK
  <2>. QED
    BY <1>3, <2>1, <2>2, <2>3, WriteKeeps DEF WriteDeleted, Write
<1>4. ASSUME WriteNoNewline
      PROVE  PatchInv'
  <2>1. PICK line \in Lines : line = [kind |-> "noNewline", chars |-> NoNewlineLength, rest |-> << >>] /\ ~IsNew(line)
    <3>1. PICK line : line = [kind |-> "noNewline", chars |-> NoNewlineLength, rest |-> << >>]
      OBVIOUS
    <3>2. line \in Lines
      <4>1. << >> \in Seq(LineRests)
        BY EmptySeq
      <4>. QED
        BY <3>1, <4>1 DEF Lines, Kinds
    <3>3. line.kind = "noNewline"
      BY <3>1
    <3>. QED
      BY <3>1, <3>2, <3>3 DEF IsNew
  <2>2. 0 \in 0..FileLines
    BY PieceConstants
  <2>3. patch # << >> /\ ended' \subseteq {"old", "new"}
    BY <1>4 DEF WriteNoNewline, PatchInv, PiecesTypeOK
  <2>. QED
    BY <1>4, <2>1, <2>2, <2>3, WriteKeeps DEF WriteNoNewline, Write
<1>5. CASE UNCHANGED piecesVars
  BY <1>5 DEF piecesVars, PatchInv, PiecesTypeOK
<1>. QED
  BY <1>1, <1>2, <1>3, <1>4, <1>5 DEF PiecesNext

LEMMA PatchAlways == PiecesSpec => []PatchInv
<1>. QED
  BY PiecesInitInv, PatchNext, PTL DEF PiecesSpec

\* Type correctness of the patch and of what is noted of it.
THEOREM PiecesTypeCorrect == PiecesSpec => []PiecesTypeOK
<1>1. PatchInv => PiecesTypeOK
  BY DEF PatchInv
<1>. QED
  BY <1>1, PatchAlways, PTL

LEMMA AtIs ==
  ASSUME PatchInv
  PROVE  at = [h \in DOMAIN patch |-> Annotated(patch[h])]
<1>1. PICK n \in Nat : n = Len(patch) /\ n = Len(at) /\ DOMAIN patch = 1..n /\ DOMAIN at = 1..n
                       /\ at \in [1..n -> Seq(0..FileLines)]
  BY DEF PatchInv, PiecesTypeOK
<1>. QED
  BY <1>1 DEF PatchInv

(***************************************************************************)
(* FilePieces: the hunks as the review splits them into lines.             *)
(***************************************************************************)
LEMMA RestsAreLines == LineRests \subseteq Lines
<1>1. PICK S, T, K, C : S = LineRests /\ T = Seq(S) /\ K = Kinds /\ C = LineLengths
  OBVIOUS
<1>2. << >> \in T
  BY <1>1, EmptySeq
<1>3. Lines = [kind : K, chars : C \cup {NoNewlineLength}, rest : T]
  BY <1>1 DEF Lines
<1>4. LineRests = [kind : K, chars : C, rest : {<< >>}]
  BY <1>1 DEF LineRests
<1>. QED
  BY <1>2, <1>3, <1>4

LEMMA CutLineIs ==
  ASSUME NEW line \in Lines
  PROVE  /\ LinesOf(line) \in Seq(Lines) /\ LinesOf(line) # << >>
         /\ line.rest = << >> => LinesOf(line) = << line >>
<1>0. PICK T, K, C : T = Seq(LineRests) /\ Lines = [kind : K, chars : C, rest : T]
  BY DEF Lines
<1>1. PICK more : more = line.rest /\ more \in Seq(Lines)
  <2>1. PICK r : r = line.rest /\ r \in T
    BY <1>0
  <2>2. PICK X, Y : X = LineRests /\ Y = Lines /\ X \subseteq Y
    BY RestsAreLines
  <2>3. r \in Seq(X)
    BY <1>0, <2>1, <2>2
  <2>4. PICK n \in Nat : n = Len(r) /\ DOMAIN r = 1..n /\ \A i \in 1..n : r[i] \in X
    BY <2>3, LenProperties, ElementOfSeq
  <2>5. r = [i \in 1..n |-> r[i]] /\ \A i \in 1..n : r[i] \in Y
    BY <2>2, <2>3, <2>4
  <2>6. r \in Seq(Y)
    BY <2>5
  <2>. QED
    BY <2>1, <2>2, <2>6
<1>2. PICK first : /\ first = [line EXCEPT !.rest = << >>] /\ first \in Lines
                   /\ line.rest = << >> => first = line
  <2>1. << >> \in T
    BY <1>0, EmptySeq
  <2>. QED
    BY <1>0, <2>1
<1>3. LinesOf(line) = << first >> \o more
  BY <1>1, <1>2 DEF LinesOf
<1>4. PICK one \in Seq(Lines) : one = << first >> /\ Len(one) = 1
  <2>1. PICK X : X = Lines /\ first \in X
    BY <1>2
  <2>2. << first >> \in Seq(X) /\ Len(<< first >>) = 1
    BY <2>1
  <2>. QED
    BY <2>1, <2>2
<1>5. one \o more \in Seq(Lines) /\ one \o more # << >>
  <2>1. PICK n \in Nat : n = Len(more)
    BY <1>1, LenProperties
  <2>2. one \o more \in Seq(Lines) /\ Len(one \o more) = 1 + n
    BY <1>1, <1>4, <2>1, ConcatProperties
  <2>3. 1 + n # 0
    BY <2>1
  <2>. QED
    BY <2>2, <2>3, EmptySeq
<1>6. ASSUME more = << >>
      PROVE  one \o more = << line >>
  <2>1. first = line
    BY <1>1, <1>2, <1>6
  <2>2. one \o << >> = one
    BY <1>4, ConcatEmptySeq
  <2>. QED
    BY <1>4, <1>6, <2>1, <2>2
<1>. QED
  BY <1>1, <1>3, <1>4, <1>5, <1>6

CutMap == [line \in Lines |-> LinesOf(line)]

LEMMA CutMaps == Maps(CutMap, Lines, Seq(Lines))
BY CutLineIs DEF Maps, CutMap

LEMMA SplitLinesAre ==
  ASSUME NEW ls \in Seq(Lines)
  PROVE  /\ SplitLines(ls) \in Seq(Lines)
         /\ ls # << >> => SplitLines(ls) # << >>
         /\ (\A i \in DOMAIN ls : ls[i].rest = << >>) => SplitLines(ls) = ls
<1> DEFINE Single(s) == \A i \in DOMAIN s : s[i].rest = << >>
           P == {s \in Seq(Lines) : /\ Flat(CutMap, s) \in Seq(Lines)
                                    /\ s # << >> => Flat(CutMap, s) # << >>
                                    /\ Single(s) => Flat(CutMap, s) = s}
<1>1. << >> \in P
  BY FlatNone, EmptySeq
<1>2. ASSUME NEW s \in Seq(Lines), NEW x \in Lines, s \in P
      PROVE  Append(s, x) \in P
  <2>1. PICK u \in Seq(Lines), c \in Seq(Lines) :
           u = Flat(CutMap, s) /\ c = LinesOf(x) /\ c # << >> /\ (x.rest = << >> => c = << x >>)
    BY <1>2, CutLineIs
  <2>2. Flat(CutMap, Append(s, x)) = u \o c
    <3>1. CutMap[x] = c
      BY <2>1 DEF CutMap
    <3>. QED
      <4>1. PICK Y : Y = Lines /\ s \in Seq(Y) /\ x \in Y /\ Maps(CutMap, Y, Seq(Y))
        BY CutMaps
      <4>2. Flat(CutMap, Append(s, x)) = Flat(CutMap, s) \o CutMap[x]
        BY <4>1, FlatAppend
      <4>. QED
        BY <2>1, <3>1, <4>2
  <2>3. u \o c \in Seq(Lines) /\ u \o c # << >>
    <3>1. PICK n \in Nat, k \in Nat : n = Len(u) /\ k = Len(c) /\ k # 0
      BY <2>1, LenProperties, EmptySeq
    <3>2. u \o c \in Seq(Lines) /\ Len(u \o c) = n + k
      BY <3>1, ConcatProperties
    <3>3. n + k # 0
      BY <3>1
    <3>. QED
      BY <3>2, <3>3, EmptySeq
  <2>4. PICK n \in Nat : n = Len(s)
    BY LenProperties
  <2>5. /\ Append(s, x) \in Seq(Lines) /\ DOMAIN Append(s, x) = 1..(n + 1) /\ DOMAIN s = 1..n
        /\ \A i \in 1..n : Append(s, x)[i] = s[i]
        /\ Append(s, x)[n + 1] = x
    BY <2>4, Appended, LenProperties
  <2>6. ASSUME Single(Append(s, x))
        PROVE  u \o c = Append(s, x)
    <3>1. Single(s)
      <4>1. \A i \in 1..n : i \in 1..(n + 1)
        OBVIOUS
      <4>. QED
        BY <2>5, <2>6, <4>1
    <3>2. x.rest = << >>
      <4>1. n + 1 \in 1..(n + 1)
        OBVIOUS
      <4>. QED
        BY <2>5, <2>6, <4>1
    <3>3. u = s
      BY <1>2, <2>1, <3>1
    <3>4. c = << x >>
      BY <2>1, <3>2
    <3>5. s \o << x >> = Append(s, x)
      OBVIOUS
    <3>. QED
      BY <3>3, <3>4, <3>5
  <2>. QED
    BY <2>2, <2>3, <2>5, <2>6
<1>3. ls \in P
  <2> HIDE DEF P
  <2>. QED
    BY <1>1, <1>2, SeqSetInduction
<1>4. SplitLines(ls) = Flat(CutMap, ls)
  <2>1. \A i \in DOMAIN ls : CutMap[ls[i]] = LinesOf(ls[i])
    BY LenProperties, ElementOfSeq DEF CutMap
  <2>2. MapOf(CutMap, ls) = [i \in DOMAIN ls |-> LinesOf(ls[i])]
    BY <2>1 DEF MapOf
  <2>. QED
    BY <2>2 DEF SplitLines, Flat
<1>. QED
  BY <1>3, <1>4

\* The hunks the review reads.
Hunks == ReadHunks(patch)

LEMMA HunksAre ==
  ASSUME PatchInv
  PROVE  /\ Hunks \in Seq(HunkRecords) /\ DOMAIN Hunks = DOMAIN patch
         /\ \A h \in DOMAIN patch :
              /\ Hunks[h].header = header
              /\ patch[h].lines # << >> => Hunks[h].lines # << >>
              /\ OneLineEach(patch[h]) => Hunks[h] = patch[h]
<1>1. patch \in Seq(GitHunks) /\ header \in HeaderLengths
  BY DEF PatchInv, PiecesTypeOK, GitHunks
<1>2. PICK n \in Nat : n = Len(patch) /\ DOMAIN patch = 1..n
  BY <1>1, LenProperties
<1>3. Hunks = [h \in 1..n |-> [patch[h] EXCEPT !.lines = SplitLines(@)]]
  BY <1>2 DEF Hunks, ReadHunks
<1>4. ASSUME NEW h \in 1..n
      PROVE  /\ Hunks[h] \in HunkRecords /\ Hunks[h].header = header
             /\ patch[h].lines # << >> => Hunks[h].lines # << >>
             /\ OneLineEach(patch[h]) => Hunks[h] = patch[h]
  <2>1. PICK hunk : hunk = patch[h] /\ hunk \in GitHunks
    BY <1>1, <1>2, ElementOfSeq
  <2>2. PICK ls \in Seq(Lines) : ls = hunk.lines
    BY <2>1 DEF GitHunks
  <2>3. PICK cut \in Seq(Lines) : /\ cut = SplitLines(ls) /\ (ls # << >> => cut # << >>)
                                  /\ (\A i \in DOMAIN ls : ls[i].rest = << >>) => cut = ls
    BY SplitLinesAre
  <2>4. PICK shown : shown = [hunk EXCEPT !.lines = cut]
    OBVIOUS
  <2>5. Hunks[h] = shown
    BY <1>3, <2>1, <2>2, <2>3, <2>4
  <2>6. shown \in GitHunks /\ shown.header = header /\ shown.lines = cut
    BY <2>1, <2>4 DEF GitHunks
  <2>7. shown \in HunkRecords
    BY <1>1, <2>6, GitHunksAre
  <2>8. cut = ls => shown = hunk
    BY <2>1, <2>2, <2>4 DEF GitHunks
  <2>9. OneLineEach(patch[h]) => cut = ls
    BY <2>1, <2>2, <2>3 DEF OneLineEach
  <2>. QED
    BY <2>1, <2>2, <2>3, <2>5, <2>6, <2>7, <2>8, <2>9
<1>5. Hunks \in Seq(HunkRecords)
  <2>1. PICK X : X = HunkRecords
    OBVIOUS
  <2>2. Hunks \in [1..n -> X]
    BY <1>3, <1>4, <2>1
  <2>. QED
    BY <2>1, <2>2
<1>. QED
  BY <1>2, <1>3, <1>4, <1>5

LEMMA HunksSame ==
  ASSUME PatchInv, \A h \in DOMAIN patch : OneLineEach(patch[h])
  PROVE  Hunks = patch
<1>1. PICK X : X = HunkRecords /\ patch \in Seq(X) /\ Hunks \in Seq(X) /\ DOMAIN Hunks = DOMAIN patch
  BY PatchTyped, HunksAre
<1>2. \A h \in DOMAIN patch : Hunks[h] = patch[h]
  BY HunksAre
<1>. QED
  BY <1>1, <1>2

\* For every patch git can write, whose lines hold no other line boundary, the
\* lines that take a finding are those of the new file that the patch shows.
THEOREM VisibleAlwaysExact == PiecesSpec => []VisibleExact
<1>1. PatchInv => VisibleExact
  <2>. SUFFICES ASSUME PatchInv, \A h \in DOMAIN patch : OneLineEach(patch[h])
                PROVE  Visible(patch) = UNION {Range(at[h]) \ {0} : h \in DOMAIN at}
    BY DEF VisibleExact
  <2>1. DOMAIN at = DOMAIN patch /\ \A h \in DOMAIN patch : at[h] = Annotated(patch[h])
    BY AtIs
  <2>2. ReadHunks(patch) = patch
    BY HunksSame DEF Hunks
  <2>. QED
    BY <2>1, <2>2 DEF Visible, Range
<1>. QED
  BY <1>1, PatchAlways, PTL

(***************************************************************************)
(* Hunks cut into pieces.                                                  *)
(***************************************************************************)
\* The lines of a hunk, each with its number.
Pairs == Lines \X Nat
Numbered(hunk) == [i \in DOMAIN hunk.lines |-> << hunk.lines[i], Annotated(hunk)[i] >>]
NumberedMap == [hunk \in HunkRecords |-> Numbered(hunk)]

LEMMA NumberedTyped ==
  ASSUME NEW hunk \in HunkRecords
  PROVE  Numbered(hunk) \in Seq(Pairs) /\ Len(Numbered(hunk)) = Len(hunk.lines)
<1>1. PICK n \in Nat, u \in Seq(Lines), v \in Seq(Nat) :
         u = hunk.lines /\ v = Annotated(hunk) /\ n = Len(u) /\ n = Len(v)
  BY AnnotatedTyped DEF HunkRecords
<1>2. DOMAIN u = 1..n /\ \A i \in 1..n : u[i] \in Lines /\ v[i] \in Nat
  <2>1. n = Len(u) /\ n = Len(v)
    BY <1>1
  <2>2. DOMAIN u = 1..n /\ DOMAIN v = 1..n
    BY <2>1, LenProperties
  <2>. QED
    BY <2>2, ElementOfSeq
<1>3. PICK w : w = Numbered(hunk)
  OBVIOUS
<1>4. w = [i \in 1..n |-> << u[i], v[i] >>]
  BY <1>1, <1>2, <1>3 DEF Numbered
<1>5. w \in [1..n -> Pairs]
  BY <1>2, <1>4 DEF Pairs
<1>6. w \in Seq(Pairs) /\ Len(w) = n
  BY <1>5
<1>. QED
  BY <1>1, <1>3, <1>6

LEMMA NumberedMaps == Maps(NumberedMap, HunkRecords, Seq(Pairs))
BY NumberedTyped DEF Maps, NumberedMap

LEMMA NumberedLonger ==
  ASSUME NEW hunk \in HunkRecords, NEW line \in Lines
  PROVE  /\ Numbered(Longer(hunk, line)) = Append(Numbered(hunk), << line, NumberOf(hunk, line) >>)
         /\ << line, NumberOf(hunk, line) >> \in Pairs
<1>1. PICK more : more = Longer(hunk, line) /\ more \in HunkRecords /\ more.lines = Append(hunk.lines, line)
  BY LongerIs
<1>2. PICK s \in Seq(Lines), t \in Seq(Nat), n \in Nat :
         s = hunk.lines /\ t = Annotated(hunk) /\ n = Len(s) /\ n = Len(t)
  BY AnnotatedTyped DEF HunkRecords
<1>3. PICK x \in Nat : x = NumberOf(hunk, line) /\ Annotated(more) = Append(t, x)
  BY <1>1, <1>2, AnnotatedLonger
<1>4. PICK s2, t2 : s2 = Append(s, line) /\ t2 = Append(t, x)
  OBVIOUS
<1>5. /\ DOMAIN s2 = 1..(n + 1) /\ s2[n + 1] = line /\ \A i \in 1..n : s2[i] = s[i]
      /\ DOMAIN t2 = 1..(n + 1) /\ t2[n + 1] = x /\ \A i \in 1..n : t2[i] = t[i]
  <2>1. n = Len(s) /\ n = Len(t)
    BY <1>2
  <2>2. /\ DOMAIN Append(s, line) = 1..(n + 1) /\ Append(s, line)[n + 1] = line
        /\ \A i \in 1..n : Append(s, line)[i] = s[i]
    <3>1. PICK X, z : X = Lines /\ z = line
      OBVIOUS
    <3>2. s \in Seq(X) /\ z \in X /\ n = Len(s)
      BY <2>1, <3>1
    <3>3. PICK w : w = Append(s, z)
      OBVIOUS
    <3>4. DOMAIN w = 1..(n + 1) /\ w[n + 1] = z /\ \A i \in 1..n : w[i] = s[i]
      BY <3>2, <3>3, Appended
    <3>. QED
      BY <3>1, <3>3, <3>4
  <2>3. /\ DOMAIN Append(t, x) = 1..(n + 1) /\ Append(t, x)[n + 1] = x
        /\ \A i \in 1..n : Append(t, x)[i] = t[i]
    BY <2>1, Appended
  <2>. QED
    BY <1>4, <2>2, <2>3
<1>6. PICK u \in Seq(Pairs), v \in Seq(Pairs) : u = Numbered(hunk) /\ v = Numbered(more)
                                             /\ Len(u) = n /\ Len(v) = n + 1
  <2>1. Len(more.lines) = n + 1
    <3>1. n = Len(s) /\ more.lines = Append(s, line)
      BY <1>1, <1>2
    <3>. QED
      BY <3>1, Appended
  <2>2. Len(hunk.lines) = n /\ more \in HunkRecords
    BY <1>1, <1>2
  <2>3. Numbered(hunk) \in Seq(Pairs) /\ Len(Numbered(hunk)) = Len(hunk.lines)
    BY NumberedTyped
  <2>4. Numbered(more) \in Seq(Pairs) /\ Len(Numbered(more)) = Len(more.lines)
    BY <2>2, NumberedTyped
  <2>. QED
    BY <2>1, <2>2, <2>3, <2>4
<1>7. PICK p \in Pairs : p = << line, x >>
  BY DEF Pairs
<1>8. PICK w : w = Append(u, p)
  OBVIOUS
<1>11. w \in Seq(Pairs) /\ Len(w) = n + 1 /\ w[n + 1] = p /\ \A i \in 1..n : w[i] = u[i]
  <2>1. n = Len(u)
    BY <1>6
  <2>2. /\ Append(u, p) \in Seq(Pairs) /\ Len(Append(u, p)) = n + 1 /\ Append(u, p)[n + 1] = p
        /\ \A i \in 1..n : Append(u, p)[i] = u[i]
    BY <2>1, Appended
  <2>. QED
    BY <1>8, <2>2
<1>9. ASSUME NEW i \in 1..(n + 1)
      PROVE  v[i] = w[i]
  <2>1. v[i] = << s2[i], t2[i] >>
    BY <1>1, <1>2, <1>3, <1>4, <1>5, <1>6 DEF Numbered
  <2>2. CASE i = n + 1
    BY <1>4, <1>5, <1>7, <1>11, <2>1, <2>2
  <2>3. CASE i \in 1..n
    <3>1. u[i] = << s[i], t[i] >>
      BY <1>2, <1>6, <2>3 DEF Numbered
    <3>. QED
      BY <1>4, <1>5, <1>11, <2>1, <2>3, <3>1
  <2>. QED
    BY <2>2, <2>3
<1>10. v = w
  BY <1>6, <1>9, <1>11, SeqEqual
<1>. QED
  BY <1>1, <1>3, <1>6, <1>7, <1>8, <1>10

\* A piece without lines after another, and when one is begun.
Fresh(piece) ==
  [new |-> piece.new + NewCount(piece.lines), header |-> piece.header, lines |-> << >>]
Cuts(piece, line, limit) ==
  /\ piece.lines # << >> /\ line.kind # "noNewline"
  /\ LinesLength(Append(piece.lines, line)) > limit

LEMMA NumberedNone ==
  ASSUME NEW hunk \in HunkRecords, hunk.lines = << >>
  PROVE  Numbered(hunk) = << >> /\ NewCount(hunk.lines) = 0
<1>1. NewCount(<< >>) = 0
  BY NewAmongNext DEF NewCount
<1>2. Numbered(hunk) = << >>
  BY DEF Numbered
<1>. QED
  BY <1>1, <1>2

LEMMA FreshIs ==
  ASSUME NEW piece \in HunkRecords, NEW line \in Lines
  PROVE  /\ Fresh(piece) \in HunkRecords
         /\ Fresh(piece).new = piece.new + NewCount(piece.lines)
         /\ Fresh(piece).header = piece.header /\ Fresh(piece).lines = << >>
         /\ Following(piece, line) = Longer(Fresh(piece), line)
<1>1. NewCount(piece.lines) \in Nat
  BY AnnotatedLonger
<1>2. piece = [new |-> piece.new, header |-> piece.header, lines |-> piece.lines]
      /\ piece.new \in Nat /\ piece.header \in Nat
  BY DEF HunkRecords
<1>3. PICK c \in Nat : c = piece.new + NewCount(piece.lines)
  BY <1>1, <1>2
<1>4. Fresh(piece) = [new |-> c, header |-> piece.header, lines |-> << >>]
  BY <1>3 DEF Fresh
<1>5. Following(piece, line) = [new |-> c, header |-> piece.header, lines |-> << line >>]
  BY <1>3 DEF Following
<1>6. Append(<< >>, line) = << line >> /\ << >> \in Seq(Lines)
  OBVIOUS
<1>7. Fresh(piece) \in HunkRecords
  BY <1>2, <1>4, <1>6 DEF HunkRecords
<1>8. Longer(Fresh(piece), line) = [new |-> c, header |-> piece.header, lines |-> << line >>]
  BY <1>4, <1>6 DEF Longer
<1>. QED
  BY <1>3, <1>4, <1>5, <1>7, <1>8

\* A line goes to the end of a piece q: the last one, or one begun after it.
Puts(r, q, s, last, line, limit) ==
  \/ r = s /\ q = last /\ ~Cuts(last, line, limit)
  \/ r = Append(s, last) /\ q = Fresh(last) /\ Cuts(last, line, limit)

LEMMA PutLineIs ==
  ASSUME NEW s \in Seq(HunkRecords), NEW last \in HunkRecords, NEW line \in Lines, NEW limit
  PROVE  \E r \in Seq(HunkRecords), q \in HunkRecords :
           /\ Puts(r, q, s, last, line, limit)
           /\ PutLine(Append(s, last), line, limit) = Append(r, Longer(q, line))
<1>1. PICK n, X : n \in Nat /\ n = Len(s) /\ X = HunkRecords
  BY LenProperties
<1>2. PICK pieces : pieces = Append(s, last)
  OBVIOUS
<1>3. pieces \in Seq(X) /\ Len(pieces) = n + 1 /\ pieces[n + 1] = last
  BY <1>1, <1>2, Appended
<1>4. CASE Cuts(last, line, limit)
  <2>1. PutLine(pieces, line, limit) = Append(pieces, Following(last, line))
    BY <1>3, <1>4 DEF PutLine, Cuts
  <2>. QED
    BY <1>1, <1>2, <1>3, <1>4, <2>1, FreshIs DEF Puts
<1>5. CASE ~Cuts(last, line, limit)
  <2>1. PutLine(pieces, line, limit) = [pieces EXCEPT ![n + 1] = Longer(last, line)]
    BY <1>3, <1>5 DEF PutLine, Cuts, Longer
  <2>2. PICK y \in X : y = Longer(last, line)
    BY <1>1, LongerIs
  <2>3. [Append(s, last) EXCEPT ![n + 1] = y] = Append(s, y)
    BY <1>1, LastReplaced
  <2>. QED
    BY <1>2, <1>5, <2>1, <2>2, <2>3 DEF Puts
<1>. QED
  BY <1>4, <1>5

\* The pieces of the first k lines of a hunk.
CutTo(pieces, hunk, k) ==
  /\ Flat(NumberedMap, pieces) = Prefix(Numbered(hunk), k)
  /\ \E s \in Seq(HunkRecords), last \in HunkRecords :
       /\ pieces = Append(s, last)
       /\ last.new + NewCount(last.lines) = hunk.new + NewAmong(hunk.lines, k)

LEMMA CutNext ==
  ASSUME NEW hunk \in HunkRecords, NEW limit, NEW k \in 1..Len(hunk.lines), NEW pieces,
         CutTo(pieces, hunk, k - 1)
  PROVE  CutTo(PutLine(pieces, hunk.lines[k], limit), hunk, k)
<1>1. PICK s \in Seq(HunkRecords), last \in HunkRecords :
         /\ pieces = Append(s, last)
         /\ last.new + NewCount(last.lines) = hunk.new + NewAmong(hunk.lines, k - 1)
  BY DEF CutTo
<1>2. PICK line \in Lines : line = hunk.lines[k]
  BY DEF HunkRecords
<1>3. PICK r \in Seq(HunkRecords), q \in HunkRecords :
         /\ Puts(r, q, s, last, line, limit)
         /\ PutLine(Append(s, last), line, limit) = Append(r, Longer(q, line))
  BY PutLineIs
<1>4. PICK more \in HunkRecords :
                  /\ more = Longer(q, line)
                  /\ more.new = q.new /\ more.lines = Append(q.lines, line)
  BY LongerIs
<1>5. PICK p \in Pairs : p = << line, NumberOf(q, line) >> /\ Numbered(more) = Append(Numbered(q), p)
  BY <1>4, NumberedLonger
<1>6. Maps(NumberedMap, HunkRecords, Seq(Pairs))
  BY NumberedMaps
<1>7. \A h \in HunkRecords : NumberedMap[h] = Numbered(h) /\ Numbered(h) \in Seq(Pairs)
  BY NumberedTyped DEF NumberedMap
<1>8. PICK f \in Seq(Pairs), g \in Seq(Pairs) :
         f = Flat(NumberedMap, r) /\ g = Numbered(q) /\ f \o g = Flat(NumberedMap, Append(s, last))
  <2>1. Flat(NumberedMap, r) \in Seq(Pairs) /\ Numbered(q) \in Seq(Pairs)
    BY <1>6, <1>7, FlatTyped
  <2>2. CASE r = s /\ q = last
    <3>1. Flat(NumberedMap, Append(s, last)) = Flat(NumberedMap, s) \o NumberedMap[last]
      BY <1>6, FlatAppend
    <3>. QED
      BY <1>7, <2>1, <2>2, <3>1
  <2>3. CASE r = Append(s, last) /\ q = Fresh(last)
    <3>1. Numbered(q) = << >>
      BY <2>3, FreshIs, NumberedNone
    <3>2. Flat(NumberedMap, r) \o << >> = Flat(NumberedMap, r)
      BY <2>1, ConcatEmptySeq
    <3>. QED
      BY <2>1, <2>3, <3>1, <3>2
  <2>. QED
    BY <1>3, <2>2, <2>3 DEF Puts
<1>9. Flat(NumberedMap, Append(r, more)) = Append(f \o g, p)
  <2>1. Flat(NumberedMap, Append(r, more)) = Flat(NumberedMap, r) \o NumberedMap[more]
    BY <1>6, FlatAppend
  <2>2. f \o Append(g, p) = Append(f \o g, p)
    OBVIOUS
  <2>. QED
    BY <1>4, <1>5, <1>7, <1>8, <2>1, <2>2
<1>10. PICK c, a : /\ c = NewCount(q.lines) /\ a = NewAmong(hunk.lines, k - 1)
                   /\ c \in Nat /\ a \in Nat /\ q.new \in Nat /\ hunk.new \in Nat
                   /\ q.new + c = hunk.new + a
  <2>1. k - 1 \in Nat
    OBVIOUS
  <2>2. NewCount(q.lines) \in Nat /\ NewAmong(hunk.lines, k - 1) \in Nat
    <3>1. NewCount(q.lines) \in Nat
      BY AnnotatedLonger
    <3>2. NewAmong(hunk.lines, k - 1) \in 0..(k - 1)
      BY <2>1, NewAmongNext
    <3>. QED
      BY <3>1, <3>2
  <2>3. q.new \in Nat /\ hunk.new \in Nat /\ last.new \in Nat /\ NewCount(last.lines) \in Nat
    BY AnnotatedLonger DEF HunkRecords
  <2>4. CASE q = last
    BY <1>1, <2>2, <2>3, <2>4
  <2>5. CASE q = Fresh(last)
    <3>1. q.new = last.new + NewCount(last.lines) /\ NewCount(q.lines) = 0
      BY <2>5, FreshIs, NumberedNone
    <3>. QED
      BY <1>1, <2>2, <2>3, <3>1
  <2>. QED
    BY <1>3, <2>4, <2>5 DEF Puts
<1>11. Numbered(hunk)[k] = p
  <2>3. k \in DOMAIN hunk.lines
    <3>1. PICK ls \in Seq(Lines) : ls = hunk.lines
      BY DEF HunkRecords
    <3>. QED
      BY <3>1, LenProperties
  <2>1. Annotated(hunk)[k] = IF IsNew(line) THEN hunk.new + a ELSE 0
    BY <1>2, <1>10, <2>3 DEF Annotated
  <2>2. Annotated(hunk)[k] = NumberOf(q, line)
    BY <1>10, <2>1 DEF NumberOf
  <2>. QED
    BY <1>2, <1>5, <2>2, <2>3 DEF Numbered
<1>12. Flat(NumberedMap, Append(r, more)) = Prefix(Numbered(hunk), k)
  <2>1. PICK u \in Seq(Pairs), m \in Nat : u = Numbered(hunk) /\ m = Len(u) /\ k \in 1..m
    BY <1>7, NumberedTyped
  <2>2. Prefix(u, k) = Append(Prefix(u, k - 1), u[k])
    <3>1. PICK X : X = Pairs
      OBVIOUS
    <3>2. u \in Seq(X)
      BY <2>1, <3>1
    <3>3. PICK j \in Nat : k = j + 1 /\ j = k - 1
      OBVIOUS
    <3>4. k <= Len(u)
      BY <2>1
    <3>5. Prefix(u, k) = Append(Prefix(u, j), u[k])
      BY <3>2, <3>3, <3>4, PrefixStep
    <3>. QED
      BY <3>3, <3>5
  <2>3. f \o g = Prefix(u, k - 1)
    BY <1>1, <1>8, <2>1 DEF CutTo
  <2>. QED
    BY <1>9, <1>11, <2>1, <2>2, <2>3
<1>13. more.new + NewCount(more.lines) = hunk.new + NewAmong(hunk.lines, k)
  <2>1. NewCount(more.lines) = IF IsNew(line) THEN c + 1 ELSE c
    BY <1>4, <1>10, AnnotatedLonger
  <2>2. NewAmong(hunk.lines, k) = IF IsNew(line) THEN a + 1 ELSE a
    <3>1. PICK j \in Nat : j = k - 1 /\ j + 1 = k
      OBVIOUS
    <3>2. NewAmong(hunk.lines, j + 1) =
            IF IsNew(hunk.lines[j + 1]) THEN NewAmong(hunk.lines, j) + 1 ELSE NewAmong(hunk.lines, j)
      BY NewAmongNext
    <3>. QED
      BY <1>2, <1>10, <3>1, <3>2
  <2>3. PICK d, b, x, y : /\ d = NewCount(more.lines) /\ b = NewAmong(hunk.lines, k)
                          /\ x = more.new /\ y = hunk.new /\ x = q.new
                          /\ d = (IF IsNew(line) THEN c + 1 ELSE c)
                          /\ b = (IF IsNew(line) THEN a + 1 ELSE a)
    BY <1>4, <2>1, <2>2
  <2>4. x + d = y + b
    <3>1. x \in Nat /\ y \in Nat /\ x + c = y + a /\ c \in Nat /\ a \in Nat
      BY <1>10, <2>3
    <3>2. CASE IsNew(line)
      <4>1. d = c + 1 /\ b = a + 1
        BY <2>3, <3>2
      <4>. QED
        BY <3>1, <4>1
    <3>3. CASE ~IsNew(line)
      <4>1. d = c /\ b = a
        BY <2>3, <3>3
      <4>. QED
        BY <3>1, <4>1
    <3>. QED
      BY <3>2, <3>3
  <2>. QED
    BY <2>3, <2>4
<1>. QED
  BY <1>1, <1>2, <1>3, <1>4, <1>12, <1>13 DEF CutTo

LEMMA Emptied ==
  ASSUME NEW hunk \in HunkRecords
  PROVE  \E e \in HunkRecords : e = [hunk EXCEPT !.lines = << >>] /\ e.lines = << >> /\ e.new = hunk.new
                                 /\ e.header = hunk.header
<1>1. PICK n \in Seq(Lines) : n = << >>
  BY EmptySeq
<1>2. [hunk EXCEPT !.lines = n] \in HunkRecords
  BY DEF HunkRecords
<1>3. PICK e : e = [hunk EXCEPT !.lines = n]
  OBVIOUS
<1>4. e.lines = n /\ e.new = hunk.new /\ e.header = hunk.header
  BY <1>3 DEF HunkRecords
<1>. QED
  BY <1>1, <1>2, <1>3, <1>4

\* The pieces of a hunk that is cut.
CutPieces(hunk, limit) ==
  FoldLeft(LAMBDA pieces, line : PutLine(pieces, line, limit),
           << [hunk EXCEPT !.lines = << >>] >>, hunk.lines)

PieceLists == Seq(HunkRecords) \ {<< >>}

LEMMA PutLineTyped ==
  ASSUME NEW pieces \in PieceLists, NEW line \in Lines, NEW limit
  PROVE  PutLine(pieces, line, limit) \in PieceLists
<1>1. PICK s \in Seq(HunkRecords), last \in HunkRecords : pieces = Append(s, last)
  BY SequenceEmptyOrAppend DEF PieceLists
<1>2. PICK r \in Seq(HunkRecords), q \in HunkRecords :
         PutLine(Append(s, last), line, limit) = Append(r, Longer(q, line))
  BY PutLineIs
<1>3. PICK more \in HunkRecords : more = Longer(q, line)
  BY LongerIs
<1>4. Append(r, more) \in Seq(HunkRecords) /\ Append(r, more) # << >>
  BY AppendProperties
<1>. QED
  BY <1>1, <1>2, <1>3, <1>4 DEF PieceLists

LEMMA CutRuns ==
  ASSUME NEW hunk \in HunkRecords, NEW limit, NEW m \in Nat, m = Len(hunk.lines)
  PROVE  \E h, b : /\ b = << [hunk EXCEPT !.lines = << >>] >> /\ b \in PieceLists
                   /\ CutPieces(hunk, limit) = h[1..m]
                   /\ RunsTo(h, PieceLists, b, m,
                        [q \in PieceLists \X (1..m) |-> PutLine(q[1], hunk.lines[q[2]], limit)])
<1>1. DOMAIN hunk.lines = 1..m /\ \A i \in 1..m : hunk.lines[i] \in Lines
  <2>1. PICK ls \in Seq(Lines) : ls = hunk.lines
    BY DEF HunkRecords
  <2>2. m = Len(ls)
    BY <2>1
  <2>3. DOMAIN ls = 1..m
    BY <2>2, LenProperties
  <2>. QED
    BY <2>1, <2>3, ElementOfSeq
<1>2. PICK b : b = << [hunk EXCEPT !.lines = << >>] >>
  OBVIOUS
<1>3. PICK h : h = CHOOSE g : g = [t \in SUBSET (1..m) |->
                     IF t = {} THEN b ELSE PutLine(g[t \ {Max(t)}], hunk.lines[Max(t)], limit)]
  OBVIOUS
<1>4. CutPieces(hunk, limit) = h[1..m]
  BY <1>1, <1>2, <1>3 DEF CutPieces, FoldLeft, MapThenFoldSet
<1>5. PICK D : D = [q \in PieceLists \X (1..m) |-> PutLine(q[1], hunk.lines[q[2]], limit)]
  OBVIOUS
<1>6. ASSUME NEW g, Turns(g, PieceLists, b, m, D)
      PROVE  Unfolds(h, PieceLists, b, m, D)
  <2>1. g = [t \in SUBSET (1..m) |->
               IF t = {} THEN b ELSE PutLine(g[t \ {Max(t)}], hunk.lines[Max(t)], limit)]
    BY <1>5, <1>6 DEF Turns
  <2>2. h = [t \in SUBSET (1..m) |->
               IF t = {} THEN b ELSE PutLine(h[t \ {Max(t)}], hunk.lines[Max(t)], limit)]
    BY <1>3, <2>1
  <2>. QED
    BY <1>5, <1>6, <2>2 DEF Unfolds, Turns
<1>7. D \in [PieceLists \X (1..m) -> PieceLists]
  <2>1. ASSUME NEW v \in PieceLists, NEW k \in 1..m
        PROVE  PutLine(v, hunk.lines[k], limit) \in PieceLists
    BY <1>1, PutLineTyped
  <2>. QED
    BY <1>5, <2>1
<1>8. b \in PieceLists
  <2>1. [hunk EXCEPT !.lines = << >>] \in HunkRecords
    BY Emptied
  <2>. QED
    BY <1>2, <2>1 DEF PieceLists
<1>9. RunsTo(h, PieceLists, b, m, D)
  BY <1>6, <1>7, <1>8, FoldLeftRuns
<1>. QED
  BY <1>2, <1>4, <1>5, <1>8, <1>9

\* Cutting a hunk keeps its lines and their numbers.
LEMMA CutIs ==
  ASSUME NEW hunk \in HunkRecords, NEW limit
  PROVE  /\ CutPieces(hunk, limit) \in Seq(HunkRecords)
         /\ Flat(NumberedMap, CutPieces(hunk, limit)) = Numbered(hunk)
<1>1. PICK m \in Nat : m = Len(hunk.lines)
  BY LenProperties DEF HunkRecords
<1>2. PICK V : V = PieceLists
  OBVIOUS
<1>3. PICK D : D = [q \in V \X (1..m) |-> PutLine(q[1], hunk.lines[q[2]], limit)]
  OBVIOUS
<1>4. PICK h, b : /\ b = << [hunk EXCEPT !.lines = << >>] >> /\ b \in V
                  /\ CutPieces(hunk, limit) = h[1..m] /\ RunsTo(h, V, b, m, D)
  BY <1>1, <1>2, <1>3, CutRuns
<1> DEFINE I == {q \in (0..m) \X V : CutTo(q[2], hunk, q[1])}
<1>5. Numbered(hunk) \in Seq(Pairs) /\ Len(Numbered(hunk)) = m
  BY <1>1, NumberedTyped
<1>6. << 0, b >> \in I
  <2>1. PICK e \in HunkRecords : e = [hunk EXCEPT !.lines = << >>] /\ e.lines = << >> /\ e.new = hunk.new
    BY Emptied
  <2>2. << >> \in Seq(HunkRecords) /\ b = Append(<< >>, e)
    BY <1>4, <2>1
  <2>3. Numbered(e) = << >> /\ NewCount(e.lines) = 0
    BY <2>1, NumberedNone
  <2>4. Flat(NumberedMap, b) = << >>
    <3>1. Maps(NumberedMap, HunkRecords, Seq(Pairs))
      BY NumberedMaps
    <3>2. Flat(NumberedMap, << e >>) = NumberedMap[e]
      BY <3>1, FlatOne
    <3>3. NumberedMap[e] = << >> /\ b = << e >>
      BY <1>4, <2>1, <2>3 DEF NumberedMap
    <3>. QED
      BY <3>2, <3>3
  <2>5. Prefix(Numbered(hunk), 0) = << >>
    BY <1>5, PrefixNext
  <2>6. NewAmong(hunk.lines, 0) = 0
    BY NewAmongNext
  <2>7. CutTo(b, hunk, 0)
    BY <2>1, <2>2, <2>3, <2>4, <2>5, <2>6 DEF CutTo
  <2>8. 0 \in 0..m
    OBVIOUS
  <2>. QED
    BY <1>4, <2>7, <2>8
<1>7. ASSUME NEW k \in 1..m, NEW v \in V, << k - 1, v >> \in I
      PROVE  << k, D[<< v, k >>] >> \in I
  <2>1. CutTo(v, hunk, k - 1)
    BY <1>7
  <2>2. CutTo(PutLine(v, hunk.lines[k], limit), hunk, k)
    BY <1>1, <2>1, CutNext
  <2>3. D[<< v, k >>] = PutLine(v, hunk.lines[k], limit)
    BY <1>3
  <2>4. hunk.lines[k] \in Lines
    <3>1. PICK ls \in Seq(Lines) : ls = hunk.lines /\ k \in 1..Len(ls)
      BY <1>1 DEF HunkRecords
    <3>. QED
      BY <3>1, ElementOfSeq
  <2>5. PutLine(v, hunk.lines[k], limit) \in V /\ k \in 0..m
    BY <1>2, <2>4, PutLineTyped
  <2>. QED
    BY <2>2, <2>3, <2>5
<1>8. h[1..m] \in V /\ << m, h[1..m] >> \in I
  <2>1. Preserved(I, V, m, D)
    BY <1>7 DEF Preserved
  <2>2. RunsTo(h, V, b, m, D)
    BY <1>4
  <2> HIDE DEF I
  <2>. QED
    BY <1>6, <2>1, <2>2, FoldInduction
<1>9. CutTo(CutPieces(hunk, limit), hunk, m)
  BY <1>4, <1>8
<1>10. Prefix(Numbered(hunk), m) = Numbered(hunk)
  BY <1>5, PrefixNext
<1>. QED
  BY <1>2, <1>4, <1>8, <1>9, <1>10 DEF CutTo, PieceLists

LEMMA SplitIs ==
  ASSUME NEW hunk \in HunkRecords, NEW maxChars
  PROVE  /\ SplitHunk(hunk, maxChars) \in Seq(HunkRecords)
         /\ Flat(NumberedMap, SplitHunk(hunk, maxChars)) = Numbered(hunk)
<1>1. CASE HunkLength(hunk) <= maxChars
  <2>1. SplitHunk(hunk, maxChars) = << hunk >>
    BY <1>1 DEF SplitHunk
  <2>3. Maps(NumberedMap, HunkRecords, Seq(Pairs))
    BY NumberedMaps
  <2>4. Flat(NumberedMap, << hunk >>) = NumberedMap[hunk] /\ << hunk >> \in Seq(HunkRecords)
    BY <2>3, FlatOne
  <2>. QED
    BY <2>1, <2>4 DEF NumberedMap
<1>2. CASE ~(HunkLength(hunk) <= maxChars)
  <2>1. SplitHunk(hunk, maxChars) = CutPieces(hunk, Max({maxChars - Reserve, 1}))
    BY <1>2 DEF SplitHunk, CutPieces
  <2>. QED
    BY <2>1, CutIs
<1>. QED
  BY <1>1, <1>2

(***************************************************************************)
(* Pieces of a file.                                                       *)
(***************************************************************************)
\* A hunk goes to the end of g: the last group, or one of its own.
JoinsGroup(r, g, groups, chunks, hunk) ==
  \/ groups = Append(r, g) /\ Rendered(Piece(chunks, Append(g, hunk))) <= MaxChars
  \/ r = groups /\ g = << >>

Grouped(more, groups, chunks, hunk) ==
  \E r \in Seq(Seq(HunkRecords)), g \in Seq(HunkRecords) :
    JoinsGroup(r, g, groups, chunks, hunk) /\ more = Append(r, Append(g, hunk))

LEMMA GroupIs ==
  ASSUME NEW groups \in Seq(Seq(HunkRecords)), NEW hunk \in HunkRecords, NEW chunks
  PROVE  Grouped(Group(chunks, groups, hunk), groups, chunks, hunk)
<1>1. PICK X : X = Seq(HunkRecords)
  OBVIOUS
<1>2. PICK none \in X : none = << >>
  BY <1>1, EmptySeq
<1>5. PICK one \in X : one = << hunk >> /\ one = Append(none, hunk)
  <2>1. PICK a : a = Append(none, hunk)
    OBVIOUS
  <2>2. a \in X
    BY <1>1, <2>1, AppendProperties
  <2>3. a = << hunk >>
    BY <1>2, <2>1
  <2>. QED
    BY <2>1, <2>2, <2>3
<1>3. CASE Group(chunks, groups, hunk) = Append(groups, << hunk >>)
  BY <1>1, <1>2, <1>3, <1>5 DEF Grouped, JoinsGroup
<1>4. CASE Group(chunks, groups, hunk) # Append(groups, << hunk >>)
  <2>1. /\ Len(groups) > 0
        /\ Rendered(Piece(chunks, Append(groups[Len(groups)], hunk))) <= MaxChars
        /\ Group(chunks, groups, hunk) = [groups EXCEPT ![Len(groups)] = Append(@, hunk)]
    BY <1>4 DEF Group
  <2>2. groups \in Seq(X) /\ groups # << >>
    BY <1>1, <2>1
  <2>3. PICK r \in Seq(X), g \in X : groups = Append(r, g)
    BY <2>2, SequenceEmptyOrAppend
  <2>4. PICK n \in Nat : n = Len(r)
    BY LenProperties
  <2>5. Len(groups) = n + 1 /\ groups[n + 1] = g
    <3>1. Len(Append(r, g)) = n + 1 /\ Append(r, g)[n + 1] = g
      BY <2>4, Appended
    <3>. QED
      BY <2>3, <3>1
  <2>6. PICK y \in X : y = Append(g, hunk)
    BY <1>1, AppendProperties
  <2>7. [Append(r, g) EXCEPT ![n + 1] = y] = Append(r, y)
    BY <2>4, LastReplaced
  <2>8. Group(chunks, groups, hunk) = Append(r, y)
    BY <2>1, <2>3, <2>5, <2>6, <2>7
  <2>. QED
    BY <1>1, <2>1, <2>3, <2>5, <2>6, <2>8 DEF Grouped, JoinsGroup
<1>. QED
  BY <1>3, <1>4

LEMMA GroupNext ==
  ASSUME NEW groups \in Seq(Seq(HunkRecords)), NEW hunk \in HunkRecords, NEW chunks
  PROVE  /\ Group(chunks, groups, hunk) \in Seq(Seq(HunkRecords))
         /\ Joined(Group(chunks, groups, hunk)) = Append(Joined(groups), hunk)
<1>0. Grouped(Group(chunks, groups, hunk), groups, chunks, hunk)
  BY GroupIs
<1>1. PICK r \in Seq(Seq(HunkRecords)), g \in Seq(HunkRecords) :
         /\ JoinsGroup(r, g, groups, chunks, hunk)
         /\ Group(chunks, groups, hunk) = Append(r, Append(g, hunk))
  BY <1>0 DEF Grouped
<1>2. PICK X : X = Seq(HunkRecords)
  OBVIOUS
<1>3. PICK y \in Seq(HunkRecords) : y = Append(g, hunk)
  BY AppendProperties
<1>4. PICK more \in Seq(Seq(HunkRecords)) : more = Append(r, y)
  <2>1. r \in Seq(X) /\ y \in X
    BY <1>2
  <2>2. Append(r, y) \in Seq(X)
    BY <2>1, AppendProperties
  <2>. QED
    BY <1>2, <2>2
<1>5. PICK j \in Seq(HunkRecords) : j = Joined(r) /\ Joined(more) = j \o y
                                    /\ Joined(Append(r, g)) = j \o g
  <2>1. Joined(r) \in Seq(HunkRecords) /\ Joined(Append(r, y)) = Joined(r) \o y
    BY JoinedAppend
  <2>2. Joined(Append(r, g)) = Joined(r) \o g
    BY JoinedAppend
  <2>. QED
    BY <1>4, <2>1, <2>2
<1>6. j \o y = Append(j \o g, hunk)
  BY <1>3
<1>7. Joined(groups) = j \o g
  <2>1. CASE groups = Append(r, g)
    BY <1>5, <2>1
  <2>2. CASE r = groups /\ g = << >>
    <3>1. j \o << >> = j
      BY ConcatEmptySeq
    <3>. QED
      BY <1>5, <2>2, <3>1
  <2>. QED
    BY <1>1, <2>1, <2>2 DEF JoinsGroup
<1>. QED
  BY <1>1, <1>3, <1>4, <1>5, <1>6, <1>7

Groups(chunks, hunks) == FoldLeft(LAMBDA gs, hunk : Group(chunks, gs, hunk), << >>, hunks)

LEMMA GroupsRuns ==
  ASSUME NEW hunks \in Seq(HunkRecords), NEW chunks, NEW m \in Nat, m = Len(hunks), NEW V, V = Seq(Seq(HunkRecords))
  PROVE  \E h : /\ Groups(chunks, hunks) = h[1..m]
                /\ RunsTo(h, V, << >>, m, [q \in V \X (1..m) |-> Group(chunks, q[1], hunks[q[2]])])
<1>1. DOMAIN hunks = 1..m /\ \A i \in 1..m : hunks[i] \in HunkRecords
  BY LenProperties, ElementOfSeq
<1>3. PICK h : h = CHOOSE g : g = [t \in SUBSET (1..m) |->
                     IF t = {} THEN << >> ELSE Group(chunks, g[t \ {Max(t)}], hunks[Max(t)])]
  OBVIOUS
<1>4. Groups(chunks, hunks) = h[1..m]
  BY <1>1, <1>3 DEF Groups, FoldLeft, MapThenFoldSet
<1>5. PICK D : D = [q \in V \X (1..m) |-> Group(chunks, q[1], hunks[q[2]])]
  OBVIOUS
<1>6. ASSUME NEW g, Turns(g, V, << >>, m, D)
      PROVE  Unfolds(h, V, << >>, m, D)
  <2>1. g = [t \in SUBSET (1..m) |->
               IF t = {} THEN << >> ELSE Group(chunks, g[t \ {Max(t)}], hunks[Max(t)])]
    BY <1>5, <1>6 DEF Turns
  <2>2. h = [t \in SUBSET (1..m) |->
               IF t = {} THEN << >> ELSE Group(chunks, h[t \ {Max(t)}], hunks[Max(t)])]
    BY <1>3, <2>1
  <2>. QED
    BY <1>5, <1>6, <2>2 DEF Unfolds, Turns
<1>7. D \in [V \X (1..m) -> V]
  <2>1. ASSUME NEW v \in V, NEW k \in 1..m
        PROVE  Group(chunks, v, hunks[k]) \in V
    BY <1>1, GroupNext
  <2>. QED
    BY <1>5, <2>1
<1>8. << >> \in V
  BY EmptySeq
<1>9. RunsTo(h, V, << >>, m, D)
  BY <1>6, <1>7, <1>8, FoldLeftRuns
<1>. QED
  BY <1>4, <1>5, <1>9

\* The groups have the hunks in their order.
LEMMA GroupsAre ==
  ASSUME NEW hunks \in Seq(HunkRecords), NEW chunks
  PROVE  Groups(chunks, hunks) \in Seq(Seq(HunkRecords)) /\ Joined(Groups(chunks, hunks)) = hunks
<1>1. PICK m \in Nat : m = Len(hunks)
  BY LenProperties
<1>2. PICK V, X : V = Seq(Seq(HunkRecords)) /\ X = HunkRecords
  OBVIOUS
<1>3. PICK D : D = [q \in V \X (1..m) |-> Group(chunks, q[1], hunks[q[2]])]
  OBVIOUS
<1>4. PICK h : Groups(chunks, hunks) = h[1..m] /\ RunsTo(h, V, << >>, m, D)
  BY <1>1, <1>2, <1>3, GroupsRuns
<1> DEFINE I == {q \in (0..m) \X V : Joined(q[2]) = Prefix(hunks, q[1])}
<1>5. << 0, << >> >> \in I
  <2>1. Prefix(hunks, 0) = << >> /\ << >> \in V /\ 0 \in 0..m
    BY <1>1, <1>2, PrefixNext, EmptySeq
  <2>. QED
    BY <2>1, JoinedNone
<1>6. ASSUME NEW k \in 1..m, NEW v \in V, << k - 1, v >> \in I
      PROVE  << k, D[<< v, k >>] >> \in I
  <2>1. Joined(v) = Prefix(hunks, k - 1)
    BY <1>6
  <2>2. PICK j \in Nat : j = k - 1 /\ k = j + 1 /\ k <= Len(hunks)
    BY <1>1
  <2>3. hunks[k] \in X /\ Prefix(hunks, k) = Append(Prefix(hunks, j), hunks[k])
    BY <1>2, <2>2, PrefixStep
  <2>4. /\ Group(chunks, v, hunks[k]) \in V
        /\ Joined(Group(chunks, v, hunks[k])) = Append(Joined(v), hunks[k])
    BY <1>2, <2>3, GroupNext
  <2>5. D[<< v, k >>] = Group(chunks, v, hunks[k]) /\ k \in 0..m
    BY <1>3
  <2>. QED
    BY <2>1, <2>2, <2>3, <2>4, <2>5
<1>7. h[1..m] \in V /\ << m, h[1..m] >> \in I
  <2>1. Preserved(I, V, m, D)
    BY <1>6 DEF Preserved
  <2>2. RunsTo(h, V, << >>, m, D)
    BY <1>4
  <2> HIDE DEF I
  <2>. QED
    BY <1>5, <2>1, <2>2, FoldInduction
<1>8. Prefix(hunks, m) = hunks
  BY <1>1, PrefixNext
<1>. QED
  BY <1>2, <1>4, <1>7, <1>8

(***************************************************************************)
(* The pieces: one with the whole file, or one for each group of hunks.    *)
(***************************************************************************)
WholeFile == [hunks |-> Hunks, chunks |-> ContextChunks]
SplitHunks == [h \in DOMAIN Hunks |-> SplitHunk(Hunks[h], HunkLimit(ContextChunks))]
AllGroups == Groups(ContextChunks, Joined(SplitHunks))
PieceList == [p \in DOMAIN SplitTarget |-> SplitTarget[p].hunks]
PieceHunks == Joined(PieceList)
FitsWhole == Rendered(WholeFile) <= MaxChars

LEMMA SplitTargetIs ==
  SplitTarget = IF FitsWhole THEN << WholeFile >>
                ELSE [g \in DOMAIN AllGroups |-> Piece(ContextChunks, AllGroups[g])]
BY DEF SplitTarget, FitsWhole, WholeFile, AllGroups, Groups, SplitHunks, Hunks

LEMMA SplitHunksAre ==
  ASSUME PatchInv
  PROVE  /\ SplitHunks \in Seq(Seq(HunkRecords)) /\ DOMAIN SplitHunks = DOMAIN Hunks
         /\ \A h \in DOMAIN Hunks : Flat(NumberedMap, SplitHunks[h]) = Numbered(Hunks[h])
         /\ Joined(SplitHunks) \in Seq(HunkRecords)
         /\ AllGroups \in Seq(Seq(HunkRecords)) /\ Joined(AllGroups) = Joined(SplitHunks)
<1>1. PICK limit : limit = HunkLimit(ContextChunks)
  OBVIOUS
<1>2. Hunks \in Seq(HunkRecords)
  BY HunksAre
<1>3. ASSUME NEW h \in DOMAIN Hunks
      PROVE  /\ SplitHunk(Hunks[h], limit) \in Seq(HunkRecords)
             /\ Flat(NumberedMap, SplitHunk(Hunks[h], limit)) = Numbered(Hunks[h])
  <2>1. Hunks[h] \in HunkRecords
    BY <1>2
  <2>. QED
    BY <2>1, SplitIs
<1>4. SplitHunks = [h \in DOMAIN Hunks |-> SplitHunk(Hunks[h], limit)]
  BY <1>1 DEF SplitHunks
<1>5. SplitHunks \in Seq(Seq(HunkRecords)) /\ DOMAIN SplitHunks = DOMAIN Hunks
  <2>1. PICK m, X : m \in Nat /\ m = Len(Hunks) /\ DOMAIN Hunks = 1..m /\ X = Seq(HunkRecords)
    BY <1>2, LenProperties
  <2>2. SplitHunks \in [1..m -> X]
    BY <1>3, <1>4, <2>1
  <2>. QED
    BY <1>4, <2>1, <2>2
<1>6. Joined(SplitHunks) \in Seq(HunkRecords)
  BY <1>5, JoinedAppend, EmptySeq
<1>. QED
  BY <1>3, <1>4, <1>5, <1>6, GroupsAre DEF AllGroups

LEMMA PieceListIs ==
  ASSUME PatchInv
  PROVE  /\ PieceList = IF FitsWhole THEN << Hunks >> ELSE AllGroups
         /\ PieceList \in Seq(Seq(HunkRecords))
<1>1. PICK X : X = Seq(HunkRecords)
  OBVIOUS
<1>2. Hunks \in X
  BY <1>1, HunksAre
<1>3. CASE FitsWhole
  <2>1. SplitTarget = << WholeFile >>
    BY <1>3, SplitTargetIs
  <2>2. PieceList = << Hunks >>
    BY <2>1 DEF PieceList, WholeFile
  <2>3. << Hunks >> \in Seq(X)
    BY <1>2
  <2>. QED
    BY <1>1, <1>3, <2>2, <2>3
<1>4. CASE ~FitsWhole
  <2>1. SplitTarget = [g \in DOMAIN AllGroups |-> Piece(ContextChunks, AllGroups[g])]
    BY <1>4, SplitTargetIs
  <2>2. PieceList = [g \in DOMAIN AllGroups |-> AllGroups[g]]
    BY <2>1 DEF PieceList, Piece
  <2>3. AllGroups \in Seq(Seq(HunkRecords))
    BY SplitHunksAre
  <2>4. [g \in DOMAIN AllGroups |-> AllGroups[g]] = AllGroups
    BY <2>3
  <2>. QED
    BY <1>4, <2>2, <2>3, <2>4
<1>. QED
  BY <1>3, <1>4

LEMMA PieceHunksKeep ==
  ASSUME PatchInv
  PROVE  PieceHunks \in Seq(HunkRecords) /\ Flat(NumberedMap, PieceHunks) = Flat(NumberedMap, Hunks)
<1>1. Hunks \in Seq(HunkRecords)
  BY HunksAre
<1>2. CASE FitsWhole
  <2>1. PieceHunks = Hunks
    BY <1>1, <1>2, PieceListIs, JoinedOne DEF PieceHunks
  <2>. QED
    BY <1>1, <2>1
<1>3. CASE ~FitsWhole
  <2>1. PieceHunks = Joined(SplitHunks) /\ Joined(SplitHunks) \in Seq(HunkRecords)
    BY <1>3, PieceListIs, SplitHunksAre DEF PieceHunks
  <2>2. Maps(NumberedMap, HunkRecords, Seq(Pairs)) /\ SplitHunks \in Seq(Seq(HunkRecords))
    BY NumberedMaps, SplitHunksAre
  <2>3. Flat(NumberedMap, Joined(SplitHunks))
          = Joined([h \in DOMAIN SplitHunks |-> Flat(NumberedMap, SplitHunks[h])])
    BY <2>2, FlatJoined
  <2>4. [h \in DOMAIN SplitHunks |-> Flat(NumberedMap, SplitHunks[h])] = MapOf(NumberedMap, Hunks)
    <3>1. \A h \in DOMAIN Hunks : NumberedMap[Hunks[h]] = Numbered(Hunks[h])
      BY <1>1 DEF NumberedMap
    <3>2. DOMAIN SplitHunks = DOMAIN Hunks
          /\ \A h \in DOMAIN Hunks : Flat(NumberedMap, SplitHunks[h]) = Numbered(Hunks[h])
      BY SplitHunksAre
    <3>. QED
      BY <3>1, <3>2 DEF MapOf
  <2>. QED
    BY <2>1, <2>3, <2>4 DEF Flat
<1>. QED
  BY <1>2, <1>3

\* Lines and numbers of hunks, of their numbered lines.
LinesMap == [p \in Pairs |-> p[1]]
NumbersMap == [p \in Pairs |-> p[2]]

LEMMA LinesAndNumbers ==
  ASSUME NEW hunks \in Seq(HunkRecords)
  PROVE  /\ Joined([h \in DOMAIN hunks |-> hunks[h].lines]) = MapOf(LinesMap, Flat(NumberedMap, hunks))
         /\ Joined([h \in DOMAIN hunks |-> Annotated(hunks[h])]) = MapOf(NumbersMap, Flat(NumberedMap, hunks))
<1>1. PICK seqs : seqs = MapOf(NumberedMap, hunks)
  OBVIOUS
<1>2. seqs \in Seq(Seq(Pairs)) /\ DOMAIN seqs = DOMAIN hunks
  <2>1. PICK W : W = Seq(Pairs)
    OBVIOUS
  <2>2. Maps(NumberedMap, HunkRecords, W)
    BY <2>1, NumberedMaps
  <2>3. MapOf(NumberedMap, hunks) \in Seq(W)
    BY <2>2, MapTyped
  <2>. QED
    BY <1>1, <2>1, <2>3 DEF MapOf
<1>3. Maps(LinesMap, Pairs, Lines) /\ Maps(NumbersMap, Pairs, Nat)
  BY DEF Maps, LinesMap, NumbersMap, Pairs
<1>4. ASSUME NEW h \in DOMAIN hunks
      PROVE  MapOf(LinesMap, seqs[h]) = hunks[h].lines /\ MapOf(NumbersMap, seqs[h]) = Annotated(hunks[h])
  <2>1. PICK hunk \in HunkRecords : hunk = hunks[h]
    OBVIOUS
  <2>2. PICK s \in Seq(Lines), t \in Seq(Nat), n \in Nat :
           s = hunk.lines /\ t = Annotated(hunk) /\ n = Len(s) /\ n = Len(t)
    BY AnnotatedTyped DEF HunkRecords
  <2>3. n = Len(s) /\ n = Len(t)
    BY <2>2
  <2>4. DOMAIN s = 1..n /\ DOMAIN t = 1..n /\ (\A i \in 1..n : s[i] \in Lines) /\ (\A i \in 1..n : t[i] \in Nat)
    BY <2>3, LenProperties, ElementOfSeq
  <2>5. seqs[h] = [i \in 1..n |-> << s[i], t[i] >>]
    BY <1>1, <2>1, <2>2, <2>4 DEF MapOf, NumberedMap, Numbered
  <2>6. \A i \in 1..n : LinesMap[<< s[i], t[i] >>] = s[i] /\ NumbersMap[<< s[i], t[i] >>] = t[i]
    BY <2>4 DEF LinesMap, NumbersMap, Pairs
  <2>7. MapOf(LinesMap, seqs[h]) = [i \in 1..n |-> s[i]] /\ MapOf(NumbersMap, seqs[h]) = [i \in 1..n |-> t[i]]
    BY <2>5, <2>6 DEF MapOf
  <2>8. s = [i \in 1..n |-> s[i]] /\ t = [i \in 1..n |-> t[i]]
    BY <2>4
  <2>. QED
    BY <2>1, <2>2, <2>7, <2>8
<1>5. Joined([h \in DOMAIN seqs |-> MapOf(LinesMap, seqs[h])]) = MapOf(LinesMap, Joined(seqs))
  BY <1>2, <1>3, MapJoined
<1>6. Joined([h \in DOMAIN seqs |-> MapOf(NumbersMap, seqs[h])]) = MapOf(NumbersMap, Joined(seqs))
  BY <1>2, <1>3, MapJoined
<1>7. /\ [h \in DOMAIN seqs |-> MapOf(LinesMap, seqs[h])] = [h \in DOMAIN hunks |-> hunks[h].lines]
      /\ [h \in DOMAIN seqs |-> MapOf(NumbersMap, seqs[h])] = [h \in DOMAIN hunks |-> Annotated(hunks[h])]
  BY <1>2, <1>4
<1>. QED
  BY <1>1, <1>5, <1>6, <1>7 DEF Flat

\* For every patch git can write the pieces of a file have all lines of its
\* patch, in their order, each with the number it has in the patch, which is
\* that of the new file in a hunk whose lines hold no other line boundary.
THEOREM NumbersAlwaysSurvive == PiecesSpec => []NumbersSurviveSplit
<1>1. PatchInv => NumbersSurviveSplit
  <2>. SUFFICES ASSUME PatchInv PROVE NumbersSurviveSplit
    OBVIOUS
  <2>1. PieceHunks \in Seq(HunkRecords) /\ Flat(NumberedMap, PieceHunks) = Flat(NumberedMap, Hunks)
    BY PieceHunksKeep
  <2>2. Hunks \in Seq(HunkRecords)
    BY HunksAre
  <2>3. /\ Joined([h \in DOMAIN PieceHunks |-> PieceHunks[h].lines]) = Joined([h \in DOMAIN Hunks |-> Hunks[h].lines])
        /\ Joined([h \in DOMAIN PieceHunks |-> Annotated(PieceHunks[h])]) = Joined([h \in DOMAIN Hunks |-> Annotated(Hunks[h])])
    BY <2>1, <2>2, LinesAndNumbers
  <2>4. \A h \in DOMAIN patch : OneLineEach(patch[h]) => Annotated(Hunks[h]) = at[h]
    <3>1. \A h \in DOMAIN patch : OneLineEach(patch[h]) => Hunks[h] = patch[h]
      BY HunksAre
    <3>2. \A h \in DOMAIN patch : at[h] = Annotated(patch[h])
      BY AtIs
    <3>. QED
      BY <3>1, <3>2
  <2>. QED
    BY <2>3, <2>4 DEF NumbersSurviveSplit, PieceHunks, PieceList, Hunks
<1>. QED
  BY <1>1, PatchAlways, PTL

(***************************************************************************)
(* Added lines.                                                            *)
(***************************************************************************)
LEMMA CountedIs ==
  ASSUME NEW lines, NEW n, NEW i \in Nat, \A k \in 1..i : lines[k].kind \in {"add", "del", "keep"}
  PROVE  Cardinality({k \in 1..i : Counted(lines[k])}) = NewAmong(lines, i)
<1>1. ASSUME NEW k \in 1..i
      PROVE  Counted(lines[k]) <=> IsNew(lines[k])
  <2>1. lines[k].kind \in {"add", "del", "keep"}
    OBVIOUS
  <2>. QED
    BY <2>1 DEF Counted, IsNew
<1>2. {k \in 1..i : Counted(lines[k])} = {k \in 1..i : IsNew(lines[k])}
  BY <1>1
<1>. QED
  BY <1>2 DEF NewAmong

LEMMA ChangedInIs ==
  ASSUME NEW hunk \in HunkRecords,
         \A i \in DOMAIN hunk.lines : hunk.lines[i].kind \in {"add", "del", "keep"}
  PROVE  ChangedIn(hunk) = {Annotated(hunk)[i] : i \in {k \in DOMAIN hunk.lines : hunk.lines[k].kind = "add"}}
<1>1. PICK ls \in Seq(Lines), n \in Nat : ls = hunk.lines /\ n = Len(ls) /\ DOMAIN ls = 1..n
  BY LenProperties DEF HunkRecords
<1>2. ASSUME NEW i \in {k \in DOMAIN hunk.lines : hunk.lines[k].kind = "add"}
      PROVE  Annotated(hunk)[i] = hunk.new + Cardinality({k \in 1..(i - 1) : Counted(hunk.lines[k])})
  <2>1. i \in 1..n /\ hunk.lines[i].kind = "add"
    BY <1>1, <1>2
  <2>2. PICK j \in Nat : j = i - 1 /\ \A k \in 1..j : k \in DOMAIN hunk.lines
    BY <1>1, <2>1
  <2>3. \A k \in 1..j : hunk.lines[k].kind \in {"add", "del", "keep"}
    BY <2>2
  <2>4. Cardinality({k \in 1..j : Counted(hunk.lines[k])}) = NewAmong(hunk.lines, j)
    BY <2>3, CountedIs
  <2>5. IsNew(hunk.lines[i])
    BY <2>1 DEF IsNew
  <2>. QED
    BY <1>1, <2>1, <2>2, <2>4, <2>5 DEF Annotated
<1>. QED
  BY <1>2 DEF ChangedIn

LEMMA ChangedIsAdded ==
  ASSUME PatchInv, Plain
  PROVE  ChangedLines(patch) = AddedLines
<1>1. patch \in Seq(HunkRecords)
  BY PatchTyped
<1>2. DOMAIN at = DOMAIN patch /\ \A h \in DOMAIN patch : at[h] = Annotated(patch[h])
  BY AtIs
<1>3. ASSUME NEW h \in DOMAIN patch
      PROVE  ChangedIn(patch[h]) =
               {at[h][i] : i \in {k \in DOMAIN at[h] : patch[h].lines[k].kind \in {"add", "addPlus"}}}
  <2>1. PICK hunk \in HunkRecords : hunk = patch[h] /\ at[h] = Annotated(hunk)
    BY <1>1, <1>2
  <2>2. \A i \in DOMAIN hunk.lines : hunk.lines[i].kind \in {"add", "del", "keep"}
    BY <2>1 DEF Plain
  <2>3. ChangedIn(hunk) = {Annotated(hunk)[i] : i \in {k \in DOMAIN hunk.lines : hunk.lines[k].kind = "add"}}
    BY <2>2, ChangedInIs
  <2>4. DOMAIN at[h] = DOMAIN hunk.lines
    BY <2>1 DEF Annotated
  <2>5. {k \in DOMAIN hunk.lines : hunk.lines[k].kind = "add"}
          = {k \in DOMAIN at[h] : patch[h].lines[k].kind \in {"add", "addPlus"}}
    BY <2>1, <2>2, <2>4
  <2>. QED
    BY <2>1, <2>3, <2>5
<1>4. ReadHunks(patch) = patch
  <2>1. \A h \in DOMAIN patch : OneLineEach(patch[h])
    BY DEF Plain
  <2>. QED
    BY <2>1, HunksSame DEF Hunks
<1>. QED
  BY <1>2, <1>3, <1>4 DEF ChangedLines, AddedLines, Range

LEMMA AddedInFile ==
  ASSUME PatchInv
  PROVE  AddedLines \subseteq 1..FileLines
<1>1. SUFFICES ASSUME NEW h \in DOMAIN at, NEW i \in DOMAIN at[h],
                      patch[h].lines[i].kind \in {"add", "addPlus"}
               PROVE  at[h][i] \in 1..FileLines
  BY DEF AddedLines
<1>2. at[h] \in Seq(0..FileLines)
  BY DEF PatchInv, PiecesTypeOK
<1>3. at[h][i] \in 0..FileLines
  <2>1. PICK s, X : s \in Seq(0..FileLines) /\ s = at[h] /\ X = 0..FileLines
    BY <1>2
  <2>2. i \in 1..Len(s)
    BY <2>1, LenProperties
  <2>3. s \in Seq(X)
    BY <2>1
  <2>4. s[i] \in X
    BY <2>2, <2>3, ElementOfSeq
  <2>. QED
    BY <2>1, <2>4
<1>4. DOMAIN at = DOMAIN patch /\ at[h] = Annotated(patch[h])
  BY AtIs
<1>5. patch[h] \in GitHunks
  <2>1. patch \in Seq(GitHunks)
    BY DEF PatchInv, PiecesTypeOK, GitHunks
  <2>. QED
    BY <1>4, <2>1
<1>6. patch[h].new \in 1..FileLines
  BY <1>5 DEF GitHunks
<1>7. i \in 1..Len(patch[h].lines) /\ i \in DOMAIN patch[h].lines
  <2>1. i \in DOMAIN patch[h].lines
    BY <1>4 DEF Annotated
  <2>2. PICK ls \in Seq(Lines) : ls = patch[h].lines
    BY <1>5 DEF GitHunks
  <2>. QED
    BY <2>1, <2>2, LenProperties
<1>8. NewAmong(patch[h].lines, i - 1) \in Nat
  <2>1. PICK j \in Nat : j = i - 1
    BY <1>7
  <2>2. NewAmong(patch[h].lines, j) \in 0..j
    BY NewAmongNext
  <2>. QED
    BY <2>1, <2>2
<1>9. at[h][i] = patch[h].new + NewAmong(patch[h].lines, i - 1)
  <2>1. IsNew(patch[h].lines[i])
    BY <1>1 DEF IsNew
  <2>. QED
    BY <1>4, <1>7, <2>1 DEF Annotated
<1>. QED
  BY <1>3, <1>6, <1>8, <1>9, PieceConstants

(***************************************************************************)
(* The code around a line.                                                 *)
(***************************************************************************)
LEMMA NodesAre ==
  ASSUME PatchInv, NEW node \in tree
  PROVE  /\ node.top \in 1..FileLines /\ node.first \in 1..FileLines /\ node.last \in 1..FileLines
         /\ node.top <= node.first /\ node.first <= node.last
<1>1. tree \in Trees
  BY DEF PatchInv, PiecesTypeOK
<1>. QED
  BY <1>1, FileAssumption

LEMMA InnermostIs ==
  ASSUME PatchInv, NEW nodes, nodes \subseteq tree, nodes # {}
  PROVE  Innermost(nodes) \in nodes
<1>1. \A node \in nodes : node.last - node.first \in Nat
  <2>1. \A node \in nodes : node.first \in 1..FileLines /\ node.last \in 1..FileLines /\ node.first <= node.last
    BY NodesAre
  <2>2. FileLines \in Nat
    BY PieceConstants
  <2>. QED
    BY <2>1, <2>2
<1>2. PICK S : S = {node.last - node.first : node \in nodes}
  OBVIOUS
<1>3. S \subseteq Nat /\ S # {}
  BY <1>1, <1>2
<1>4. PICK m \in S : \A i \in S : m <= i
  BY <1>3, LeastNat
<1>5. \E node \in nodes : \A other \in nodes : node.last - node.first <= other.last - other.first
  BY <1>2, <1>4
<1>. QED
  BY <1>5 DEF Innermost

LEMMA WindowIs ==
  ASSUME NEW line \in 1..FileLines
  PROVE  /\ Window(line).first \in Nat /\ Window(line).last \in Nat
         /\ Window(line).first <= line /\ line <= Window(line).last
         /\ Window(line).first = Max({1, line - Radius})
<1>1. FileLines \in Nat /\ Radius \in Nat /\ line \in Nat
  BY PieceConstants
<1>2. line - Radius \in Int /\ line + Radius \in Int
  BY <1>1
<1>3. Max({1, line - Radius}) = IF 1 >= line - Radius THEN 1 ELSE line - Radius
  <2>1. PICK x \in Int, y \in Int : x = 1 /\ y = line - Radius
    BY <1>2
  <2>2. Max({x, y}) = IF x >= y THEN x ELSE y
    BY MinOfTwo
  <2>. QED
    BY <2>1, <2>2
<1>4. Min({FileLines, line + Radius}) = IF FileLines <= line + Radius THEN FileLines ELSE line + Radius
  <2>1. PICK x \in Int, y \in Int : x = FileLines /\ y = line + Radius
    BY <1>1, <1>2
  <2>2. Min({x, y}) = IF x <= y THEN x ELSE y
    BY MinOfTwo
  <2>. QED
    BY <2>1, <2>2
<1>5. Max({1, line - Radius}) \in Nat /\ Max({1, line - Radius}) <= line
  BY <1>1, <1>3
<1>6. Min({FileLines, line + Radius}) \in Nat /\ line <= Min({FileLines, line + Radius})
  BY <1>1, <1>4
<1>. QED
  BY <1>5, <1>6 DEF Window

\* The least first line of a window around a line up to k.
FirstOfWindow(k) == Max({1, k - Radius})

LEMMA FirstGrows ==
  ASSUME NEW j \in Nat
  PROVE  /\ FirstOfWindow(j) \in Nat /\ FirstOfWindow(j + 1) \in Nat
         /\ FirstOfWindow(j) <= FirstOfWindow(j + 1)
<1>1. Radius \in Nat
  BY PieceConstants
<1>2. j - Radius \in Int /\ (j + 1) - Radius \in Int
  BY <1>1
<1>3. FirstOfWindow(j) = IF 1 >= j - Radius THEN 1 ELSE j - Radius
  <2>1. PICK x \in Int, y \in Int : x = 1 /\ y = j - Radius
    BY <1>2
  <2>2. Max({x, y}) = IF x >= y THEN x ELSE y
    BY MinOfTwo
  <2>. QED
    BY <2>1, <2>2 DEF FirstOfWindow
<1>4. FirstOfWindow(j + 1) = IF 1 >= (j + 1) - Radius THEN 1 ELSE (j + 1) - Radius
  <2>1. PICK x \in Int, y \in Int : x = 1 /\ y = (j + 1) - Radius
    BY <1>2
  <2>2. Max({x, y}) = IF x >= y THEN x ELSE y
    BY MinOfTwo
  <2>. QED
    BY <2>1, <2>2 DEF FirstOfWindow
<1>. QED
  BY <1>1, <1>3, <1>4

\* Ranges of lines, and a line in one of a list of ranges.
Ranges == [first : Nat, last : Nat]
Within(line, range) == range.first <= line /\ line <= range.last
Covered(windows, line) == \E i \in 1..Len(windows) : Within(line, windows[i])

\* The last of the windows begins no later than w.
Begins(windows, w) == windows # << >> => windows[Len(windows)].first <= w.first

\* The windows around the lines up to k.
WindowsTo(windows, lines, k) ==
  /\ windows # << >> => windows[Len(windows)].first <= FirstOfWindow(k)
  /\ \A line \in lines : line <= k => Covered(windows, line)

LEMMA JoinWindowIs ==
  ASSUME NEW windows \in Seq(Ranges), NEW w \in Ranges
  PROVE  /\ JoinWindow(windows, w) \in Seq(Ranges) /\ JoinWindow(windows, w) # << >>
         /\ Begins(windows, w) =>
              /\ Begins(JoinWindow(windows, w), w)
              /\ \A line \in Nat :
                   Covered(windows, line) \/ Within(line, w) => Covered(JoinWindow(windows, w), line)
<1>1. PICK n \in Nat : n = Len(windows) /\ DOMAIN windows = 1..n
  BY LenProperties
<1>2. w.first \in Nat /\ w.last \in Nat
  BY DEF Ranges
<1>3. PICK out : out = JoinWindow(windows, w)
  OBVIOUS
<1>4. \A i \in 1..n : windows[i] \in Ranges /\ windows[i].first \in Nat /\ windows[i].last \in Nat
  <2>1. \A i \in 1..n : windows[i] \in Ranges
    BY <1>1, ElementOfSeq
  <2>2. \A q \in Ranges : q.first \in Nat /\ q.last \in Nat
    BY DEF Ranges
  <2>. QED
    BY <2>1, <2>2
<1>5. CASE n > 0 /\ w.first <= windows[n].last + 1
  <2>1. PICK end : end = Max({windows[n].last, w.last})
    OBVIOUS
  <2>2. n \in 1..n
    BY <1>5
  <2>3. end \in Nat /\ windows[n].last <= end /\ w.last <= end
    <3>1. windows[n].last \in Nat
      BY <1>4, <2>2
    <3>2. end = IF windows[n].last >= w.last THEN windows[n].last ELSE w.last
      <4>1. PICK x \in Int, y \in Int : x = windows[n].last /\ y = w.last
        BY <1>2, <3>1
      <4>2. Max({x, y}) = IF x >= y THEN x ELSE y
        BY MinOfTwo
      <4>. QED
        BY <2>1, <4>1, <4>2
    <3>. QED
      BY <1>2, <3>1, <3>2
  <2>4. PICK r \in Ranges : r = [windows[n] EXCEPT !.last = end]
                            /\ r.first = windows[n].first /\ r.last = end
    <3>1. PICK q \in Ranges : q = windows[n]
      BY <1>4, <2>2
    <3>2. PICK r : r = [q EXCEPT !.last = end]
      OBVIOUS
    <3>3. r \in Ranges /\ r.first = q.first /\ r.last = end
      BY <2>3, <3>2 DEF Ranges
    <3>. QED
      BY <3>1, <3>2, <3>3
  <2>5. out = [windows EXCEPT ![n] = r]
    BY <1>1, <1>3, <1>5, <2>1, <2>4 DEF JoinWindow
  <2>6. out \in Seq(Ranges) /\ Len(out) = n /\ out # << >>
    <3>1. PICK v : v = [windows EXCEPT ![n] = r]
      OBVIOUS
    <3>2. v \in Seq(Ranges) /\ Len(v) = Len(windows)
      BY <1>1, <2>2, <3>1, ExceptSeq
    <3>. QED
      BY <1>1, <1>5, <2>5, <3>1, <3>2
  <2>7. out[n] = r /\ \A i \in 1..n : i # n => out[i] = windows[i]
    BY <1>1, <2>2, <2>5
  <2>8. Begins(windows, w) => windows[n].first <= w.first
    <3>1. windows # << >>
      BY <1>1, <2>2
    <3>. QED
      BY <1>1, <3>1 DEF Begins
  <2>9. ASSUME Begins(windows, w), NEW line \in Nat, Within(line, w) \/ Within(line, windows[n])
        PROVE  Within(line, out[n])
    <3>1. windows[n].first \in Nat /\ windows[n].last \in Nat /\ windows[n].first <= w.first
      BY <1>4, <2>2, <2>8, <2>9
    <3>2. CASE Within(line, w)
      BY <1>2, <2>3, <2>4, <2>7, <3>1, <3>2 DEF Within
    <3>3. CASE Within(line, windows[n])
      BY <2>3, <2>4, <2>7, <3>1, <3>3 DEF Within
    <3>. QED
      BY <2>9, <3>2, <3>3
  <2>10. ASSUME Begins(windows, w), NEW line \in Nat, Covered(windows, line) \/ Within(line, w)
         PROVE  Covered(out, line)
    <3>1. CASE Within(line, w)
      BY <2>2, <2>6, <2>9, <2>10, <3>1 DEF Covered
    <3>2. CASE Covered(windows, line)
      <4>1. PICK i \in 1..n : Within(line, windows[i])
        BY <1>1, <3>2 DEF Covered
      <4>2. CASE i = n
        BY <2>2, <2>6, <2>9, <2>10, <4>1, <4>2 DEF Covered
      <4>3. CASE i # n
        BY <2>6, <2>7, <4>1, <4>3 DEF Covered
      <4>. QED
        BY <4>2, <4>3
    <3>. QED
      BY <2>10, <3>1, <3>2
  <2>11. Begins(windows, w) => Begins(out, w)
    BY <2>4, <2>6, <2>7, <2>8 DEF Begins
  <2>. QED
    BY <1>3, <2>6, <2>10, <2>11
<1>6. CASE ~(n > 0 /\ w.first <= windows[n].last + 1)
  <2>1. out = Append(windows, w)
    BY <1>1, <1>3, <1>6 DEF JoinWindow
  <2>2. /\ out \in Seq(Ranges) /\ Len(out) = n + 1 /\ out[n + 1] = w
        /\ \A i \in 1..n : out[i] = windows[i]
    BY <1>1, <2>1, AppendProperties
  <2>3. ASSUME NEW line \in Nat, Covered(windows, line) \/ Within(line, w)
        PROVE  Covered(out, line)
    <3>0. n + 1 \in 1..(n + 1) /\ \A i \in 1..n : i \in 1..(n + 1)
      OBVIOUS
    <3>1. CASE Within(line, w)
      BY <2>2, <3>0, <3>1 DEF Covered
    <3>2. CASE Covered(windows, line)
      BY <1>1, <2>2, <3>0, <3>2 DEF Covered
    <3>. QED
      BY <2>3, <3>1, <3>2
  <2>4. out # << >> /\ Begins(out, w)
    BY <1>2, <2>2 DEF Begins
  <2>. QED
    BY <1>3, <2>2, <2>3, <2>4
<1>. QED
  BY <1>5, <1>6

LEMMA AddWindowKeeps ==
  ASSUME NEW lines, lines \subseteq 1..FileLines, NEW k \in Nat, NEW windows \in Seq(Ranges),
         WindowsTo(windows, lines, k), k + 1 <= FileLines
  PROVE  /\ AddWindow(lines, windows, k + 1) \in Seq(Ranges)
         /\ WindowsTo(AddWindow(lines, windows, k + 1), lines, k + 1)
<1>1. PICK out : out = AddWindow(lines, windows, k + 1)
  OBVIOUS
<1>2. FileLines \in Nat /\ \A line \in lines : line \in Nat
  BY PieceConstants
<1>3. /\ FirstOfWindow(k) \in Nat /\ FirstOfWindow(k + 1) \in Nat
      /\ FirstOfWindow(k) <= FirstOfWindow(k + 1)
  BY FirstGrows
<1>4. windows # << >> => windows[Len(windows)].first \in Nat
  <2>1. windows # << >> => windows[Len(windows)] \in Ranges
    BY LenProperties, ElementOfSeq
  <2>. QED
    BY <2>1 DEF Ranges
<1>5. windows # << >> => windows[Len(windows)].first <= FirstOfWindow(k + 1)
  BY <1>3, <1>4 DEF WindowsTo
<1>6. CASE k + 1 \in lines
  <2>1. PICK w \in Ranges : /\ w = Window(k + 1) /\ w.first = FirstOfWindow(k + 1)
                            /\ Within(k + 1, w)
    <3>1. k + 1 \in 1..FileLines
      BY <1>6
    <3>2. Window(k + 1) \in Ranges
      BY <3>1, WindowIs DEF Ranges, Window
    <3>. QED
      BY <3>1, <3>2, WindowIs DEF FirstOfWindow, Within
  <2>2. out = JoinWindow(windows, w)
    BY <1>1, <1>6, <2>1 DEF AddWindow
  <2>0. Begins(windows, w)
    BY <1>5, <2>1 DEF Begins
  <2>3. /\ out \in Seq(Ranges) /\ out # << >> /\ Begins(out, w)
        /\ \A line \in Nat : Covered(windows, line) \/ Within(line, w) => Covered(out, line)
    BY <2>0, <2>2, JoinWindowIs
  <2>4. ASSUME NEW line \in lines, line <= k + 1
        PROVE  Covered(out, line)
    <3>1. CASE line = k + 1
      BY <1>2, <2>1, <2>3, <3>1
    <3>2. CASE line # k + 1
      <4>1. line <= k
        BY <1>2, <2>4, <3>2
      <4>2. Covered(windows, line)
        BY <4>1 DEF WindowsTo
      <4>3. line \in Nat
        BY <1>2
      <4>. QED
        BY <2>3, <4>2, <4>3
    <3>. QED
      BY <3>1, <3>2
  <2>. QED
    BY <1>1, <2>1, <2>3, <2>4 DEF WindowsTo, Begins
<1>7. CASE k + 1 \notin lines
  <2>1. out = windows
    BY <1>1, <1>7 DEF AddWindow
  <2>2. \A line \in lines : line <= k + 1 => line <= k
    BY <1>2, <1>7
  <2>. QED
    BY <1>1, <1>5, <2>1, <2>2 DEF WindowsTo
<1>. QED
  BY <1>6, <1>7

LEMMA WindowsRun ==
  ASSUME NEW lines, NEW m \in Nat, NEW V, << >> \in V,
         \A u \in V, k \in 1..m : AddWindow(lines, u, k) \in V
  PROVE  \E h : /\ m = Max({1} \cup lines) => Windows(lines) = ToSet(h[1..m])
                /\ RunsTo(h, V, << >>, m, [q \in V \X (1..m) |-> AddWindow(lines, q[1], q[2])])
<1>1. PICK order : order = [i \in 1..m |-> i]
  OBVIOUS
<1>2. PICK h : h = CHOOSE g : g = [t \in SUBSET (1..m) |->
                     IF t = {} THEN << >> ELSE AddWindow(lines, g[t \ {Max(t)}], order[Max(t)])]
  OBVIOUS
<1>3. m = Max({1} \cup lines) => Windows(lines) = ToSet(h[1..m])
  <2>1. order \in Seq(Nat) /\ Len(order) = m
    BY <1>1
  <2>2. FoldLeft(LAMBDA windows, line : AddWindow(lines, windows, line), << >>, order) = h[1..m]
    BY <1>1, <1>2, <2>1 DEF FoldLeft, MapThenFoldSet
  <2>. QED
    BY <1>1, <2>2 DEF Windows
<1>4. PICK D : D = [q \in V \X (1..m) |-> AddWindow(lines, q[1], order[q[2]])]
  OBVIOUS
<1>5. ASSUME NEW g, Turns(g, V, << >>, m, D)
      PROVE  Unfolds(h, V, << >>, m, D)
  <2>1. g = [t \in SUBSET (1..m) |->
               IF t = {} THEN << >> ELSE AddWindow(lines, g[t \ {Max(t)}], order[Max(t)])]
    BY <1>4, <1>5 DEF Turns
  <2>2. h = [t \in SUBSET (1..m) |->
               IF t = {} THEN << >> ELSE AddWindow(lines, h[t \ {Max(t)}], order[Max(t)])]
    BY <1>2, <2>1
  <2>. QED
    BY <1>4, <1>5, <2>2 DEF Unfolds, Turns
<1>6. D = [q \in V \X (1..m) |-> AddWindow(lines, q[1], q[2])]
  BY <1>1, <1>4
<1>7. D \in [V \X (1..m) -> V]
  BY <1>6
<1>8. RunsTo(h, V, << >>, m, D)
  BY <1>5, <1>7, FoldLeftRuns
<1>. QED
  BY <1>3, <1>6, <1>8

\* A line in a set of lines is in one of its windows.
LEMMA WindowsCover ==
  ASSUME NEW lines, lines \subseteq 1..FileLines, NEW v \in lines
  PROVE  \E c \in Windows(lines) : c \in Ranges /\ c.first <= v /\ v <= c.last
<1>1. PICK m \in Nat : m = Max({1} \cup lines) /\ v <= m /\ m <= FileLines
  <2>1. {1} \cup lines \in SUBSET (1..FileLines) /\ FileLines \in Nat /\ {1} \cup lines # {}
    BY PieceConstants
  <2>2. PICK S : S = {1} \cup lines
    OBVIOUS
  <2>3. Max(S) \in S /\ \A i \in S : i <= Max(S)
    BY <2>1, <2>2, MaxOfNats
  <2>4. v \in S /\ \A i \in S : i \in Nat /\ i <= FileLines
    BY <2>1, <2>2
  <2>. QED
    BY <2>2, <2>3, <2>4
<1>2. PICK V, D : V = Seq(Ranges) /\ D = [q \in V \X (1..m) |-> AddWindow(lines, q[1], q[2])]
  OBVIOUS
<1>7. \A k \in 1..m : k \in 1..FileLines
  BY <1>1, PieceConstants
<1>8. \A u \in V, k \in 1..m : AddWindow(lines, u, k) \in V
  <2>1. ASSUME NEW u \in V, NEW k \in 1..m
        PROVE  AddWindow(lines, u, k) \in V
    <3>1. Window(k) \in Ranges
      BY <1>7, WindowIs DEF Ranges, Window
    <3>. QED
      BY <1>2, <3>1, JoinWindowIs DEF AddWindow
  <2>. QED
    BY <2>1
<1>9. << >> \in V
  BY <1>2, EmptySeq
<1>10. PICK h : Windows(lines) = ToSet(h[1..m]) /\ RunsTo(h, V, << >>, m, D)
  BY <1>1, <1>2, <1>8, <1>9, WindowsRun
<1> DEFINE I == {q \in (0..m) \X V : WindowsTo(q[2], lines, q[1])}
<1>11. << 0, << >> >> \in I
  <2>1. \A line \in lines : ~(line <= 0)
    BY PieceConstants
  <2>2. WindowsTo(<< >>, lines, 0) /\ 0 \in 0..m
    BY <2>1 DEF WindowsTo
  <2>. QED
    BY <1>9, <2>2
<1>12. ASSUME NEW k \in 1..m, NEW u \in V, << k - 1, u >> \in I
       PROVE  << k, D[<< u, k >>] >> \in I
  <2>1. PICK j \in Nat : j = k - 1 /\ k = j + 1 /\ j + 1 <= FileLines
    BY <1>7
  <2>2. WindowsTo(u, lines, j)
    BY <1>12, <2>1
  <2>3. AddWindow(lines, u, j + 1) \in Seq(Ranges) /\ WindowsTo(AddWindow(lines, u, j + 1), lines, j + 1)
    BY <1>2, <2>1, <2>2, AddWindowKeeps
  <2>4. D[<< u, k >>] = AddWindow(lines, u, k) /\ k \in 0..m
    BY <1>2
  <2>. QED
    BY <1>2, <2>1, <2>3, <2>4
<1>13. h[1..m] \in V /\ << m, h[1..m] >> \in I
  <2>1. Preserved(I, V, m, D)
    BY <1>12 DEF Preserved
  <2> HIDE DEF I
  <2>. QED
    BY <1>10, <1>11, <2>1, FoldInduction
<1>14. PICK out \in Seq(Ranges) : out = h[1..m] /\ WindowsTo(out, lines, m)
  BY <1>2, <1>13
<1>15. PICK i \in 1..Len(out) : Within(v, out[i])
  BY <1>1, <1>14 DEF WindowsTo, Covered
<1>16. out[i] \in Ranges /\ out[i] \in ToSet(out)
  <2>1. i \in DOMAIN out
    BY LenProperties
  <2>. QED
    BY <2>1, ElementOfSeq DEF ToSet
<1>. QED
  BY <1>10, <1>14, <1>15, <1>16 DEF Within

LEMMA ContextIs ==
  ContextChunks = {[first |-> node.top, last |-> node.last] : node \in Nodes(ChangedLines(patch))}
                    \cup {window \in Outside(ChangedLines(patch)) :
                            ~Seen(Nodes(ChangedLines(patch)), window)}
BY DEF ContextChunks

\* Every added line for which there is code is in some code around changed lines.
LEMMA ContextCovers ==
  ASSUME PatchInv, Plain, NEW v \in AddedLines, HasContext(v)
  PROVE  \E c \in ContextChunks : c.first \in Nat /\ c.last \in Nat /\ c.first <= v /\ v <= c.last
<1>1. PICK changed : changed = ChangedLines(patch) /\ v \in changed /\ changed \subseteq 1..FileLines
  BY ChangedIsAdded, AddedInFile
<1>2. PICK inside : inside = Enclosed(changed)
  OBVIOUS
<1>3. PICK nodes : nodes = Nodes(changed) /\ nodes = {Innermost(Enclosing(line)) : line \in inside}
  BY <1>2 DEF Nodes
<1>4. ContextChunks = {[first |-> node.top, last |-> node.last] : node \in nodes}
                        \cup {window \in Outside(changed) : ~Seen(nodes, window)}
  BY <1>1, <1>3, ContextIs
<1>5. CASE v \in inside
  <2>1. Enclosing(v) \subseteq tree /\ Enclosing(v) # {}
    BY <1>2, <1>5 DEF Enclosing, Enclosed
  <2>2. PICK node : node = Innermost(Enclosing(v)) /\ node \in Enclosing(v)
    BY <2>1, InnermostIs
  <2>3. node \in tree /\ node.first <= v /\ v <= node.last
    BY <2>2 DEF Enclosing
  <2>4. /\ node.top \in 1..FileLines /\ node.first \in 1..FileLines /\ node.last \in 1..FileLines
        /\ node.top <= node.first
    BY <2>3, NodesAre
  <2>5. PICK c : c = [first |-> node.top, last |-> node.last]
    OBVIOUS
  <2>6. c \in ContextChunks
    BY <1>3, <1>4, <1>5, <2>2, <2>5
  <2>7. c.first = node.top /\ c.last = node.last
    BY <2>5
  <2>8. v \in Nat /\ FileLines \in Nat
    BY <1>1, PieceConstants
  <2>. QED
    BY <2>3, <2>4, <2>6, <2>7, <2>8
<1>6. CASE v \notin inside
  <2>1. PICK outside : outside = changed \ inside /\ v \in outside /\ outside \subseteq 1..FileLines
    BY <1>1, <1>6
  <2>2. PICK c \in Windows(outside) : c \in Ranges /\ c.first <= v /\ v <= c.last
    BY <2>1, WindowsCover
  <2>3. c.first \in Nat /\ c.last \in Nat
    BY <2>2 DEF Ranges
  <2>4. /\ textual
        /\ \A window \in Outside(changed) :
             window.first <= v /\ v <= window.last => ~Seen(nodes, window)
    BY <1>1, <1>2, <1>3, <1>6 DEF HasContext
  <2>5. c \in Outside(changed)
    BY <1>2, <2>1, <2>2, <2>4 DEF Outside
  <2>6. ~Seen(nodes, c)
    BY <2>2, <2>4, <2>5
  <2>7. c \in ContextChunks
    BY <1>4, <2>5, <2>6
  <2>. QED
    BY <2>2, <2>3, <2>7
<1>. QED
  BY <1>5, <1>6

(***************************************************************************)
(* The lines of a piece.                                                   *)
(***************************************************************************)
\* A line of a hunk is one of the lines its piece is about.
LEMMA LineInRange ==
  ASSUME NEW hunks \in Seq(HunkRecords), NEW h \in DOMAIN hunks,
         NEW i \in DOMAIN hunks[h].lines, IsNew(hunks[h].lines[i])
  PROVE  /\ FirstLine(hunks) \in Nat /\ LastLine(hunks) \in Nat
         /\ FirstLine(hunks) <= Annotated(hunks[h])[i] /\ Annotated(hunks[h])[i] <= LastLine(hunks)
<1>1. PICK n \in Nat : n = Len(hunks) /\ DOMAIN hunks = 1..n /\ h \in 1..n /\ n > 0
  BY LenProperties
<1>2. \A j \in 1..n : hunks[j] \in HunkRecords
  BY <1>1, ElementOfSeq
<1>3. ASSUME NEW j \in 1..n
      PROVE  /\ hunks[j].new \in Nat /\ NewCount(hunks[j].lines) \in Nat
             /\ Max({NewCount(hunks[j].lines), 1}) \in Nat
             /\ Max({NewCount(hunks[j].lines), 1}) >= 1
             /\ Max({NewCount(hunks[j].lines), 1}) >= NewCount(hunks[j].lines)
  <2>1. PICK hunk \in HunkRecords : hunk = hunks[j]
    BY <1>2
  <2>2. hunk.new \in Nat /\ \E m \in Nat : m = Len(hunk.lines)
    BY LenProperties DEF HunkRecords
  <2>3. NewCount(hunk.lines) \in Nat
    <3>1. PICK m \in Nat : m = Len(hunk.lines)
      BY <2>2
    <3>2. NewAmong(hunk.lines, m) \in 0..m
      BY NewAmongNext
    <3>. QED
      BY <3>1, <3>2 DEF NewCount
  <2>4. PICK x \in Int, y \in Int : x = NewCount(hunk.lines) /\ y = 1
    BY <2>3
  <2>5. Max({x, y}) = IF x >= y THEN x ELSE y
    BY MinOfTwo
  <2>. QED
    BY <2>1, <2>2, <2>3, <2>4, <2>5
<1>4. PICK f : f = [j \in 1..n |-> hunks[j].new]
  OBVIOUS
<1>5. PICK g : g = [j \in 1..n |-> hunks[j].new + Max({NewCount(hunks[j].lines), 1}) - 1]
  OBVIOUS
<1>6. /\ FirstLine(hunks) \in Nat /\ FirstLine(hunks) <= f[h]
  <2>1. {hunks[j].new : j \in DOMAIN hunks} = Values(f, n)
    BY <1>1, <1>4 DEF Values
  <2>2. \A j \in 1..n : f[j] \in Nat
    BY <1>3, <1>4
  <2>3. Min(Values(f, n)) \in Nat /\ \A j \in 1..n : Min(Values(f, n)) <= f[j]
    BY <1>1, <2>2, ValuesMaxMin
  <2>. QED
    BY <1>1, <2>1, <2>3 DEF FirstLine
<1>7. /\ LastLine(hunks) \in Nat /\ g[h] <= LastLine(hunks)
  <2>1. {hunks[j].new + Max({NewCount(hunks[j].lines), 1}) - 1 : j \in DOMAIN hunks} = Values(g, n)
    BY <1>1, <1>5 DEF Values
  <2>2. \A j \in 1..n : g[j] \in Nat
    BY <1>3, <1>5
  <2>3. Max(Values(g, n)) \in Nat /\ \A j \in 1..n : g[j] <= Max(Values(g, n))
    BY <1>1, <2>2, ValuesMaxMin
  <2>. QED
    BY <1>1, <2>1, <2>3 DEF LastLine
<1>8. PICK hunk \in HunkRecords, m \in Nat : hunk = hunks[h] /\ m = Len(hunk.lines) /\ DOMAIN hunk.lines = 1..m
  <2>1. PICK hunk \in HunkRecords : hunk = hunks[h]
    BY <1>1, <1>2
  <2>2. hunk.lines \in Seq(Lines)
    BY DEF HunkRecords
  <2>. QED
    BY <2>1, <2>2, LenProperties
<1>9. PICK j \in Nat : j = i - 1 /\ i = j + 1 /\ i \in 0..m
  BY <1>8
<1>10. NewAmong(hunk.lines, j) \in Nat /\ NewAmong(hunk.lines, j) + 1 <= NewCount(hunk.lines)
  <2>1. NewAmong(hunk.lines, j) \in 0..j
    BY NewAmongNext
  <2>2. NewAmong(hunk.lines, j + 1) = NewAmong(hunk.lines, j) + 1
    BY <1>8, <1>9, NewAmongNext
  <2>3. NewAmong(hunk.lines, i) <= NewAmong(hunk.lines, m)
    BY <1>9, NewAmongGrows
  <2>. QED
    BY <1>8, <1>9, <2>1, <2>2, <2>3 DEF NewCount
<1>11. Annotated(hunks[h])[i] = hunk.new + NewAmong(hunk.lines, j)
  BY <1>8, <1>9 DEF Annotated
<1>12. f[h] = hunk.new /\ g[h] = hunk.new + Max({NewCount(hunk.lines), 1}) - 1
  BY <1>1, <1>4, <1>5, <1>8
<1>13. PICK a, c, t, x, v : /\ a = hunk.new /\ c = NewAmong(hunk.lines, j) /\ t = NewCount(hunk.lines)
                           /\ x = Max({NewCount(hunk.lines), 1}) /\ v = Annotated(hunks[h])[i]
  OBVIOUS
<1>14. a \in Nat /\ c \in Nat /\ t \in Nat /\ x \in Nat /\ c + 1 <= t /\ t <= x /\ v = a + c
  BY <1>1, <1>3, <1>8, <1>10, <1>11, <1>13
<1>15. f[h] = a /\ g[h] = a + x - 1
  BY <1>12, <1>13
<1>16. f[h] <= v /\ v <= g[h]
  BY <1>14, <1>15
<1>17. f[h] \in Nat /\ g[h] \in Nat /\ v \in Nat
  BY <1>14, <1>15
<1>. QED
  BY <1>6, <1>7, <1>13, <1>16, <1>17

\* The numbered lines of hunks are those of each.
LEMMA FlatPairs ==
  ASSUME NEW hunks \in Seq(HunkRecords)
  PROVE  Range(Flat(NumberedMap, hunks)) = UNION {Range(Numbered(hunks[h])) : h \in DOMAIN hunks}
<1>0. PICK n \in Nat : n = Len(hunks) /\ DOMAIN hunks = 1..n
  BY LenProperties
<1>1. PICK seqs : seqs = MapOf(NumberedMap, hunks) /\ n = Len(hunks) /\ DOMAIN hunks = 1..n
  BY <1>0
<1>2. seqs \in Seq(Seq(Pairs)) /\ Len(seqs) = n
  <2>1. PICK W : W = Seq(Pairs)
    OBVIOUS
  <2>2. Maps(NumberedMap, HunkRecords, W)
    BY <2>1, NumberedMaps
  <2>3. MapOf(NumberedMap, hunks) \in Seq(W) /\ Len(MapOf(NumberedMap, hunks)) = Len(hunks)
    BY <2>2, MapTyped
  <2>. QED
    BY <1>1, <2>1, <2>3
<1>3. \A h \in 1..n : seqs[h] = Numbered(hunks[h])
  <2>1. \A h \in 1..n : hunks[h] \in HunkRecords
    BY <1>1, ElementOfSeq
  <2>. QED
    BY <1>1, <2>1 DEF MapOf, NumberedMap
<1>4. JoinOf(Joined(seqs), Pairs, seqs, Len(seqs), Apart(seqs))
  BY <1>2, JoinedIs
<1>5. Range(Joined(seqs)) = InLists(seqs, n)
  BY <1>2, <1>4 DEF JoinOf
<1>. QED
  BY <1>1, <1>3, <1>5 DEF Flat, InLists

\* Every line that a piece shows as added is one that the patch adds.
LEMMA PieceNumbersAdded ==
  ASSUME PatchInv, Plain, NEW hunk \in Range(PieceHunks), NEW i \in DOMAIN hunk.lines, hunk.lines[i].kind = "add"
  PROVE  Annotated(hunk)[i] \in AddedLines
<1>1. PieceHunks \in Seq(HunkRecords) /\ Flat(NumberedMap, PieceHunks) = Flat(NumberedMap, patch)
  <2>1. Hunks = patch
    BY HunksSame DEF Plain
  <2>. QED
    BY <2>1, PieceHunksKeep
<1>2. patch \in Seq(HunkRecords)
  BY PatchTyped
<1>3. PICK p : p = << hunk.lines[i], Annotated(hunk)[i] >>
  OBVIOUS
<1>4. p \in Range(Flat(NumberedMap, PieceHunks))
  <2>1. PICK h \in DOMAIN PieceHunks : hunk = PieceHunks[h]
    BY DEF Range
  <2>2. Numbered(hunk)[i] = p /\ i \in DOMAIN Numbered(hunk)
    BY <1>3 DEF Numbered
  <2>3. p \in Range(Numbered(PieceHunks[h]))
    BY <2>1, <2>2 DEF Range
  <2>. QED
    BY <1>1, <2>3, FlatPairs
<1>5. p \in UNION {Range(Numbered(patch[h])) : h \in DOMAIN patch}
  BY <1>1, <1>2, <1>4, FlatPairs
<1>6. PICK h \in DOMAIN patch : p \in Range(Numbered(patch[h]))
  BY <1>5
<1>7. PICK k \in DOMAIN Numbered(patch[h]) : p = Numbered(patch[h])[k]
  BY <1>6 DEF Range
<1>8. k \in DOMAIN patch[h].lines /\ p = << patch[h].lines[k], Annotated(patch[h])[k] >>
  BY <1>7 DEF Numbered
<1>9. patch[h].lines[k].kind = "add" /\ Annotated(hunk)[i] = Annotated(patch[h])[k]
  BY <1>3, <1>8
<1>10. DOMAIN at = DOMAIN patch /\ at[h] = Annotated(patch[h])
  BY AtIs
<1>11. DOMAIN at[h] = DOMAIN patch[h].lines
  BY <1>10 DEF Annotated
<1>. QED
  BY <1>8, <1>9, <1>10, <1>11 DEF AddedLines

LEMMA PieceShape ==
  ASSUME PatchInv, NEW piece \in Range(SplitTarget)
  PROVE  /\ piece.hunks \in Seq(HunkRecords) /\ Range(piece.hunks) \subseteq Range(PieceHunks)
         /\ piece.chunks \in {ContextChunks, ChunksFor(ContextChunks, piece.hunks)}
<1>1. PICK p \in DOMAIN SplitTarget : piece = SplitTarget[p]
  BY DEF Range
<1>2. PieceList \in Seq(Seq(HunkRecords)) /\ p \in DOMAIN PieceList /\ PieceList[p] = piece.hunks
  BY <1>1, PieceListIs DEF PieceList
<1>3. PICK n \in Nat : n = Len(PieceList) /\ DOMAIN PieceList = 1..n /\ p \in 1..n
  BY <1>2, LenProperties
<1>4. PieceList[p] \in Seq(HunkRecords)
  BY <1>2, <1>3, ElementOfSeq
<1>5. JoinOf(Joined(PieceList), HunkRecords, PieceList, Len(PieceList), Apart(PieceList))
  BY <1>2, JoinedIs
<1>6. Range(PieceHunks) = InLists(PieceList, n)
  BY <1>3, <1>5 DEF JoinOf, PieceHunks
<1>7. Range(PieceList[p]) \subseteq Range(PieceHunks)
  BY <1>3, <1>6 DEF InLists
<1>8. piece.chunks \in {ContextChunks, ChunksFor(ContextChunks, piece.hunks)}
  <2>1. CASE FitsWhole
    <3>1. SplitTarget = << WholeFile >>
      BY <2>1, SplitTargetIs
    <3>2. piece = WholeFile
      BY <1>1, <3>1
    <3>. QED
      BY <3>2 DEF WholeFile
  <2>2. CASE ~FitsWhole
    <3>1. SplitTarget = [g \in DOMAIN AllGroups |-> Piece(ContextChunks, AllGroups[g])]
      BY <2>2, SplitTargetIs
    <3>2. piece = Piece(ContextChunks, AllGroups[p])
      BY <1>1, <3>1
    <3>. QED
      BY <3>2 DEF Piece
  <2>. QED
    BY <2>1, <2>2
<1>. QED
  BY <1>2, <1>4, <1>7, <1>8

\* For every patch git can write whose lines are plain, and every syntax tree of
\* its file, the code around every added line for which there is code is in the
\* piece that shows the line as added.
THEOREM AddedAlwaysHasContext == PiecesSpec => []AddedHasContext
<1>1. PatchInv => AddedHasContext
  <2>. SUFFICES ASSUME PatchInv, Complete, Plain
                PROVE  /\ ChangedLines(patch) = AddedLines
                       /\ \A piece \in Range(SplitTarget) : \A hunk \in Range(piece.hunks) :
                            \A i \in DOMAIN Annotated(hunk) :
                              hunk.lines[i].kind = "add" /\ HasContext(Annotated(hunk)[i]) =>
                                \E c \in piece.chunks : c.first <= Annotated(hunk)[i] /\ Annotated(hunk)[i] <= c.last
    BY DEF AddedHasContext
  <2>1. ChangedLines(patch) = AddedLines
    BY ChangedIsAdded
  <2>2. ASSUME NEW piece \in Range(SplitTarget), NEW hunk \in Range(piece.hunks),
               NEW i \in DOMAIN Annotated(hunk), hunk.lines[i].kind = "add", HasContext(Annotated(hunk)[i])
        PROVE  \E c \in piece.chunks : c.first <= Annotated(hunk)[i] /\ Annotated(hunk)[i] <= c.last
    <3>1. PICK hunks \in Seq(HunkRecords) : hunks = piece.hunks /\ Range(hunks) \subseteq Range(PieceHunks)
      BY PieceShape
    <3>2. i \in DOMAIN hunk.lines /\ IsNew(hunk.lines[i])
      BY <2>2 DEF Annotated, IsNew
    <3>3. PICK v \in AddedLines : v = Annotated(hunk)[i]
      BY <2>2, <3>1, <3>2, PieceNumbersAdded
    <3>4. PICK c \in ContextChunks : c.first \in Nat /\ c.last \in Nat /\ c.first <= v /\ v <= c.last
      BY <2>2, <3>3, ContextCovers
    <3>5. CASE piece.chunks = ContextChunks
      BY <3>3, <3>4, <3>5
    <3>6. CASE piece.chunks = ChunksFor(ContextChunks, hunks)
      <4>1. PICK h \in DOMAIN hunks : hunk = hunks[h]
        BY <3>1 DEF Range
      <4>2. /\ FirstLine(hunks) \in Nat /\ LastLine(hunks) \in Nat
            /\ FirstLine(hunks) <= v /\ v <= LastLine(hunks)
        BY <3>2, <3>3, <4>1, LineInRange
      <4>3. v \in Nat
        BY <3>3, AddedInFile, PieceConstants
      <4>4. c.first <= LastLine(hunks) /\ c.last >= FirstLine(hunks)
        BY <3>4, <4>2, <4>3
      <4>5. c \in ChunksFor(ContextChunks, hunks)
        BY <4>4 DEF ChunksFor
      <4>. QED
        BY <3>3, <3>4, <3>6, <4>5
    <3>. QED
      BY <3>1, <3>5, <3>6, PieceShape
  <2>. QED
    BY <2>1, <2>2
<1>. QED
  BY <1>1, PatchAlways, PTL

(***************************************************************************)
(* Lengths.                                                                *)
(***************************************************************************)
LengthMap == [line \in Lines |-> line.chars + 1]

LEMMA LineCharsTyped == \A line \in Lines : line.chars \in Nat
<1>1. LineLengths \cup {NoNewlineLength} \subseteq Nat
  BY PieceConstants DEF NoNewlineLength
<1>2. \A line \in Lines : line.chars \in LineLengths \cup {NoNewlineLength}
  BY DEF Lines
<1>. QED
  BY <1>1, <1>2

LEMMA LengthMaps == Maps(LengthMap, Lines, Nat)
<1>1. \A line \in Lines : line.chars \in Nat
  BY LineCharsTyped
<1>2. \A line \in Lines : line.chars + 1 \in Nat
  BY <1>1
<1>. QED
  BY <1>2 DEF Maps, LengthMap

LEMMA LinesLengthIs ==
  ASSUME NEW ls \in Seq(Lines)
  PROVE  LinesLength(ls) = Total(MapOf(LengthMap, ls))
<1>1. \A i \in DOMAIN ls : LengthMap[ls[i]] = ls[i].chars + 1
  BY DEF LengthMap
<1>. QED
  BY <1>1 DEF LinesLength, MapOf

LEMMA LinesLengthNext ==
  ASSUME NEW ls \in Seq(Lines), NEW line \in Lines
  PROVE  /\ LinesLength(ls) \in Nat /\ LinesLength(Append(ls, line)) \in Nat
         /\ LinesLength(Append(ls, line)) >= LinesLength(ls) + 1
<1>1. PICK s \in Seq(Nat), y \in Nat :
         /\ s = MapOf(LengthMap, ls) /\ y = LengthMap[line]
         /\ MapOf(LengthMap, Append(ls, line)) = Append(s, y)
  BY LengthMaps, MapAppended
<1>2. y >= 1
  <2>1. line.chars \in Nat
    BY LineCharsTyped
  <2>. QED
    BY <1>1, <2>1 DEF LengthMap
<1>3. Total(s) \in Nat /\ Total(Append(s, y)) = Total(s) + y
  BY TotalAppend
<1>4. Append(ls, line) \in Seq(Lines)
  BY AppendProperties
<1>5. LinesLength(ls) = Total(s) /\ LinesLength(Append(ls, line)) = Total(Append(s, y))
  BY <1>1, <1>4, LinesLengthIs
<1>. QED
  BY <1>2, <1>3, <1>5

\* Every line has a length, that of its end at least.
LEMMA LinesLengthAtLeast ==
  ASSUME NEW ls \in Seq(Lines)
  PROVE  LinesLength(ls) \in Nat /\ Len(ls) <= LinesLength(ls)
<1> DEFINE P == {s \in Seq(Lines) : LinesLength(s) \in Nat /\ Len(s) <= LinesLength(s)}
<1>1. << >> \in P
  <2>1. PICK e \in Seq(Lines) : e = << >>
    BY EmptySeq
  <2>2. MapOf(LengthMap, e) = << >>
    BY <2>1 DEF MapOf
  <2>3. LinesLength(e) = 0
    BY <2>1, <2>2, LinesLengthIs, TotalNone
  <2>. QED
    BY <2>1, <2>3
<1>2. ASSUME NEW s \in Seq(Lines), NEW x \in Lines, s \in P
      PROVE  Append(s, x) \in P
  <2>1. PICK n \in Nat : n = Len(s)
    BY LenProperties
  <2>2. Append(s, x) \in Seq(Lines) /\ Len(Append(s, x)) = n + 1
    BY <2>1, Appended
  <2>3. /\ LinesLength(s) \in Nat /\ LinesLength(Append(s, x)) \in Nat
        /\ LinesLength(Append(s, x)) >= LinesLength(s) + 1
    BY LinesLengthNext
  <2>4. n <= LinesLength(s)
    BY <1>2, <2>1
  <2>. QED
    BY <2>2, <2>3, <2>4
<1>3. ls \in P
  <2> HIDE DEF P
  <2>. QED
    BY <1>1, <1>2, SeqSetInduction
<1>. QED
  BY <1>3

(***************************************************************************)
(* Pieces of a hunk are short.                                             *)
(***************************************************************************)
\* A piece is as long as it may be, or cannot be cut.
Short(piece, limit) ==
  \/ LinesLength(piece.lines) <= limit
  \/ Len(piece.lines) = 1
  \/ piece.lines[Len(piece.lines)].kind = "noNewline"

SoundPiece(piece, hunk, limit) ==
  piece.header = hunk.header /\ piece.lines # << >> /\ Short(piece, limit)

AllWhole(pieces, hunk, limit) == \A i \in DOMAIN pieces : SoundPiece(pieces[i], hunk, limit)

\* The pieces of the first k lines of a hunk.
ShortTo(pieces, hunk, limit, k) ==
  \E s \in Seq(HunkRecords), last \in HunkRecords :
    /\ pieces = Append(s, last) /\ AllWhole(s, hunk, limit)
    /\ last.header = hunk.header
    /\ k > 0 => SoundPiece(last, hunk, limit)
    /\ last.lines # << >> => SoundPiece(last, hunk, limit)

LEMMA AllWholeNext ==
  ASSUME NEW s \in Seq(HunkRecords), NEW x \in HunkRecords, NEW hunk, NEW limit,
         AllWhole(s, hunk, limit), SoundPiece(x, hunk, limit)
  PROVE  AllWhole(Append(s, x), hunk, limit)
<1>1. PICK n \in Nat : n = Len(s) /\ DOMAIN s = 1..n
  BY LenProperties
<1>2. PICK t : /\ t = Append(s, x) /\ DOMAIN t = 1..(n + 1) /\ t[n + 1] = x
               /\ \A i \in 1..n : t[i] = s[i]
  <2>1. PICK X : X = HunkRecords
    OBVIOUS
  <2>2. s \in Seq(X) /\ x \in X
    BY <2>1
  <2>3. /\ DOMAIN Append(s, x) = 1..(n + 1) /\ Append(s, x)[n + 1] = x
        /\ \A i \in 1..n : Append(s, x)[i] = s[i]
    BY <1>1, <2>2, Appended
  <2>. QED
    BY <2>3
<1>3. \A i \in 1..(n + 1) : i \in 1..n \/ i = n + 1
  OBVIOUS
<1>4. \A i \in 1..n : SoundPiece(s[i], hunk, limit)
  BY <1>1 DEF AllWhole
<1>5. \A i \in 1..(n + 1) : SoundPiece(t[i], hunk, limit)
  BY <1>2, <1>3, <1>4
<1>. QED
  BY <1>2, <1>5 DEF AllWhole

LEMMA ShortNext ==
  ASSUME NEW hunk \in HunkRecords, NEW limit \in Int, NEW k \in Nat, NEW line \in Lines, NEW pieces,
         ShortTo(pieces, hunk, limit, k)
  PROVE  ShortTo(PutLine(pieces, line, limit), hunk, limit, k + 1)
<1>1. PICK s \in Seq(HunkRecords), last \in HunkRecords :
         /\ pieces = Append(s, last) /\ AllWhole(s, hunk, limit)
         /\ last.header = hunk.header
         /\ last.lines # << >> => SoundPiece(last, hunk, limit)
  BY DEF ShortTo
<1>2. PICK r \in Seq(HunkRecords), q \in HunkRecords :
         /\ Puts(r, q, s, last, line, limit)
         /\ PutLine(Append(s, last), line, limit) = Append(r, Longer(q, line))
  BY PutLineIs
<1>3. PICK more \in HunkRecords :
         more = Longer(q, line) /\ more.header = q.header /\ more.lines = Append(q.lines, line)
  BY LongerIs
<1>4. PICK ls \in Seq(Lines), n \in Nat : ls = q.lines /\ n = Len(ls)
  BY LenProperties DEF HunkRecords
<1>5. more.lines = Append(ls, line) /\ Len(more.lines) = n + 1 /\ more.lines[n + 1] = line
      /\ more.lines # << >>
  <2>1. Len(Append(ls, line)) = n + 1 /\ Append(ls, line)[n + 1] = line /\ Append(ls, line) \in Seq(Lines)
    BY <1>4, Appended
  <2>2. Append(ls, line) # << >>
    BY AppendProperties
  <2>. QED
    BY <1>3, <1>4, <2>1, <2>2
<1>6. ls = << >> => Len(more.lines) = 1
  BY <1>4, <1>5
<1>7. CASE r = s /\ q = last /\ ~Cuts(last, line, limit)
  <2>1. \/ ls = << >> \/ line.kind = "noNewline" \/ ~(LinesLength(Append(ls, line)) > limit)
    BY <1>4, <1>7 DEF Cuts
  <2>2. LinesLength(Append(ls, line)) \in Nat
    BY LinesLengthNext
  <2>3. Short(more, limit)
    BY <1>5, <1>6, <2>1, <2>2 DEF Short
  <2>4. SoundPiece(more, hunk, limit)
    BY <1>1, <1>3, <1>5, <1>7, <2>3 DEF SoundPiece
  <2>. QED
    BY <1>1, <1>2, <1>3, <1>7, <2>4 DEF ShortTo, SoundPiece
<1>8. CASE r = Append(s, last) /\ q = Fresh(last) /\ Cuts(last, line, limit)
  <2>1. q.header = last.header /\ q.lines = << >>
    BY <1>8, FreshIs
  <2>2. SoundPiece(more, hunk, limit)
    BY <1>1, <1>3, <1>4, <1>5, <1>6, <2>1 DEF SoundPiece, Short
  <2>3. SoundPiece(last, hunk, limit)
    BY <1>1, <1>8 DEF Cuts
  <2>4. AllWhole(r, hunk, limit)
    BY <1>1, <1>8, <2>3, AllWholeNext
  <2>. QED
    BY <1>1, <1>2, <1>3, <2>2, <2>4 DEF ShortTo, SoundPiece
<1>. QED
  BY <1>2, <1>7, <1>8 DEF Puts

\* The pieces of a hunk that is cut are as long as they may be, or cannot be cut.
LEMMA CutIsShort ==
  ASSUME NEW hunk \in HunkRecords, NEW limit \in Int, hunk.lines # << >>
  PROVE  AllWhole(CutPieces(hunk, limit), hunk, limit)
<1>1. PICK m \in Nat : m = Len(hunk.lines) /\ m > 0
  <2>1. PICK ls \in Seq(Lines) : ls = hunk.lines /\ ls # << >>
    BY DEF HunkRecords
  <2>. QED
    BY <2>1, LenProperties
<1>2. PICK V : V = PieceLists
  OBVIOUS
<1>3. PICK D : D = [q \in V \X (1..m) |-> PutLine(q[1], hunk.lines[q[2]], limit)]
  OBVIOUS
<1>4. PICK h, b : /\ b = << [hunk EXCEPT !.lines = << >>] >> /\ b \in V
                  /\ CutPieces(hunk, limit) = h[1..m] /\ RunsTo(h, V, b, m, D)
  BY <1>1, <1>2, <1>3, CutRuns
<1> DEFINE I == {q \in (0..m) \X V : ShortTo(q[2], hunk, limit, q[1])}
<1>5. << 0, b >> \in I
  <2>1. PICK e \in HunkRecords : e = [hunk EXCEPT !.lines = << >>] /\ e.lines = << >> /\ e.header = hunk.header
    BY Emptied
  <2>2. PICK none \in Seq(HunkRecords) : none = << >>
    BY EmptySeq
  <2>3. b = Append(none, e) /\ AllWhole(none, hunk, limit)
    BY <1>4, <2>1, <2>2 DEF AllWhole
  <2>4. ShortTo(b, hunk, limit, 0)
    <3>1. ~(0 > 0) /\ ~(e.lines # << >>)
      BY <2>1
    <3>. QED
      BY <2>1, <2>2, <2>3, <3>1 DEF ShortTo
  <2>5. 0 \in 0..m
    OBVIOUS
  <2>. QED
    BY <1>4, <2>4, <2>5
<1>6. ASSUME NEW k \in 1..m, NEW v \in V, << k - 1, v >> \in I
      PROVE  << k, D[<< v, k >>] >> \in I
  <2>1. PICK j \in Nat : j = k - 1 /\ k = j + 1
    OBVIOUS
  <2>2. ShortTo(v, hunk, limit, j)
    BY <1>6, <2>1
  <2>3. PICK line \in Lines : line = hunk.lines[k]
    <3>1. PICK ls \in Seq(Lines) : ls = hunk.lines /\ k \in 1..Len(ls)
      BY <1>1 DEF HunkRecords
    <3>. QED
      BY <3>1, ElementOfSeq
  <2>4. ShortTo(PutLine(v, line, limit), hunk, limit, j + 1)
    BY <2>2, ShortNext
  <2>5. PutLine(v, line, limit) \in V /\ k \in 0..m
    BY <1>2, PutLineTyped
  <2>6. D[<< v, k >>] = PutLine(v, line, limit)
    BY <1>3, <2>3
  <2>. QED
    BY <2>1, <2>4, <2>5, <2>6
<1>7. h[1..m] \in V /\ << m, h[1..m] >> \in I
  <2>1. Preserved(I, V, m, D)
    BY <1>6 DEF Preserved
  <2>2. RunsTo(h, V, b, m, D)
    BY <1>4
  <2> HIDE DEF I
  <2>. QED
    BY <1>5, <2>1, <2>2, FoldInduction
<1>8. PICK s \in Seq(HunkRecords), last \in HunkRecords :
         /\ CutPieces(hunk, limit) = Append(s, last) /\ AllWhole(s, hunk, limit) /\ SoundPiece(last, hunk, limit)
  BY <1>1, <1>4, <1>7 DEF ShortTo
<1>. QED
  BY <1>8, AllWholeNext

\* A piece of a hunk fits its limit or cannot be cut.
FitsLimit(hunk, maxChars) ==
  \/ HunkLength(hunk) <= maxChars
  \/ Len(hunk.lines) = 1
  \/ hunk.lines[Len(hunk.lines)].kind = "noNewline"

LEMMA SplitFits ==
  ASSUME NEW hunk \in HunkRecords, hunk.lines # << >>, hunk.header <= Reserve, NEW maxChars \in Int
  PROVE  \A i \in DOMAIN SplitHunk(hunk, maxChars) : FitsLimit(SplitHunk(hunk, maxChars)[i], maxChars)
<1>1. CASE HunkLength(hunk) <= maxChars
  BY <1>1 DEF SplitHunk, FitsLimit
<1>2. CASE ~(HunkLength(hunk) <= maxChars)
  <2>0. Reserve \in Nat /\ hunk.header \in Nat
    BY PieceConstants DEF HunkRecords
  <2>1. PICK limit : limit = Max({maxChars - Reserve, 1})
    OBVIOUS
  <2>2. limit = IF maxChars - Reserve >= 1 THEN maxChars - Reserve ELSE 1
    <3>1. PICK x \in Int, y \in Int : x = maxChars - Reserve /\ y = 1
      BY <2>0
    <3>2. Max({x, y}) = IF x >= y THEN x ELSE y
      BY MinOfTwo
    <3>. QED
      BY <2>1, <3>1, <3>2
  <2>3. limit \in Int
    BY <2>0, <2>2
  <2>4. PICK pieces \in Seq(HunkRecords) : pieces = CutPieces(hunk, limit)
    BY CutIs
  <2>5. SplitHunk(hunk, maxChars) = pieces
    <3>1. SplitHunk(hunk, maxChars) = CutPieces(hunk, Max({maxChars - Reserve, 1}))
      BY <1>2 DEF SplitHunk, CutPieces
    <3>. QED
      BY <2>1, <2>4, <3>1
  <2>6. ASSUME NEW i \in DOMAIN pieces
        PROVE  FitsLimit(pieces[i], maxChars)
    <3>1. PICK q : q = pieces[i] /\ q \in HunkRecords
      BY LenProperties, ElementOfSeq
    <3>2. SoundPiece(q, hunk, limit)
      BY <2>3, <2>4, <3>1, CutIsShort DEF AllWhole
    <3>3. PICK ls \in Seq(Lines) : ls = q.lines /\ ls # << >>
      BY <3>1, <3>2 DEF HunkRecords, SoundPiece
    <3>4. PICK n \in Nat, size \in Nat : n = Len(ls) /\ size = LinesLength(ls) /\ n <= size /\ n > 0
      BY <3>3, LinesLengthAtLeast, LenProperties
    <3>5. HunkLength(q) = hunk.header + size
      BY <3>2, <3>3, <3>4 DEF HunkLength, SoundPiece
    <3>6. CASE size <= limit
      <4>1. CASE maxChars - Reserve >= 1
        <5>1. PICK x \in Nat, y \in Nat : x = hunk.header /\ y = Reserve /\ x <= y
          BY <2>0
        <5>2. limit = maxChars - y
          BY <2>2, <4>1, <5>1
        <5>3. x + size <= maxChars
          BY <3>6, <5>1, <5>2
        <5>. QED
          BY <3>1, <3>5, <5>1, <5>3 DEF FitsLimit
      <4>2. CASE ~(maxChars - Reserve >= 1)
        <5>1. limit = 1
          BY <2>2, <4>2
        <5>2. n = 1
          BY <3>4, <3>6, <5>1
        <5>3. Len(q.lines) = 1
          BY <3>3, <3>4, <5>2
        <5>. QED
          BY <3>1, <5>3 DEF FitsLimit
      <4>. QED
        BY <4>1, <4>2
    <3>7. CASE ~(size <= limit)
      <4>1. \/ LinesLength(q.lines) <= limit \/ Len(q.lines) = 1
            \/ q.lines[Len(q.lines)].kind = "noNewline"
        BY <3>2 DEF SoundPiece, Short
      <4>2. ~(LinesLength(q.lines) <= limit)
        BY <3>3, <3>4, <3>7
      <4>. QED
        BY <3>1, <4>1, <4>2 DEF FitsLimit
    <3>. QED
      BY <3>1, <3>6, <3>7
  <2>. QED
    BY <2>5, <2>6
<1>. QED
  BY <1>1, <1>2

(***************************************************************************)
(* The code around changed lines ends where the file ends.                 *)
(***************************************************************************)
FileRanges == [first : Nat, last : 0..FileLines]

LEMMA WindowInFile ==
  ASSUME NEW line \in Nat
  PROVE  Window(line) \in FileRanges
<1>1. FileLines \in Nat /\ Radius \in Nat /\ line - Radius \in Int /\ line + Radius \in Nat
  BY PieceConstants
<1>2. Max({1, line - Radius}) \in Nat
  <2>1. PICK x \in Int, y \in Int : x = 1 /\ y = line - Radius
    BY <1>1
  <2>2. Max({x, y}) = IF x >= y THEN x ELSE y
    BY MinOfTwo
  <2>. QED
    BY <2>1, <2>2
<1>3. Min({FileLines, line + Radius}) \in 0..FileLines
  <2>1. PICK x \in Nat, y \in Nat : x = FileLines /\ y = line + Radius
    BY <1>1
  <2>2. Min({x, y}) = IF x <= y THEN x ELSE y
    BY MinOfTwo
  <2>. QED
    BY <2>1, <2>2
<1>. QED
  BY <1>2, <1>3 DEF Window, FileRanges

LEMMA JoinInFile ==
  ASSUME NEW windows \in Seq(FileRanges), NEW w \in FileRanges
  PROVE  JoinWindow(windows, w) \in Seq(FileRanges)
<1>1. PICK n \in Nat : n = Len(windows)
  BY LenProperties
<1>2. CASE n > 0 /\ w.first <= windows[n].last + 1
  <2>1. PICK q \in FileRanges : q = windows[n]
    BY <1>1, <1>2, ElementOfSeq
  <2>2. PICK end : end = Max({q.last, w.last})
    OBVIOUS
  <2>3. end \in 0..FileLines
    <3>1. q.last \in 0..FileLines /\ w.last \in 0..FileLines
      BY DEF FileRanges
    <3>2. PICK x \in Int, y \in Int : x = q.last /\ y = w.last
      BY <3>1
    <3>3. Max({x, y}) = IF x >= y THEN x ELSE y
      BY MinOfTwo
    <3>. QED
      BY <2>2, <3>1, <3>2, <3>3
  <2>4. PICK r \in FileRanges : r = [q EXCEPT !.last = end]
    BY <2>3 DEF FileRanges
  <2>5. JoinWindow(windows, w) = [windows EXCEPT ![n] = r]
    BY <1>1, <1>2, <2>1, <2>2, <2>4 DEF JoinWindow
  <2>6. PICK v : v = [windows EXCEPT ![n] = r]
    OBVIOUS
  <2>7. n \in 1..Len(windows)
    BY <1>1, <1>2
  <2>8. v \in Seq(FileRanges)
    BY <2>6, <2>7, ExceptSeq
  <2>. QED
    BY <2>5, <2>6, <2>8
<1>3. CASE ~(n > 0 /\ w.first <= windows[n].last + 1)
  <2>1. JoinWindow(windows, w) = Append(windows, w)
    BY <1>1, <1>3 DEF JoinWindow
  <2>. QED
    BY <2>1, AppendProperties
<1>. QED
  BY <1>2, <1>3

LEMMA WindowsInFile ==
  ASSUME NEW lines, lines \subseteq Nat, NEW bound \in Nat, \A line \in lines : line <= bound
  PROVE  Windows(lines) \subseteq FileRanges
<1>1. PICK m \in Nat : m = Max({1} \cup lines)
  <2>2. PICK S, b : S = {1} \cup lines /\ b = bound + 1
    OBVIOUS
  <2>1. b \in Nat /\ S \subseteq 0..b /\ S # {}
    BY <2>2
  <2>3. \E x \in S : \A y \in S : x >= y
    BY <2>1, <2>2, GreatestNat
  <2>4. Max(S) \in S
    BY <2>3 DEF Max
  <2>5. PICK x : x = Max(S) /\ x \in S
    BY <2>4
  <2>6. x \in Nat
    BY <2>1, <2>5
  <2>. QED
    BY <2>2, <2>5, <2>6
<1>2. PICK V, D : V = Seq(FileRanges) /\ D = [q \in V \X (1..m) |-> AddWindow(lines, q[1], q[2])]
  OBVIOUS
<1>3. \A u \in V, k \in 1..m : AddWindow(lines, u, k) \in V
  <2>1. ASSUME NEW u \in V, NEW k \in 1..m
        PROVE  AddWindow(lines, u, k) \in V
    <3>1. Window(k) \in FileRanges
      BY WindowInFile
    <3>. QED
      BY <1>2, <3>1, JoinInFile DEF AddWindow
  <2>. QED
    BY <2>1
<1>4. << >> \in V
  BY <1>2, EmptySeq
<1>5. PICK h : Windows(lines) = ToSet(h[1..m]) /\ RunsTo(h, V, << >>, m, D)
  BY <1>1, <1>2, <1>3, <1>4, WindowsRun
<1>6. h[1..m] \in V
  <2>1. PICK a : IsRun(a, V, << >>, m, D) /\ a[m] = h[1..m]
    BY <1>5 DEF RunsTo
  <2>. QED
    BY <2>1 DEF IsRun
<1>7. PICK out \in Seq(FileRanges) : Windows(lines) = ToSet(out)
  BY <1>2, <1>5, <1>6
<1>8. \A i \in DOMAIN out : out[i] \in FileRanges
  BY LenProperties, ElementOfSeq
<1>. QED
  BY <1>7, <1>8 DEF ToSet

\* The lines that count as changed are finitely many.
LEMMA ChangedBounded ==
  ASSUME PatchInv
  PROVE  ChangedLines(patch) \subseteq Nat /\ \E b \in Nat : \A line \in ChangedLines(patch) : line <= b
<1>1. Hunks \in Seq(HunkRecords)
  BY HunksAre
<1>2. PICK n \in Nat : n = Len(Hunks) /\ DOMAIN Hunks = 1..n
  BY <1>1, LenProperties
<1>3. PICK f : f = [h \in 1..n |-> Hunks[h].new + Len(Hunks[h].lines)]
  OBVIOUS
<1>4. ASSUME NEW h \in 1..n
      PROVE  f[h] \in Nat /\ \A line \in ChangedIn(Hunks[h]) : line \in Nat /\ line <= f[h]
  <2>1. PICK hunk \in HunkRecords : hunk = Hunks[h]
    BY <1>1, <1>2, ElementOfSeq
  <2>2. PICK a \in Nat, m \in Nat : a = hunk.new /\ m = Len(hunk.lines) /\ DOMAIN hunk.lines = 1..m
    BY LenProperties DEF HunkRecords
  <2>3. f[h] = a + m
    BY <1>3, <2>1, <2>2
  <2>4. ASSUME NEW i \in 1..m
        PROVE  /\ hunk.new + Cardinality({k \in 1..(i - 1) : Counted(hunk.lines[k])}) \in Nat
               /\ hunk.new + Cardinality({k \in 1..(i - 1) : Counted(hunk.lines[k])}) <= a + m
    <3>1. PICK j \in Nat : j = i - 1 /\ j <= m
      BY <2>4
    <3>2. IsFiniteSet(1..j) /\ Cardinality(1..j) = j
      BY <3>1, FS_Interval
    <3>3. PICK T : T = {k \in 1..j : Counted(hunk.lines[k])} /\ T \in SUBSET (1..j)
      OBVIOUS
    <3>4. IsFiniteSet(T) /\ Cardinality(T) <= Cardinality(1..j)
      BY <3>2, <3>3, FS_Subset
    <3>5. PICK c \in Nat : c = Cardinality(T)
      BY <3>4, FS_CardinalityType
    <3>. QED
      BY <2>2, <3>1, <3>2, <3>3, <3>4, <3>5
  <2>5. ASSUME NEW line \in ChangedIn(hunk)
        PROVE  line \in Nat /\ line <= a + m
    <3>1. PICK i \in 1..m : line = hunk.new + Cardinality({k \in 1..(i - 1) : Counted(hunk.lines[k])})
      BY <2>2 DEF ChangedIn
    <3>. QED
      BY <2>4, <3>1
  <2>. QED
    BY <2>1, <2>2, <2>3, <2>5
<1>5. PICK b \in Nat : \A h \in 1..n : f[h] <= b
  BY <1>4, ValuesBound
<1>6. ASSUME NEW line \in ChangedLines(patch)
      PROVE  line \in Nat /\ line <= b
  <2>1. PICK h \in 1..n : line \in ChangedIn(Hunks[h])
    BY <1>2 DEF ChangedLines, Hunks, Range
  <2>2. PICK v \in Nat, l \in Nat : v = f[h] /\ l = line /\ l <= v /\ v <= b
    BY <1>4, <1>5, <2>1
  <2>. QED
    BY <2>2
<1>. QED
  BY <1>6

LEMMA ContextInFile ==
  ASSUME PatchInv
  PROVE  ContextChunks \subseteq FileRanges
<1>1. PICK changed : changed = ChangedLines(patch) /\ changed \subseteq Nat
  BY ChangedBounded
<1>2. PICK b \in Nat : \A line \in changed : line <= b
  BY <1>1, ChangedBounded
<1>3. PICK nodes : nodes = Nodes(changed)
  OBVIOUS
<1>4. ContextChunks = {[first |-> node.top, last |-> node.last] : node \in nodes}
                        \cup {window \in Outside(changed) : ~Seen(nodes, window)}
  BY <1>1, <1>3, ContextIs
<1>5. ASSUME NEW node \in nodes
      PROVE  [first |-> node.top, last |-> node.last] \in FileRanges
  <2>1. PICK line \in Enclosed(changed) : node = Innermost(Enclosing(line))
    BY <1>3 DEF Nodes
  <2>2. Enclosing(line) \subseteq tree /\ Enclosing(line) # {}
    BY <2>1 DEF Enclosing, Enclosed
  <2>3. node \in tree
    BY <2>1, <2>2, InnermostIs
  <2>4. node.top \in 1..FileLines /\ node.last \in 1..FileLines /\ FileLines \in Nat
    BY <2>3, NodesAre, PieceConstants
  <2>. QED
    BY <2>4 DEF FileRanges
<1>6. Outside(changed) \subseteq FileRanges
  <2>1. PICK outside : /\ outside = changed \ Enclosed(changed) /\ outside \subseteq Nat
                       /\ \A line \in outside : line <= b
    BY <1>1, <1>2
  <2>2. Windows(outside) \subseteq FileRanges
    BY <2>1, WindowsInFile
  <2>. QED
    BY <2>1, <2>2 DEF Outside
<1>. QED
  BY <1>4, <1>5, <1>6

(***************************************************************************)
(* The length of the code around changed lines.                            *)
(***************************************************************************)
ContextLines(chunks) == UNION {{c} \X (c.first..c.last) : c \in chunks}

\* The places in the file that a line of code around changed lines can have.
LEMMA ContextFinite ==
  ASSUME NEW chunks, chunks \subseteq FileRanges
  PROVE  IsFiniteSet(ContextLines(chunks))
<1>1. PICK S : S = 0..FileLines /\ IsFiniteSet(S) /\ S \subseteq Nat
  <2>1. 0 \in Int /\ FileLines \in Int /\ 0..FileLines \subseteq Nat
    BY PieceConstants
  <2>2. IsFiniteSet(0..FileLines)
    BY <2>1, FS_Interval
  <2>. QED
    BY <2>1, <2>2
<1>2. PICK P : P = S \X S /\ IsFiniteSet(P)
  BY <1>1, FS_Product
<1>3. PICK R : R = [first : S, last : S]
  OBVIOUS
<1>4. IsFiniteSet(R)
  <2>1. PICK f : f = [p \in P |-> [first |-> p[1], last |-> p[2]]]
    OBVIOUS
  <2>2. f \in [P -> R]
    BY <1>2, <1>3, <2>1
  <2>3. ASSUME NEW r \in R
        PROVE  \E p \in P : f[p] = r
    <3>1. r.first \in S /\ r.last \in S /\ r = [first |-> r.first, last |-> r.last]
      BY <1>3
    <3>2. << r.first, r.last >> \in P
      BY <1>2, <3>1
    <3>3. f[<< r.first, r.last >>] = r
      BY <2>1, <3>1, <3>2
    <3>. QED
      BY <3>2, <3>3
  <2>4. f \in Surjection(P, R)
    BY <2>2, <2>3 DEF Surjection
  <2>. QED
    BY <1>2, <2>4, FS_Surjection
<1>5. PICK Q : Q = R \X S /\ IsFiniteSet(Q)
  BY <1>1, <1>4, FS_Product
<1>6. ASSUME NEW c \in chunks, NEW l \in c.first..c.last
      PROVE  << c, l >> \in Q
  <2>1. PICK a \in Nat, z \in 0..FileLines : a = c.first /\ z = c.last /\ c = [first |-> a, last |-> z]
    BY DEF FileRanges
  <2>2. FileLines \in Nat
    BY PieceConstants
  <2>3. l \in S /\ a \in S /\ z \in S
    <3>1. l \in Int /\ a <= l /\ l <= z /\ z <= FileLines
      BY <1>6, <2>1, <2>2
    <3>. QED
      BY <1>1, <2>1, <2>2, <3>1
  <2>4. c \in R
    BY <1>3, <2>1, <2>3
  <2>. QED
    BY <1>5, <2>3, <2>4
<1>7. ContextLines(chunks) \in SUBSET Q
  BY <1>6 DEF ContextLines
<1>. QED
  BY <1>5, <1>7, FS_Subset

\* Fewer chunks are no longer.
LEMMA ContextShrinks ==
  ASSUME NEW chunks, chunks \subseteq FileRanges, NEW some, some \subseteq chunks
  PROVE  /\ ContextLength(some) \in Nat /\ ContextLength(chunks) \in Nat
         /\ ContextLength(some) <= ContextLength(chunks)
<1>1. PICK A, B : A = ContextLines(some) /\ B = ContextLines(chunks) /\ A \in SUBSET B /\ IsFiniteSet(B)
  <2>1. ContextLines(some) \subseteq ContextLines(chunks)
    BY DEF ContextLines
  <2>. QED
    BY <2>1, ContextFinite
<1>2. IsFiniteSet(A) /\ Cardinality(A) <= Cardinality(B)
  BY <1>1, FS_Subset
<1>3. PICK a \in Nat, b \in Nat : a = Cardinality(A) /\ b = Cardinality(B) /\ a <= b
  BY <1>1, <1>2, FS_CardinalityType
<1>4. PICK chars \in Nat, most \in Nat : chars = SourceChars /\ most = MaxContext
  BY PieceConstants
<1>5. PICK x \in Nat, y \in Nat : x = chars * a /\ y = chars * b /\ x <= y
  <2>1. PICK d : d = b - a
    OBVIOUS
  <2>3. d \in Nat /\ b = a + d
    BY <1>3, <2>1
  <2>2. chars * a \in Nat /\ chars * d \in Nat /\ chars * b = chars * a + chars * d
    BY <2>3
  <2>. QED
    BY <2>2
<1>6. ContextLength(some) = Min({most, x}) /\ ContextLength(chunks) = Min({most, y})
  BY <1>1, <1>3, <1>4, <1>5 DEF ContextLength, ContextLines
<1>7. Min({most, x}) = (IF most <= x THEN most ELSE x) /\ Min({most, y}) = (IF most <= y THEN most ELSE y)
  BY MinOfTwo
<1>. QED
  BY <1>5, <1>6, <1>7

(***************************************************************************)
(* Groups fit.                                                             *)
(***************************************************************************)
GroupFits(chunks, g) == Len(g) = 1 \/ Rendered(Piece(chunks, g)) <= MaxChars
AllGroupsFit(chunks, groups) == \A i \in DOMAIN groups : GroupFits(chunks, groups[i])

LEMMA GroupFitsNext ==
  ASSUME NEW groups \in Seq(Seq(HunkRecords)), NEW hunk \in HunkRecords, NEW chunks,
         AllGroupsFit(chunks, groups)
  PROVE  AllGroupsFit(chunks, Group(chunks, groups, hunk))
<1>1. Grouped(Group(chunks, groups, hunk), groups, chunks, hunk)
  BY GroupIs
<1>2. PICK X : X = Seq(HunkRecords)
  OBVIOUS
<1>3. PICK r \in Seq(X), g \in X :
         /\ JoinsGroup(r, g, groups, chunks, hunk)
         /\ Group(chunks, groups, hunk) = Append(r, Append(g, hunk))
  BY <1>1, <1>2 DEF Grouped
<1>4. PICK y \in X : y = Append(g, hunk)
  BY <1>2, AppendProperties
<1>5. GroupFits(chunks, y)
  <2>1. CASE Rendered(Piece(chunks, Append(g, hunk))) <= MaxChars
    BY <1>4, <2>1 DEF GroupFits
  <2>2. CASE g = << >>
    <3>1. Len(y) = 1
      BY <1>4, <2>2
    <3>. QED
      BY <3>1 DEF GroupFits
  <2>. QED
    BY <1>3, <2>1, <2>2 DEF JoinsGroup
<1>6. PICK n \in Nat : n = Len(r) /\ DOMAIN r = 1..n
  BY LenProperties
<1>7. PICK t : /\ t = Append(r, y) /\ DOMAIN t = 1..(n + 1) /\ t[n + 1] = y
               /\ \A i \in 1..n : t[i] = r[i]
  <2>1. /\ DOMAIN Append(r, y) = 1..(n + 1) /\ Append(r, y)[n + 1] = y
        /\ \A i \in 1..n : Append(r, y)[i] = r[i]
    BY <1>6, Appended
  <2>. QED
    BY <2>1
<1>8. \A i \in 1..n : GroupFits(chunks, r[i])
  <2>1. CASE groups = r
    BY <1>6, <2>1 DEF AllGroupsFit
  <2>2. CASE groups = Append(r, g)
    <3>1. DOMAIN Append(r, g) = 1..(n + 1) /\ \A i \in 1..n : Append(r, g)[i] = r[i]
      BY <1>6, Appended
    <3>2. \A i \in 1..n : i \in 1..(n + 1)
      OBVIOUS
    <3>. QED
      BY <2>2, <3>1, <3>2 DEF AllGroupsFit
  <2>. QED
    BY <1>3, <2>1, <2>2 DEF JoinsGroup
<1>9. \A i \in 1..(n + 1) : i \in 1..n \/ i = n + 1
  OBVIOUS
<1>10. \A i \in 1..(n + 1) : GroupFits(chunks, t[i])
  BY <1>5, <1>7, <1>8, <1>9
<1>. QED
  BY <1>3, <1>4, <1>7, <1>10 DEF AllGroupsFit

LEMMA GroupsFit ==
  ASSUME NEW hunks \in Seq(HunkRecords), NEW chunks
  PROVE  AllGroupsFit(chunks, Groups(chunks, hunks))
<1>1. PICK m \in Nat : m = Len(hunks)
  BY LenProperties
<1>2. PICK V : V = Seq(Seq(HunkRecords))
  OBVIOUS
<1>3. PICK D : D = [q \in V \X (1..m) |-> Group(chunks, q[1], hunks[q[2]])]
  OBVIOUS
<1>4. PICK h : Groups(chunks, hunks) = h[1..m] /\ RunsTo(h, V, << >>, m, D)
  BY <1>1, <1>2, <1>3, GroupsRuns
<1> DEFINE I == {q \in (0..m) \X V : AllGroupsFit(chunks, q[2])}
<1>5. << 0, << >> >> \in I
  <2>1. << >> \in V /\ 0 \in 0..m
    BY <1>2, EmptySeq
  <2>2. AllGroupsFit(chunks, << >>)
    BY DEF AllGroupsFit
  <2>. QED
    BY <2>1, <2>2
<1>6. ASSUME NEW k \in 1..m, NEW v \in V, << k - 1, v >> \in I
      PROVE  << k, D[<< v, k >>] >> \in I
  <2>1. AllGroupsFit(chunks, v)
    BY <1>6
  <2>2. PICK hunk \in HunkRecords : hunk = hunks[k]
    BY <1>1, ElementOfSeq
  <2>3. Group(chunks, v, hunk) \in V /\ AllGroupsFit(chunks, Group(chunks, v, hunk))
    BY <1>2, <2>1, GroupNext, GroupFitsNext
  <2>4. D[<< v, k >>] = Group(chunks, v, hunk) /\ k \in 0..m
    BY <1>3, <2>2
  <2>. QED
    BY <2>3, <2>4
<1>7. h[1..m] \in V /\ << m, h[1..m] >> \in I
  <2>1. Preserved(I, V, m, D)
    BY <1>6 DEF Preserved
  <2>2. RunsTo(h, V, << >>, m, D)
    BY <1>4
  <2> HIDE DEF I
  <2>. QED
    BY <1>5, <2>1, <2>2, FoldInduction
<1>. QED
  BY <1>4, <1>7

(***************************************************************************)
(* Pieces fit.                                                             *)
(***************************************************************************)
\* The length of a piece with one hunk.
LEMMA OneHunkLength ==
  ASSUME NEW hunk \in HunkRecords, ~marked
  PROVE  HunkLength(hunk) \in Nat /\ HunksLength(<< hunk >>) = HunkLength(hunk)
<1>1. HunkLength(hunk) \in Nat
  <2>1. PICK ls \in Seq(Lines), a \in Nat : ls = hunk.lines /\ a = hunk.header
    BY DEF HunkRecords
  <2>2. PICK size \in Nat : size = LinesLength(ls)
    BY LinesLengthAtLeast
  <2>. QED
    BY <2>1, <2>2 DEF HunkLength
<1>2. PICK size \in Nat : size = HunkLength(hunk)
  BY <1>1
<1>3. HunksLength(<< hunk >>) = Max({0, 0}) + Total(<< size >>)
  <2>1. Len(<< hunk >>) - 1 = 0
    OBVIOUS
  <2>2. [h \in DOMAIN << hunk >> |-> HunkLength(<< hunk >>[h])
           + (IF marked THEN NumberChars * NewCount(<< hunk >>[h].lines) ELSE 0)] = << size >>
    <3>1. DOMAIN << hunk >> = {1} /\ DOMAIN << size >> = {1} /\ << hunk >>[1] = hunk /\ << size >>[1] = size
      OBVIOUS
    <3>2. \A h \in {1} : HunkLength(<< hunk >>[h])
                           + (IF marked THEN NumberChars * NewCount(<< hunk >>[h].lines) ELSE 0) = size
      BY <1>2, <3>1
    <3>. QED
      BY <3>1, <3>2
  <2>. QED
    BY <2>1, <2>2 DEF HunksLength
<1>4. Max({0, 0}) = 0
  BY MaxZero
<1>5. Total(<< size >>) = size
  <2>1. PICK none \in Seq(Nat) : none = << >>
    BY EmptySeq
  <2>2. Total(Append(none, size)) = Total(none) + size
    BY TotalAppend
  <2>3. Append(none, size) = << size >>
    BY <2>1
  <2>4. Total(none) = 0
    BY <2>1, TotalNone
  <2>. QED
    BY <2>2, <2>3, <2>4
<1>. QED
  BY <1>1, <1>2, <1>3, <1>4, <1>5

LEMMA OverheadIs ==
  ASSUME NEW chunks
  PROVE  Overhead(chunks) = FileChars + 0 + ContextLength(chunks)
<1>1. HunksLength(<< >>) = Max({0, 0 - 1}) + Total(<< >>)
  <2>1. Len(<< >>) = 0 /\ DOMAIN << >> = {}
    OBVIOUS
  <2>2. [h \in DOMAIN << >> |-> HunkLength(<< >>[h])
           + (IF marked THEN NumberChars * NewCount(<< >>[h].lines) ELSE 0)] = << >>
    BY <2>1
  <2>. QED
    BY <2>1, <2>2 DEF HunksLength
<1>2. Max({0, 0 - 1}) = 0
  <2>1. PICK x \in Int : x = 0 - 1 /\ x <= 0
    OBVIOUS
  <2>. QED
    BY <2>1, MaxZero
<1>3. HunksLength(<< >>) = 0
  BY <1>1, <1>2, TotalNone
<1>. QED
  BY <1>3 DEF Overhead, Rendered

\* A hunk that fits the limit fits in a piece of its own.
LEMMA OnePieceFits ==
  ASSUME PatchInv, ~marked, MaxChars - Overhead(ContextChunks) >= MinHunkLimit,
         NEW hunk \in HunkRecords, HunkLength(hunk) <= HunkLimit(ContextChunks)
  PROVE  Rendered(Piece(ContextChunks, << hunk >>)) <= MaxChars
<1>1. PICK chunks, some : chunks = ContextChunks /\ some = ChunksFor(chunks, << hunk >>)
                          /\ some \subseteq chunks /\ chunks \subseteq FileRanges
  BY ContextInFile DEF ChunksFor
<1>2. PICK x \in Nat, y \in Nat : x = ContextLength(some) /\ y = ContextLength(chunks) /\ x <= y
  BY <1>1, ContextShrinks
<1>3. PICK file \in Nat, most \in Nat, least \in Nat :
         file = FileChars /\ most = MaxChars /\ least = MinHunkLimit
  BY PieceConstants
<1>4. PICK over \in Nat : over = Overhead(chunks) /\ over = file + y /\ most - over >= least
  BY <1>1, <1>2, <1>3, OverheadIs
<1>5. HunkLimit(chunks) = most - over
  <2>1. PICK a \in Int, b \in Int : a = most - over /\ b = least /\ a >= b
    BY <1>4
  <2>2. Max({a, b}) = IF a >= b THEN a ELSE b
    BY MinOfTwo
  <2>. QED
    BY <1>3, <1>4, <2>1, <2>2 DEF HunkLimit
<1>6. PICK size \in Nat : size = HunkLength(hunk) /\ HunksLength(<< hunk >>) = size /\ size <= most - over
  BY <1>1, <1>5, OneHunkLength
<1>7. Rendered(Piece(chunks, << hunk >>)) = file + size + x
  BY <1>1, <1>2, <1>3, <1>6 DEF Rendered, Piece
<1>8. file + size + x <= most
  BY <1>2, <1>4, <1>6
<1>. QED
  BY <1>1, <1>3, <1>7, <1>8

\* Every piece of the hunks fits the limit or cannot be cut.
LEMMA SplitHunksFit ==
  ASSUME PatchInv, Complete, header <= Reserve, NEW hunk \in Range(Joined(SplitHunks))
  PROVE  FitsLimit(hunk, HunkLimit(ContextChunks))
<1>1. PICK limit : limit = HunkLimit(ContextChunks)
  OBVIOUS
<1>2. limit \in Int
  <2>1. PICK x \in Int, y \in Int : x = MaxChars - Overhead(ContextChunks) /\ y = MinHunkLimit
    <3>1. PICK c \in Nat : c = ContextLength(ContextChunks)
      BY ContextInFile, ContextShrinks
    <3>2. Overhead(ContextChunks) = FileChars + 0 + c
      BY <3>1, OverheadIs
    <3>. QED
      BY <3>2, PieceConstants
  <2>2. Max({x, y}) = IF x >= y THEN x ELSE y
    BY MinOfTwo
  <2>. QED
    BY <1>1, <2>1, <2>2 DEF HunkLimit
<1>3. SplitHunks \in Seq(Seq(HunkRecords)) /\ DOMAIN SplitHunks = DOMAIN Hunks
  BY SplitHunksAre
<1>4. PICK h \in DOMAIN Hunks : hunk \in Range(SplitHunks[h])
  BY <1>3, InJoined
<1>5. SplitHunks[h] = SplitHunk(Hunks[h], limit)
  BY <1>1 DEF SplitHunks
<1>6. PICK whole \in HunkRecords : whole = Hunks[h] /\ whole.lines # << >> /\ whole.header <= Reserve
  <2>1. Hunks \in Seq(HunkRecords) /\ h \in DOMAIN patch /\ DOMAIN Hunks = DOMAIN patch
    BY <1>4, HunksAre
  <2>2. PICK n \in Nat : n = Len(patch) /\ DOMAIN patch = 1..n
    BY PatchTyped, LenProperties
  <2>3. Hunks[h] \in HunkRecords /\ Hunks[h].header = header
    BY <2>1, LenProperties, ElementOfSeq, HunksAre
  <2>4. patch[h].lines # << >>
    <3>1. CASE h = n
      BY <2>2, <3>1 DEF Complete
    <3>2. CASE h # n
      <4>1. h \in 1..(n - 1)
        BY <2>1, <2>2, <3>2
      <4>. QED
        BY <2>2, <4>1 DEF PatchInv
    <3>. QED
      BY <3>1, <3>2
  <2>5. Hunks[h].lines # << >>
    BY <2>1, <2>4, HunksAre
  <2>. QED
    BY <2>3, <2>5
<1>7. PICK i \in DOMAIN SplitHunk(whole, limit) : hunk = SplitHunk(whole, limit)[i]
  BY <1>4, <1>5, <1>6 DEF Range
<1>8. FitsLimit(SplitHunk(whole, limit)[i], limit)
  BY <1>2, <1>6, SplitFits
<1>. QED
  BY <1>1, <1>7, <1>8

\* For every patch git can write, and every syntax tree of its file, a piece
\* too large for a prompt has one hunk, of one line or with a mark that was not
\* cut from its line.
THEOREM PiecesAlwaysFit == PiecesSpec => []PiecesFit
<1>1. PatchInv => PiecesFit
  <2>. SUFFICES ASSUME PatchInv, Complete, ~marked, header <= Reserve,
                       MaxChars - Overhead(ContextChunks) >= MinHunkLimit,
                       NEW piece \in Range(SplitTarget)
                PROVE  \/ Rendered(piece) <= MaxChars
                       \/ /\ Len(piece.hunks) = 1
                          /\ \/ Len(piece.hunks[1].lines) = 1
                             \/ piece.hunks[1].lines[Len(piece.hunks[1].lines)].kind = "noNewline"
    BY DEF PiecesFit
  <2>1. PICK p \in DOMAIN SplitTarget : piece = SplitTarget[p]
    BY DEF Range
  <2>2. CASE FitsWhole
    <3>1. SplitTarget = << WholeFile >>
      BY <2>2, SplitTargetIs
    <3>2. piece = WholeFile
      BY <2>1, <3>1
    <3>. QED
      BY <2>2, <3>2 DEF FitsWhole
  <2>3. CASE ~FitsWhole
    <3>1. SplitTarget = [g \in DOMAIN AllGroups |-> Piece(ContextChunks, AllGroups[g])]
      BY <2>3, SplitTargetIs
    <3>2. /\ AllGroups \in Seq(Seq(HunkRecords)) /\ Joined(AllGroups) = Joined(SplitHunks)
          /\ Joined(SplitHunks) \in Seq(HunkRecords)
      BY SplitHunksAre
    <3>3. PICK group : /\ group = AllGroups[p] /\ p \in DOMAIN AllGroups
                       /\ piece = Piece(ContextChunks, group) /\ piece.hunks = group
      BY <2>1, <3>1 DEF Piece
    <3>4. group \in Seq(HunkRecords)
      BY <3>2, <3>3
    <3>5. GroupFits(ContextChunks, group)
      <4>1. AllGroupsFit(ContextChunks, AllGroups)
        BY <3>2, GroupsFit DEF AllGroups
      <4>. QED
        BY <3>3, <4>1 DEF AllGroupsFit
    <3>6. CASE Len(group) = 1
      <4>1. PICK hunk \in HunkRecords : hunk = group[1] /\ group = << hunk >> /\ hunk \in Range(group)
        <5>1. 1 \in 1..Len(group) /\ 1 \in DOMAIN group
          BY <3>4, <3>6, LenProperties
        <5>2. group[1] \in HunkRecords
          BY <3>4, <5>1, ElementOfSeq
        <5>3. group = << group[1] >>
          BY <3>4, <3>6
        <5>. QED
          BY <5>1, <5>2, <5>3 DEF Range
      <4>2. hunk \in Range(Joined(SplitHunks))
        BY <3>2, <3>3, <4>1, InJoined
      <4>3. FitsLimit(hunk, HunkLimit(ContextChunks))
        BY <4>2, SplitHunksFit
      <4>4. CASE HunkLength(hunk) <= HunkLimit(ContextChunks)
        BY <3>3, <4>1, <4>4, OnePieceFits
      <4>5. CASE Len(hunk.lines) = 1 \/ hunk.lines[Len(hunk.lines)].kind = "noNewline"
        BY <3>3, <3>6, <4>1, <4>5
      <4>. QED
        BY <4>3, <4>4, <4>5 DEF FitsLimit
    <3>7. CASE Rendered(Piece(ContextChunks, group)) <= MaxChars
      BY <3>3, <3>7
    <3>. QED
      BY <3>5, <3>6, <3>7 DEF GroupFits
  <2>. QED
    BY <2>2, <2>3
<1>. QED
  BY <1>1, PatchAlways, PTL

(***************************************************************************)
(* The text of an answer is a text.                                        *)
(***************************************************************************)
Texts == Seq(Tokens)

LEMMA TextConcat ==
  ASSUME NEW s \in Texts, NEW t \in Texts
  PROVE  s \o t \in Texts
BY ConcatProperties DEF Texts

LEMMA TokensAre ==
  /\ "{" \in Tokens /\ "}" \in Tokens /\ "[" \in Tokens /\ "]" \in Tokens /\ ":" \in Tokens
  /\ "," \in Tokens /\ "ws" \in Tokens /\ "quote" \in Tokens /\ "esc" \in Tokens
  /\ "fence" \in Tokens /\ "json" \in Tokens /\ "summary" \in Tokens /\ "reviews" \in Tokens
BY DEF Tokens

LEMMA NoToken == << >> \in Texts
BY EmptySeq DEF Texts

LEMMA OneToken ==
  ASSUME NEW token \in Tokens
  PROVE  << token >> \in Texts
BY DEF Texts

LEMMA TwoTokens ==
  ASSUME NEW one \in Tokens, NEW two \in Tokens
  PROVE  << one, two >> \in Texts
BY DEF Texts

LEMMA StrTyped ==
  ASSUME NEW s \in Texts
  PROVE  Str(s) \in Texts
<1>1. PICK n \in Nat : n = Len(s) /\ s \in [1..n -> Tokens]
  BY DEF Texts
<1>2. PICK parts : parts = [i \in DOMAIN s |-> IF s[i] \in {"quote", "esc"} THEN << "esc", s[i] >>
                                                                   ELSE << s[i] >>]
  OBVIOUS
<1>3. \A i \in 1..n : parts[i] \in Texts
  <2>1. ASSUME NEW i \in 1..n
        PROVE  parts[i] \in Texts
    <3>1. PICK token \in Tokens : token = s[i]
      BY <1>1
    <3>2. << "esc", token >> \in Texts /\ << token >> \in Texts
      BY TokensAre, OneToken, TwoTokens
    <3>3. parts[i] = IF token \in {"quote", "esc"} THEN << "esc", token >> ELSE << token >>
      BY <1>1, <1>2, <3>1
    <3>. QED
      BY <3>2, <3>3
  <2>. QED
    BY <2>1
<1>4. parts \in Seq(Texts)
  <2>1. PICK X : X = Texts
    OBVIOUS
  <2>2. parts \in [1..n -> X]
    BY <1>1, <1>2, <1>3, <2>1
  <2>3. parts \in Seq(X)
    BY <2>2
  <2>. QED
    BY <2>1, <2>3
<1>5. Escape(s) \in Texts
  <2>1. Joined(parts) \in Seq(Tokens)
    BY <1>4, EmptySeq, JoinedAppend DEF Texts
  <2>. QED
    BY <1>2, <2>1 DEF Escape, Texts
<1>6. << "quote" >> \in Texts
  BY TokensAre, OneToken
<1>7. << "quote" >> \o Escape(s) \in Texts
  BY <1>5, <1>6, TextConcat
<1>8. (<< "quote" >> \o Escape(s)) \o << "quote" >> \in Texts
  BY <1>6, <1>7, TextConcat
<1>. QED
  BY <1>8 DEF Str

LEMMA KeyTyped ==
  ASSUME NEW name \in Tokens
  PROVE  Key(name) \in Texts
<1>1. << name >> \in Texts /\ << ":", "ws" >> \in Texts
  BY TokensAre, OneToken, TwoTokens
<1>. QED
  BY <1>1, StrTyped, TextConcat DEF Key

PartRecords ==
  [what : {"syntax", "summary"}, text : Texts] \cup [what : {"comment"}, of : Findings, text : Texts]

LEMMA SyntaxTyped ==
  ASSUME NEW s \in Texts
  PROVE  Syntax(s) \in PartRecords
BY DEF Syntax, PartRecords

LEMMA PartsTyped ==
  ASSUME NEW a \in Answers
  PROVE  Parts(a) \in Seq(PartRecords)
<1>1. PICK P : P = Seq(PartRecords)
  OBVIOUS
<1>2. PICK n \in Nat : /\ n = Len(a.reviews)
                       /\ \A i \in 1..n : a.reviews[i] \in Findings /\ a.reviews[i].text \in Texts
  <2>1. a.reviews \in Seq(Findings)
    <3>1. PICK m \in Nat : a.reviews \in [1..m -> Findings]
      BY RecoveryAssumption DEF Answers, SeqOf
    <3>. QED
      BY <3>1
  <2>2. PICK n \in Nat : n = Len(a.reviews) /\ \A i \in 1..n : a.reviews[i] \in Findings
    BY <2>1, LenProperties, ElementOfSeq
  <2>3. \A f \in Findings : f.text \in Texts
    BY RecoveryAssumption DEF Texts
  <2>. QED
    BY <2>2, <2>3
<1>3. a.summary \in Texts /\ a.extra \in Texts
  BY RecoveryAssumption DEF Answers, Texts
<1>4. PICK comments : comments =
         [i \in 1..n |-> << [what |-> "comment", of |-> a.reviews[i], text |-> a.reviews[i].text],
                            Syntax(IF i < n THEN << "," >> ELSE << >>) >>]
  OBVIOUS
<1>5. comments \in Seq(P)
  <2>1. ASSUME NEW i \in 1..n
        PROVE  comments[i] \in P
    <3>1. PICK c : c = [what |-> "comment", of |-> a.reviews[i], text |-> a.reviews[i].text]
      OBVIOUS
    <3>2. c \in PartRecords
      BY <1>2, <3>1 DEF PartRecords
    <3>3. PICK t \in Texts : t = IF i < n THEN << "," >> ELSE << >>
      BY TokensAre, NoToken, OneToken
    <3>4. Syntax(t) \in PartRecords
      BY SyntaxTyped
    <3>5. PICK d \in PartRecords : d = Syntax(t)
      BY <3>4
    <3>6. comments[i] = << c, d >>
      BY <1>4, <3>1, <3>3, <3>5
    <3>7. << c, d >> \in Seq(PartRecords)
      BY <3>2
    <3>. QED
      BY <1>1, <3>6, <3>7
  <2>2. comments \in [1..n -> P]
    BY <1>4, <2>1
  <2>. QED
    BY <2>2
<1>6. Joined(comments) \in P
  BY <1>1, <1>5, EmptySeq, JoinedAppend
<1>7. ASSUME NEW s \in Texts
      PROVE  << Syntax(s) >> \in P
  <2>1. PICK d \in PartRecords : d = Syntax(s)
    BY SyntaxTyped
  <2>. QED
    BY <1>1, <2>1
<1>8. \A s \in P, t \in P : s \o t \in P
  BY <1>1, ConcatProperties
<1>9. PICK summary \in P :
         summary = << Syntax(Key("summary")), [what |-> "summary", text |-> Str(a.summary)] >>
  <2>1. PICK c \in PartRecords, d \in PartRecords :
           c = Syntax(Key("summary")) /\ d = [what |-> "summary", text |-> Str(a.summary)]
    <3>1. Syntax(Key("summary")) \in PartRecords
      BY TokensAre, KeyTyped, SyntaxTyped
    <3>2. Str(a.summary) \in Texts
      BY <1>3, StrTyped
    <3>3. [what |-> "summary", text |-> Str(a.summary)] \in PartRecords
      BY <3>2 DEF PartRecords
    <3>. QED
      BY <3>1, <3>3
  <2>2. << c, d >> \in Seq(PartRecords)
    OBVIOUS
  <2>. QED
    BY <1>1, <2>1, <2>2
<1>10. PICK reviews \in P :
          reviews = << Syntax(Key("reviews") \o << "[" >>) >> \o Joined(comments) \o << Syntax(<< "]" >>) >>
  <2>1. Key("reviews") \o << "[" >> \in Texts /\ << "]" >> \in Texts
    <3>1. Key("reviews") \in Texts /\ << "[" >> \in Texts /\ << "]" >> \in Texts
      BY TokensAre, KeyTyped, OneToken
    <3>. QED
      BY <3>1, TextConcat
  <2>2. PICK x \in P, y \in P, z \in P :
           x = << Syntax(Key("reviews") \o << "[" >>) >> /\ y = Joined(comments) /\ z = << Syntax(<< "]" >>) >>
    BY <1>6, <1>7, <2>1
  <2>3. x \o y \in P
    BY <1>8
  <2>4. (x \o y) \o z \in P
    BY <1>8, <2>3
  <2>. QED
    BY <2>2, <2>4
<1>11. PICK open \in P, comma \in P, close \in P :
          /\ open = << Syntax(<< "{" >> \o a.extra) >>
          /\ comma = << Syntax(<< "," >>) >> /\ close = << Syntax(<< "}" >>) >>
  <2>1. << "{" >> \o a.extra \in Texts /\ << "," >> \in Texts /\ << "}" >> \in Texts
    <3>1. << "{" >> \in Texts /\ << "," >> \in Texts /\ << "}" >> \in Texts
      BY TokensAre, OneToken
    <3>. QED
      BY <1>3, <3>1, TextConcat
  <2>. QED
    BY <1>7, <2>1
<1>12. PICK middle \in P :
          middle = IF a.reviewsFirst THEN reviews \o comma \o summary ELSE summary \o comma \o reviews
  <2>1. reviews \o comma \in P /\ summary \o comma \in P
    BY <1>8
  <2>2. (reviews \o comma) \o summary \in P /\ (summary \o comma) \o reviews \in P
    BY <1>8, <2>1
  <2>. QED
    BY <2>2
<1>13. open \o middle \in P
  BY <1>8
<1>14. (open \o middle) \o close \in P
  BY <1>8, <1>13
<1>15. Parts(a) = open \o middle \o close
  BY <1>2, <1>4, <1>9, <1>10, <1>11, <1>12 DEF Parts
<1>. QED
  BY <1>1, <1>14, <1>15

LEMMA BodyTyped ==
  ASSUME NEW a \in Answers
  PROVE  Body(a) \in Texts
<1>1. PICK parts \in Seq(PartRecords) : parts = Parts(a)
  BY PartsTyped
<1>2. PICK F : F = [p \in PartRecords |-> p.text]
  OBVIOUS
<1>3. Maps(F, PartRecords, Texts)
  BY <1>2 DEF Maps, PartRecords
<1>4. MapOf(F, parts) \in Seq(Texts)
  BY <1>3, MapTyped
<1>5. MapOf(F, parts) = [k \in DOMAIN parts |-> parts[k].text]
  <2>1. \A k \in DOMAIN parts : F[parts[k]] = parts[k].text
    BY <1>2, LenProperties, ElementOfSeq
  <2>. QED
    BY <2>1 DEF MapOf
<1>6. Joined(MapOf(F, parts)) \in Seq(Tokens)
  BY <1>4, EmptySeq, JoinedAppend DEF Texts
<1>. QED
  BY <1>1, <1>5, <1>6 DEF Body, TextOf, Texts

(***************************************************************************)
(* A fence around an answer is stripped.                                   *)
(***************************************************************************)
LEMMA FencedStripped ==
  ASSUME NEW body \in Texts
  PROVE  StripFence(<< "fence", "json" >> \o body \o << "fence" >>) = body
<1>1. PICK n \in Nat : n = Len(body)
  BY LenProperties DEF Texts
<1>2. PICK s : s = << "fence", "json" >> \o body \o << "fence" >>
  OBVIOUS
<1>3. /\ s \in Seq(Tokens) /\ Len(s) = n + 3 /\ s[1] = "fence" /\ s[2] = "json" /\ s[n + 3] = "fence"
      /\ \A i \in 1..n : s[i + 2] = body[i]
  <2>1. PICK u : u = << "fence", "json" >> \o body
    OBVIOUS
  <2>2. /\ u \in Seq(Tokens) /\ Len(u) = n + 2 /\ u[1] = "fence" /\ u[2] = "json"
        /\ \A i \in 1..n : u[i + 2] = body[i]
    <3>1. PICK open \in Seq(Tokens) : open = << "fence", "json" >> /\ Len(open) = 2
      BY TokensAre, TwoTokens DEF Texts
    <3>2. PICK b \in Seq(Tokens) : b = body /\ n = Len(b)
      BY <1>1 DEF Texts
    <3>3. /\ open \o b \in Seq(Tokens) /\ Len(open \o b) = n + 2
          /\ \A i \in 1..(n + 2) : (open \o b)[i] = IF i <= 2 THEN open[i] ELSE b[i - 2]
      BY <3>1, <3>2, ConcatProperties
    <3>4. open[1] = "fence" /\ open[2] = "json"
      BY <3>1
    <3>5. 1 \in 1..(n + 2) /\ 2 \in 1..(n + 2)
      OBVIOUS
    <3>6. \A i \in 1..n : i + 2 \in 1..(n + 2) /\ ~(i + 2 <= 2) /\ (i + 2) - 2 = i
      OBVIOUS
    <3>7. u = open \o b
      BY <2>1, <3>1, <3>2
    <3>8. \A i \in 1..n : u[i + 2] = b[i]
      BY <3>3, <3>6, <3>7
    <3>9. u[1] = open[1] /\ u[2] = open[2]
      BY <3>3, <3>5, <3>7
    <3>. QED
      BY <3>2, <3>3, <3>4, <3>7, <3>8, <3>9
  <2>3. s = u \o << "fence" >>
    BY <1>2, <2>1
  <2>4. /\ s \in Seq(Tokens) /\ Len(s) = n + 3 /\ s[n + 3] = "fence"
        /\ \A i \in 1..(n + 2) : s[i] = u[i]
    BY <2>2, <2>3, ConcatProperties
  <2>5. 1 \in 1..(n + 2) /\ 2 \in 1..(n + 2) /\ \A i \in 1..n : i + 2 \in 1..(n + 2)
    OBVIOUS
  <2>. QED
    BY <2>2, <2>4, <2>5
<1>4. PICK fences : fences = {i \in DOMAIN s : s[i] = "fence"}
  OBVIOUS
<1>5. DOMAIN s = 1..(n + 3)
  BY <1>3, LenProperties
<1>6. 1 \in fences /\ n + 3 \in fences /\ 1 # n + 3 /\ \A i \in fences : i \in Nat /\ 1 <= i /\ i <= n + 3
  BY <1>3, <1>4, <1>5
<1>7. Least(fences) = 1 /\ Greatest(fences) = n + 3
  BY <1>6 DEF Least, Greatest
<1>8. ~(\A i, j \in fences : i = j)
  BY <1>6
<1>9. StripFence(s) = SubSeq(s, 3, n + 2)
  <2>1. s[Least(fences) + 1] = "json"
    BY <1>3, <1>7
  <2>2. Greatest(fences) - 1 = n + 2 /\ Least(fences) + 2 = 3
    BY <1>7
  <2>. QED
    BY <1>4, <1>8, <2>1, <2>2 DEF StripFence
<1>10. SubSeq(s, 3, n + 2) = body
  <2>1. PICK t : t = SubSeq(s, 3, n + 2)
    OBVIOUS
  <2>2. t \in Seq(Tokens) /\ Len(t) = n /\ \A i \in 1..n : t[i] = s[i + 2]
    <3>1. 3 \in Int /\ n + 2 \in Int /\ \A i \in 3..(n + 2) : s[i] \in Tokens
      BY <1>3, <1>5
    <3>. QED
      BY <1>3, <2>1, <3>1, SubSeqProperties
  <2>3. \A i \in 1..n : t[i] = body[i]
    BY <1>3, <2>2
  <2>. QED
    BY <1>1, <2>1, <2>2, <2>3, SeqEqual DEF Texts
<1>. QED
  BY <1>2, <1>9, <1>10

LEMMA WholeAccepted ==
  ASSUME answer \in Answers, text = Whole(answer), answer.fenced \/ ~SeveralFences
  PROVE  StripFence(text) = Body(answer)
<1>1. PICK body \in Texts : body = Body(answer)
  BY BodyTyped
<1>2. CASE answer.fenced
  <2>1. text = << "fence", "json" >> \o body \o << "fence" >>
    BY <1>1, <1>2 DEF Whole, Opening
  <2>. QED
    BY <1>1, <2>1, FencedStripped
<1>3. CASE ~answer.fenced
  <2>1. text = body
    <3>1. text = << >> \o body \o << >>
      BY <1>1, <1>3 DEF Whole, Opening
    <3>. QED
      BY <3>1, ConcatEmptySeq DEF Texts
  <2>2. \A i, j \in {k \in DOMAIN text : text[k] = "fence"} : i = j
    BY <1>3 DEF SeveralFences
  <2>. QED
    BY <1>1, <2>1, <2>2 DEF StripFence
<1>. QED
  BY <1>2, <1>3

(***************************************************************************)
(* What was written, and what became of it.                                *)
(***************************************************************************)
RecoveryInv ==
  /\ answer \in Answers
  /\ text \in Texts /\ rest \in Texts /\ text \o rest = Whole(answer)
  /\ finish \in {"stop", "length"} /\ Accepts(text) => result.kind = "parsed"

LEMMA RecoveryInitInv == RecoveryInit => RecoveryInv
<1>. SUFFICES ASSUME RecoveryInit PROVE RecoveryInv
  OBVIOUS
<1>1. PICK body \in Texts : body = Body(answer)
  BY BodyTyped DEF RecoveryInit
<1>2. Whole(answer) \in Texts
  <2>1. Opening(answer) \in Texts
    BY TokensAre, NoToken, TwoTokens DEF Opening
  <2>2. PICK close \in Texts : close = IF answer.fenced THEN << "fence" >> ELSE << >>
    BY TokensAre, NoToken, OneToken
  <2>3. Opening(answer) \o body \in Texts
    BY <2>1, TextConcat
  <2>4. (Opening(answer) \o body) \o close \in Texts
    BY <2>3, TextConcat
  <2>. QED
    BY <1>1, <2>2, <2>4 DEF Whole
<1>3. << >> \in Texts /\ << >> \o rest = rest
  BY <1>2, NoToken, ConcatEmptySeq DEF Texts, RecoveryInit
<1>. QED
  BY <1>2, <1>3 DEF RecoveryInit, RecoveryInv

LEMMA MoveOne ==
  ASSUME NEW S, NEW t \in Seq(S), NEW r \in Seq(S), r # << >>
  PROVE  Append(t, Head(r)) \in Seq(S) /\ Append(t, Head(r)) \o Tail(r) = t \o r
<1>1. Append(t, Head(r)) \in Seq(S) /\ Tail(r) \in Seq(S) /\ Len(Tail(r)) = Len(r) - 1
  OBVIOUS
<1>2. PICK a \in Seq(S), b \in Seq(S) : a = Append(t, Head(r)) /\ b = Tail(r)
  BY <1>1
<1>3. Len(a) = Len(t) + 1 /\ Len(b) = Len(r) - 1
  BY <1>1, <1>2
<1>4. /\ \A i \in 1..Len(t) : a[i] = t[i]
      /\ a[Len(t) + 1] = r[1]
      /\ \A i \in 1..Len(b) : b[i] = r[i + 1]
  BY <1>2
<1>5. Len(a \o b) = Len(t \o r) /\ a \o b \in Seq(S) /\ t \o r \in Seq(S)
  BY <1>3
<1>6. ASSUME NEW i \in 1..Len(t \o r)
      PROVE  (a \o b)[i] = (t \o r)[i]
  <2>1. CASE i <= Len(t)
    BY <1>3, <1>4, <2>1
  <2>2. CASE i = Len(t) + 1
    BY <1>3, <1>4, <2>2
  <2>3. CASE i > Len(t) + 1
    <3>1. (a \o b)[i] = b[i - Len(a)] /\ (t \o r)[i] = r[i - Len(t)]
      BY <1>3, <2>3
    <3>2. i - Len(a) \in 1..Len(b) /\ (i - Len(a)) + 1 = i - Len(t)
      BY <1>3, <2>3
    <3>. QED
      BY <1>4, <3>1, <3>2
  <2>4. i \in Int /\ Len(t) \in Int
    OBVIOUS
  <2>5. i <= Len(t) \/ i = Len(t) + 1 \/ i > Len(t) + 1
    BY <2>4
  <2>. QED
    BY <2>1, <2>2, <2>3, <2>5
<1>7. a \o b = t \o r
  <2>1. PICK u \in Seq(S), v \in Seq(S) : u = a \o b /\ v = t \o r
    BY <1>5
  <2>2. Len(u) = Len(v) /\ \A i \in 1..Len(u) : u[i] = v[i]
    BY <1>5, <1>6, <2>1
  <2>3. u = v
    BY <2>2, SeqEqual
  <2>. QED
    BY <2>1, <2>3
<1>. QED
  BY <1>1, <1>2, <1>7

LEMMA RecoveryNextInv == RecoveryInv /\ [RecoveryNext]_recoveryVars => RecoveryInv'
<1>. SUFFICES ASSUME RecoveryInv, [RecoveryNext]_recoveryVars PROVE RecoveryInv'
  OBVIOUS
<1>1. CASE WriteToken
  <2>1. PICK t \in Seq(Tokens), r \in Seq(Tokens) : t = text /\ r = rest /\ r # << >>
    BY <1>1 DEF WriteToken, RecoveryInv, Texts
  <2>2. PICK head \in Tokens, tail \in Seq(Tokens) : head = Head(r) /\ tail = Tail(r)
    BY <2>1, HeadTailProperties
  <2>3. Append(t, head) \in Seq(Tokens) /\ Append(t, head) \o tail = t \o r
    BY <2>1, <2>2, MoveOne
  <2>4. text' = Append(t, head) /\ rest' = tail /\ answer' = answer /\ finish' = "none"
    BY <1>1, <2>1, <2>2 DEF WriteToken
  <2>5. Whole(answer)' = Whole(answer)
    BY <2>4 DEF Whole, Opening, Body, TextOf, Parts
  <2>. QED
    BY <2>1, <2>2, <2>3, <2>4, <2>5 DEF RecoveryInv, Texts
<1>2. CASE Fail
  BY <1>2 DEF Fail, RecoveryInv, Whole, Opening, Body
<1>3. CASE Answer
  <2>1. answer' = answer /\ text' = text /\ rest' = rest
    BY <1>3 DEF Answer
  <2>2. Accepts(text)' = Accepts(text) /\ Whole(answer)' = Whole(answer)
    BY <2>1 DEF Accepts, Whole, Opening, Body
  <2>3. Accepts(text) => result'.kind = "parsed"
    BY <1>3 DEF Answer
  <2>. QED
    BY <2>1, <2>2, <2>3 DEF RecoveryInv
<1>4. CASE UNCHANGED recoveryVars
  BY <1>4 DEF recoveryVars, RecoveryInv, Accepts, Whole, Opening, Body
<1>. QED
  BY <1>1, <1>2, <1>3, <1>4 DEF RecoveryNext

\* A valid answer that was written to its end is taken as it is: in a code fence
\* for all texts of comments and summaries, without one for those texts that hold
\* at most one fence between them.
THEOREM CompleteAlwaysAccepted == RecoverySpec => []CompleteAccepted
<1>1. RecoveryInv => CompleteAccepted
  <2>. SUFFICES ASSUME RecoveryInv, finish \in {"stop", "length"}, rest = << >>,
                       answer.fenced \/ ~SeveralFences,
                       \A f \in Range(answer.reviews) : f.valid
                PROVE  result.kind = "parsed"
    BY DEF CompleteAccepted
  <2>1. text = Whole(answer)
    BY ConcatEmptySeq DEF RecoveryInv, Texts
  <2>2. StripFence(text) = Body(answer)
    BY <2>1, WholeAccepted DEF RecoveryInv
  <2>. QED
    BY <2>2 DEF RecoveryInv, Accepts
<1>. QED
  BY <1>1, RecoveryInitInv, RecoveryNextInv, PTL DEF RecoverySpec
=============================================================================
