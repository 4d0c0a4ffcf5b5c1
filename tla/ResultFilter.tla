----------------------------- MODULE ResultFilter -----------------------------
(***************************************************************************)
(* filter_reviews and summarize_minor (app/review/result_filter.py): which *)
(* findings become inline comments and which a line of the summary.        *)
(*                                                                         *)
(* A finding is a record: its place (file, line and title), the file, its  *)
(* text, severity and confidence, and whether it has evidence.             *)
(***************************************************************************)
EXTENDS Integers, Sequences, SequencesExt, FiniteSetsExt, Selections

CONSTANTS
  MinConfidence,  \* min_confidence
  MaxComments,    \* max_comments
  MaxPerFile      \* max_per_file

ASSUME FilterAssumption ==
  /\ MinConfidence \in Int
  /\ MaxComments \in Nat /\ MaxPerFile \in Nat

SeverityOrder == [critical |-> 0, major |-> 1, minor |-> 2, suggestion |-> 3]
InlineSeverities == {"critical", "major"}

\* The sort key (severity, -confidence).
Before(x, y) ==
  \/ SeverityOrder[x.severity] < SeverityOrder[y.severity]
  \/ SeverityOrder[x.severity] = SeverityOrder[y.severity] /\ x.confidence > y.confidence

\* A stable sort: x is put after every finding it does not come before.
Insert(sorted, x) ==
  LET n == Cardinality({i \in 1..Len(sorted) : ~Before(x, sorted[i])}) IN
    SubSeq(sorted, 1, n) \o << x >> \o SubSeq(sorted, n + 1, Len(sorted))

\* Mutant: the findings stay in the order of the answers.
Sorted_AsIs(reviews) == reviews

Sorted(reviews) == FoldLeft(Insert, << >>, reviews)

Candidate(x) ==
  x.severity \in InlineSeverities /\ x.confidence >= MinConfidence /\ x.evidence

InFile(reviews, f) == {i \in 1..Len(reviews) : reviews[i].file = f}

\* The first finding of each place.
KeepFirst(kept, x) ==
  IF \E i \in 1..Len(kept) : kept[i].place = x.place THEN kept ELSE Append(kept, x)

Deduped(reviews) == FoldLeft(KeepFirst, << >>, reviews)

Admit(admitted, x) ==
  IF Len(admitted) < MaxComments /\ Cardinality(InFile(admitted, x.file)) < MaxPerFile
  THEN Append(admitted, x) ELSE admitted

FilterReviews(reviews) ==
  FoldLeft(Admit, << >>,
           Deduped(Sorted(Select(reviews, {x \in ToSet(reviews) : Candidate(x)}))))

\* A finding for the summary, if the model wrote a message for it.
Noted(x) ==
  x.severity \notin InlineSeverities /\ x.confidence >= MinConfidence /\ x.text # ""

SummarizeMinor(reviews) ==
  FoldLeft(LAMBDA notes, x :
             IF ~Noted(x) \/ x.text \in ToSet(notes) THEN notes ELSE Append(notes, x.text),
           << >>, reviews)
=============================================================================
