------------------------------ MODULE DiffText ------------------------------
(***************************************************************************)
(* The lines of a unified diff as the review reads them: which line of the *)
(* new file a line of a hunk is (app/review/diff_lines.py), which lines    *)
(* changed (app/review/chunking.py), and how a hunk is cut into pieces     *)
(* with headers of their own (app/review/hunk_split.py).                   *)
(*                                                                         *)
(* A hunk is where it starts in the new file and its lines; a line is its  *)
(* kind and its length.  Added and deleted lines whose text starts with    *)
(* ++ or -- look like file headers and are kinds of their own.  The old    *)
(* file is left out: nothing reads the numbers of its lines.               *)
(*                                                                         *)
(* Git ends a line at a line feed.  The review splits a patch with         *)
(* str.splitlines(), for which a form feed, a vertical tab, NEL, U+2028    *)
(* and others end a line too: the rest of a line is what comes after such  *)
(* a boundary within it, as the lines it makes.                            *)
(***************************************************************************)
EXTENDS Integers, Sequences, SequencesExt, FiniteSetsExt, Selections

CONSTANT
  Reserve  \* _HEADER_RESERVE

ASSUME ReserveAssumption == Reserve \in Nat

\* By its first characters; "keep" is a line that starts with none of + - and \.
Kinds == {"add", "addPlus", "del", "delMinus", "keep", "noNewline"}

\* Mutant: the mark of a missing line end is taken for a line.
IsNew_Marks(line) == line.kind \notin {"del", "delMinus"}

\* _counts_as_new_file_line
IsNew(line) == line.kind \notin {"del", "delMinus", "noNewline"}

\* Lines of the new file among the first n lines, and among all.
NewAmong(lines, n) == Cardinality({i \in 1..n : IsNew(lines[i])})
NewCount(lines) == NewAmong(lines, Len(lines))

\* str.splitlines(): the lines the review makes of a line, and of the hunks of a
\* patch.  A rest that looks like a hunk header, and one in the function name of
\* a header, are left out.
LinesOf(line) == << [line EXCEPT !.rest = << >>] >> \o line.rest
SplitLines(lines) == Joined([i \in DOMAIN lines |-> LinesOf(lines[i])])
ReadHunks(patch) == [h \in DOMAIN patch |-> [patch[h] EXCEPT !.lines = SplitLines(@)]]

(***************************************************************************)
(* diff_lines.py                                                           *)
(***************************************************************************)
\* annotate_hunk: the number put before each line, 0 for none.
Annotated(hunk) ==
  [i \in DOMAIN hunk.lines |->
     IF IsNew(hunk.lines[i]) THEN hunk.new + NewAmong(hunk.lines, i - 1) ELSE 0]

\* visible_right_lines: the lines GitHub takes an inline comment on.
Visible(patch) ==
  UNION {Range(Annotated(hunk)) \ {0} : hunk \in Range(ReadHunks(patch))}

(***************************************************************************)
(* chunking.py: changed_line_numbers                                       *)
(***************************************************************************)
\* Every line counts that does not look like a deleted one.
Counted(line) == line.kind # "del"

ChangedIn(hunk) ==
  {hunk.new + Cardinality({k \in 1..(i - 1) : Counted(hunk.lines[k])}) :
     i \in {k \in DOMAIN hunk.lines : hunk.lines[k].kind = "add"}}

ChangedLines(patch) == UNION {ChangedIn(hunk) : hunk \in Range(ReadHunks(patch))}

(***************************************************************************)
(* hunk_split.py: split_hunk                                               *)
(***************************************************************************)
LinesLength(lines) == Total([i \in DOMAIN lines |-> lines[i].chars + 1])
HunkLength(hunk) == hunk.header + LinesLength(hunk.lines)

\* Mutant: the mark of a missing line end counts as a line of the new file.
Following_Marks(piece, line) ==
  [ new    |-> piece.new + Cardinality({i \in DOMAIN piece.lines : piece.lines[i].kind # "del"}),
    header |-> piece.header, lines |-> << line >> ]

\* The piece that starts with the line, after the piece before it.
Following(piece, line) ==
  [new |-> piece.new + NewCount(piece.lines), header |-> piece.header, lines |-> << line >>]

\* A line goes to the last piece unless that gets too long; the mark of a
\* missing line end stays with its line.
PutLine(pieces, line, limit) ==
  LET n == Len(pieces)
      piece == pieces[n]
  IN  IF /\ piece.lines # << >>
         /\ line.kind # "noNewline"
         /\ LinesLength(Append(piece.lines, line)) > limit
      THEN Append(pieces, Following(piece, line))
      ELSE [pieces EXCEPT ![n].lines = Append(@, line)]

SplitHunk(hunk, maxChars) ==
  IF HunkLength(hunk) <= maxChars THEN << hunk >>
  ELSE LET limit == Max({maxChars - Reserve, 1})
       IN  FoldLeft(LAMBDA pieces, line : PutLine(pieces, line, limit),
                    << [hunk EXCEPT !.lines = << >>] >>, hunk.lines)
=============================================================================
