------------------------------ MODULE FilePieces ------------------------------
(***************************************************************************)
(* What the review shows of one changed file: the functions, classes or    *)
(* windows around its changed lines (extract_context_chunks of             *)
(* app/review/chunking.py) and, of a file too large for one prompt, pieces *)
(* with some hunks each and the context that belongs to them               *)
(* (split_oversized_target of app/review/hunk_split.py).                   *)
(*                                                                         *)
(* The spec writes a patch line by line, in the way git does, and notes    *)
(* the true number of each line in the new file.  The context is best      *)
(* effort: a file has no nodes without a language and a parse, no windows  *)
(* with a NUL in its text, and neither without its text.                   *)
(***************************************************************************)
EXTENDS DiffText

CONSTANTS
  Trees,           \* bound: syntax trees of the new file
  FileLines,       \* lines of the new file
  Radius,          \* _FALLBACK_WINDOW_RADIUS
  MaxChars,        \* piece_chars
  FileChars,       \* file header and related code, which every piece repeats
  MaxContext,      \* _MAX_SAME_FILE_CONTEXT_CHARS
  SourceChars,     \* length of a line of context
  NumberChars,     \* length of the number put before a line
  MinHunkLimit,    \* _MIN_HUNK_LIMIT
  LineLengths,     \* bound: lengths of a line of the patch
  Rests,           \* bound: the rests of a line of the patch
  HeaderLengths,   \* bound: lengths of a hunk header with the function it names
  Marked,          \* bound: whether lines are numbered in the prompt
  MaxLines         \* bound: lines of the patch, for the review

\* What is a line only for the review.
LineRests == [kind : Kinds, chars : LineLengths, rest : {<< >>}]

\* A boundary node: its lines, where it starts with decorators or `export`, and
\* the bytes from there to its end.
ASSUME FileAssumption ==
  /\ \A nodes \in Trees : IsFiniteSet(nodes)
  /\ \A nodes \in Trees : \A node \in nodes :
       /\ {node.top, node.first, node.last} \subseteq 1..FileLines
       /\ node.top <= node.first /\ node.first <= node.last
       /\ node.bytes \in Nat \X Nat
  /\ { FileLines, Radius, MaxChars, FileChars, MaxContext, SourceChars, NumberChars,
       MinHunkLimit, MaxLines } \subseteq Nat
  /\ LineLengths \cup HeaderLengths \subseteq Nat
  /\ Rests \subseteq Seq(LineRests)
  /\ Marked \subseteq BOOLEAN

VARIABLES
  tree,    \* the boundary nodes of the new file
  textual, \* whether windows can be made of its text
  marked,  \* annotate_diff_lines
  header,  \* length of the hunk headers
  patch,   \* the hunks
  at,      \* the true number of each line of each hunk, 0 for none
  next,    \* the number of the next line of the new file
  ended    \* the files of which the patch has shown the end

piecesVars == << tree, textual, marked, header, patch, at, next, ended >>

NoNewlineLength == 27  \* of "\ No newline at end of file"

Lines == [kind : Kinds, chars : LineLengths \cup {NoNewlineLength}, rest : Seq(LineRests)]

PiecesTypeOK ==
  /\ tree \in Trees /\ textual \in BOOLEAN
  /\ marked \in Marked /\ header \in HeaderLengths
  /\ patch \in Seq([new : 1..FileLines, header : {header}, lines : Seq(Lines)])
  /\ at \in Seq(Seq(0..FileLines))
  /\ next \in 1..(FileLines + 1) /\ ended \subseteq {"old", "new"}

(***************************************************************************)
(* chunking.py                                                             *)
(***************************************************************************)
Enclosing(line) == {node \in tree : node.first <= line /\ line <= node.last}

\* Of nodes that enclose a line the innermost is the shortest.
Innermost(nodes) ==
  CHOOSE node \in nodes : \A other \in nodes : node.last - node.first <= other.last - other.first

\* _merge_windows: windows that overlap or touch become one.
JoinWindow(windows, w) ==
  LET n == Len(windows) IN
    IF n > 0 /\ w.first <= windows[n].last + 1
    THEN [windows EXCEPT ![n].last = Max({@, w.last})]
    ELSE Append(windows, w)

\* The window around a line, in what was made of the lines before it.
Window(line) == [first |-> Max({1, line - Radius}), last |-> Min({FileLines, line + Radius})]
AddWindow(lines, windows, line) ==
  IF line \in lines THEN JoinWindow(windows, Window(line)) ELSE windows

Windows(lines) ==
  ToSet(FoldLeft(LAMBDA windows, line : AddWindow(lines, windows, line), << >>,
                 [i \in 1..Max({1} \cup lines) |-> i]))

\* extract_context_chunks: the innermost function or class around each changed
\* line, with its wrapper, and windows around the lines outside of all.
Enclosed(changed) == {line \in changed : Enclosing(line) # {}}
Nodes(changed) == {Innermost(Enclosing(line)) : line \in Enclosed(changed)}
Outside(changed) == IF textual THEN Windows(changed \ Enclosed(changed)) ELSE {}

\* seen_ranges: bytes of nodes and lines of windows are in one set.  (Nodes on the
\* same lines are one here.)
Seen(nodes, window) == << window.first, window.last >> \in {node.bytes : node \in nodes}

ContextChunks ==
  LET changed == ChangedLines(patch)
      nodes   == Nodes(changed)
  IN  {[first |-> node.top, last |-> node.last] : node \in nodes}
        \cup {window \in Outside(changed) : ~Seen(nodes, window)}

(***************************************************************************)
(* hunk_split.py: split_oversized_target                                   *)
(***************************************************************************)
\* _hunk_new_range
FirstLine(hunks) == Min({hunks[h].new : h \in DOMAIN hunks})
LastLine(hunks) ==
  Max({hunks[h].new + Max({NewCount(hunks[h].lines), 1}) - 1 : h \in DOMAIN hunks})

\* Mutant: the last line of the piece is not in its range.
ChunksFor_EndExclusive(chunks, hunks) ==
  {c \in chunks : c.first < LastLine(hunks) /\ c.last >= FirstLine(hunks)}

\* _chunks_for: the chunks that overlap the hunks.
ChunksFor(chunks, hunks) ==
  {c \in chunks : c.first <= LastLine(hunks) /\ c.last >= FirstLine(hunks)}

\* The length of a piece as _render_target (app/review/pipeline.py) renders it.
HunksLength(hunks) ==
  LET Marks(hunk) == IF marked THEN NumberChars * NewCount(hunk.lines) ELSE 0
  IN  Max({0, Len(hunks) - 1})
        + Total([h \in DOMAIN hunks |-> HunkLength(hunks[h]) + Marks(hunks[h])])
ContextLength(chunks) ==
  LET lines == UNION {{c} \X (c.first..c.last) : c \in chunks}
  IN  Min({MaxContext, SourceChars * Cardinality(lines)})
Rendered(piece) == FileChars + HunksLength(piece.hunks) + ContextLength(piece.chunks)

Piece(chunks, hunks) == [hunks |-> hunks, chunks |-> ChunksFor(chunks, hunks)]

\* Mutant: the hunk that does not fit is put into the piece first.
Group_LateFlush(chunks, groups, hunk) ==
  LET n == Len(groups) IN
    IF n > 0 /\ Rendered(Piece(chunks, groups[n])) <= MaxChars
    THEN [groups EXCEPT ![n] = Append(@, hunk)]
    ELSE Append(groups, << hunk >>)

\* The hunk goes to the last group if the piece still fits with it.
Group(chunks, groups, hunk) ==
  LET n == Len(groups) IN
    IF n > 0 /\ Rendered(Piece(chunks, Append(groups[n], hunk))) <= MaxChars
    THEN [groups EXCEPT ![n] = Append(@, hunk)]
    ELSE Append(groups, << hunk >>)

\* What a piece repeats, whatever its hunks, and the room it has for them.
Overhead(chunks) == Rendered([hunks |-> << >>, chunks |-> chunks])
HunkLimit(chunks) == Max({MaxChars - Overhead(chunks), MinHunkLimit})

SplitTarget ==
  LET chunks == ContextChunks
      shown  == ReadHunks(patch)
      whole  == [hunks |-> shown, chunks |-> chunks]
      limit  == HunkLimit(chunks)
      hunks  == Joined([h \in DOMAIN shown |-> SplitHunk(shown[h], limit)])
      groups == FoldLeft(LAMBDA gs, hunk : Group(chunks, gs, hunk), << >>, hunks)
  IN  IF Rendered(whole) <= MaxChars THEN << whole >>
      ELSE [g \in DOMAIN groups |-> Piece(chunks, groups[g])]

(***************************************************************************)
(* The patch as git writes it.                                             *)
(***************************************************************************)
PiecesInit ==
  /\ tree \in Trees /\ textual \in BOOLEAN
  /\ marked \in Marked /\ header \in HeaderLengths
  /\ patch = << >> /\ at = << >> /\ next = 1 /\ ended = {}

Written == Cardinality(UNION {{h} \X DOMAIN SplitLines(patch[h].lines) : h \in DOMAIN patch})
LastKind == patch[Len(patch)].lines[Len(patch[Len(patch)].lines)].kind

\* A hunk starts some lines after the one before it.
OpenHunk(gap) ==
  /\ ended = {} /\ Written < MaxLines
  /\ next + gap <= FileLines
  /\ patch # << >> => gap > 0 /\ patch[Len(patch)].lines # << >>
  /\ patch' = Append(patch, [new |-> next + gap, header |-> header, lines |-> << >>])
  /\ at' = Append(at, << >>)
  /\ next' = next + gap
  /\ UNCHANGED << tree, textual, marked, header, ended >>

Write(line, number) ==
  /\ patch' = [patch EXCEPT ![Len(patch)].lines = Append(@, line)]
  /\ at' = [at EXCEPT ![Len(at)] = Append(@, number)]

CanWrite(line) == patch # << >> /\ Written + Len(LinesOf(line)) <= MaxLines

WriteNew(line) ==
  /\ line.kind \in {"add", "addPlus", "keep"} /\ CanWrite(line)
  /\ "new" \notin ended /\ (line.kind = "keep" => "old" \notin ended)
  /\ next <= FileLines
  /\ Write(line, next)
  /\ next' = next + 1
  /\ UNCHANGED << tree, textual, marked, header, ended >>

\* Deleted lines come before the lines that were added in their place.
WriteDeleted(line) ==
  /\ line.kind \in {"del", "delMinus"} /\ CanWrite(line)
  /\ ended = {}
  /\ patch[Len(patch)].lines # << >> => LastKind \notin {"add", "addPlus"}
  /\ Write(line, 0)
  /\ UNCHANGED << tree, textual, marked, header, next, ended >>

\* "\ No newline at end of file": the line before is the last of its files.
WriteNoNewline ==
  /\ patch # << >> /\ Written < MaxLines /\ patch[Len(patch)].lines # << >>
  /\ LastKind # "noNewline" /\ "new" \notin ended
  /\ next = FileLines + 1 \/ LastKind \in {"del", "delMinus"}
  /\ ended' = ended \cup (IF LastKind \in {"add", "addPlus"} THEN {"new"}
                          ELSE IF LastKind = "keep" THEN {"old", "new"} ELSE {"old"})
  /\ Write([kind |-> "noNewline", chars |-> NoNewlineLength, rest |-> << >>], 0)
  /\ UNCHANGED << tree, textual, marked, header, next >>

PiecesNext ==
  \/ \E gap \in 0..2 : OpenHunk(gap)
  \/ \E line \in [kind : Kinds, chars : LineLengths, rest : Rests] :
       WriteNew(line) \/ WriteDeleted(line)
  \/ WriteNoNewline

PiecesSpec == PiecesInit /\ [][PiecesNext]_piecesVars

(***************************************************************************)
(* Properties.                                                             *)
(***************************************************************************)
Complete == patch # << >> /\ patch[Len(patch)].lines # << >>

\* The lines of a hunk end for the review where they end for git.
OneLineEach(hunk) == \A i \in DOMAIN hunk.lines : hunk.lines[i].rest = << >>

\* Cutting a patch into pieces loses no line and changes no line's number: the
\* number the model reads beside a line, or counts from the header of its piece,
\* is the one the line has in the patch, and in a hunk whose lines hold no other
\* boundary that is the number of the line in the new file.
NumbersSurviveSplit ==
  Complete =>
    LET pieces == SplitTarget
        hunks  == Joined([p \in DOMAIN pieces |-> pieces[p].hunks])
        shown  == ReadHunks(patch)
    IN  /\ Joined([h \in DOMAIN hunks |-> hunks[h].lines])
             = Joined([h \in DOMAIN shown |-> shown[h].lines])
        /\ Joined([h \in DOMAIN hunks |-> Annotated(hunks[h])])
             = Joined([h \in DOMAIN shown |-> Annotated(shown[h])])
        /\ \A h \in DOMAIN patch : OneLineEach(patch[h]) => Annotated(shown[h]) = at[h]

\* A finding at a line of the new file that some hunk shows counts as in the diff,
\* and no other, unless a line of the patch holds another boundary.
VisibleExact ==
  Complete /\ (\A h \in DOMAIN patch : OneLineEach(patch[h])) =>
    Visible(patch) = UNION {Range(at[h]) \ {0} : h \in DOMAIN at}

\* Lines chunking.py mistakes: they look like file headers, are no lines at all,
\* or several.
Plain ==
  \A h \in DOMAIN patch :
    /\ OneLineEach(patch[h])
    /\ \A i \in DOMAIN patch[h].lines : patch[h].lines[i].kind \in {"add", "del", "keep"}

\* Numbers of the lines the patch adds.
AddedLines ==
  UNION {{at[h][i] : i \in {k \in DOMAIN at[h] : patch[h].lines[k].kind \in {"add", "addPlus"}}} :
           h \in DOMAIN at}

\* Code can be had for a line: a node is around it, or a window that is not taken
\* for a node whose bytes have the numbers of its lines.
HasContext(line) ==
  LET changed == ChangedLines(patch)
  IN  \/ line \in Enclosed(changed)
      \/ /\ textual
         /\ \A window \in Outside(changed) :
              window.first <= line /\ line <= window.last => ~Seen(Nodes(changed), window)

\* Code is gathered around exactly the lines that are added, and every added
\* line for which it can be had comes with the code around it, in the piece that
\* has the line.
AddedHasContext ==
  Complete /\ Plain =>
    /\ ChangedLines(patch) = AddedLines
    /\ \A piece \in Range(SplitTarget) : \A hunk \in Range(piece.hunks) :
         LET numbers == Annotated(hunk) IN
           \A i \in DOMAIN numbers :
             hunk.lines[i].kind = "add" /\ HasContext(numbers[i]) =>
               \E c \in piece.chunks : c.first <= numbers[i] /\ numbers[i] <= c.last

\* Without numbers, a piece is larger than what it was cut for only if the
\* repeated parts leave less than the least hunk, a hunk header is longer than
\* its reserve, one line is too long, or a mark that no cut separates from its
\* line.
PiecesFit ==
  Complete /\ ~marked /\ header <= Reserve /\ MaxChars - Overhead(ContextChunks) >= MinHunkLimit =>
    \A piece \in Range(SplitTarget) :
      \/ Rendered(piece) <= MaxChars
      \/ /\ Len(piece.hunks) = 1
         /\ LET lines == piece.hunks[1].lines IN
              Len(lines) = 1 \/ lines[Len(lines)].kind = "noNewline"

\* The changed lines of a patch are the lines it adds, whatever their text.
ChangedLinesExact == Complete => ChangedLines(patch) = AddedLines
=============================================================================
