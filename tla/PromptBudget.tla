----------------------------- MODULE PromptBudget -----------------------------
(***************************************************************************)
(* How ReviewPipeline (app/review/pipeline.py) fits the changed files of a *)
(* pull request into prompts: the pieces of the files are packed into      *)
(* batches by tokens and characters, and the diff of one batch is cut to   *)
(* what its prompt has room for.                                           *)
(*                                                                         *)
(* A piece is a file or, of a file too large for one prompt, some of its   *)
(* hunks.  A rendered piece is a header and lines of equal length.         *)
(***************************************************************************)
EXTENDS Integers, Sequences, SequencesExt, FiniteSetsExt, Selections

CONSTANTS
  FileOf,         \* the file of each piece
  LowPriority,    \* the test and spec files
  MaxFileChars,   \* _MAX_DIFF_FILE_CHARS
  FirstChars,     \* room for the diff beside the shared context of the first batch
  RestChars,      \* room for the diff in the other batches
  FirstTokens,    \* tokens left for the diff in the first batch
  RestTokens,     \* tokens left for the diff in the other batches
  MaxBatches,     \* max_review_batches
  HeaderChars,    \* the line "# path (status)" of a piece
  LineChars,      \* its other lines
  MarkChars       \* the mark of a cut: "...(truncated)"

ASSUME BudgetAssumption ==
  /\ { MaxFileChars, FirstChars, RestChars, FirstTokens, RestTokens, HeaderChars,
       MarkChars } \subseteq Nat
  /\ { LineChars, MaxBatches } \subseteq Nat \ {0}

Pieces == DOMAIN FileOf

(***************************************************************************)
(* _truncate_diff_blocks_detailed                                          *)
(***************************************************************************)
\* _cut_at_line_boundary: the last line end before the limit, unless that
\* loses more than half of the text.
Cut(limit) ==
  LET last == HeaderChars + LineChars * ((limit - 1 - HeaderChars) \div LineChars)
  IN  IF limit <= HeaderChars \/ last < limit \div 2 THEN limit ELSE last

Shown == [whole |-> {}, cut |-> {}, dropped |-> {}, chars |-> 0]

\* One block of the diff.  Once a block is dropped all later ones are.
Show(shown, p, size, limit) ==
  LET cap  == Min({MaxFileChars, limit - shown.chars})
      kept == Cut(cap - MarkChars)
  IN  IF shown.dropped = {} /\ size <= cap
      THEN [shown EXCEPT !.whole = @ \cup {p}, !.chars = @ + size]
      ELSE IF shown.dropped = {} /\ cap >= MarkChars /\ kept > HeaderChars
      THEN [shown EXCEPT !.cut = @ \cup {p}, !.chars = @ + kept + MarkChars]
      ELSE [shown EXCEPT !.dropped = @ \cup {p}]

ShowAll(batch, chars, limit) ==
  FoldLeft(LAMBDA shown, p : Show(shown, p, chars[p], limit), Shown, batch)

(***************************************************************************)
(* _split_targets_into_batches                                             *)
(***************************************************************************)
CharsFor(n) == IF n = 1 THEN FirstChars ELSE RestChars
TokensFor(n) == IF n = 1 THEN FirstTokens ELSE RestTokens

\* A piece takes part in the packing with what the prompt will show of it.
CountedChars(chars, p) == Min({chars[p], MaxFileChars})

CharsOf(batch, chars) == FoldLeft(LAMBDA n, p : n + CountedChars(chars, p), 0, batch)
TokensOf(batch, tokens) == FoldLeft(LAMBDA n, p : n + tokens[p], 0, batch)

\* Mutant: only tokens are looked at.
Fits_TokensOnly(batch, n, chars, tokens) == TokensOf(batch, tokens) <= TokensFor(n)

\* A batch within both budgets; n is its number.
Fits(batch, n, chars, tokens) ==
  /\ CharsOf(batch, chars) <= CharsFor(n)
  /\ TokensOf(batch, tokens) <= TokensFor(n)

\* The last batch takes the piece if it is empty or still fits with it.
PutInto(packed, p, chars, tokens) ==
  LET n == Len(packed) IN
    IF n > 0 /\ Fits(Append(packed[n], p), n, chars, tokens)
    THEN [packed EXCEPT ![n] = Append(@, p)]
    ELSE Append(packed, << p >>)

Pack(pieces, chars, tokens) ==
  FoldLeft(LAMBDA packed, p : PutInto(packed, p, chars, tokens), << >>, pieces)

LowPieces == {p \in Pieces : FileOf[p] \in LowPriority}

\* Source files before test files, otherwise as in the pull request.
Ordered(pieces) ==
  Select(pieces, Pieces \ LowPieces) \o Select(pieces, LowPieces)

AllBatches(pieces, chars, tokens) ==
  LET packed == Pack(pieces, chars, tokens) IN
    IF Len(packed) > 1 THEN Pack(Ordered(pieces), chars, tokens) ELSE packed

Batches(pieces, chars, tokens) ==
  LET packed == AllBatches(pieces, chars, tokens) IN
    SubSeq(packed, 1, Min({Len(packed), MaxBatches}))

\* Pieces beyond the cap, which are not tried.
BeyondCap(pieces, chars, tokens) ==
  LET packed == AllBatches(pieces, chars, tokens) IN
    UNION {ToSet(packed[i]) : i \in (MaxBatches + 1)..Len(packed)}
=============================================================================
