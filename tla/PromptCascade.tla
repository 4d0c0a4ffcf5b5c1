----------------------------- MODULE PromptCascade -----------------------------
(***************************************************************************)
(* How a prompt is made to fit the context of the model: the loops         *)
(* _assemble_within_budget of app/review/pipeline.py, for one batch of a   *)
(* review, and of app/comment_answer/pipeline.py, for one answer.  Each    *)
(* turn assembles a prompt, counts its tokens and, as long as they are too *)
(* many, shortens one part of it.                                          *)
(*                                                                         *)
(* A text is its length.  A count of tokens takes one of Rates: that of    *)
(* the server's tokenizer or, when the server does not answer, that of the *)
(* estimate, which has fewer characters to a token.                        *)
(***************************************************************************)
EXTENDS PromptBudget

CONSTANTS
  Targets,         \* the pieces of the batch, in order
  PieceChars,      \* bound: lengths of a piece
  AuxChars,        \* bound: lengths of the official docs, the API spec, the description
  ContextFiles,    \* bound: sequences of the lengths of the context files
  Threads,         \* bound: sequences of the lengths of the comments of a thread
  HunkChars,       \* bound: lengths of the hunk a comment is about
  Budgets,         \* bound: tokens the context leaves for a prompt
  Rates,           \* characters of a token, as counted and as estimated
  FixedChars,      \* system prompt, risk hint and headings
  TotalChars,      \* _MAX_DIFF_TOTAL_CHARS less the risk hint, _MAX_TOTAL_CHARS
  ContextChars,    \* _MAX_FILE_CHARS of a context file
  NoteChars,       \* the note that names dropped files to the model
  MinDiffTokens    \* _MIN_DIFF_TOKENS, _MIN_DIFF_HUNK_TOKENS

ASSUME CascadeAssumption ==
  /\ Targets \in Seq(Pieces)
  /\ PieceChars \cup AuxChars \cup HunkChars \cup Budgets \subseteq Nat
  /\ ContextFiles \cup Threads \subseteq Seq(Nat)
  /\ { FixedChars, TotalChars, ContextChars, NoteChars, MinDiffTokens } \subseteq Nat
  /\ Rates \subseteq Nat \ {0}

\* reduction_steps: the order in which the sections of a review are shortened.
ReductionSteps == << "docs", "spec", "context", "body", "diff" >>

\* _assemble_within_budget of a review gives up after this many turns.
MaxReviewTurns == 1 + 3 * Len(ReductionSteps)

VARIABLES
  job,      \* "review" or "answer"
  input,    \* what the prompt is made of
  budget,   \* tokens the prompt may have
  floor,    \* diff_floor, diff_hunk_floor: characters the diff or hunk may keep
  sections, \* the lengths of the sections under these limits
  limits,   \* overrides, diff_hunk_max_chars: the limits set so far, by section
  thread,   \* the comments still shown
  step,     \* step_index
  turns,    \* _attempt
  outcome   \* "running", "fits" or "overflow"

vars == << job, input, budget, floor, limits, sections, thread, step, turns, outcome >>

(***************************************************************************)
(* The sections of a prompt.                                               *)
(***************************************************************************)
\* _shrink_to_char_limit
Shrink(chars, limit) ==
  IF limit <= 0 \/ (chars > limit /\ limit < MarkChars) THEN 0
  ELSE IF chars <= limit THEN chars
  ELSE Cut(limit - MarkChars) + MarkChars

\* What blank lines between that many parts take, which no limit counts.
Joins(count) == IF count = 0 THEN 0 ELSE 2 * (count - 1)

\* build_context: a file is cut anywhere; after the first that has no room
\* none is shown.
AddFile(shown, file, limit) ==
  LET room == limit - shown.chars - HeaderChars
      cap  == Min({ContextChars, room})
  IN  IF shown.full \/ room <= 0 \/ (file > cap /\ cap < MarkChars)
      THEN [shown EXCEPT !.full = TRUE]
      ELSE [shown EXCEPT !.files = @ + 1, !.chars = @ + HeaderChars + Min({file, cap})]

BuildContext(files, limit) ==
  LET shown == FoldLeft(LAMBDA s, file : AddFile(s, file, limit),
                        [files |-> 0, chars |-> 0, full |-> FALSE], files)
  IN  shown.chars + Joins(shown.files)

\* A diff with its note on the files that were dropped, which its limit does
\* not count either.
DiffChars(pieces, limit) ==
  LET shown == ShowAll(Targets, pieces, limit) IN
    shown.chars + Joins(Cardinality(shown.whole \cup shown.cut))
      + IF shown.dropped = {} THEN 0 ELSE NoteChars

LimitOf(set, section, default) == IF section \in DOMAIN set THEN set[section] ELSE default

Part(in, set, section) == Shrink(in[section], LimitOf(set, section, in[section]))

\* _build_messages of a review: the diff has what the other sections leave,
\* unless a limit of its own.
ReviewSections(in, set) ==
  LET docs    == Part(in, set, "docs")
      spec    == Part(in, set, "spec")
      body    == Part(in, set, "body")
      context == BuildContext(in.context, LimitOf(set, "context", TotalChars))
      room    == Max({0, TotalChars - context - docs - spec - body})
  IN  [docs |-> docs, spec |-> spec, context |-> context, body |-> body,
       diff |-> DiffChars(in.pieces, LimitOf(set, "diff", room))]

\* _build_messages of an answer, but for the thread.
AnswerSections(in, set) == [hunk |-> Part(in, set, "hunk")]

SectionsOf(in, set) ==
  IF job = "review" THEN ReviewSections(in, set) ELSE AnswerSections(in, set)

SumOf(lengths) == FoldLeft(LAMBDA n, c : n + c, 0, lengths)

ReviewChars ==
  FixedChars + sections.docs + sections.spec + sections.context + sections.body + sections.diff

AnswerChars == FixedChars + sections.hunk + SumOf(thread) + Joins(Len(thread))

(***************************************************************************)
(* Tokens.                                                                 *)
(***************************************************************************)
\* _count_tokens, estimate_tokens
Count(chars, rate) == (chars + rate - 1) \div rate

\* _reduced_char_limit
ReducedLimit(chars, overshoot, rate) ==
  IF chars = 0 THEN 0
  ELSE LET tokens == Count(chars, rate)
       IN  (chars * Max({0, tokens - overshoot})) \div tokens

\* _diff_floor_chars, _diff_hunk_floor_chars
FloorOf(chars, rate) ==
  LET tokens == Count(chars, rate) IN
    IF tokens <= MinDiffTokens THEN chars ELSE (chars * MinDiffTokens) \div tokens

(***************************************************************************)
(* The loops.                                                              *)
(***************************************************************************)
ReviewInputs ==
  [docs : AuxChars, spec : AuxChars, body : AuxChars, context : ContextFiles,
   pieces : [Pieces -> PieceChars]]

AnswerInputs == [hunk : HunkChars, comments : Threads]

Init ==
  /\ budget \in Budgets
  /\ limits = << >> /\ step = 1 /\ turns = 0
  /\ outcome = "running"
  /\ \/ /\ job = "review"
        /\ input \in ReviewInputs
        /\ thread = << >>
        /\ \E rate \in Rates : floor = FloorOf(DiffChars(input.pieces, TotalChars), rate)
     \/ /\ job = "answer"
        /\ input \in AnswerInputs
        /\ thread = input.comments
        /\ \E rate \in Rates : floor = FloorOf(input.hunk, rate)
  /\ sections = SectionsOf(input, limits)

\* A turn of the loop, which has at most that many.
TakeTurn(most) == turns < most /\ turns' = turns + 1

Inputs == << job, input, budget, floor >>

\* The prompt is short enough; messages are returned.
ReturnMessages ==
  /\ outcome' = "fits"
  /\ UNCHANGED << Inputs, limits, sections, thread, step >>

\* None is returned.
ReturnNone ==
  /\ outcome' = "overflow"
  /\ UNCHANGED << Inputs, limits, sections, thread, step >>

WithLimit(set, section, limit) ==
  [s \in DOMAIN set \cup {section} |-> IF s = section THEN limit ELSE set[s]]

SetLimit(section, limit) ==
  /\ LET set == WithLimit(limits, section, limit)
     IN  limits' = set /\ sections' = SectionsOf(input, set)
  /\ UNCHANGED << Inputs, thread, step, outcome >>

NextSection ==
  /\ step' = step + 1
  /\ UNCHANGED << Inputs, limits, sections, thread, outcome >>

\* The limit a turn finds for a section of a review; only the diff has a floor.
NewLimit(section, overshoot, rate) ==
  LET reduced == ReducedLimit(sections[section], overshoot, rate)
  IN  IF section = "diff" THEN Max({floor, reduced}) ELSE reduced

\* Mutant: a section is left when it was shortened once.
Shorten_Once(section, overshoot) ==
  \E rate \in Rates :
    IF section \in DOMAIN limits
    THEN NextSection
    ELSE SetLimit(section, NewLimit(section, overshoot, rate))

\* The section in turn is shortened or, if it cannot be, the next one is next.
Shorten(section, overshoot) ==
  \E rate \in Rates :
    LET limit == NewLimit(section, overshoot, rate) IN
      IF limit >= sections[section] THEN NextSection ELSE SetLimit(section, limit)

\* One turn of _assemble_within_budget for a review.
ReviewTurn ==
  /\ job = "review" /\ outcome = "running"
  /\ TakeTurn(MaxReviewTurns)
  /\ \E rate \in Rates :
       LET actual == Count(ReviewChars, rate) IN
         \/ actual <= budget /\ ReturnMessages
         \/ actual > budget /\ step > Len(ReductionSteps) /\ ReturnNone
         \/ /\ actual > budget /\ step <= Len(ReductionSteps)
            /\ Shorten(ReductionSteps[step], actual - budget)

\* Mutant: no turns are left for the hunk.
MaxAnswerTurns_Thread == 1 + Len(input.comments)

\* _assemble_within_budget of an answer gives up after this many turns.
MaxAnswerTurns == 1 + Len(input.comments) + 3

\* Mutant: the newest comment is dropped.
DropComment_Newest ==
  /\ thread # << >>
  /\ thread' = Front(thread)
  /\ UNCHANGED << Inputs, limits, sections, step, outcome >>

\* The oldest comment is dropped.
DropComment ==
  /\ thread # << >>
  /\ thread' = Tail(thread)
  /\ UNCHANGED << Inputs, limits, sections, step, outcome >>

\* Without a thread, the hunk is shortened or the answer given up.
ShortenHunk(overshoot) ==
  /\ thread = << >>
  /\ \E rate \in Rates :
       LET limit == Max({floor, ReducedLimit(sections.hunk, overshoot, rate)}) IN
         IF limit >= sections.hunk THEN ReturnNone ELSE SetLimit("hunk", limit)

\* One turn of _assemble_within_budget for an answer.
AnswerTurn ==
  /\ job = "answer" /\ outcome = "running"
  /\ TakeTurn(MaxAnswerTurns)
  /\ \E rate \in Rates :
       LET actual == Count(AnswerChars, rate) IN
         \/ actual <= budget /\ ReturnMessages
         \/ actual > budget /\ DropComment
         \/ actual > budget /\ ShortenHunk(actual - budget)

\* The loop ends without a prompt that is short enough.
TurnsUsedUp ==
  /\ outcome = "running"
  /\ turns = IF job = "review" THEN MaxReviewTurns ELSE MaxAnswerTurns
  /\ ReturnNone
  /\ UNCHANGED turns

Next == ReviewTurn \/ AnswerTurn \/ TurnsUsedUp

Spec == Init /\ [][Next]_vars

(***************************************************************************)
(* Properties.                                                             *)
(***************************************************************************)
\* The variables have their types.
TypeOK ==
  /\ job \in {"review", "answer"}
  /\ input \in IF job = "review" THEN ReviewInputs ELSE AnswerInputs
  /\ budget \in Budgets /\ floor \in Nat
  /\ DOMAIN limits \subseteq ToSet(ReductionSteps) \cup {"hunk"}
  /\ \A s \in DOMAIN limits : limits[s] \in Nat
  /\ thread \in Seq(Nat)
  /\ step \in 1..(Len(ReductionSteps) + 1)
  /\ turns \in 0..(IF job = "review" THEN MaxReviewTurns ELSE MaxAnswerTurns)
  /\ outcome \in {"running", "fits", "overflow"}

\* The code under review is shortened last: a diff has a limit only when
\* nothing of the docs, the API spec, the context and the description is left.
DiffLast ==
  "diff" \in DOMAIN limits => \A s \in ToSet(ReductionSteps) \ {"diff"} : sections[s] = 0

\* The newest comments stay: what is shown of a thread is its end, and the
\* hunk is whole as long as there is a comment left to drop.
NewestComments ==
  job = "answer" =>
    /\ IsSuffix(thread, input.comments)
    /\ "hunk" \in DOMAIN limits => thread = << >>

\* Nothing is left of the section or, of the code under review, its floor.
AtMinimum(section) ==
  sections[section] <= (IF section \in {"diff", "hunk"} THEN floor ELSE 0)

\* A prompt is given up only when nothing of it can be shortened ("even shortened
\* to the minimum"), or when the turns are used up.  That happens to a review since
\* no limit counts the blank lines between files and the note on dropped ones, so
\* that a turn may find the limit of the turn before.  It happens to both where the
\* server counts some of the texts and the estimate the others: what is too much in
\* one count is too little in the other.
OverflowAtMinimum ==
  outcome = "overflow" =>
    /\ thread = << >>
    /\ \/ \A s \in DOMAIN sections : AtMinimum(s)
       \/ job = "review" /\ turns = MaxReviewTurns
       \/ job = "answer" /\ turns = Len(input.comments) + 4

\* An answer has turns enough to come to the minimum.
AnswerOverflowAtMinimum ==
  job = "answer" /\ outcome = "overflow" => AtMinimum("hunk")

\* A batch of a review is given up only when the prompt is too long even with
\* nothing but a diff at its floor.
ReviewOverflowAtMinimum ==
  job = "review" /\ outcome = "overflow" =>
    \E rate \in Rates : Count(FixedChars + DiffChars(input.pieces, floor), rate) > budget
=============================================================================
