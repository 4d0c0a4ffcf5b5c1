---------------------------- MODULE OutputRecovery ----------------------------
(***************************************************************************)
(* One call of the model by OpenAICompatibleLLMClient.generate             *)
(* (app/llm/openai_compatible_client.py): its answer parsed, or, when it   *)
(* was cut at max_tokens, the findings that were written to their end      *)
(* recovered from it (parse_partial_review_output of                       *)
(* app/llm/output_parser.py).                                              *)
(*                                                                         *)
(* The spec writes an answer token by token, as the model does, and knows  *)
(* what it writes. The code has only the text. A token is a bracket, a     *)
(* quote, a backslash ("esc"), a code fence ("fence", with or without      *)
(* "json" after it), a word, or "x" for any other text.                    *)
(***************************************************************************)
EXTENDS Integers, SequencesExt, Selections

CONSTANTS
  Words,       \* bound: other words that a text has
  Findings,    \* bound: comments the model may write
  Summaries,   \* bound: texts of a summary
  Extras,      \* bound: members of an answer that the schema does not know
  MaxFindings, \* bound: comments in an answer
  Default      \* _DEFAULT_TRUNCATED_SUMMARY

Tokens ==
  Words \cup { "{", "}", "[", "]", ":", ",", "ws", "quote", "esc", "fence",
               "json", "summary", "reviews" }

\* What json.loads and the schema make of the text of a comment; its key is
\* << file_path, line, message >>.
ASSUME RecoveryAssumption ==
  /\ \A f, g \in Findings : f.text = g.text => f = g
  /\ \A f \in Findings : f.valid \in BOOLEAN /\ f.text \in Seq(Tokens)
  /\ Summaries \subseteq Seq(Tokens) /\ Extras \subseteq Seq(Tokens)
  /\ Default \notin Summaries
  /\ MaxFindings \in Nat

Answers ==
  [ summary : Summaries, reviews : SeqOf(Findings, MaxFindings),
    extra : Extras, reviewsFirst : BOOLEAN, fenced : BOOLEAN ]

VARIABLES
  answer, \* what the model means to write
  text,   \* what it has written
  rest,   \* what it has not
  finish, \* finish_reason
  result  \* what generate and the recovery made of it

recoveryVars == << answer, text, rest, finish, result >>

(***************************************************************************)
(* The text of an answer.                                                  *)
(***************************************************************************)
Escape(s) == Joined([i \in DOMAIN s |-> IF s[i] \in {"quote", "esc"} THEN << "esc", s[i] >>
                                                                   ELSE << s[i] >>])
Str(s) == << "quote" >> \o Escape(s) \o << "quote" >>
Key(name) == Str(<< name >>) \o << ":", "ws" >>

Syntax(tokens) == [what |-> "syntax", text |-> tokens]

Parts(a) ==
  LET n == Len(a.reviews)
      Comment(i) == << [what |-> "comment", of |-> a.reviews[i], text |-> a.reviews[i].text],
                       Syntax(IF i < n THEN << "," >> ELSE << >>) >>
      summary == << Syntax(Key("summary")), [what |-> "summary", text |-> Str(a.summary)] >>
      reviews == << Syntax(Key("reviews") \o << "[" >>) >>
                   \o Joined([i \in 1..n |-> Comment(i)]) \o << Syntax(<< "]" >>) >>
      comma   == << Syntax(<< "," >>) >>
  IN  << Syntax(<< "{" >> \o a.extra) >>
        \o (IF a.reviewsFirst THEN reviews \o comma \o summary ELSE summary \o comma \o reviews)
        \o << Syntax(<< "}" >>) >>

TextOf(parts) == Joined([k \in DOMAIN parts |-> parts[k].text])
Body(a) == TextOf(Parts(a))
Opening(a) == IF a.fenced THEN << "fence", "json" >> ELSE << >>
Whole(a) == Opening(a) \o Body(a) \o (IF a.fenced THEN << "fence" >> ELSE << >>)

\* The parts that were written to their end.
WrittenParts ==
  LET parts == Parts(answer)
      EndOf(k) == Len(Opening(answer) \o TextOf(SubSeq(parts, 1, k)))
  IN  SelectSeq([k \in DOMAIN parts |-> [part |-> parts[k], end |-> EndOf(k)]],
                LAMBDA p : p.end <= Len(text))

(***************************************************************************)
(* output_parser.py                                                        *)
(***************************************************************************)
Least(positions) == CHOOSE i \in positions : \A j \in positions : i <= j
Greatest(positions) == CHOOSE i \in positions : \A j \in positions : j <= i

\* Mutant: the fence that closes is the next one.
StripFence_NotGreedy(s) ==
  LET fences == {i \in DOMAIN s : s[i] = "fence"} IN
    IF \A i, j \in fences : i = j THEN s
    ELSE LET first == Least(fences)
             start == IF s[first + 1] = "json" THEN first + 2 ELSE first + 1
         IN  SubSeq(s, start, Least(fences \ {first}) - 1)

\* _strip_fence: the text from the first fence to the last.
StripFence(s) ==
  LET fences == {i \in DOMAIN s : s[i] = "fence"} IN
    IF \A i, j \in fences : i = j THEN s
    ELSE LET first == Least(fences)
             start == IF s[first + 1] = "json" THEN first + 2 ELSE first + 1
         IN  SubSeq(s, start, Greatest(fences) - 1)

\* The states of a scanner before each token of s, and after the last.
Scan(Step(_, _), init, s) ==
  LET states[i \in 0..Len(s)] ==
        IF i = 0 THEN << init >>
        ELSE LET before == states[i - 1] IN Append(before, Step(before[i], s[i]))
  IN  states[Len(s)]

InString(state, token) ==
  IF token = "quote" /\ ~state.escape THEN ~state.inString ELSE state.inString

\* Mutant: a backslash is a character like any other.
Escaped_Never(state, token) == FALSE

Escaped(state, token) == state.inString /\ ~state.escape /\ token = "esc"

\* Brackets, outside of strings.
Push(stack, token) ==
  CASE token \in {"{", "["} -> Append(stack, token)
    [] token \in {"}", "]"} /\ stack # << >> -> Front(stack)
    [] OTHER -> stack

KeyStep(state, token) ==
  [ inString |-> InString(state, token),
    escape   |-> Escaped(state, token),
    stack    |-> IF state.inString THEN state.stack ELSE Push(state.stack, token) ]

\* Mutant: a key at any depth will do.
AtTop_AnyDepth(state) == ~state.inString

AtTop(state) == ~state.inString /\ state.stack = << "{" >>

\* Where the value of a key of the outermost object begins, 0 if it does not.
ValueAt(s, name, first) ==
  LET key    == Key(name) \o << first >>
      states == Scan(KeyStep, [inString |-> FALSE, escape |-> FALSE, stack |-> << >>], s)
      found  == {i \in 1..(Len(s) - Len(key) + 1) :
                   AtTop(states[i]) /\ SubSeq(s, i, i + Len(key) - 1) = key}
  IN  IF found = {} THEN 0 ELSE Least(found) + Len(key) - 1

Deeper(depth, token) ==
  CASE depth = 0 -> IF token = "{" THEN 1 ELSE 0
    [] depth > 0 /\ token \in {"{", "["} -> depth + 1
    [] depth > 0 /\ token \in {"}", "]"} -> depth - 1
    [] OTHER -> depth

ItemStep(state, token) ==
  [ inString |-> InString(state, token),
    escape   |-> Escaped(state, token),
    depth    |-> IF state.inString THEN state.depth ELSE Deeper(state.depth, token) ]

\* _extract_array_item_strings: the objects of the array that are closed.
ItemStrings(s) ==
  LET states == Scan(ItemStep, [inString |-> FALSE, escape |-> FALSE, depth |-> 0], s)
      ends   == {i \in DOMAIN s : s[i] = "]" /\ states[i].depth = 0 /\ ~states[i].inString}
      stop   == IF ends = {} THEN Len(s) ELSE Least(ends)
      Closes(i) == {j \in i..stop : states[j].depth = 1 /\ states[j + 1].depth = 0}
      opens  == {i \in 1..stop : states[i].depth = 0 /\ states[i + 1].depth = 1 /\ Closes(i) # {}}
      order  == SetToSortSeq(opens, <)
  IN  [k \in DOMAIN order |-> SubSeq(s, order[k], Least(Closes(order[k])))]

\* json.loads and ReviewComment.model_validate of one item.
Load(item) == {f \in Findings : f.text = item /\ f.valid}

\* _dedupe_reviews
Dedupe(reviews) ==
  FoldLeft(LAMBDA d, f : IF \E g \in Range(d.kept) : g.key = f.key
                         THEN [d EXCEPT !.duplicates = @ + 1]
                         ELSE [d EXCEPT !.kept = Append(@, f)],
           [kept |-> << >>, duplicates |-> 0], reviews)

Unescape(s) ==
  LET states == Scan(ItemStep, [inString |-> TRUE, escape |-> FALSE, depth |-> 0], s)
      order  == SetToSortSeq({i \in DOMAIN s : s[i] # "esc" \/ states[i].escape}, <)
  IN  [k \in DOMAIN order |-> s[order[k]]]

\* The quote that closes a string, of which s begins after the quote that opens it.
StringEnds(s) ==
  LET states == Scan(ItemStep, [inString |-> TRUE, escape |-> FALSE, depth |-> 0], s)
  IN  {i \in DOMAIN s : s[i] = "quote" /\ ~states[i].escape}

\* _find_summary_value, or the default
Summary(s) ==
  LET at   == ValueAt(s, "summary", "quote")
      tail == SubSeq(s, at + 1, Len(s))
  IN  IF at = 0 \/ StringEnds(tail) = {} THEN Default
      ELSE LET value == Unescape(SubSeq(tail, 1, Least(StringEnds(tail)) - 1))
           IN  IF value = << >> THEN Default ELSE value

\* parse_partial_review_output
Recover(s) ==
  LET candidate == StripFence(s)
      at    == ValueAt(candidate, "reviews", "[")
      items == IF at = 0 THEN << >> ELSE ItemStrings(SubSeq(candidate, at + 1, Len(candidate)))
      valid == SelectSeq(items, LAMBDA item : Load(item) # {})
      found == Dedupe([k \in DOMAIN valid |-> CHOOSE f \in Load(valid[k]) : TRUE])
  IN  IF found.kept = << >> THEN [kind |-> "output_truncated"]
      ELSE [ kind |-> "recovered", reviews |-> found.kept, duplicates |-> found.duplicates,
             summary |-> Summary(candidate) ]

(***************************************************************************)
(* generate, and what the pipeline does with a truncated answer.           *)
(***************************************************************************)
RecoveryInit ==
  /\ answer \in Answers
  /\ text = << >> /\ rest = Whole(answer)
  /\ finish = "none"
  /\ result = [kind |-> "none"]

\* The model writes on.
WriteToken ==
  /\ finish = "none" /\ rest # << >>
  /\ text' = Append(text, Head(rest))
  /\ rest' = Tail(rest)
  /\ UNCHANGED << answer, finish, result >>

\* The call returns no answer: it timed out, the server refused it, or the
\* response has no text in it.
Fail ==
  /\ finish = "none" /\ text = << >>
  /\ finish' = "error"
  /\ \E kind \in {"timeout", "server_error", "parse_error"} : result' = [kind |-> kind]
  /\ UNCHANGED << answer, text, rest >>

\* json.loads and the schema accept the answer, or they do not.
Accepts(s) == StripFence(s) = Body(answer) /\ \A f \in Range(answer.reviews) : f.valid

\* The model stops, or is cut at max_tokens.
Answer ==
  /\ finish = "none"
  /\ finish' \in {"stop", "length"}
  /\ result' = IF Accepts(text)
               THEN [kind |-> "parsed", reviews |-> answer.reviews, summary |-> answer.summary]
               ELSE IF finish' = "length" THEN Recover(text) ELSE [kind |-> "parse_error"]
  /\ UNCHANGED << answer, text, rest >>

RecoveryNext == WriteToken \/ Fail \/ Answer

RecoverySpec == RecoveryInit /\ [][RecoveryNext]_recoveryVars

(***************************************************************************)
(* Properties.                                                             *)
(***************************************************************************)
Comments(written) ==
  LET comments == SelectSeq(written, LAMBDA p : p.part.what = "comment" /\ p.part.of.valid)
  IN  [k \in DOMAIN comments |-> comments[k].part.of]

SummaryWritten == \E p \in Range(WrittenParts) : p.part.what = "summary"

\* Several code fences in an answer: StripFence takes the first and the last of
\* them for those around the answer.  They are those if the answer is in a fence
\* and was written to its end.
SeveralFences == \E i, j \in {k \in DOMAIN text : text[k] = "fence"} : i # j
Misleading == SeveralFences /\ (answer.fenced => rest # << >>)

\* Whatever the texts of an answer hold, a recovered comment is one the model
\* wrote to its end in `reviews`, once, and the summary is its summary.
NothingInvented ==
  result.kind = "recovered" =>
    /\ Range(result.reviews) \subseteq Range(Comments(WrittenParts))
    /\ \A i, j \in DOMAIN result.reviews : result.reviews[i].key = result.reviews[j].key => i = j
    /\ result.summary \in {answer.summary, Default}

\* Of every comment written to its end the first with its key is recovered, in
\* order, and the others are counted; so is the summary, unless it was cut:
\* braces, quotes and keys in a text do not mislead the scanner. (Fences do.)
AllRecovered ==
  finish = "length" /\ result.kind # "parsed" /\ ~Misleading =>
    LET comments == Comments(WrittenParts)
        first    == {i \in DOMAIN comments : \A j \in 1..(i - 1) : comments[j].key # comments[i].key}
        order    == SetToSortSeq(first, <)
    IN  IF comments = << >> THEN result.kind = "output_truncated"
        ELSE /\ result.kind = "recovered"
             /\ result.reviews = [k \in DOMAIN order |-> comments[order[k]]]
             /\ result.duplicates = Len(comments) - Len(order)
             /\ result.summary =
                  IF SummaryWritten /\ answer.summary # << >> THEN answer.summary ELSE Default

\* A valid answer that was written to its end is taken as it is: if the model put
\* it in a code fence, whatever fences its texts hold; if it did not, unless its
\* texts hold several (then the text between them is parsed, and the answer lost).
CompleteAccepted ==
  /\ finish \in {"stop", "length"} /\ rest = << >>
  /\ answer.fenced \/ ~SeveralFences
  /\ \A f \in Range(answer.reviews) : f.valid
  => result.kind = "parsed"
=============================================================================
