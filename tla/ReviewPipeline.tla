---------------------------- MODULE ReviewPipeline ----------------------------
(***************************************************************************)
(* ReviewPipeline.run (app/review/pipeline.py): one review, from the files *)
(* of the pull request to the completed or failed event.                   *)
(*                                                                         *)
(* The pieces are packed into batches; each batch is assembled into a      *)
(* prompt, generated with retries, and its findings are filtered and then  *)
(* verified against the prompt that produced them.  How far the token      *)
(* budget shortens a diff depends on what the server measures, so the      *)
(* limit it arrives at is a choice; what a limit does to the diff is       *)
(* PromptBudget.  What the model answers is a choice, too.                 *)
(***************************************************************************)
EXTENDS PromptBudget, ResultFilter

CONSTANTS
  Targets,           \* the pieces in the order of the pull request
  CharSizes,         \* bound: the sizes of a rendered piece
  TokenSizes,        \* bound: its sizes in tokens
  DiffLimits,        \* bound: limits the token budget may shorten a diff to
  RiskChars,         \* the risk hint, which the packing does not count
  Findings,          \* bound: findings of the model
  Answers,           \* bound: lists of findings it may answer with
  MaxShortened,      \* truncation_retry_max_findings
  MaxVerifyBatches   \* _MAX_VERIFY_BATCHES

ASSUME PipelineAssumption ==
  /\ Targets \in Seq(Pieces) /\ IsInjective(Targets) /\ Range(Targets) = Pieces
  /\ CharSizes \subseteq Nat \ {0} /\ TokenSizes \subseteq Nat \ {0}
  /\ DiffLimits \subseteq Nat
  /\ \A x \in Findings : /\ x.severity \in DOMAIN SeverityOrder
                         /\ x.confidence \in Int /\ x.evidence \in BOOLEAN
  /\ \A x, y \in Findings : x.place = y.place => x.file = y.file
  /\ Answers \subseteq Seq(Findings)
  /\ RiskChars \in Nat /\ MaxShortened \in Nat /\ MaxVerifyBatches \in Nat

VARIABLES
  chars, tokens,  \* size of each piece, as rendered and in tokens
  pc,             \* what run() waits for
  batches,        \* target_batches
  n,              \* number of the batch at work
  again,          \* the second attempt at it
  prompt,         \* batch_messages: what they show of the diff
  report,         \* the report of the first assembly of the batch
  reason,         \* last_reason
  successful,     \* output, used messages and files of each batch that succeeded
  omitted,        \* omitted_files
  partial,        \* partial_files
  reviewed,       \* reviewed_files
  groups,         \* findings still to be verified, by the messages they came from
  rounds,         \* verify calls made for the first group
  confirmed,      \* findings that were confirmed
  reviews,        \* inline comments of the completed event
  calls,          \* history: generate calls for each batch
  timeouts,       \* history: batches of which a call timed out
  verdicts        \* history: finding and messages of each confirmation

inputs == << chars, tokens >>
batchVars == << batches, n >>
notes == << omitted, partial, reviewed >>
verifyVars == << groups, rounds, confirmed, reviews, verdicts >>
vars == << inputs, batchVars, notes, verifyVars, pc, again, prompt, report, reason,
           successful, calls, timeouts >>

Files == Range(FileOf)
FilesOf(pieces) == {FileOf[p] : p \in pieces}
Batch == batches[n]

\* Messages are told apart by the batch, the suffix and what they show.
NoPrompt == [batch |-> 0, short |-> FALSE, whole |-> {}, cut |-> {}, dropped |-> {}]
PromptOf(short, shown) ==
  [batch |-> n, short |-> short, whole |-> shown.whole, cut |-> shown.cut,
   dropped |-> shown.dropped]

Reasons == {"context_overflow", "timeout", "parse_error", "server_error", "output_truncated"}
Stages == {"prepare", "assemble", "generate", "shorten", "reduce", "verify",
           "completed", "failed", "raised"}
Done == {"completed", "failed", "raised"}

TypeOK ==
  /\ chars \in [Pieces -> CharSizes] /\ tokens \in [Pieces -> TokenSizes]
  /\ pc \in Stages /\ n \in 1..(Len(batches) + 1)
  /\ \A i \in DOMAIN batches : batches[i] \in Seq(Pieces)
  /\ again \in BOOLEAN /\ reason \in Reasons
  /\ prompt.whole \cup prompt.cut \cup prompt.dropped \subseteq Pieces
  /\ omitted \cup partial \cup reviewed \subseteq Files
  /\ rounds \in 0..MaxVerifyBatches
  /\ \A i \in DOMAIN successful : successful[i].prompt.batch \in DOMAIN batches

\* split_oversized_target cuts a file into pieces only if it is too large.
SplitForSize(size) ==
  \A p, q \in Pieces :
    p # q /\ FileOf[p] = FileOf[q] => size[p] + size[q] > MaxFileChars

Init ==
  /\ chars \in {size \in [Pieces -> CharSizes] : SplitForSize(size)}
  /\ tokens \in [Pieces -> TokenSizes]
  /\ pc = "prepare"
  /\ batches = << >> /\ n = 1 /\ again = FALSE
  /\ prompt = NoPrompt /\ report = NoPrompt
  /\ reason = "context_overflow"
  /\ successful = << >>
  /\ omitted = {} /\ partial = {} /\ reviewed = {}
  /\ groups = << >> /\ rounds = 0 /\ confirmed = {} /\ reviews = << >>
  /\ calls = << >> /\ timeouts = {} /\ verdicts = {}

\* The retrieval of related code is the one step whose exception is not caught.
RetrievalFails ==
  /\ pc = "prepare"
  /\ pc' = "raised"
  /\ UNCHANGED << inputs, batchVars, notes, verifyVars, again, prompt, report,
                  reason, successful, calls, timeouts >>

Prepare ==
  /\ pc = "prepare"
  /\ batches' = Batches(Targets, chars, tokens)
  /\ omitted' = FilesOf(BeyondCap(Targets, chars, tokens))
  /\ calls' = [i \in DOMAIN batches' |-> 0]
  /\ pc' = IF Targets = << >> THEN "completed" ELSE "assemble"
  /\ UNCHANGED << inputs, n, partial, reviewed, verifyVars, again, prompt, report,
                  reason, successful, timeouts >>

\* The next batch, or the end of the loop.
NextBatch(results) ==
  /\ n' = n + 1
  /\ again' = FALSE
  /\ prompt' = NoPrompt /\ report' = NoPrompt
  /\ pc' = IF n < Len(batches) THEN "assemble"
           ELSE IF results = << >> THEN "failed" ELSE "reduce"

\* Mutant: the files of a batch that failed are not noted.
GiveUp_Silently ==
  /\ NextBatch(successful)
  /\ UNCHANGED << omitted, partial, reviewed, successful >>

GiveUp ==
  /\ NextBatch(successful)
  /\ omitted' = omitted \cup FilesOf(Range(Batch))
  /\ UNCHANGED << partial, reviewed, successful >>

(***************************************************************************)
(* _assemble_within_budget                                                 *)
(***************************************************************************)
FullLimit == Max({0, CharsFor(n) - RiskChars})

\* The diff as it fits the characters, or as far as the tokens shorten it.
Assembled(short) ==
  {PromptOf(short, ShowAll(Batch, chars, limit)) :
     limit \in {FullLimit} \cup {l \in DiffLimits : l < FullLimit}}

Assemble ==
  /\ pc = "assemble"
  /\ \/ /\ prompt' \in Assembled(FALSE)
        /\ report' = prompt'
        /\ pc' = "generate"
        /\ UNCHANGED << n, again, notes, successful >>
     \/ GiveUp
  /\ UNCHANGED << inputs, batches, verifyVars, reason, calls, timeouts >>

(***************************************************************************)
(* _generate_batch and _retry_shortened                                    *)
(***************************************************************************)
Call == calls' = [calls EXCEPT ![n] = @ + 1]

\* What run() does with the output of a batch; sent is what the model saw.
Succeed(answer, used, sent) ==
  LET result == [prompt |-> used, sent |-> sent, findings |-> answer] IN
  /\ successful' = Append(successful, result)
  /\ omitted' = omitted \cup FilesOf(report.dropped)
  /\ partial' = partial \cup FilesOf(report.cut)
  /\ reviewed' = reviewed \cup (FilesOf(Range(Batch)) \ FilesOf(report.dropped))
  /\ NextBatch(Append(successful, result))

\* The output parses, or a part of it could be recovered.
Generate ==
  /\ pc = "generate"
  /\ Call
  /\ \E answer \in Answers : Succeed(answer, prompt, prompt)
  /\ UNCHANGED << inputs, batches, verifyVars, reason, timeouts >>

\* Mutant: a timeout is tried again like any other error.
GenerateTimesOut_Retries ==
  /\ pc = "generate"
  /\ Call
  /\ timeouts' = timeouts \cup {n}
  /\ reason' = "timeout"
  /\ \/ ~again /\ again' = TRUE /\ UNCHANGED << n, pc, prompt, report, notes, successful >>
     \/ again /\ GiveUp
  /\ UNCHANGED << inputs, batches, verifyVars >>

GenerateTimesOut ==
  /\ pc = "generate"
  /\ Call
  /\ timeouts' = timeouts \cup {n}
  /\ reason' = "timeout"
  /\ GiveUp
  /\ UNCHANGED << inputs, batches, verifyVars >>

\* An unparseable answer or any other error: one more attempt.
GenerateFails ==
  /\ pc = "generate"
  /\ Call
  /\ \/ /\ ~again
        /\ again' = TRUE
        /\ UNCHANGED << n, pc, prompt, report, notes, successful, reason >>
     \/ /\ again
        /\ reason' \in {"parse_error", "server_error"}
        /\ GiveUp
  /\ UNCHANGED << inputs, batches, verifyVars, timeouts >>

\* Mutant: the reason of an earlier failure stays.
GenerateTruncated_KeepsReason ==
  /\ pc = "generate"
  /\ Call
  /\ \/ /\ prompt' \in Assembled(TRUE)
        /\ pc' = "shorten"
        /\ UNCHANGED << n, again, report, notes, successful, reason >>
     \/ /\ GiveUp
        /\ UNCHANGED reason
  /\ UNCHANGED << inputs, batches, verifyVars, timeouts >>

\* Nothing of a truncated answer can be recovered: a prompt with a longer suffix
\* is assembled, without a report, if it fits.
GenerateTruncated ==
  /\ pc = "generate"
  /\ Call
  /\ \/ /\ prompt' \in Assembled(TRUE)
        /\ pc' = "shorten"
        /\ UNCHANGED << n, again, report, notes, successful, reason >>
     \/ /\ reason' = "output_truncated"
        /\ GiveUp
  /\ UNCHANGED << inputs, batches, verifyVars, timeouts >>

Shortened(answer) == SubSeq(answer, 1, Min({Len(answer), MaxShortened}))

\* Mutant: the findings are kept with the messages of the first call.
Retry_FirstMessages ==
  /\ pc = "shorten"
  /\ Call
  /\ \E answer \in Answers : Succeed(Shortened(answer), report, prompt)
  /\ UNCHANGED << inputs, batches, verifyVars, reason, timeouts >>

Retry ==
  /\ pc = "shorten"
  /\ Call
  /\ \E answer \in Answers : Succeed(Shortened(answer), prompt, prompt)
  /\ UNCHANGED << inputs, batches, verifyVars, reason, timeouts >>

\* Any exception, a timeout included.
RetryFails ==
  /\ pc = "shorten"
  /\ Call
  /\ timeouts' \in {timeouts, timeouts \cup {n}}
  /\ reason' = "output_truncated"
  /\ GiveUp
  /\ UNCHANGED << inputs, batches, verifyVars >>

(***************************************************************************)
(* The reduce phase and the verification.                                  *)
(***************************************************************************)
\* The k-th finding x of the i-th batch that succeeded.
FindingOf(x, i, k) ==
  [place |-> x.place, file |-> x.file, severity |-> x.severity, confidence |-> x.confidence,
   evidence |-> x.evidence, text |-> x.text, from |-> i, nr |-> k]

\* The findings of all batches; each knows the batch result it came from.
Found ==
  Joined([i \in DOMAIN successful |->
    [k \in DOMAIN successful[i].findings |-> FindingOf(successful[i].findings[k], i, k)]])

MessagesOf(group) == successful[group.from].prompt

PutIntoGroup(grouped, x) ==
  IF \E i \in DOMAIN grouped : grouped[i].from = x.from
  THEN [i \in DOMAIN grouped |->
          IF grouped[i].from = x.from THEN [grouped[i] EXCEPT !.findings = Append(@, x)]
          ELSE grouped[i]]
  ELSE Append(grouped, [from |-> x.from, findings |-> << x >>])

\* Grouped by the messages that produced them, in the order of the findings.
Grouped(found) == FoldLeft(PutIntoGroup, << >>, found)

\* Mutant: a file some piece of which was not tried is still reviewed.
Reduce_ReviewedWins ==
  /\ pc = "reduce"
  /\ omitted' = omitted \ reviewed
  /\ UNCHANGED partial
  /\ groups' = Grouped(FilterReviews(Found))
  /\ pc' = "verify"
  /\ UNCHANGED << inputs, batchVars, reviewed, rounds, confirmed, reviews, verdicts,
                  again, prompt, report, reason, successful, calls, timeouts >>

\* A file that was reviewed elsewhere is not omitted, it was reviewed in part.
Reduce ==
  /\ pc = "reduce"
  /\ omitted' = omitted \ reviewed
  /\ partial' = (partial \cup (omitted \cap reviewed)) \ omitted'
  /\ groups' = Grouped(FilterReviews(Found))
  /\ pc' = "verify"
  /\ UNCHANGED << inputs, batchVars, reviewed, rounds, confirmed, reviews, verdicts,
                  again, prompt, report, reason, successful, calls, timeouts >>

\* The first k findings of the first group are done; the next group starts afresh.
Proceed(k, round) ==
  LET findings == groups[1].findings IN
    IF k < Len(findings)
    THEN /\ groups' = [groups EXCEPT ![1].findings = SubSeq(findings, k + 1, Len(findings))]
         /\ rounds' = round
    ELSE groups' = Tail(groups) /\ rounds' = 0

\* One verify call for the next findings of a group; those without a verdict
\* that confirms them, or all of them when the call fails, are dropped.
Verify ==
  /\ pc = "verify" /\ groups # << >>
  /\ rounds < MaxVerifyBatches
  /\ \E k \in DOMAIN groups[1].findings :
       /\ Proceed(k, rounds + 1)
       /\ \E good \in SUBSET Range(SubSeq(groups[1].findings, 1, k)) :
            /\ confirmed' = confirmed \cup good
            /\ verdicts' = verdicts \cup {<< x, MessagesOf(groups[1]) >> : x \in good}
  /\ UNCHANGED << inputs, batchVars, notes, pc, again, prompt, report, reason,
                  successful, reviews, calls, timeouts >>

\* A finding too large for any call, or beyond the last call of its group.
Discard ==
  /\ pc = "verify" /\ groups # << >>
  /\ Proceed(1, rounds)
  /\ UNCHANGED << inputs, batchVars, notes, pc, again, prompt, report, reason,
                  successful, confirmed, reviews, verdicts, calls, timeouts >>

Publish ==
  /\ pc = "verify" /\ groups = << >>
  /\ reviews' = Select(FilterReviews(Found), confirmed)
  /\ pc' = "completed"
  /\ UNCHANGED << inputs, batchVars, notes, again, prompt, report, reason,
                  successful, groups, rounds, confirmed, verdicts, calls, timeouts >>

Next ==
  \/ RetrievalFails \/ Prepare \/ Assemble
  \/ Generate \/ GenerateTimesOut \/ GenerateFails \/ GenerateTruncated
  \/ Retry \/ RetryFails
  \/ Reduce \/ Verify \/ Discard \/ Publish

Spec == Init /\ [][Next]_vars

(***************************************************************************)
(* Properties.                                                             *)
(***************************************************************************)
\* What the model was shown of a piece in answers that count.
SeenWhole(p) == \E i \in DOMAIN successful : p \in successful[i].sent.whole
SeenCut(p) == \E i \in DOMAIN successful : p \in successful[i].sent.cut

\* The file has a piece whose answer came from the shortened retry.
Retried(f) ==
  \E i \in DOMAIN successful :
    successful[i].sent.short /\ f \in FilesOf(Range(batches[successful[i].sent.batch]))

InFull(f) == \A p \in Pieces : FileOf[p] = f => SeenWhole(p)

\* A completed review names every file of which the model did not see all, but
\* for files of a batch that was retried with a shortened answer: that prompt is
\* assembled again without a report of what it leaves out.
FilesAccountedButRetried ==
  pc = "completed" =>
    \A f \in Files : f \in omitted \cup partial \/ Retried(f) \/ InFull(f)

\* The model has seen p in a prompt that dropped another piece of its file.
SeenBesideDropped(p) ==
  \E i \in DOMAIN successful :
    LET sent == successful[i].sent IN
    p \in sent.whole \cup sent.cut /\ FileOf[p] \in FilesOf(sent.dropped)

\* The notes of a completed review are true, but for batches that were retried.
\* Of a partly reviewed file some was shown and some was not in full.  Of an
\* omitted file nothing was shown, unless in a prompt that dropped another piece
\* of it: the pieces of one file in one batch share its path.
NotesTrue ==
  pc = "completed" =>
    /\ omitted \cap partial = {}
    /\ \A f \in {g \in omitted \cup partial : ~Retried(g)} :
         LET seen == {p \in Pieces : FileOf[p] = f /\ (SeenWhole(p) \/ SeenCut(p))} IN
         /\ ~InFull(f)
         /\ IF f \in partial THEN seen # {} ELSE \A p \in seen : SeenBesideDropped(p)

\* A file noted as not reviewed has no piece the model has seen.
OmittedUnseen ==
  pc = "completed" =>
    \A p \in Pieces : FileOf[p] \in omitted => ~(SeenWhole(p) \/ SeenCut(p))

\* An inline comment was confirmed against the messages that produced it.
VerifiedOnItsPrompt ==
  \A k \in DOMAIN reviews :
    << reviews[k], successful[reviews[k].from].sent >> \in verdicts

\* An inline comment is the only one at its place.  A finding fit for one is left
\* out only for findings no less severe: one at its place, a full list, or a full
\* list for its file.
CommentsBest ==
  pc = "verify" =>
    LET kept == FilterReviews(Found)
        NoWorse(y, x) == SeverityOrder[y.severity] <= SeverityOrder[x.severity]
        AllNoWorse(places, x) == \A i \in places : NoWorse(kept[i], x)
    IN  /\ \A i, j \in DOMAIN kept : kept[i].place = kept[j].place => i = j
        /\ \A x \in {y \in Range(Found) : Candidate(y)} \ Range(kept) :
             \/ \E y \in Range(kept) : y.place = x.place /\ NoWorse(y, x)
             \/ Len(kept) = MaxComments /\ AllNoWorse(DOMAIN kept, x)
             \/ /\ Cardinality(InFile(kept, x.file)) = MaxPerFile
                /\ AllNoWorse(InFile(kept, x.file), x)

\* A batch costs at most three calls, and none after one that timed out.
CallsBounded ==
  /\ \A i \in DOMAIN calls : calls[i] <= 3
  /\ pc \in {"generate", "shorten"} => n \notin timeouts

\* A review fails only if no call gave an answer; its reason is the size of the
\* prompt exactly if there was no call at all.
FailureTrue ==
  pc = "failed" =>
    /\ successful = << >>
    /\ reason = "context_overflow" <=> \A i \in DOMAIN calls : calls[i] = 0

\* The batches and the pieces beyond the cap are the pieces of the pull request,
\* none of them twice; only a piece alone in its batch may be over budget.
SplitSound ==
  pc = "assemble" /\ n = 1 =>
    LET tried == Joined(batches)
        rest == BeyondCap(Targets, chars, tokens)
    IN  /\ IsInjective(tried) /\ Range(tried) = Pieces \ rest
        /\ \A i \in DOMAIN batches :
             Len(batches[i]) > 1 =>
               /\ TokensOf(batches[i], tokens) <= TokensFor(i)
               /\ CharsOf(batches[i], chars) <= CharsFor(i)

=============================================================================
