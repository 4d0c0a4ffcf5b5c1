# Verification of the Dovi AI server

The server reviews pull requests with a language model. It takes requests from Kafka, keeps its locks
in Redis, shows the changed files to the model in one or more prompts, publishes what it found, and
in a sandbox on another machine installs, builds and starts the code of the pull request. This
directory holds TLA+ modules translated from that code, TLC configurations that model-check them on
small instances, and proofs checked by TLAPS. Paths below are relative to the repository.

`PROJECT.json` lists, for every definition that models code, the lines it models (`map`), for every
property a mutation of a modelled definition that breaks it (`mutants`; the operators commented
"Mutant" in the modules), and what in this code is hard to test, line by line (`hazards`).

Run `tlc -config X.cfg M` for a run and `tlapm M_proofs.tla` for the proofs.

## 1. The system

| Component | State | Operations | Talks to |
|---|---|---|---|
| Review request consumer (`app/kafka/consumer.py`, `app/main.py`) | position and offset of its partition, the task of `_run_consumer_forever`, the shutdown event | `run`, `handle`, `_save_evaluation_record`; restart after an exception, shutdown, cancellation after the grace period | dedup lock, head tracker, pipeline, producers, evaluation repository |
| Dedup lock (`app/review/dedup.py`) | a Redis key per job: absent, in progress, completed, with a TTL | `try_start`, `mark_completed`, `mark_failed` | every consumer |
| PR head tracker (`app/review/superseded.py`) | a Redis counter, a hash per pull request, an offset of a group of its own | `record`, `is_superseded` | read by the review consumer while it is written |
| Review pipeline (`app/review/pipeline.py`, `context.py`, `risk_hints.py`, `timing.py`) | batches, reports of prompts, results, files omitted and partly seen | packing, assembling, generating, retrying, reducing, verifying | LLM client, retrievers, result filter |
| Diff handling (`diff.py`, `diff_lines.py`, `hunk_split.py`, `chunking.py`) | none; pure functions on patches | line numbers, changed lines, splitting, code around a change | pipeline |
| Result filter (`result_filter.py`) | none | `filter_reviews`, `summarize_minor` | pipeline |
| LLM client and output parser (`app/llm/`) | the HTTP client | `generate`, `count_tokens`, `get_context_window`, recovery of truncated output | llama-server |
| Comment answers (`app/comment_answer/`) | offset, dedup key | `run`, `handle`; a budget loop of its own | LLM client |
| Sandbox probe consumers and job runner (`app/sandbox_probe/`) | offset, dedup key and attempt counter per job; containers, networks and a clone per job | `handle`, `_execute`, the stages of a job, clean-up, reaping of orphans | Docker, git, token service |
| Evaluation repository, feedback consumer (`app/evaluation/`) | rows of jobs, comments, feedback | `save_completed`, `save_failed`, `save_feedback` | PostgreSQL |
| Repository index (`app/rag/`, `scripts/index_repo.py`) | points of each file in Qdrant | reindexing on push, full index | embedder |
| API spec sync (`app/notion/`, `scripts/sync_api_spec.py`) | points of each page, links | sync, retrieval | Notion |
| Dependency and release context (`app/context/`) | caches | version walks, release notes | npm, Maven, GitHub |
| Settings, lifespan, health | tasks, clients | start, shutdown | all |
| Offline evaluation, developer scripts | files | metrics, manual runs | - |

What is hard about them, and what makes each correct:

- **Delivery.** Every `await` of `handle` may end by an exception, a cancellation or the death of the
  process, and the effect of the call may or may not have happened. The partition may move to another
  member in the middle. Correct means: no two workers on one job, no request acknowledged before it was
  processed, none lost, no key left behind, one published review per job, a skipped request only for a
  newer head.
- **Sandbox.** Two runs share a Docker daemon; every stage may fail, time out, be cancelled or be killed
  in between. Correct means: a verdict is about the code and not about the sandbox, nothing stays in
  Docker, a request that keeps failing is closed after a bounded number of runs, every request gets a
  result.
- **Pipeline.** Many batches, each of which may overflow, time out, be cut, be retried. Correct means: the
  reader is told of every file the model did not see in full, comments are checked against the prompt
  they came from, calls are bounded.
- **Diff handling.** Numbers of lines survive splitting, annotation and odd lines, or every comment is
  misplaced.
- **Prompts.** Two loops shorten prompts until they fit, with counts that may change their scale between
  two calls. Correct means: the less important goes first, and giving up is the last resort.
- **Index, API specs.** Delete-then-upsert without a transaction around it, by two processes. Correct means:
  a search never finds two versions of a file or a part of a database; a failure costs at most the file or
  the repository it hit.
- **Output parser.** An answer may be cut at any character. Correct means: what was written to its end is
  recovered, and nothing else.
- **Evaluation store.** Get-then-write at "read committed", by runs of a job that follow each other and by
  members that both have a message. Correct means: a completed job has its record, the rows tell the last
  outcome although an update skips the columns that seem not to change, the last reaction wins.
- **Dependencies.** A finding comes from a line of a diff whose entry the diff may not show, and from two
  caches and three services that may fail. Correct means: no finding about a package the change does not
  add, none missed where the services answered, no notes of another version.

## 2. Modules

```
ReviewLedger          what the review consumer promises about a job
   ^ refines
ReviewDelivery  --extends-->  PrHeads          (ReviewDelivery_proofs: theorems and the refinement)
SandboxProbe    --extends-->  SandboxDocker    (SandboxProbe_proofs: theorems)
ReviewPipeline  --extends-->  PromptBudget, ResultFilter  --extend-->  Selections
                                               (ReviewPipeline_proofs: theorems)
PromptCascade   --extends-->  PromptBudget     (ModelCalls_proofs: theorems of these three)
FilePieces      --extends-->  DiffText  --extends-->  Selections
OutputRecovery
EvaluationStore                                (EvaluationStore_proofs: theorems)
CodeIndex                                      (CodeIndex_proofs: theorems)
ApiSpecSync                                    (Context_proofs: theorems of both)
DependencyContext  --extends-->  Selections
Folds_proofs          lemmas on folds and lists, for ReviewPipeline_, ModelCalls_ and Context_proofs
MC<module>            the instance TLC checks
```

### ReviewDelivery, PrHeads, ReviewLedger

One partition of `pr.review.requested` and the members of the consumer group. `pc[w]` is the `await`
worker `w` is at: `check` is `is_superseded`, `start` is `try_start`, `run` is the pipeline,
`publishCompleted`, `mark` and `saveCompleted` are the success path, `publishFailed`, `saveFailed` and
`unlock` the failure path, `release` is `mark_failed` in the handler for `CancelledError`, `commit` is
`consumer.commit()`, `backoff` the sleep of `_run_consumer_forever`. The action named after a value is
the call returning; `Raise`, `Cancel`, `Recancel` and `Kill` are its other ends. `Interrupted` says that a
call that did not return had an effect or not; the fault "late" admits the former. `Cancel` goes to
`release` only from the body of the `try`, as in the code; elsewhere the task simply ends.

`CommitOffset` commits the position of the member's own assignment, which is what `commit()` without
arguments does; a member that has lost the partition commits nothing. After an exception the position
stays past the message (`main.py:50-52` calls `run()` again on the same consumer).

`suffered` is a history variable: which kinds of faults have happened. The properties name in it the faults
after which the code does not keep them, so that one run can let everything happen and each property still
speaks about every behaviour it is true of. What `handle` saves in the database is only a step here; the rows
are in `EvaluationStore`.

`PrHeads` is the counter and the hash of `superseded.py`. A job whose id has a comment suffix (a mention or
a `/dovi review`) is not a head request: it is neither recorded nor superseded. `Track` is
`PrHeadTrackerConsumer`, in a group of its own, so it may lag behind or run ahead.

`ReviewLedger` is the abstract specification: a job is taken by one worker at a time, a failure is
reported only by that worker, and after a review is published nothing more happens to the job. The
refinement maps "busy" to "the key is in progress and no review was published", answers and failures to
the events.

### SandboxProbe, SandboxDocker

`SandboxDocker` is the daemon and the work directory: names are unique, a network with containers cannot be
removed, a mounted directory must exist. `SandboxProbe` is the worker process: several consumers, each
with a partition and one run at a time. The values of `pc[c]` follow `handle`, `_execute` and the stages of
`_run_stages` in their order; `install`/`installing` and the like are the start and the end of one
`docker run`. `code[j]` is what the code of the pull request really does, and `Aggregate` the verdict, so
that properties can compare the two.

What the code does not look at is a fault of its own. The result of `_wait_ready` is ignored and a helper command that
fails or exceeds its 10 s gives an empty answer (`runner.py:418-422`, `probes.py:73-92`): `AppUnseen` is a port that looks
closed or a start that seems not announced, `CountUnseen` announcements that could not be counted before SIGTERM,
`NoticeUnseen` an end that seems not announced, `RunRefused` a `docker run` that Docker refused and whose exit code is
taken for the command's. The counter of attempts has its TTL from the call after the INCR (`SetTtl`; `timed`) and may
end at any time after that (`ExpireAttempts`); a counter whose EXPIRE was not reached never ends.

Four history variables: `suspect`, the keys of which a docker command was cut short or failed; `misread`, the jobs of which a
failure of the sandbox was taken for a fact about the code, with what it was (`Readings`); `abandoned`, the jobs whose
dedup key stayed when their handler was cut short; `runs`, the runs under the present counter.

### ReviewPipeline, PromptBudget, ResultFilter

`ReviewPipeline` is `run` after the targets are prepared: `Prepare` packs the pieces into batches
(`_split_targets_into_batches`), then for each batch `Assemble`, `Generate` and its failures, `Retry` (the
shortened second prompt), and at the end `Reduce`, `Verify`, `Discard` and `Publish`. Texts are lengths;
what the model answers is a choice from `Answers`, what the server's token counts do to a diff is a choice
of a limit. `PromptBudget` is the packing and the cutting (`_truncate_diff_blocks_detailed`),
`ResultFilter` the selection of inline comments. Both are folds over lists (`Selections` has those for a
list comprehension), so that they can be proved about. `groups` holds the findings by the batch result they came
from: `FindingOf` gives each finding its result and number, which stand for the identity of the object in the code.

### PromptCascade

Both `_assemble_within_budget` loops. A turn assembles (`sections`: the lengths of the sections under the
current limits), counts with one of `Rates` (server or estimate, chosen anew for each count, because each
call of `/tokenize` may fail by itself) and returns, shortens a section, or goes to the next. `input` is
chosen once; the prompts of later batches are those with empty shared sections.

### DiffText, FilePieces

`DiffText` reads hunks: which new line a line is, which lines changed, how a hunk is cut. Git ends a line at a line feed, but
the review splits patches with `str.splitlines()`, for which a form feed, a vertical tab, NEL, U+2028 and others end one too.
So a line has a `rest`, the lines that such a boundary makes of its end (`LinesOf`), and what the review reads is not what
git wrote but `ReadHunks` of it. A rest that looks like a hunk header is left out.

`FilePieces` writes a patch line by line as git does, keeping in `at` the true number of each line, and states what
chunking, splitting and annotation do to it. Lines that look like file headers (`+++`, `---` as content)
and the mark of a missing newline are kinds of their own. `ContextChunks` is the best effort of the code: nodes around changed
lines, and windows around the others if the text allows it (`textual`) and if the lines of the window are not taken for the
bytes of a node, since `seen_ranges` holds both (`Seen`). Two nodes on the same lines are one.

### CodeIndex

The points of a repository's code in Qdrant, written by the members of the group of `repo.index.requested`
and by a run of `index_repo.py`; both are "indexers". `pc[x]` is `delete` before `delete_by_file` and `embed`
between it and `upsert_chunks`; `todo[x]` holds the changes an indexer has still to do. The calls are
synchronous and hold the event loop, so no cancellation falls between them, but the member misses heartbeats
meanwhile: the fault "rebalance" hands the partition to another one while the first goes on. A failure of
one file is logged and the next one is taken up (`index_consumer.py:54-63`), but it ends the script. `Place`
is `merge_small_chunks`. History variables tell apart what the properties must: `broken` (files whose last
reindexing was given up), `outside` (files that somebody else than the reader of the topic touched) and
`contended` (files that two indexers were between delete and upsert of at the same time).

### ApiSpecSync

`SaveLink` is what a review does with the link in DOVI.md; `Start`, `GetLink`, `QueryPage`, `Delete`, `Upsert` are
`sync_all` with the awaits of `list_all` and `query_database` as steps, and `NextLink` the end of a turn of its
loop. Pages hold one row. Two runs may overlap because nothing keeps cron from starting the second, and
Notion's users edit a database between two pages (`edited`).

### EvaluationStore

`save_completed`, `save_failed`, `save_line_check` and `upsert_feedback` are each a read and a write in one
transaction: `ReadJob`, `ReadRecord` and `Write` of a worker, `ReadCheck` and `WriteCheck`, `Select` and `Upsert` of a
member of the feedback group. `Changed` is what SQLAlchemy's UPDATE writes, the columns that differ from what was
read; `Duplicate` and `IntegrityError` are the constraints that refuse an INSERT. A run begins (`Begin`) when the key
of the job is free, walks through the end of the pipeline and of `handle`, and may end at each await. The
transaction of a caller that is gone becomes an orphan, which commits or vanishes at any later time (`OrphanEnds`).
`React` is the author of a pull request; `Fetch` to `Commit` are `ReviewFeedbackConsumer.run`, which has no key of its own.
`lost` and `dropped` remember which outcomes and reactions did not reach the tables.

### DependencyContext

The spec writes the diff of a lockfile line by line in the way git does (`KeyLine`, `VersionLine`, `Hunk`), or that
of a Gradle file (`Coordinate`), and keeps the true entry and number of each line in `truth`. `Review` then
starts the lookups: `ExtractChanges` is `extract_dependency_changes` (its state is the line number and the name of
the entry last opened), `Checks` and `Lookups` the two resolvers with their caps. `Get`, `Ask` and `Set` are the
deprecation cache and the client of npm or Maven, each of which may go unanswered.

`FindRepo`, `GetNotes`, the search and `Keep` are the release notes. The search asks one place of `Places` after the other, three
tags and the changelogs of two branches (`AskGitHub`), and each answers in one of three ways: it has the notes (`HasNotes`), it counts as
having none (`Denies`: a 404, but also any other status the client does not know as transient, such as a redirect, and a 200
that does not parse), or it fails for now (`Fails`). `EndSearch` keeps "no notes" only if no place failed. Meanwhile
notes may be published (`Publish`). `doubted` is a history variable: the places that have notes and were, or are, taken to have none.

Between reviews, and during one, packages become deprecated (`Deprecate`; none is ever taken back) and entries of the caches
end (`Expire`). The second review begins with the caches the first one left. When the files are done (`Resolved`) the
diff and its findings are forgotten, as nothing after that reads them.

### OutputRecovery

The spec writes an answer token by token and knows what it means; `Answer` ends it with either
`finish_reason` and gives the text to the parser. `ValueAt`, `ItemStrings` and `StringEnds` are the three
scanners, `StripFence` the pattern for code fences; `Load` is `json.loads` and pydantic on the text of one
comment. The properties compare the outcome with what was written to its end (`Written`).

## 3. Runs

| Run | What it asks | Bounds |
|---|---|---|
| `delivery_faults` | under every fault: mutual exclusion, no early commit, no orphaned key, no lost request, skips only for a newer head, refinement of `ReviewLedger` | 2 workers, 2 heads of one PR and a mention, 2 requests, 2 faults, symmetric workers |
| `delivery_cancel` | under shutdowns that overrun their grace period, with a second cancellation, and kills: every request is answered, gives way, or its key was left | 2 workers, 2 heads of one PR, 2 requests, 2 faults |
| `evaluation_store` | rows of reviews and feedback under every fault | 1 job, 2 workers, 2 members, 2 runs, 2 reactions, 2 values of each column, 2 faults |
| `sandbox_faults` | verdicts and Docker leftovers, under every fault | 2 consumers, 1 job and 1 request each, code of three qualities for one and code that cannot be installed for the other, 2 attempts, 2 faults |
| `sandbox_closed` | the limit of attempts while requests, kills and expiry repeat them; every request gets a result or its key was left | 1 consumer, 1 job with 2 requests, code of three qualities, 2 attempts, 3 faults |
| `review_pipeline` | notes, verification, comments, calls, failure reasons, packing | 4 pieces of 3 files, 3 sizes, 2 batches, 2 limits, 2 answers with 2 places and 3 severities |
| `file_pieces` | line numbers, context, piece sizes for every patch git can write | 4 lines, with or without another line boundary in them, 6-line file, flat or with a class and two methods |
| `prompt_cascade` | order of shortening, newest comments, giving up only at the minimum | 2 pieces, 3 sizes each, 12 budgets, 2 rates |
| `code_index` | one version of a file, committed pushes are indexed | 2 members, the script, 2 repositories, 2 pushes, 2 faults |
| `api_spec_sync` | whole copies, harmless outages, every link is followed | 2 runs, 2 repositories, 3 tables, 1 change, 1 fault |
| `dependency_context` | findings are about what was added, none is missed, notes are of the release | 2 packages of one npm repository, 1 Maven artifact, diffs of 5 lines, 2 flagged packages, 2 lookups, notes at the plain tag, there or published later |
| `output_recovery` | what is recovered is what was written to its end; complete answers are accepted | 4 summaries, 2 of 4 comments, cut at every token |

Why the bounds are enough. In the delivery runs a request has one successor and a job has one rival: the
conflicts of the code are between two workers on one key and between one message and the next, and each
needs one or two faults; three heads or a third fault add no new pair. In `evaluation_store` the second run is the
one that meets the rows, or the orphan, of the first, and two values of a column are enough for an update
to skip one; findings of a job do not touch each other. In the sandbox the second job is only there to be in the
way of the first; `sandbox_closed` has one job, because neither the counter nor the key of a job is touched by another, and
two requests with three faults for it: a second delivery meets what the first one left, and a kill, an expired key and an expired
counter fit in one behaviour. In `review_pipeline` two batches are the least with a "later" one, a file of two pieces may lie in both,
and sizes reach just below and above each limit. In `file_pieces` four lines hold two hunks, or one that is cut
in two, and one boundary within a line moves all lines after it. In `prompt_cascade` the budgets go from 0 to one that holds everything. In `code_index` two members and the
script give every pair of indexers, and a push of a changed file can overtake another. In `api_spec_sync` one
bad link stands before or after a good one, and one change or fault falls at every step of either run. In
`dependency_context` five lines hold two entries and a line between them that git leaves out; the plain
tag is the place in the middle of the five, so that there are places before it and after it that fail or answer. In `output_recovery` the texts hold each character that means
something to a scanner, and the first comment may repeat, or follow, any other. What a bound hides: three
rivals for one key, a third batch, a third entry of a lockfile.

Deadlock is not checked where a behaviour ends by design: the bounded log is used up, or the review, the
prompt or the patch is finished.

The `TypeOK` of each module says what its variables hold. It is true of the configurations above when it is added
to them; for all but `OutputRecovery`, which has none, it is a theorem. The runs spend their time on the other properties.

The faults under which a property is known not to hold are named in it, by way of `suffered`, or left out of
its run, and no others:

- `MutualExclusion` needs that no cancelled call has taken effect late. Otherwise `release` may delete a key that
  another worker took in the meantime (`dedup.py:79`: the key names no owner).
- `ImplementsLedger` ends with the first cancellation, because `consumer.py:100-104` deletes the key of a job whose
  review may have been published, which is then reviewed a second time, and with the first key that expires.
- `NoOrphanLock` and `NoLostRequest` end where a process is killed, a call raises or takes effect late, or a task
  is cancelled a second time: in these cases the key stays in progress, the redelivered request is skipped and
  acknowledged, and nobody answers it until the TTL has passed. For the second cancellation see
  `main.py:426-427`: as soon as one task has ended, `gather` ends, and `task.cancel()` reaches a handler that
  is awaiting `mark_failed`. `NoLostRequest` also ends where a cancellation meets a rebalance: the new owner
  skips and commits what the old one is cancelled on.
- `CommitAfterHandling` needs that no call has raised (see below).
- `OnlyNewerHeadSkips` and `AllAnswered` let a request give way where another head of its pull request was asked for
  after it *first* was: a head that is recorded again keeps its first number (`superseded.py:58`), so a
  branch that was reset to an earlier head looks old, and its last request is skipped for a head that is gone.
- `StoreTellsLastReview` needs that no transaction commits late, since the key that keeps the runs of a job apart
  is given up before; `LatestFeedback` needs that no call raises and the partition of a live member does not move.
- `AllAnswered` leaves out messages whose key was left behind (`LeftBehind`): nobody is at work on the job, its key is still in
  progress, and a handler was killed, cancelled a second time, or ended by a call that took effect late. Exceptions of
  Redis and Kafka are not in its run; they leave keys in the same way.
- `AllClosed` leaves out jobs that are `abandoned`: their key was taken or should have been given up when the handler was killed,
  cancelled a second time, or cut short in a call that took effect late. Exceptions of Redis and Kafka are not in its run.
- `AttemptsBounded` is about the runs under one counter, which ends a day after its first attempt (`consumer.py:18,94-95`). A job
  that is requested again after that starts afresh.
- `IssueHasCause` and `PassIsEarned` name the failures of the sandbox that the code takes for the code's (`misread`): a refused build
  counts as a failed one, an end that could not be asked for as not announced, and of announcements that could not be
  counted before SIGTERM that of the start counts as that of the end. The theorems also assume that no two jobs share the name of
  their containers (`KeysDiffer`), and in the run they do not. In the code two pull requests with one head commit do,
  since a name is the last 40 characters of the request id (`runner.py:180`): then the clean-up of one may remove the build
  container of the other, whose exit code counts as a failed build.
- `VisibleExact`, and the true numbers in `NumbersSurviveSplit`, leave out lines that hold another line boundary (`OneLineEach`).
  `AddedHasContext` leaves out these and lines that look like file headers or are marks (`Plain`), and lines for which
  no code can be had (`HasContext`).
- `ReleaseNotesTrue` allows "no notes" where every place that has notes is `doubted`.
- `CompleteAccepted` is about answers in a fence, and about others whose texts hold at most one fence (`SeveralFences`);
  `AllRecovered` leaves out answers with misleading fences (`Misleading`).
- `OneVersion` leaves out files that are contended, `CommittedIsIndexed` those that are broken or outside;
  `SpecWhole` leaves out databases that were edited, of which a copy may hold rows from before and after.
- `FindingsSound` and `NothingMissed` leave out versions whose line does not name its entry and follows, in its hunk, the
  key line of an entry that is deleted or of a workspace (`Obscured`); `NothingMissed` also packages whose own lookup got no answer, or one that
  became stale, and those beyond the cap.

### Disagreements between code and comments

TLC refutes each of these when it is put into the configuration named. They mark where a passing property
stops.

- `CommitAfterHandling` without its exception for "raise" (`delivery_faults.cfg`): `consumer.py:39` promises that the
  offset is committed only after processing. After an exception the loop goes on with the next message
  (`main.py:50-52`), and that message's commit covers the one that raised.
- `LatestFeedback` without its exception for "rebalance" (`evaluation_store.cfg`): `feedback_consumer.py:17-18` says that
  the upsert is idempotent and so safe on redelivery. When the partition moves while its owner still handles an older
  reaction, that reaction may be stored after a newer one.
- `StoreTellsLastReview` without its exception for "late" (`evaluation_store.cfg`): `repository.py:43-46` relies on the key
  for there being no concurrent writes of one job. A transaction whose caller was cancelled or killed may commit when
  the next run of the job has written its rows.
- `AllAnswered` without `LeftBehind` (`delivery_cancel.cfg`): the comment at `main.py:417-418` leaves it to `handle()` to release its lock
  when the grace period is over. `wait_for` cancels the tasks, `gather` ends as soon as the first of them has ended, and the loop
  of `main.py:426-427` then cancels a handler that is still awaiting `mark_failed`.
- `AllClosed` without its exception `abandoned` (`sandbox_closed.cfg`): `sandbox_probe/consumer.py:39-40` promises that a
  job that kills the worker is closed after a number of attempts. The killed worker leaves the dedup key too,
  so the second delivery is skipped before it reaches the counter.
- `FilesAccountedButRetried` without its disjunct `Retried(f)` (`review_pipeline.cfg`): `pipeline.py:689-690` says
  the code itself tells the user of files that were dropped or cut. `_retry_shortened` assembles a longer prompt
  without a report.
- `AllRecovered` without `Misleading`, and `CompleteAccepted` without `answer.fenced \/ ~SeveralFences` (`output_recovery.cfg`):
  `output_parser.py:28-33` says an answer is refused when it is no JSON. An answer without a fence around it whose suggested
  fix holds a fenced block is valid JSON, but the pattern of line 9 takes what is between the fences of that block for the answer;
  of a truncated answer in a fence it drops what follows the last fence in a text.
- `OmittedUnseen`, which is `NotesTrue` without `SeenBesideDropped` (`review_pipeline.cfg`): a dropped piece makes its file count as not reviewed
  although another piece of it, in the same batch, was shown (`pipeline.py:695`).
- `ChangedLinesExact`, which is `AddedHasContext` without its restriction to plain patches (`file_pieces.cfg`): an added line `++x` or a "No newline"
  mark shifts or adds numbers (`chunking.py:96-99`).
- `VisibleExact` and `NumbersSurviveSplit` without `OneLineEach` (`file_pieces.cfg`): `diff_lines.py:39`, `diff.py:58` and
  `chunking.py:88` split with `str.splitlines()`, which ends a line at more characters than git does. What follows such a
  character counts as a line, and the numbers of all lines after it in the hunk are too large.
- `AddedHasContext` without `HasContext` (`file_pieces.cfg`): the comment at `chunking.py:210-212` says that a line outside all
  functions gets a window. One key set holds the bytes of nodes and the lines of windows (`chunking.py:220,237-239`), so that a
  window is dropped where a node before it has these bytes.
- `ReviewOverflowAtMinimum`, which lacks the exception of `OverflowAtMinimum` for a review that used all its turns
  (`prompt_cascade.cfg`): the docstring
  of `_assemble_within_budget` gives up only when everything is at its minimum. Blank lines between files and the
  note on dropped files are not counted by the limits of the diff and of the context, so a small overshoot
  finds the same limit again until the 16 turns are used up.
- `AnswerOverflowAtMinimum`, which lacks the exception of `OverflowAtMinimum` for an answer (`prompt_cascade.cfg`): the docstring
  of `comment_answer/pipeline.py:222-223` gives up only when the hunk, too, is at its minimum. The three turns kept for
  the hunk are not enough when the server counts one text and the estimate another: with `Rates = {2, 3}` they may be used up
  above the floor. With one rate the property holds.
- `ReleaseNotesTrue` without `doubted` (`dependency_context.cfg`): the docstring at `github_release_client.py:24-29` says that "no
  notes" was confirmed at every tag and the CHANGELOG, and `release_notes_cache.py:26-30` keeps it as an immutable fact of the version.
  A status that is neither 200 nor known as transient, and a 200 that does not parse, count as a confirmation
  (`github_release_client.py:126-131`, `162-163`); and notes may be published after "no notes" was kept.
- `ReleaseNotesTrue` with the notes of each package by its own name (`dependency_context.cfg`, with the tags named for either package in
  `Published`): the key of the cache is the repository and the version, so that of two packages in one repository
  one may be told the notes of the other.
- `FindingsSound` without `Obscured` (`dependency_context.cfg`): the name of an entry is taken from the last key line of
  the hunk (`npm_lockfile_diff.py:44`). A deleted key line in the place of the new one, or the key of a workspace,
  makes the version below it belong to a package the change does not add, or to none.

## 4. Fairness

- A call returns: weak fairness of `Handle(w)` (and of `Run(c)` in the sandbox). Redis, Kafka and the model
  are called with time limits; a call that raises is a fault.
- The grace timer fires: `Cancel(w)` (`main.py:421`, `wait_for`).
- A stopped process is started again (systemd, compose), and the broker assigns a free partition.
- The head tracker goes on (`Track`).
- Cron starts the sync script again and again, and a run goes on (`FairSpec` of `ApiSpecSync`).

Nothing is assumed of faults, requests or the order of workers. The liveness properties are leads-to
properties of a bounded log; what a run may do in between is bounded by `MaxFaults`.

## 5. Proofs

`ReviewDelivery_proofs` proves, for every set of workers and jobs, every log and any number of faults:

- `TypeCorrect`: `Spec => []TypeOK`. The types are not inductive alone: an action that uses `log[at[w]]`
  needs that a worker in `handle` has a message that asks for a job (`AtOK`). `TypeInv` is the conjunction.
  `HistoryGrows` says that `suffered` is never forgotten, so that a property that begins with a fault that has happened
  is kept from then on.
- `Exclusion`: `Spec => []MutualExclusion`. The invariant `LockInv` says that, unless a cancelled call took effect
  late (`Excused`), a worker in the `try` block has a key that is not absent, that workers there have different jobs,
  and that a worker stops only if a cancellation happened. Each step of a worker is shown to be one of three kinds:
  it keeps the keys (`KeepsKeys`), takes an absent one (`TakesKey`), or leaves the block (`DropsKey`);
  `KeyStepKeepsLockInv` does the rest for all of them at once. The expiry of a key keeps the invariant because a
  key outlives every handler of its job (a day against minutes), which is a guard of `ExpireLock`.
- `NoOrphans`: `Spec => []NoOrphanLock`. Added to it is that a worker that only has rows to save has marked its
  key completed (`OrphanInv`), since it leaves the block without touching the key. `HolderStep` is what all steps of a
  worker have in common: it leaves the block only when its key is no longer in progress, and touches no other;
  `LockInv` keeps its key from being another worker's.
- `CommitsAfterHandling`: `Spec => []CommitAfterHandling`. The property says nothing of what has been read and not
  committed, so the invariant `OffsetInv` adds: of the messages the owner has read, only the one it handles now is
  unsettled. `OffsetStep` is what the steps of a worker that has the partition have in common: it keeps its message
  until `handle` has returned, or gives the partition up. A fetch and a new assignment are treated apart.
- `SkipsForNewerHeads`: `Spec => OnlyNewerHeadSkips`. `HeadsInv` relates the hash to the log: a head with a number was
  requested, no later than where the tracker is, and of two heads of a pull request the one with the larger number was
  requested after the other. `RecordKeepsHeadsInv` is about the one action that gives numbers: it gives the largest to
  a head that has none, at the end of what is tracked.
- `NoRequestLost`: `Spec => []NoLostRequest`, the conjunction of all that goes before.
  `RequestInv` says that every settled message is accounted for, that a worker past its event has answered its job,
  that a completed key is the key of an answered job, and that a worker in `handle` has the partition unless it was moved.
  The hard case is a worker that finds the key taken (`TakenIsAccounted`): by `OrphanInv` somebody works on the
  job, who is another worker, so that the partition was moved; then nobody is cancelled, and the other one has published
  or will. A skip is accounted for by `HeadsInv`. `RequestStep` is what the steps of a worker have in common, and
  `OutsideKeepsRequestInv` takes the steps of Redis, the broker and the requesting service at once; `OffsetInv` carries
  the result from the settled messages to the committed ones.
- `Implements`: `Spec => ImplementsLedger`, the refinement of the abstract specification.
  `LedgerInv` relates the three pieces of state the mapping is made of to where the workers are: one that reviews a job
  holds its key and nothing was published for it; one that has published has not lost the key; a free key has
  no review behind it. `EffectIsLedgerStep` then maps each call, whether it returned or took effect late, to a step of
  the ledger or a stutter, and `LedgerStepKeepsLedgerInv` uses `Exclusion` for the workers that did not move.

`EvaluationStore_proofs` proves, for any workers, jobs, outcomes, runs and faults:

- `StoreTypeCorrect`: `Spec => []TypeOK`, for the tables of reviews and of feedback by themselves.
- `CompletedHasRecordAlways`: `Spec => []CompletedHasRecord`. A write of the columns that changed is safe only if what
  was read is still there, so `StoreInv` adds that rows never vanish between the read and the write, for the
  transactions of workers and for orphans. `SaveKeeps` is the step all writers share.
- `LatestFeedbackAlways`: `Spec => []LatestFeedback`. The property does not say who reads: `FeedbackInv` adds that only the
  owner of the partition handles a message, the first that is not committed (`ReaderOK`), that what it has read of the
  row is still there, and that the row tells that message before it is committed. `Tells` speaks of a maximal
  index instead of `CHOOSE`, so that a longer log or another refused message is seen not to matter.
- `StoreTellsLastReviewAlways`: `Spec => []StoreTellsLastReview`. The property is about jobs that nobody runs; `RowsInv`
  says what holds while somebody does: the key keeps the runs of a job apart, the rows are those before the
  outcome that is being saved, and what was read of them is what is there (`SaveOK`, `CheckOK`), so that an update of the
  columns that differ gives the row of the new outcome.

`SandboxProbe_proofs` proves, for any consumers, jobs, code and faults:

- `AttemptsAlwaysBounded`: `Spec => []AttemptsBounded`. A run was counted before it began, and an INCR without an
  answer only makes the counter larger, so runs are at most the attempts, and at most the limit because a run
  begins only below it. When the counter ends, both start again (`ExpiryKeepsAttemptsInv`).
- `SandboxTypeCorrect`: types, and that a consumer with a message holds one of its own partition. Every step of a
  consumer but a fetch is a `Step`: it changes what is its own, and in Docker what has the key of its job. The
  later proofs rest on that.
- `NoStraysEver`: `Spec => []NoStrays`, for names that differ or agree. The property does not say why a network may
  stay that is attached to a container: `StraysInv` tells containers, which a run minds until it has removed them,
  from networks, which it minds to its end, and knows that what is created late is suspect already.
- `PassAlwaysEarned` and `IssueAlwaysHasCause`: `KeysDiffer` implies `Spec => []PassIsEarned` and
  `Spec => []IssueHasCause`. `VerdictInv` says for each stage which containers the run owns (`Owns`) and what it has
  learned of the code (`Learned`), or has misread. Without `KeysDiffer` another run may remove the container (`OthersUndisturbed`).

`CodeIndex_proofs` proves, for any members, repositories, files, contents and faults:

- `TypeCorrect`: `Spec => []TypeOK`, with a lemma for each of three groups of variables. That an indexer has
  changes to do exactly in the stages that work on one (`IndexerTypeOK`) is what makes `Current(x)` a change.
- `OneVersionAlways`: `Spec => []OneVersion`. The property is not inductive: an upsert adds points to those it
  finds. `SoleIndexer` adds that a file that is not contended has at most one indexer between the two calls,
  and no points while it has one. Steps are of three kinds: they only remove points (`Quiet`), they are an
  upsert, whether or not the call returns (`Writes`), or they are `Delete`, which decides what is contended.
- `CommittedIsIndexedAlways`: `Spec => []CommittedIsIndexed`. The property says nothing of what was read and not
  committed, which the owner commits with the rest: `PushInv` speaks of all that is `Known` instead, leaves out
  files the reader has still to do (`Pending`), and adds that what it has to do is the end of the message it took up
  (`ListsOK`) and that it upserts into a file without points, unless somebody else was at it (`ClearedOK`).

`Context_proofs` proves of `DependencyContext`, for any packages, versions, repositories, diffs, bounds and replies:

- `ContextTypeCorrect`, `FindingsAlwaysSound`, `NothingEverMissed` and `ReleaseNotesAlwaysTrue`: `Spec => []P` of the type invariant and
  of each property of the run, from one invariant, `ContextInv`. `DiffInv` ties the lines of the diff to the history that is
  written with them: the number and the entry of a line are those to which the lines before it lead. `ReadNext` is the heart: it
  says of `ReadLine` what the resolver knows after k lines (`ReadInv`: its number is the true one, and the name it holds is the true
  entry's unless the line that opened it is hidden), so that `ExtractIs` gives the changes of the whole diff. `DedupeIs` and `CapIs`
  say what is left of them, of which an early change is always a part (`InFileIs`, `ChecksAre`).
- `SoundInv` adds to `FindingsSound` that each lookup still to do comes from the diff, and that a verdict the cache holds, or that is
  about to be stored, was true when it was given; packages stay deprecated. `MissInv` adds to `NothingMissed` that what is to be
  found is found or still to be looked up, and that the cache says "fine" of a deprecated package only if it was deprecated
  afterwards. `NotesInv` adds to `ReleaseNotesTrue` what is between the answer and the cache, that the packages quoted and to be
  looked up differ, and that together they are no more than the cap. `SearchInv` says of a search that the places it has asked and that have notes are doubted, unless one
  failed; what was told of a release stays true when more notes come (`ToldStill`, `NotedNext`), because the places that were taken to
  have none are doubted from then on.

and of `ApiSpecSync`, for any runs of the script, repositories, databases and faults:

- `SyncTypeCorrect`: `SyncSpec => []SyncTypeOK`. `StageOK` says what a run holds at each stage, without which `Repo(r)` and
  `Link(r)` would not be a repository and a link.
- `OutageAlwaysHarmless`: `SyncSpec => []OutageHarmless`. A repository that was copied once and has no run between its
  delete and its upsert has points, because a run reaches the delete with rows only (`StageOK`) and a copy of rows is
  never empty (`PointsForNonempty`).
- `SpecAlwaysWhole`: `SyncSpec => []SpecWhole`. The property says nothing of a run that has deleted and not yet written.
  `SoleCopierOK` adds that such a run, when its repository is not contended, is the only one, finds no
  points of it, and is known as the source of the copy; `ReadsOK` that what a run has read of a database
  that was not edited is a beginning of it, and all of it once the run goes on to the delete. Upserts and deletes
  leave other repositories alone because the id of a point contains its repository (`UpsertSearch`, `DeleteSearch`).

`Folds_proofs` proves what the modules need that read lists. `FoldLeft` is defined by way of a recursive
function on sets of indices, so each fold is first shown to exist (`FoldExists`) and to be a run of its step
(`FoldLeftRuns`); `FoldInduction` then says that what the step preserves holds of the result. The predicate of the
induction is a set (`NatSetInduction`), since the backends cannot instantiate an operator. Out of this come, there and where they
are needed: lists one after another, their sums and their images grow as the lists do (`JoinedAppend`, `TotalAppend`), a selection keeps the elements it should (`SelectIs`), what is shown of a batch accounts for each of its pieces once
(`ShowAllIs`), packing puts each piece into one batch, in order, and only a piece alone is over budget (`PackIs`, `BatchesIs`).

`ReviewPipeline_proofs` proves, for any pull request, sizes, budgets, limits, findings and answers, `Spec => []P` of each
property of its run, by invariants that build on each other:

- `PipelineTypeCorrect` and `SplitSoundAlways` follow from `FlowInv`: the batches are those of the pull request and `n` is the
  one at work (`PlanOK`), a prompt accounts for each piece of its batch once (`PromptsOK`), and a result is of a batch that
  is done and is kept with the prompt the model saw (`ResultsOK`). `SplitIsSound` is the statement about the packing alone.
- `CallsBoundedAlways` from `CallsInv`, which counts the calls of a batch by the stage it is in; `FailureTrueAlways` from `FailInv`,
  which says of the batches that are done what the property says of all of them.
- `CommentsBestAlways` needs no invariant but `FlowInv`: it is about pure functions. `SortedIs` says that the insertion sort
  orders its argument, `DedupedIs` that the first, so the most severe, finding of a place is kept, `AdmittedIs` that one is
  left out only when a list was full of earlier ones, and `FilterIs` puts them together.
- `VerifiedOnItsPromptAlways` from `VerifyInv`: the findings of a group have one source, and what is confirmed has a verdict with the
  messages of its own result. Together with `ResultsOK` these are the messages that were sent.
- `FilesAccountedAlways` and `NotesTrueAlways` from `NotesInv`. While batches are at work it says what the notes tell of the
  pieces that are settled (`NotedBy`), afterwards what they tell of all (`ToldBy`); `Reduce` leads from the one to the other.
  The pieces of a batch are apart from those settled before, which is where `SplitIsSound` comes in again.

`ModelCalls_proofs` proves of `PromptCascade`, for any texts, budgets and rates:

- `CascadeTypeCorrect`, `DiffLastAlways`, `NewestCommentsAlways` and `OverflowAtMinimumAlways`: `Spec => []P` of the type invariant and of each
  property of the run, from one invariant. `ReviewInv` adds to `DiffLast` that the sections before the one in turn
  are empty and stay so under any limit of a later one (`Sets`); that a limit which cannot be lowered means that the
  section is at its minimum is arithmetic (`ReducedLimitLess`, `NewLimitLess`). `AnswerInv` counts the turns against the comments:
  each turn that does not end the loop drops one, so that the thread is empty before the turns are used up.

of `FilePieces`, for every patch git can write, every syntax tree and all lengths, from one invariant, `PatchInv`: the
true number of each line is the one that counting the new lines of its own hunk gives.

- `PiecesTypeCorrect`: `PiecesSpec => []PiecesTypeOK`.
- `VisibleAlwaysExact` and `NumbersAlwaysSurvive`: `PiecesSpec => []VisibleExact` and `[]NumbersSurviveSplit`, both with the exception
  `OneLineEach`. Cutting is a fold over the lines; what it keeps is that the pieces, one after the other, have the lines
  read so far, and that each starts at the number at which the one before it stops.
- `AddedAlwaysHasContext`: `PiecesSpec => []AddedHasContext`, with the exceptions `Plain` and `HasContext`. An added line lies in its node or
  its window; windows only grow when they are joined; and a chunk around a line of a piece overlaps the lines of the piece.
- `PiecesAlwaysFit`: `PiecesSpec => []PiecesFit`. A group takes a hunk only if it still fits, so that a piece over the limit
  is one hunk, and a hunk that was cut is over its limit only with one line or with a mark.

and of `OutputRecovery`, for any texts and fences:

- `CompleteAlwaysAccepted`: `RecoverySpec => []CompleteAccepted`. An answer that was written to its end is read as it is if it stands in
  a fence, whose pattern reaches to the last fence, or if its texts hold at most one fence, which the pattern does not match.

The assumptions are those named in the modules (`HeadOfAssumption`, `DeliveryAssumption`, `StoreAssumption`,
`SandboxAssumption`, `IndexAssumption`, `SyncAssumption`, `DependencyAssumption`, `BudgetAssumption`, `FilterAssumption`, `PipelineAssumption`,
`CascadeAssumption`, `ReserveAssumption`, `FileAssumption`, `RecoveryAssumption`); the runs evaluate them. That findings at one place are of one file is such an assumption:
the place of `filter_reviews` is made of the file, the line and the title.

Only model-checked: all liveness properties (TLAPS has no rules for fairness and ENABLED that its backends can use), and
`NothingInvented` and `AllRecovered` of `OutputRecovery`. The scanners read a text that was cut anywhere, also, between misleading
fences, from the middle of a string on. A theorem needs to know of the texts of comments and unknown members that their brackets
and quotes match, and that no member below the top looks like `reviews` where such a scan begins; the second is
true of the texts of the run but nothing in the code makes it so. The
library's induction theorems with an operator parameter, and recursive operators, are out of the provers' reach; no module
uses the latter.

## 6. What is not modelled

- **Columns** of a job that repeat its id are left out. `save_failed` takes them from the id (`repository.py:32`), where
  the head of a mention keeps the suffix of its comment. Timings are written as line checks are, and reading for the
  offline evaluation is left out.
- **Dependencies**: how an entry of the prompt is cut to its length and sanitised (the joined text may pass its
  limit by the three characters of the mark); the replies of npm and Maven Central beyond found, not found and failed; that a
  deprecation of npm is taken back, after which a cached finding is out of date until its TTL has passed.
- **Diff text**: a rest after another line boundary that looks like a hunk header, and such a boundary in the function name of a
  hunk header; both make the review see a hunk more or less.
- **Embeddings, scores and the reranker**: a search is the set of points it may find.
- `generate_text` and `verify_findings` as calls of their own; HTTP clients are I/O.
- **Finding functions in source code** is tree-sitter's; `FilePieces` takes the tree as given.
- **Wording** of prompts and notes; risk hints are a length; timing records are left out.
- **Sandbox inspection and containers**: reading of `package.json` and lock files, the proxy and the mock
  server. Their answers are choices of `SandboxProbe`.
- **Comment answer consumer**: `run` and `handle` have the control of `ReviewRequestConsumer` without the check
  and the rows (`SkipSuperseded` and `Saves` switched off), so the theorems about `ReviewDelivery`, which hold for
  every value of the two, speak about its lock and its offsets.
- **Offline evaluation and developer scripts**: sequential arithmetic and manual entry points.

Abstractions that hold throughout: one partition (partitions share nothing but Redis, and a key is of one
job); Kafka keeps the order of a partition and fences commits of a former owner; Redis commands are atomic.

## 7. Plan

Done, in this order: `ReviewDelivery` with `PrHeads` and `ReviewLedger` (the heart of the system: every
review passes it); `SandboxProbe` with `SandboxDocker`; `ReviewPipeline` with `PromptBudget` and
`ResultFilter`; `FilePieces` with `DiffText`; `PromptCascade`; `CodeIndex`; `OutputRecovery`; `ApiSpecSync`;
`EvaluationStore`; `DependencyContext`; the theorems of section 5.

Next:

1. An abstract store with one atomic "replace the points of a key", which `CodeIndex` and `ApiSpecSync` implement
   where nothing is contended.
2. `CommentAnswer` as a pipeline of one call.

Theorems worth having next: `AllRecovered` of the parser, whose answers have no misleading fences, for texts whose brackets and
quotes match.
