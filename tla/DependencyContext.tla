--------------------------- MODULE DependencyContext ---------------------------
(***************************************************************************)
(* What a review learns about the dependencies a pull request changes: the *)
(* findings of DependencyResolver (app/context/dependency_resolver.py) and *)
(* the release notes OfficialDocsWorkflow gathers for the model            *)
(* (app/context/official_docs_workflow.py), with the caches in Redis and   *)
(* the clients of npm, Maven Central and GitHub, each of which may fail.   *)
(*                                                                         *)
(* The spec writes the diff of a lockfile line by line, in the way git     *)
(* does, and notes the true owner and number of each line.  Of a lockfile  *)
(* it keeps the lines that open an entry and those with its version.       *)
(*                                                                         *)
(* Reviews follow each other in one process.  A Maven name never meets an  *)
(* npm name, so one cache stands for the two with their own key prefix.    *)
(***************************************************************************)
EXTENDS Naturals, FiniteSets, Selections, TLC

CONSTANTS
  NpmNames,    \* packages of npm
  MavenNames,  \* artifacts of Maven Central, group and artifact
  Moved,       \* those with a relocation in their POM
  Versions,
  RepoOf,      \* the GitHub repository npm names for a package, or None
  Published,   \* bound: the places on GitHub that have notes sooner or later
  Foreign,     \* the key of a lockfile entry that is no "node_modules/..."
  None,
  Missing,     \* no entry in a cache
  MaxChecks,   \* _MAX_DEPENDENCY_CHECKS_PER_FILE
  MaxPackages, \* _MAX_PACKAGES
  MaxLines,    \* bound: lines of a diff
  MaxFlagged,  \* bound: packages that are deprecated or have moved
  MaxLookups,  \* bound: changes looked up in one review
  Gap          \* bound: lines a diff skips between two hunks

Names == NpmNames \cup MavenNames
Packages == [name : Names, version : Versions]
GitHubRepos == {RepoOf[n] : n \in NpmNames} \ {None}
Releases == GitHubRepos \X Versions

\* Where find_release_notes looks, in this order: the releases of three tags, and
\* the changelogs of two branches.
Spots(n) == << <<"tag", "v">>, <<"tag", n>>, <<"tag", "">>, <<"branch", "main">>, <<"branch", "master">> >>

Places(n, v) == [i \in 1..5 |-> [repo |-> RepoOf[n], version |-> v, at |-> Spots(n)[i]]]

ASSUME DependencyAssumption ==
  /\ NpmNames \cap MavenNames = {} /\ Moved \subseteq MavenNames
  /\ Foreign \notin Names /\ None \notin Names \cup {Foreign} \cup Versions
  /\ RepoOf \in [NpmNames -> GitHubRepos \cup {None}]
  /\ {MaxChecks, MaxPackages, MaxLines, MaxFlagged, MaxLookups, Gap} \subseteq Nat

VARIABLES
  kind,    \* the file that is changed: "npm" or "gradle"
  copies,  \* the lockfiles of the repository that change in this way
  patch,   \* its diff
  truth,   \* of each line of it, the owner and the number in the new file
  ends,    \* what the old and the new file have next: "key" or "version"
  owner,   \* the entry the new file is in, None if the diff does not show it
  number   \* the number of the next line of the new file

VARIABLES
  stage,    \* the await the review is at
  todo,     \* the changes still to be looked up
  reply,    \* the answer to the last lookup, or how far the search for notes is
  findings, \* the deprecated or relocated packages
  evidence  \* the release notes for the prompt

VARIABLES
  flagged,    \* packages that are deprecated or relocated
  noted,      \* the places on GitHub that have, or had, notes
  remembered, \* RedisNpmDeprecationCache
  notes       \* RedisReleaseNotesCache

VARIABLES
  before,  \* history: the packages flagged when the resolver began,
  excused, \* those it got no answer about, or one that may be stale,
  stale,   \* and those flagged after an answer about them;
  doubted  \* the places of which it was taken that they have no notes

diff    == << kind, copies, patch, truth, ends, owner, number >>
results == << findings, evidence >>
world   == << flagged, noted >>
caches  == << remembered, notes >>
history == << before, excused, stale, doubted >>
vars == << diff, stage, todo, reply, results, world, caches, history >>

Stages == {"diff", "get", "ask", "set", "repo", "notes", "search", "keep"}

TypeOK ==
  /\ kind \in {"npm", "gradle"} /\ copies \in 1..2
  /\ Len(patch) <= MaxLines /\ Len(truth) = Len(patch)
  /\ owner \in Names \cup {Foreign, None} /\ number \in Nat
  /\ stage \in Stages
  /\ \A c \in Range(todo) \cup findings : c.name \in Names /\ c.version \in Versions
  /\ flagged \subseteq Packages
  /\ noted \subseteq Published /\ doubted \subseteq noted
  /\ remembered \in [Packages -> {"missing", "fine", "flagged"}]
  /\ DOMAIN notes = Releases
  /\ before \subseteq flagged /\ excused \subseteq Packages /\ stale \subseteq flagged

Same(next) == [old |-> next, new |-> next]

Init ==
  /\ kind \in {"npm", "gradle"}
  /\ copies = 1 /\ patch = << >> /\ truth = << >>
  /\ ends = Same("key")
  /\ owner = None /\ number = 1
  /\ stage = "diff" /\ todo = << >> /\ reply = None
  /\ findings = {} /\ evidence = << >>
  /\ flagged \in {F \in SUBSET Packages : Cardinality(F) <= MaxFlagged}
  /\ \A p \in Packages : p.name \in MavenNames => (p \in flagged <=> p.name \in Moved)
  /\ noted \in SUBSET Published
  /\ remembered = [p \in Packages |-> "missing"]
  /\ notes = [r \in Releases |-> Missing]
  /\ before = {} /\ excused = {} /\ stale = {} /\ doubted = {}

(***************************************************************************)
(* The diff.  Between two hunks both files are the same; in a block of     *)
(* changes the deleted lines come first; "=" marks a line of context.      *)
(***************************************************************************)
Line(mark, key, version) == [mark |-> mark, key |-> key, version |-> version, start |-> 0]

Add(line, true, next) ==
  /\ stage = "diff" /\ Len(patch) < MaxLines
  /\ patch' = Append(patch, line)
  /\ truth' = Append(truth, true)
  /\ ends' = next
  /\ UNCHANGED << kind, copies, stage, todo, reply, results, world, caches, history >>

Hunk ==
  /\ patch # << >> => Last(patch).mark # "@"
  /\ ends.old = ends.new
  /\ \E next \in IF kind = "npm" THEN {"key", "version"} ELSE {"key"} :
       Add([Line("@", None, None) EXCEPT !.start = number + Gap],
           [owner |-> None, number |-> 0], Same(next))
  /\ owner' = None /\ number' = number + Gap

Write(mark, key, version, next) ==
  /\ patch # << >>
  /\ mark = "-" => Last(patch).mark # "+"
  /\ owner' = IF mark # "-" /\ key # None THEN key ELSE owner
  /\ number' = IF mark = "-" THEN number ELSE number + 1
  /\ Add(Line(mark, key, version), [owner |-> owner', number |-> number], next)

Files(mark) == (IF mark = "+" THEN {} ELSE {"old"}) \cup (IF mark = "-" THEN {} ELSE {"new"})

Advance(mark, to) == [f \in DOMAIN ends |-> IF f \in Files(mark) THEN to ELSE ends[f]]

KeyLine(mark) ==
  /\ kind = "npm" /\ \A f \in Files(mark) : ends[f] = "key"
  /\ \E key \in NpmNames \cup {Foreign} : Write(mark, key, None, Advance(mark, "version"))

VersionLine(mark) ==
  /\ kind = "npm" /\ \A f \in Files(mark) : ends[f] = "version"
  /\ \E version \in Versions : Write(mark, None, version, Advance(mark, "key"))

\* "group:artifact:version" in a build.gradle.
Coordinate(mark) ==
  /\ kind = "gradle"
  /\ \E p \in Packages : p.name \in MavenNames /\ Write(mark, p.name, p.version, ends)

(***************************************************************************)
(* The changes of a patch: npm_lockfile_diff.py, gradle_dependency_diff.py.*)
(***************************************************************************)
\* Mutant: the entry of the hunk before is still the current one.
StartHunk_KeepsName(s, start) == [s EXCEPT !.line = start]

StartHunk(s, start) == [s EXCEPT !.line = start, !.name = None]

ReadLine(s, l) ==
  IF l.mark = "@" THEN StartHunk(s, l.start) ELSE
  LET name == IF l.key \in Names THEN l.key ELSE s.name
      new  == l.mark = "+" /\ l.version # None /\ name # None
  IN  [ name |-> name,
        line |-> IF l.mark = "-" THEN s.line ELSE s.line + 1,
        changes |-> IF new
                    THEN Append(s.changes, [name |-> name, version |-> l.version, line |-> s.line])
                    ELSE s.changes ]

Unread == [name |-> None, line |-> 0, changes |-> << >>]

ExtractChanges == FoldLeft(ReadLine, Unread, patch).changes

PackageOf(c) == [name |-> c.name, version |-> c.version]

KeepFirst(kept, c) ==
  IF \E d \in Range(kept) : PackageOf(d) = PackageOf(c) THEN kept ELSE Append(kept, c)

\* The first change of each package.
Dedupe(changes) == FoldLeft(KeepFirst, << >>, changes)

Cap(changes, n) == IF Len(changes) > n THEN SubSeq(changes, 1, n) ELSE changes

\* The changes of the i-th lockfile.
InFile(changes, i) ==
  [k \in DOMAIN changes |-> [name |-> changes[k].name, version |-> changes[k].version,
                             line |-> changes[k].line, file |-> i]]

\* The resolver removes duplicates in each file, the workflow in the request.
Checks(n) == Joined([i \in 1..n |-> InFile(Cap(Dedupe(ExtractChanges), MaxChecks), i)])
Lookups == IF kind = "npm" THEN Cap(Dedupe(InFile(ExtractChanges, 1)), MaxPackages) ELSE << >>

(***************************************************************************)
(* DependencyResolver.                                                     *)
(***************************************************************************)
Current == Head(todo)
Package == PackageOf(Current)

Review ==
  /\ stage = "diff" /\ patch # << >> /\ ends.old = ends.new
  /\ copies' \in (IF kind = "npm" THEN 1..2 ELSE {1})
  /\ todo' = Checks(copies') /\ Len(todo') <= MaxLookups
  /\ stage' = "get"
  /\ before' = flagged
  /\ UNCHANGED << kind, patch, truth, ends, owner, number >>
  /\ UNCHANGED << reply, results, world, caches, excused, stale, doubted >>

Done == todo' = Tail(todo) /\ reply' = None

Found(answer) ==
  findings' = IF answer = "flagged" THEN findings \cup {Current} ELSE findings

\* A read that fails counts as a miss.
Get ==
  /\ stage = "get" /\ todo # << >>
  /\ \/ /\ remembered[Package] # "missing"
        /\ Found(remembered[Package])
        /\ excused' = excused \cup (stale \cap {Package})
        /\ Done /\ UNCHANGED stage
     \/ stage' = "ask" /\ UNCHANGED << findings, todo, reply, excused >>
  /\ UNCHANGED << diff, evidence, world, caches, before, stale, doubted >>

\* Mutant: a lookup that failed counts as an answer.
Unanswered_Fine ==
  /\ reply' = "fine"
  /\ stage' = "set"
  /\ excused' = excused \cup {Package}
  /\ UNCHANGED todo

\* A lookup that failed is not remembered.
Unanswered ==
  /\ excused' = excused \cup {Package}
  /\ Done /\ stage' = "get"

Ask ==
  /\ stage = "ask"
  /\ \/ /\ reply' = IF Package \in flagged THEN "flagged" ELSE "fine"
        /\ stage' = "set"
        /\ UNCHANGED << todo, excused >>
     \/ Unanswered
  /\ UNCHANGED << diff, results, world, caches, before, stale, doubted >>

\* A write that fails is logged.
Set ==
  /\ stage = "set"
  /\ remembered' \in {remembered, [remembered EXCEPT ![Package] = reply]}
  /\ Found(reply)
  /\ Done /\ stage' = "get"
  /\ UNCHANGED << diff, evidence, world, notes, history >>

(***************************************************************************)
(* OfficialDocsWorkflow.                                                   *)
(***************************************************************************)
Release == << RepoOf[Current.name], Current.version >>

\* The next package.
Skip == stage' = "repo" /\ Done

Quote(answer) ==
  evidence' = IF answer = None THEN evidence
              ELSE Append(evidence, [name |-> Current.name, version |-> Current.version,
                                     notes |-> answer])

\* Every file is done: the findings go to the review and the diff is no longer
\* needed.  A request without code to review ends here.
Resolved ==
  /\ stage = "get" /\ todo = << >>
  /\ stage' = "repo"
  /\ todo' \in {Lookups, << >>}
  /\ findings' = {}
  /\ copies' = 1 /\ patch' = << >> /\ truth' = << >>
  /\ ends' = Same("key")
  /\ owner' = None /\ number' = 1
  /\ before' = {} /\ excused' = {}
  /\ UNCHANGED << kind, reply, evidence, world, caches, stale, doubted >>

FindRepo ==
  /\ stage = "repo" /\ todo # << >>
  /\ \/ Skip
     \/ RepoOf[Current.name] # None /\ stage' = "notes" /\ UNCHANGED << todo, reply >>
  /\ UNCHANGED << diff, results, world, caches, history >>

GetNotes ==
  /\ stage = "notes"
  /\ \/ notes[Release] # Missing /\ Quote(notes[Release]) /\ Skip
     \/ stage' = "search" /\ reply' = [asked |-> 0, failed |-> FALSE] /\ UNCHANGED << evidence, todo >>
  /\ UNCHANGED << diff, findings, world, caches, history >>

(***************************************************************************)
(* GithubReleaseClient.find_release_notes.  A broken connection, 401, 403, *)
(* 429 and 5xx are failures that pass; 404, but any other status too, a    *)
(* redirect for one, and a 200 that does not parse mean "no notes here".   *)
(***************************************************************************)
CurrentPlaces == Range(Places(Current.name, Current.version))
Asked == Places(Current.name, Current.version)[reply.asked + 1]

HasNotes ==
  /\ Asked \in noted
  /\ reply' = Asked /\ stage' = "keep"
  /\ UNCHANGED doubted

Denies ==
  /\ reply' = [reply EXCEPT !.asked = @ + 1]
  /\ doubted' = doubted \cup ({Asked} \cap noted)
  /\ UNCHANGED stage

\* Mutant: only the failure of the last place counts.
Fails_Last ==
  /\ reply' = [asked |-> reply.asked + 1, failed |-> reply.asked = 4]
  /\ UNCHANGED << stage, doubted >>

Fails ==
  /\ reply' = [asked |-> reply.asked + 1, failed |-> TRUE]
  /\ UNCHANGED << stage, doubted >>

AskGitHub ==
  /\ stage = "search" /\ reply.asked < 5
  /\ HasNotes \/ Denies \/ Fails
  /\ UNCHANGED << diff, todo, results, world, caches, before, excused, stale >>

\* "No notes" is final if every place has answered; a failure ends the lookup, as
\* an exception does at any place.
EndSearch ==
  /\ stage = "search"
  /\ \/ reply = [asked |-> 5, failed |-> FALSE] /\ reply' = None /\ stage' = "keep" /\ UNCHANGED todo
     \/ (reply.asked = 5 => reply.failed) /\ Skip
  /\ UNCHANGED << diff, results, world, caches, history >>

Keep ==
  /\ stage = "keep"
  /\ notes' \in {notes, [notes EXCEPT ![Release] = reply]}
  /\ Quote(reply)
  /\ Skip
  /\ UNCHANGED << diff, findings, world, remembered, history >>

\* The review goes on with its prompts; the next one has another diff.
Finish ==
  /\ stage = "repo" /\ todo = << >>
  /\ stage' = "diff" /\ kind' \in {"npm", "gradle"}
  /\ evidence' = << >>
  /\ UNCHANGED << copies, patch, truth, ends, owner, number >>
  /\ UNCHANGED << todo, reply, findings, world, caches, history >>

(***************************************************************************)
(* The world and the caches.  What happens to a package or a release while *)
(* nobody looks it up may as well happen when it is looked up next, or had *)
(* happened when the first review began.  A deprecation is not taken back. *)
(* A release that is withdrawn is one of the places that say it has none.  *)
(***************************************************************************)
\* A version of npm may be deprecated later; a POM does not change.
Deprecate ==
  /\ stage \in {"get", "ask", "set"} /\ todo # << >>
  /\ Package.name \in NpmNames /\ Package \notin flagged
  /\ Cardinality(flagged) < MaxFlagged
  /\ flagged' = flagged \cup {Package}
  /\ stale' = IF stage = "set" \/ remembered[Package] = "fine"
              THEN stale \cup {Package} ELSE stale
  /\ UNCHANGED << diff, stage, todo, reply, results, noted, caches, before, excused, doubted >>

\* The review or the cache took it that this place of the release has no notes.
TakenAsNone(p) ==
  \/ notes[Release] = None
  \/ stage = "search" /\ \E i \in 1..reply.asked : Places(Current.name, Current.version)[i] = p
  \/ stage = "keep" /\ reply = None

\* The notes of a release are published late.
Publish ==
  /\ stage \in {"notes", "search", "keep"}
  /\ \E p \in (Published \cap CurrentPlaces) \ noted :
       /\ noted' = noted \cup {p}
       /\ doubted' = IF TakenAsNone(p) THEN doubted \cup {p} ELSE doubted
  /\ UNCHANGED << diff, stage, todo, reply, results, flagged, caches, before, excused, stale >>

\* The TTL of an entry passes.
Expire ==
  /\ todo # << >>
  /\ \/ /\ stage = "get"
        /\ remembered' = [remembered EXCEPT ![Package] = "missing"] /\ UNCHANGED notes
     \/ /\ stage = "notes"
        /\ notes' = [notes EXCEPT ![Release] = Missing] /\ UNCHANGED remembered
  /\ UNCHANGED << diff, stage, todo, reply, results, world, history >>

Next ==
  \/ Hunk
  \/ \E mark \in {"+", "-", "="} : KeyLine(mark) \/ VersionLine(mark) \/ Coordinate(mark)
  \/ Review \/ Get \/ Ask \/ Set
  \/ Resolved \/ FindRepo \/ GetNotes \/ AskGitHub \/ EndSearch \/ Keep \/ Finish
  \/ Deprecate \/ Publish \/ Expire

Spec == Init /\ [][Next]_vars

(***************************************************************************)
(* Properties.                                                             *)
(***************************************************************************)
Added(i) == patch[i].mark = "+" /\ patch[i].version # None

\* The lines of the hunk of line i that come before it and open an entry.
KeysBefore(i) ==
  {k \in 1..(i - 1) : /\ patch[k].key # None
                      /\ \A h \in k..i : patch[h].mark # "@"}

\* Line i does not name its entry, and the last line that opens one is not that of
\* the entry line i is in: it was deleted, or is the key of a workspace.
Obscured(i) ==
  /\ patch[i].key = None
  /\ \E k \in KeysBefore(i) :
       /\ \A h \in KeysBefore(i) : h <= k
       /\ patch[k].mark = "-" \/ patch[k].key = Foreign

\* A finding names a package that is deprecated or has moved, and the line of
\* the new file that brings it in, unless the diff obscures whose line it is: the
\* name of an entry and its version are on different lines of the hunk.
FindingsSound ==
  \A c \in findings :
    /\ PackageOf(c) \in flagged
    /\ \E i \in 1..Len(patch) :
         /\ Added(i) /\ patch[i].version = c.version
         /\ truth[i].number = c.line
         /\ truth[i].owner = c.name \/ Obscured(i)

\* A deprecated package that a lockfile brings in is found in every file, however
\* the caches and the other lookups fail, now or in an earlier review.  It may be
\* missed where its own lookup fails, where it was deprecated after the answer
\* that is kept, or where there are too many changes before it.
NothingMissed ==
  stage = "get" /\ todo = << >> =>
  \A i \in {k \in 1..Len(patch) : Added(k) /\ ~Obscured(k)} :
    LET p == [name |-> truth[i].owner, version |-> patch[i].version] IN
    p \in before \ excused /\ Cardinality({k \in 1..(i - 1) : Added(k)}) < MaxChecks =>
      \A f \in 1..copies : \E c \in findings : PackageOf(c) = p /\ c.file = f

\* What may be told of version v of package n: its notes at some place, and that it
\* has none if the places that have notes said, or were thought, to have none.
NotesFor(n, v) ==
  LET found == Range(Places(n, v)) \cap noted IN
  found \cup (IF found \subseteq doubted THEN {None} ELSE {})

\* What there is to tell of the packages of the repository r[1] in version r[2].
NotesOf(r) == UNION {NotesFor(n, r[2]) : n \in {m \in NpmNames : RepoOf[m] = r[1]}}

\* The cache and the prompt hold release notes of the repository and version, and
\* "no notes" is kept only where every place had answered: those that have notes
\* answered with something else (an odd status counts as an answer), or got them
\* later.  The key leaves out the name: of two packages in one repository one may
\* be told of the other.
ReleaseNotesTrue ==
  /\ \A r \in Releases : notes[r] \in NotesOf(r) \cup {Missing}
  /\ \A i \in 1..Len(evidence) :
       /\ evidence[i].notes \in NotesOf(<< RepoOf[evidence[i].name], evidence[i].version >>)
       /\ \A k \in 1..(i - 1) : PackageOf(evidence[k]) # PackageOf(evidence[i])
  /\ Len(evidence) <= MaxPackages
=============================================================================
