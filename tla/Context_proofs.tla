---------------------------- MODULE Context_proofs ----------------------------
(***************************************************************************)
(* Proofs about what a review is told beside the diff.                     *)
(* DependencyContext: for any diff of a lockfile, any packages and any     *)
(* answers, findings are sound and complete, and release notes are those   *)
(* of their version.                                                       *)
(* ApiSpecSync: for any runs of the script, repositories, databases and    *)
(* faults, the copy of a repository is whole, and it stays while Notion    *)
(* does not answer.                                                        *)
(***************************************************************************)
EXTENDS DependencyContext, ApiSpecSync, Folds_proofs

(***************************************************************************)
(* DependencyContext: types and the diff.                                  *)
(***************************************************************************)
\* The packages a file of this kind may name.
KindNames == IF kind = "npm" THEN NpmNames ELSE MavenNames

Marks == {"@", "+", "-", "="}
Lines(names) == [mark : Marks, key : names \cup {Foreign, None}, version : Versions \cup {None}, start : Nat]
Truths == [owner : Names \cup {Foreign, None}, number : Nat]
Changes(names) == [name : names, version : Versions, line : Nat]
Checked(names) == [name : names, version : Versions, line : Nat, file : Nat]

\* The number of the next line of the new file after line i of the diff.
NumberAfter(i) ==
  IF patch[i].mark = "@" THEN patch[i].start
  ELSE IF patch[i].mark = "-" THEN truth[i].number ELSE truth[i].number + 1

\* What git writes: each line has the number and the entry that the lines before
\* it lead to.
LineOK(i) ==
  /\ patch[i].version # None => patch[i].key # Foreign
  /\ IF patch[i].mark = "@"
     THEN patch[i].key = None /\ patch[i].version = None /\ truth[i].owner = None
     ELSE /\ i - 1 \in DOMAIN patch /\ truth[i].number = NumberAfter(i - 1)
          /\ truth[i].owner = IF patch[i].mark # "-" /\ patch[i].key # None
                              THEN patch[i].key ELSE truth[i - 1].owner

DiffInv ==
  /\ kind \in {"npm", "gradle"} /\ copies \in 1..2
  /\ patch \in Seq(Lines(KindNames)) /\ truth \in Seq(Truths)
  /\ Len(truth) = Len(patch) /\ Len(patch) <= MaxLines
  /\ owner \in Names \cup {Foreign, None} /\ number \in Nat
  /\ \A i \in 1..Len(patch) : LineOK(i)
  /\ patch = << >> => owner = None
  /\ patch # << >> => owner = truth[Len(patch)].owner /\ number = NumberAfter(Len(patch))

\* The change that line i of the diff makes.
ChangedAt(c, i) ==
  /\ Added(i) /\ patch[i].version = c.version /\ truth[i].number = c.line
  /\ truth[i].owner = c.name \/ Obscured(i)

FromDiff(c) == \E i \in 1..Len(patch) : ChangedAt(c, i)

Resolving == stage \in {"get", "ask", "set"}
Gathering == stage \in {"repo", "notes", "search", "keep"}

\* What the resolver and the workflow hold at each stage.
StageInv ==
  /\ stage \in Stages
  /\ stage \in {"ask", "set", "notes", "search", "keep"} => todo # << >>
  /\ todo \in Seq(Checked(KindNames)) /\ findings \subseteq Checked(KindNames)
  /\ stage = "diff" => todo = << >>
  /\ stage \notin {"get", "ask", "set"} => findings = {}
  /\ stage \in {"repo", "notes", "search", "keep"} => patch = << >>
  /\ stage = "set" => reply \in {"fine", "flagged"}
  /\ flagged \subseteq Packages
  /\ remembered \in [Packages -> {"missing", "fine", "flagged"}]
  /\ before \subseteq flagged /\ excused \subseteq Packages /\ stale \subseteq flagged

SoundInv ==
  /\ Resolving => \A c \in Range(todo) : FromDiff(c)
  /\ \A c \in findings : PackageOf(c) \in flagged /\ FromDiff(c)
  /\ \A p \in Packages : remembered[p] = "flagged" => p \in flagged
  /\ stage = "set" /\ reply = "flagged" => Package \in flagged

\* The packages that the resolver has to find.
Wanted(i) ==
  /\ Added(i) /\ ~Obscured(i)
  /\ Cardinality({k \in 1..(i - 1) : Added(k)}) < MaxChecks

Brought(i) == [name |-> truth[i].owner, version |-> patch[i].version]

MissInv ==
  /\ Resolving =>
       \A i \in 1..Len(patch), f \in 1..copies :
         Wanted(i) /\ Brought(i) \in before \ excused =>
           \E c \in findings \cup Range(todo) : PackageOf(c) = Brought(i) /\ c.file = f
  /\ \A p \in Packages : remembered[p] = "fine" /\ p \in flagged => p \in stale
  /\ stage = "set" /\ reply = "fine" =>
       Package \notin before /\ (Package \in flagged => Package \in stale)

KnownNotes == Published \cup {None}
Quotes == [name : NpmNames, version : Versions, notes : KnownNotes]

QuoteTrue(q) == q.notes # None /\ q.notes \in NotesOf(<< RepoOf[q.name], q.version >>)

\* No package twice.
Distinct(seq) == \A i, j \in DOMAIN seq : PackageOf(seq[i]) = PackageOf(seq[j]) => i = j

\* The packages that are quoted and those still to be looked up.
GatherInv ==
  /\ todo # << >> => kind = "npm"
  /\ Len(evidence) + Len(todo) <= MaxPackages
  /\ Distinct(todo)
  /\ \A i \in DOMAIN evidence, j \in DOMAIN todo : PackageOf(evidence[i]) # PackageOf(todo[j])

\* The places that have answered in this search have no notes, or are doubted.
SearchInv ==
  /\ reply \in [asked : 0..5, failed : BOOLEAN]
  /\ \/ reply.failed = TRUE
     \/ \A i \in 1..reply.asked :
          Places(Current.name, Current.version)[i] \in noted =>
            Places(Current.name, Current.version)[i] \in doubted

NotesInv ==
  /\ noted \subseteq Published /\ doubted \subseteq noted
  /\ notes \in [Releases -> KnownNotes \cup {Missing}]
  /\ \A r \in Releases : notes[r] \in NotesOf(r) \cup {Missing}
  /\ evidence \in Seq(Quotes) /\ Distinct(evidence)
  /\ \A q \in Range(evidence) : QuoteTrue(q)
  /\ IF Gathering THEN GatherInv ELSE evidence = << >>
  /\ stage \in {"notes", "search", "keep"} => RepoOf[Current.name] # None
  /\ stage = "search" => SearchInv
  /\ stage = "keep" => reply \in NotesOf(Release)

ContextInv == DiffInv /\ StageInv /\ SoundInv /\ MissInv /\ NotesInv

(***************************************************************************)
(* The diff.                                                               *)
(***************************************************************************)
LEMMA ContextConstants ==
  /\ NpmNames \cap MavenNames = {} /\ Foreign \notin Names /\ None \notin Names /\ None # Foreign
  /\ None \notin Versions /\ KindNames \subseteq Names
  /\ RepoOf \in [NpmNames -> GitHubRepos \cup {None}] /\ None \notin GitHubRepos
  /\ MaxChecks \in Nat /\ MaxPackages \in Nat /\ MaxLines \in Nat /\ Gap \in Nat
BY DependencyAssumption DEF KindNames, Names, GitHubRepos

LEMMA AppendTyped ==
  ASSUME NEW X, NEW s \in Seq(X), NEW x \in X, NEW n \in Nat, n = Len(s)
  PROVE  /\ Append(s, x) \in Seq(X) /\ Len(Append(s, x)) = n + 1
         /\ DOMAIN Append(s, x) = 1..(n + 1) /\ Append(s, x)[n + 1] = x
         /\ \A i \in 1..n : Append(s, x)[i] = s[i]
OBVIOUS

\* A line that agrees with the ones before it.
Continues(line, tells) ==
  /\ line.version # None => line.key # Foreign
  /\ IF line.mark = "@"
     THEN line.key = None /\ line.version = None /\ tells.owner = None
     ELSE /\ patch # << >> /\ tells.number = number
          /\ tells.owner = IF line.mark # "-" /\ line.key # None THEN line.key ELSE owner

\* It is added.
Appends(line, tells) ==
  /\ patch' = Append(patch, line) /\ truth' = Append(truth, tells) /\ UNCHANGED << kind, copies >>
  /\ owner' = tells.owner
  /\ number' = IF line.mark = "@" THEN line.start
               ELSE IF line.mark = "-" THEN tells.number ELSE tells.number + 1

LEMMA AppendLine ==
  ASSUME DiffInv, NEW line \in Lines(KindNames), NEW tells \in Truths, Len(patch) < MaxLines,
         Continues(line, tells), Appends(line, tells)
  PROVE  DiffInv'
<1>1. PICK n \in Nat : n = Len(patch) /\ DOMAIN patch = 1..n /\ DOMAIN truth = 1..n
  BY DEF DiffInv
<1>2. /\ patch' \in Seq(Lines(KindNames)) /\ truth' \in Seq(Truths) /\ KindNames' = KindNames
      /\ Len(patch') = n + 1 /\ Len(truth') = n + 1 /\ DOMAIN patch' = 1..(n + 1)
      /\ \A i \in 1..n : patch'[i] = patch[i] /\ truth'[i] = truth[i]
      /\ patch'[n + 1] = line /\ truth'[n + 1] = tells
  <2>1. PICK L : L = Lines(KindNames)
    OBVIOUS
  <2>2. patch \in Seq(L) /\ line \in L /\ truth \in Seq(Truths) /\ Len(truth) = n
    BY <1>1, <2>1 DEF DiffInv
  <2>3. PICK p, t : p = Append(patch, line) /\ t = Append(truth, tells)
    OBVIOUS
  <2>8. patch' = p /\ truth' = t
    BY <2>3 DEF Appends
  <2>6. /\ p \in Seq(L) /\ Len(p) = n + 1 /\ DOMAIN p = 1..(n + 1)
        /\ p[n + 1] = line /\ \A i \in 1..n : p[i] = patch[i]
    BY <1>1, <2>2, <2>3, AppendTyped
  <2>7. /\ t \in Seq(Truths) /\ Len(t) = n + 1
        /\ t[n + 1] = tells /\ \A i \in 1..n : t[i] = truth[i]
    BY <1>1, <2>2, <2>3, AppendTyped
  <2>4. /\ Len(p) = n + 1 /\ Len(t) = n + 1 /\ DOMAIN p = 1..(n + 1)
        /\ \A i \in 1..n : p[i] = patch[i] /\ t[i] = truth[i]
        /\ p[n + 1] = line /\ t[n + 1] = tells
    BY <2>6, <2>7
  <2>5. KindNames' = KindNames
    BY DEF KindNames, Appends
  <2>. QED
    BY <2>1, <2>4, <2>5, <2>6, <2>7, <2>8
<1>3. \A i \in 1..n : NumberAfter(i)' = NumberAfter(i)
  BY <1>2 DEF NumberAfter
<1>4. NumberAfter(n + 1)' = number'
  BY <1>2 DEF NumberAfter, Appends
<1>5. ASSUME NEW i \in 1..n PROVE LineOK(i)'
  <2>1. LineOK(i) /\ patch'[i] = patch[i] /\ truth'[i] = truth[i]
    BY <1>1, <1>2 DEF DiffInv
  <2>2. patch[i].mark # "@" => i - 1 \in 1..n
    BY <1>1, <2>1 DEF LineOK
  <2>3. i - 1 \in 1..n => /\ NumberAfter(i - 1)' = NumberAfter(i - 1) /\ truth'[i - 1] = truth[i - 1]
                          /\ i - 1 \in DOMAIN patch'
    BY <1>2, <1>3
  <2>. QED
    BY <2>1, <2>2, <2>3 DEF LineOK
<1>6. LineOK(n + 1)'
  <2>1. CASE line.mark = "@"
    BY <1>2, <2>1 DEF LineOK, Continues
  <2>2. CASE line.mark # "@"
    <3>1. n \in 1..n /\ (n + 1) - 1 = n /\ n \in DOMAIN patch'
      BY <1>1, <1>2, <2>2 DEF Continues
    <3>2. NumberAfter(n)' = number /\ truth'[n].owner = owner
      <4>1. truth'[n] = truth[n] /\ NumberAfter(n)' = NumberAfter(n)
        BY <1>2, <1>3, <3>1
      <4>2. patch # << >> /\ n = Len(patch)
        BY <1>1, <2>2 DEF Continues
      <4>. QED
        BY <4>1, <4>2 DEF DiffInv
    <3>. QED
      BY <1>2, <2>2, <3>1, <3>2 DEF LineOK, Continues
  <2>. QED
    BY <2>1, <2>2
<1>7. \A i \in 1..(n + 1) : i \in 1..n \/ i = n + 1
  BY <1>1
<1>8. patch' # << >> /\ n + 1 <= MaxLines
  BY <1>1, <1>2, ContextConstants
<1>9. owner' \in Names \cup {Foreign, None} /\ number' \in Nat
  BY DEF Truths, Lines, Appends
<1>10. kind' = kind /\ copies' = copies /\ owner' = truth'[n + 1].owner
  BY <1>2 DEF Appends
<1>. QED
  BY <1>2, <1>4, <1>5, <1>6, <1>7, <1>8, <1>9, <1>10 DEF DiffInv

\* git writes the diff as DiffInv has it.
LEMMA DiffWritten ==
  ASSUME DiffInv, Hunk \/ \E mark \in {"+", "-", "="} : KeyLine(mark) \/ VersionLine(mark) \/ Coordinate(mark)
  PROVE  DiffInv'
<1>1. CASE Hunk
  <2>1. PICK start \in Nat : start = number + Gap
    <3>1. number \in Nat /\ Gap \in Nat
      BY ContextConstants DEF DiffInv
    <3>. QED
      BY <3>1
  <2>2. PICK line, tells, next :
          /\ line = [Line("@", None, None) EXCEPT !.start = start]
          /\ tells = [owner |-> None, number |-> 0] /\ Add(line, tells, next)
    BY <1>1, <2>1 DEF Hunk
  <2>3. line = [mark |-> "@", key |-> None, version |-> None, start |-> start]
    BY <2>2 DEF Line
  <2>4. line \in Lines(KindNames)
    BY <2>3 DEF Lines, Marks
  <2>5. tells \in Truths
    BY <2>2 DEF Truths
  <2>6. owner' = None /\ number' = start
    BY <1>1, <2>1 DEF Hunk
  <2>7. Add(line, tells, next)
    BY <2>2
  <2>8. tells.owner = None
    BY <2>2
  <2>9. Continues(line, tells) /\ Len(patch) < MaxLines
    BY <2>3, <2>7, <2>8 DEF Add, Continues
  <2>10. Appends(line, tells)
    BY <2>3, <2>6, <2>7, <2>8 DEF Add, Appends
  <2>. QED
    BY <2>4, <2>5, <2>9, <2>10, AppendLine
<1>2. ASSUME NEW mark \in {"+", "-", "="}, NEW key \in KindNames \cup {Foreign, None},
             NEW version \in Versions \cup {None}, NEW next, Write(mark, key, version, next),
             version # None => key # Foreign
      PROVE  DiffInv'
  <2>1. PICK line, tells :
          /\ line = [mark |-> mark, key |-> key, version |-> version, start |-> 0]
          /\ tells = [owner |-> owner', number |-> number] /\ Add(line, tells, next)
    BY <1>2 DEF Write, Line
  <2>2. /\ owner' = (IF mark # "-" /\ key # None THEN key ELSE owner)
        /\ number' = (IF mark = "-" THEN number ELSE number + 1) /\ patch # << >>
    BY <1>2 DEF Write
  <2>3. owner' \in Names \cup {Foreign, None} /\ number \in Nat
    BY <2>2, ContextConstants DEF DiffInv
  <2>4. line \in Lines(KindNames) /\ tells \in Truths
    BY <2>1, <2>3 DEF Lines, Truths, Marks
  <2>. QED
    <3>1. Continues(line, tells) /\ Len(patch) < MaxLines
      BY <1>2, <2>1, <2>2 DEF Add, Continues
    <3>2. Appends(line, tells)
      BY <2>1, <2>2 DEF Add, Appends
    <3>. QED
      BY <2>4, <3>1, <3>2, AppendLine
<1>3. ASSUME NEW mark \in {"+", "-", "="}, KeyLine(mark)
      PROVE  DiffInv'
  <2>1. KindNames = NpmNames
    BY <1>3 DEF KeyLine, KindNames
  <2>. QED
    BY <1>2, <1>3, <2>1 DEF KeyLine
<1>4. ASSUME NEW mark \in {"+", "-", "="}, VersionLine(mark)
      PROVE  DiffInv'
  BY <1>2, <1>4, ContextConstants DEF VersionLine
<1>5. ASSUME NEW mark \in {"+", "-", "="}, Coordinate(mark)
      PROVE  DiffInv'
  <2>1. KindNames = MavenNames
    BY <1>5 DEF Coordinate, KindNames
  <2>. QED
    BY <1>2, <1>5, <2>1, ContextConstants DEF Coordinate, Packages
<1>. QED
  BY <1>1, <1>3, <1>4, <1>5


(***************************************************************************)
(* What the parser reads from the diff.                                    *)
(***************************************************************************)
\* The lines that open an entry in the hunk of line k, up to it.
KeysTo(k) ==
  {j \in 1..k : /\ patch[j].key # None
                /\ \A h \in j..k : patch[h].mark # "@"}

\* The last of them was deleted, or is the key of a workspace.
Hidden(k) ==
  \E j \in KeysTo(k) :
    /\ \A h \in KeysTo(k) : h <= j
    /\ patch[j].mark = "-" \/ patch[j].key = Foreign

AddedTo(k) == {i \in 1..k : Added(i)}

\* What a line does to what is hidden.
LEMMA HiddenLine ==
  ASSUME NEW k \in Nat \ {0}
  PROVE  /\ patch[k].mark = "@" => ~Hidden(k)
         /\ patch[k].mark # "@" /\ patch[k].key = None
              => (Hidden(k) <=> Hidden(k - 1)) /\ (Obscured(k) <=> Hidden(k))
         /\ patch[k].mark # "@" /\ patch[k].key # None
              => (Hidden(k) <=> patch[k].mark = "-" \/ patch[k].key = Foreign)
<1>1. /\ 1..k = 1..(k - 1) \cup {k} /\ k \notin 1..(k - 1)
      /\ \A j \in 1..k : k \in j..k
      /\ \A j \in 1..(k - 1) : j..k = j..(k - 1) \cup {k}
      /\ k..k = {k}
  OBVIOUS
<1>2. CASE patch[k].mark = "@"
  <2>1. KeysTo(k) = {}
    BY <1>1, <1>2 DEF KeysTo
  <2>. QED
    BY <1>2, <2>1 DEF Hidden
<1>3. CASE patch[k].mark # "@" /\ patch[k].key = None
  <2>1. KeysTo(k) = KeysTo(k - 1)
    BY <1>1, <1>3 DEF KeysTo
  <2>2. KeysBefore(k) = KeysTo(k)
    BY <1>1, <1>3 DEF KeysTo, KeysBefore
  <2>. QED
    BY <1>3, <2>1, <2>2 DEF Hidden, Obscured
<1>4. CASE patch[k].mark # "@" /\ patch[k].key # None
  <2>1. k \in KeysTo(k) /\ \A j \in KeysTo(k) : j \in 1..k
    BY <1>1, <1>4 DEF KeysTo
  <2>2. \A j \in 1..k : j <= k /\ (k <= j => j = k)
    OBVIOUS
  <2>. QED
    BY <1>4, <2>1, <2>2 DEF Hidden
<1>. QED
  BY <1>2, <1>3, <1>4

\* What is added up to a line.
LEMMA AddedNext ==
  ASSUME NEW k \in Nat \ {0}
  PROVE  /\ IsFiniteSet(AddedTo(k - 1)) /\ Cardinality(AddedTo(k - 1)) \in Nat
         /\ IsFiniteSet(AddedTo(k)) /\ Cardinality(AddedTo(k)) \in Nat
         /\ Added(k) => Cardinality(AddedTo(k)) = Cardinality(AddedTo(k - 1)) + 1
         /\ ~Added(k) => AddedTo(k) = AddedTo(k - 1)
<1>1. 1..k = 1..(k - 1) \cup {k} /\ k \notin 1..(k - 1) /\ 0 \in Int /\ k - 1 \in Int
  OBVIOUS
<1>2. IsFiniteSet(1..(k - 1))
  BY <1>1, FS_Interval
<1>3. IsFiniteSet(AddedTo(k - 1)) /\ Cardinality(AddedTo(k - 1)) \in Nat
  <2>1. AddedTo(k - 1) \subseteq 1..(k - 1)
    BY DEF AddedTo
  <2>. QED
    BY <1>2, <2>1, FS_Subset, FS_CardinalityType
<1>4. Added(k) => AddedTo(k) = AddedTo(k - 1) \cup {k} /\ k \notin AddedTo(k - 1)
  BY <1>1 DEF AddedTo
<1>5. ~Added(k) => AddedTo(k) = AddedTo(k - 1)
  BY <1>1 DEF AddedTo
<1>6. Added(k) => /\ IsFiniteSet(AddedTo(k))
                  /\ Cardinality(AddedTo(k)) = Cardinality(AddedTo(k - 1)) + 1
  BY <1>3, <1>4, FS_AddElement
<1>. QED
  BY <1>3, <1>5, <1>6

\* What the parser holds.
Reading == [name : KindNames \cup {None}, line : Nat, changes : Seq(Changes(KindNames))]

\* What it has after a line that does not start a hunk.
NameIn(s, l) == IF l.key \in Names THEN l.key ELSE s.name

ChangesIn(s, l) ==
  IF l.mark = "+" /\ l.version # None /\ NameIn(s, l) # None
  THEN Append(s.changes, [name |-> NameIn(s, l), version |-> l.version, line |-> s.line])
  ELSE s.changes

LEMMA ReadLineIs ==
  ASSUME NEW l \in Lines(KindNames), NEW s \in Reading
  PROVE  /\ ReadLine(s, l) \in Reading
         /\ l.mark = "@" => ReadLine(s, l) = [name |-> None, line |-> l.start, changes |-> s.changes]
         /\ l.mark # "@" =>
              ReadLine(s, l) = [name |-> NameIn(s, l), changes |-> ChangesIn(s, l),
                                line |-> IF l.mark = "-" THEN s.line ELSE s.line + 1]
<1>1. /\ l.start \in Nat /\ l.key \in KindNames \cup {Foreign, None} /\ l.version \in Versions \cup {None}
      /\ s = [name |-> s.name, line |-> s.line, changes |-> s.changes]
      /\ s.name \in KindNames \cup {None} /\ s.line \in Nat /\ s.changes \in Seq(Changes(KindNames))
  BY DEF Lines, Reading
<1>2. CASE l.mark = "@"
  <2>1. ReadLine(s, l) = [s EXCEPT !.line = l.start, !.name = None]
    BY <1>2 DEF ReadLine, StartHunk
  <2>2. ReadLine(s, l) = [name |-> None, line |-> l.start, changes |-> s.changes]
    BY <1>1, <2>1
  <2>3. ReadLine(s, l) \in Reading
    BY <1>1, <2>2 DEF Reading
  <2>. QED
    BY <1>2, <2>2, <2>3
<1>3. CASE l.mark # "@"
  <2>1. ReadLine(s, l) = [name |-> NameIn(s, l), changes |-> ChangesIn(s, l),
                          line |-> IF l.mark = "-" THEN s.line ELSE s.line + 1]
    BY <1>3 DEF ReadLine, NameIn, ChangesIn
  <2>2. NameIn(s, l) \in KindNames \cup {None}
    BY <1>1, ContextConstants DEF NameIn
  <2>3. ChangesIn(s, l) \in Seq(Changes(KindNames))
    <3>1. CASE l.mark = "+" /\ l.version # None /\ NameIn(s, l) # None
      <4>1. [name |-> NameIn(s, l), version |-> l.version, line |-> s.line] \in Changes(KindNames)
        BY <1>1, <2>2, <3>1 DEF Changes
      <4>. QED
        BY <1>1, <3>1, <4>1, AppendTyped DEF ChangesIn
    <3>2. CASE ~(l.mark = "+" /\ l.version # None /\ NameIn(s, l) # None)
      BY <1>1, <3>2 DEF ChangesIn
    <3>. QED
      BY <3>1, <3>2
  <2>4. (IF l.mark = "-" THEN s.line ELSE s.line + 1) \in Nat
    BY <1>1
  <2>5. ReadLine(s, l) \in Reading
    BY <2>1, <2>2, <2>3, <2>4 DEF Reading
  <2>. QED
    BY <1>3, <2>1, <2>5
<1>. QED
  BY <1>2, <1>3

\* A line that brings in a package whose entry shows.
Shows(i) == Added(i) /\ ~Obscured(i) /\ truth[i].owner \in Names

\* The parser after line k: its number, its entry unless that is hidden, and its
\* changes, each of a line and as early as the lines added before allow.
ReadInv(s, k) ==
  /\ k # 0 => s.line = NumberAfter(k)
  /\ k # 0 /\ ~Hidden(k) => s.name = truth[k].owner
  /\ Len(s.changes) <= Cardinality(AddedTo(k))
  /\ \A c \in Range(s.changes) : \E i \in 1..k : ChangedAt(c, i)
  /\ \A i \in 1..k : Shows(i) =>
       \E j \in 1..Len(s.changes) : /\ j <= Cardinality(AddedTo(i - 1)) + 1
                                    /\ PackageOf(s.changes[j]) = Brought(i)

LEMMA ReadNext ==
  ASSUME DiffInv, NEW k \in 1..Len(patch), NEW s \in Reading, ReadInv(s, k - 1)
  PROVE  ReadInv(ReadLine(s, patch[k]), k)
<1>1. PICK l \in Lines(KindNames) : l = patch[k]
  BY DEF DiffInv
<1>2. PICK t \in Reading : t = ReadLine(s, l)
  BY ReadLineIs
<1>3. k \in Nat \ {0} /\ k \in 1..k /\ k # 0 /\ LineOK(k) /\ 1..k = 1..(k - 1) \cup {k}
      /\ \A i \in 1..(k - 1) : i \in 1..k
  BY DEF DiffInv
<1>4. CASE l.mark = "@"
  <2>1. t = [name |-> None, line |-> l.start, changes |-> s.changes]
    BY <1>2, <1>4, ReadLineIs
  <2>2. t.name = truth[k].owner /\ t.line = NumberAfter(k) /\ t.changes = s.changes
    BY <1>1, <1>3, <1>4, <2>1 DEF LineOK, NumberAfter
  <2>3. ~Added(k) /\ AddedTo(k) = AddedTo(k - 1)
    BY <1>1, <1>3, <1>4, AddedNext DEF Added
  <2>4. \A c \in Range(t.changes) : \E i \in 1..k : ChangedAt(c, i)
    BY <1>3, <2>2 DEF ReadInv
  <2>5. ASSUME NEW i \in 1..k, Shows(i)
        PROVE  \E j \in 1..Len(t.changes) : /\ j <= Cardinality(AddedTo(i - 1)) + 1
                                            /\ PackageOf(t.changes[j]) = Brought(i)
    <3>1. i \in 1..(k - 1)
      BY <1>3, <2>3, <2>5 DEF Shows
    <3>. QED
      BY <2>2, <2>5, <3>1 DEF ReadInv
  <2>6. Len(t.changes) <= Cardinality(AddedTo(k))
    BY <2>2, <2>3 DEF ReadInv
  <2>. QED
    BY <1>1, <1>2, <2>2, <2>4, <2>5, <2>6 DEF ReadInv
<1>5. CASE l.mark # "@"
  <2>1. /\ t.name = NameIn(s, l) /\ t.changes = ChangesIn(s, l)
        /\ t.line = IF l.mark = "-" THEN s.line ELSE s.line + 1
    BY <1>2, <1>5, ReadLineIs
  <2>2. /\ k - 1 # 0 /\ k - 1 \in Nat \ {0} /\ truth[k].number = NumberAfter(k - 1)
        /\ truth[k].owner = IF l.mark # "-" /\ l.key # None THEN l.key ELSE truth[k - 1].owner
    BY <1>1, <1>3, <1>5 DEF LineOK, DiffInv
  <2>3. s.line = truth[k].number /\ t.line = NumberAfter(k)
    <3>1. s.line = truth[k].number
      BY <2>2 DEF ReadInv
    <3>. QED
      BY <1>1, <1>5, <2>1, <3>1 DEF NumberAfter
  <2>4. l.key \in Names \cup {Foreign, None}
    BY ContextConstants DEF Lines
  <2>5. ~Hidden(k) => t.name = truth[k].owner
    <3>1. CASE l.key = None
      <4>1. ~Hidden(k) => s.name = truth[k - 1].owner
        BY <1>1, <1>3, <1>5, <2>2, <3>1, HiddenLine DEF ReadInv
      <4>. QED
        BY <2>1, <2>2, <3>1, <4>1, ContextConstants DEF NameIn
    <3>2. CASE l.key # None
      <4>1. ~Hidden(k) => l.mark # "-" /\ l.key # Foreign
        BY <1>1, <1>3, <1>5, <3>2, HiddenLine
      <4>. QED
        BY <2>1, <2>2, <2>4, <3>2, <4>1 DEF NameIn
    <3>. QED
      BY <3>1, <3>2
  <2>6. Added(k) /\ ~Obscured(k) => t.name = truth[k].owner
    <3>1. CASE l.key = None
      BY <1>1, <1>3, <1>5, <2>5, <3>1, HiddenLine
    <3>2. CASE l.key # None
      <4>1. Added(k) => l.mark # "-" /\ l.key # Foreign
        BY <1>1, <1>3 DEF Added, LineOK
      <4>. QED
        BY <1>1, <1>3, <1>5, <2>5, <3>2, <4>1, HiddenLine
    <3>. QED
      BY <3>1, <3>2
  <2>7. PICK c : c = [name |-> NameIn(s, l), version |-> l.version, line |-> s.line]
    OBVIOUS
  <2>8. c.name = t.name /\ c.version = patch[k].version /\ c.line = truth[k].number
    BY <1>1, <2>1, <2>3, <2>7
  <2>9. CASE Added(k) /\ t.name # None
    <3>1. t.changes = Append(s.changes, c)
      BY <1>1, <2>1, <2>7, <2>9 DEF ChangesIn, Added
    <3>2. s.changes \in Seq(Changes(KindNames)) /\ c \in Changes(KindNames)
      <4>1. l.version \in Versions \cup {None} /\ l.version # None
        BY <1>1, <2>9 DEF Lines, Added
      <4>2. t.name \in KindNames \cup {None} /\ s.line \in Nat
        BY DEF Reading
      <4>3. s.changes \in Seq(Changes(KindNames))
        BY DEF Reading
      <4>. QED
        BY <2>1, <2>7, <2>9, <4>1, <4>2, <4>3 DEF Changes
    <3>3. PICK m \in Nat : m = Len(s.changes)
      BY <3>2
    <3>4. /\ Len(t.changes) = m + 1 /\ t.changes[m + 1] = c
          /\ \A j \in 1..m : t.changes[j] = s.changes[j]
      BY <3>1, <3>2, <3>3, AppendTyped
    <3>5. Range(t.changes) = Range(s.changes) \cup {c}
      BY <3>1, <3>2, RangeOfAppend
    <3>6. ChangedAt(c, k)
      BY <2>6, <2>8, <2>9 DEF ChangedAt
    <3>7. \A d \in Range(t.changes) : \E i \in 1..k : ChangedAt(d, i)
      BY <1>3, <3>5, <3>6 DEF ReadInv
    <3>8. PICK a \in Nat : /\ a = Cardinality(AddedTo(k - 1)) /\ Cardinality(AddedTo(k)) = a + 1
                           /\ m <= a
      BY <1>3, <2>9, <3>3, AddedNext DEF ReadInv
    <3>9. ASSUME NEW i \in 1..k, Shows(i)
          PROVE  \E j \in 1..Len(t.changes) : /\ j <= Cardinality(AddedTo(i - 1)) + 1
                                              /\ PackageOf(t.changes[j]) = Brought(i)
      <4>1. CASE i = k
        <5>1. PackageOf(c) = Brought(k)
          BY <2>6, <2>8, <3>9, <4>1 DEF Shows, Brought, PackageOf
        <5>2. m + 1 \in 1..(m + 1) /\ m + 1 <= a + 1
          BY <3>8
        <5>. QED
          BY <3>4, <3>8, <4>1, <5>1, <5>2
      <4>2. CASE i \in 1..(k - 1)
        <5>1. PICK j \in 1..m : j <= Cardinality(AddedTo(i - 1)) + 1 /\ PackageOf(s.changes[j]) = Brought(i)
          BY <3>3, <3>9, <4>2 DEF ReadInv
        <5>2. j \in 1..(m + 1) /\ t.changes[j] = s.changes[j]
          BY <3>4
        <5>. QED
          BY <3>4, <5>1, <5>2
      <4>. QED
        BY <1>3, <4>1, <4>2
    <3>10. Len(t.changes) <= Cardinality(AddedTo(k))
      BY <3>4, <3>8
    <3>. QED
      BY <1>1, <1>2, <2>3, <2>5, <3>7, <3>9, <3>10 DEF ReadInv
  <2>10. CASE ~(Added(k) /\ t.name # None)
    <3>1. t.changes = s.changes
      BY <1>1, <2>1, <2>10 DEF ChangesIn, Added
    <3>2. ~Shows(k)
      BY <2>6, <2>10, ContextConstants DEF Shows
    <3>3. \A d \in Range(t.changes) : \E i \in 1..k : ChangedAt(d, i)
      BY <1>3, <3>1 DEF ReadInv
    <3>4. ASSUME NEW i \in 1..k, Shows(i)
          PROVE  \E j \in 1..Len(t.changes) : /\ j <= Cardinality(AddedTo(i - 1)) + 1
                                              /\ PackageOf(t.changes[j]) = Brought(i)
      <4>1. i \in 1..(k - 1)
        BY <1>3, <3>2, <3>4
      <4>. QED
        BY <3>1, <3>4, <4>1 DEF ReadInv
    <3>5. Len(t.changes) <= Cardinality(AddedTo(k))
      <4>1. PICK a \in Nat, b \in Nat : a = Cardinality(AddedTo(k - 1)) /\ b = Cardinality(AddedTo(k)) /\ a <= b
        <5>1. CASE Added(k)
          BY <1>3, <5>1, AddedNext
        <5>2. CASE ~Added(k)
          BY <1>3, <5>2, AddedNext
        <5>. QED
          BY <5>1, <5>2
      <4>2. PICK m \in Nat : m = Len(s.changes)
        BY DEF Reading
      <4>3. m <= a
        BY <4>1, <4>2 DEF ReadInv
      <4>. QED
        BY <3>1, <4>1, <4>2, <4>3
    <3>. QED
      BY <1>1, <1>2, <2>3, <2>5, <3>3, <3>4, <3>5 DEF ReadInv
  <2>. QED
    BY <2>9, <2>10
<1>. QED
  BY <1>4, <1>5

\* The changes that the parser finds, and where.
LEMMA ExtractIs ==
  ASSUME DiffInv
  PROVE  /\ ExtractChanges \in Seq(Changes(KindNames))
         /\ \A c \in Range(ExtractChanges) : FromDiff(c)
         /\ \A i \in 1..Len(patch) : Shows(i) =>
              \E j \in 1..Len(ExtractChanges) :
                /\ j <= Cardinality(AddedTo(i - 1)) + 1
                /\ PackageOf(ExtractChanges[j]) = Brought(i)
<1>1. PICK n \in Nat : /\ n = Len(patch) /\ DOMAIN patch = 1..n
                       /\ \A i \in 1..n : patch[i] \in Lines(KindNames)
  BY DEF DiffInv
<1>2. PICK h : h = CHOOSE g : g = [t \in SUBSET (1..n) |->
                     IF t = {} THEN Unread ELSE ReadLine(g[t \ {Max(t)}], patch[Max(t)])]
  OBVIOUS
<1>3. ExtractChanges = h[1..n].changes
  BY <1>1, <1>2 DEF ExtractChanges, FoldLeft, MapThenFoldSet
<1>4. PICK D : D = [q \in Reading \X (1..n) |-> ReadLine(q[1], patch[q[2]])]
  OBVIOUS
<1>5. ASSUME NEW g, Turns(g, Reading, Unread, n, D)
      PROVE  Unfolds(h, Reading, Unread, n, D)
  <2>1. g = [t \in SUBSET (1..n) |->
               IF t = {} THEN Unread ELSE ReadLine(g[t \ {Max(t)}], patch[Max(t)])]
    BY <1>4, <1>5 DEF Turns
  <2>2. h = [t \in SUBSET (1..n) |->
               IF t = {} THEN Unread ELSE ReadLine(h[t \ {Max(t)}], patch[Max(t)])]
    BY <1>2, <2>1
  <2>. QED
    BY <1>4, <1>5, <2>2 DEF Unfolds, Turns
<1>6. Unread \in Reading
  BY DEF Unread, Reading
<1>7. RunsTo(h, Reading, Unread, n, D)
  <2>1. D \in [Reading \X (1..n) -> Reading]
    <3>1. ASSUME NEW s \in Reading, NEW k \in 1..n
          PROVE  ReadLine(s, patch[k]) \in Reading
      BY <1>1, ReadLineIs
    <3>. QED
      BY <1>4, <3>1
  <2>. QED
    BY <1>5, <1>6, <2>1, FoldLeftRuns
<1> DEFINE I == {q \in (0..n) \X Reading : ReadInv(q[2], q[1])}
<1>8. << 0, Unread >> \in I
  <2>1. 1..0 = {} /\ AddedTo(0) = {} /\ 0 \in 0..n
    BY DEF AddedTo
  <2>2. Len(Unread.changes) = 0 /\ Range(Unread.changes) = {}
    BY DEF Unread, Range
  <2>3. Len(Unread.changes) <= Cardinality(AddedTo(0))
    BY <2>1, <2>2, FS_EmptySet
  <2>4. ReadInv(Unread, 0)
    BY <2>1, <2>2, <2>3 DEF ReadInv
  <2>. QED
    BY <1>6, <2>1, <2>4
<1>9. ASSUME NEW k \in 1..n, NEW s \in Reading, << k - 1, s >> \in I
      PROVE  << k, D[<< s, k >>] >> \in I
  <2>1. ReadInv(s, k - 1) /\ k \in 0..n
    BY <1>9
  <2>2. D[<< s, k >>] = ReadLine(s, patch[k])
    BY <1>4
  <2>3. ReadLine(s, patch[k]) \in Reading
    BY <1>1, ReadLineIs
  <2>4. ReadInv(ReadLine(s, patch[k]), k)
    BY <1>1, <2>1, ReadNext
  <2>. QED
    BY <2>1, <2>2, <2>3, <2>4
<1>10. h[1..n] \in Reading /\ << n, h[1..n] >> \in I
  <2>1. Preserved(I, Reading, n, D)
    BY <1>9 DEF Preserved
  <2> HIDE DEF I
  <2>. QED
    BY <1>7, <1>8, <2>1, FoldInduction
<1>11. ReadInv(h[1..n], n)
  BY <1>10
<1>12. ExtractChanges \in Seq(Changes(KindNames))
  BY <1>3, <1>10 DEF Reading
<1>13. \A c \in Range(ExtractChanges) : FromDiff(c)
  BY <1>1, <1>3, <1>11 DEF ReadInv, FromDiff
<1>14. ASSUME NEW i \in 1..n, Shows(i)
       PROVE  \E j \in 1..Len(ExtractChanges) :
                /\ j <= Cardinality(AddedTo(i - 1)) + 1
                /\ PackageOf(ExtractChanges[j]) = Brought(i)
  BY <1>3, <1>11, <1>14 DEF ReadInv
<1>. QED
  BY <1>1, <1>12, <1>13, <1>14

(***************************************************************************)
(* What is looked up.                                                      *)
(***************************************************************************)
\* The first change of each package among the first k.
Deduped(kept, seq, k, X) ==
  /\ kept \in Seq(X) /\ Distinct(kept) /\ Len(kept) <= k
  /\ Range(kept) \subseteq FirstOf(seq, k)
  /\ \A i \in 1..k : \E j \in 1..Len(kept) : j <= i /\ PackageOf(kept[j]) = PackageOf(seq[i])

LEMMA KeepNext ==
  ASSUME NEW X, NEW seq, NEW k \in Nat \ {0}, seq[k] \in X,
         NEW kept, Deduped(kept, seq, k - 1, X)
  PROVE  KeepFirst(kept, seq[k]) \in Seq(X) /\ Deduped(KeepFirst(kept, seq[k]), seq, k, X)
<1>1. PICK c \in X, s \in Seq(X) : c = seq[k] /\ s = kept
  BY DEF Deduped
<1>2. PICK m \in Nat : m = Len(s) /\ DOMAIN s = 1..m /\ m <= k - 1
  BY <1>1 DEF Deduped
<1>3. 1..k = 1..(k - 1) \cup {k} /\ FirstOf(seq, k) = FirstOf(seq, k - 1) \cup {c}
  <2>1. 1..k = 1..(k - 1) \cup {k}
    OBVIOUS
  <2>. QED
    BY <1>1, <2>1 DEF FirstOf
<1>4. CASE \E d \in Range(s) : PackageOf(d) = PackageOf(c)
  <2>1. KeepFirst(s, c) = s
    BY <1>4 DEF KeepFirst
  <2>2. PICK j \in 1..m : PackageOf(s[j]) = PackageOf(c)
    BY <1>2, <1>4 DEF Range
  <2>3. j <= k /\ m <= k
    BY <1>2
  <2>4. ASSUME NEW i \in 1..k
        PROVE  \E d \in 1..m : d <= i /\ PackageOf(s[d]) = PackageOf(seq[i])
    <3>1. CASE i = k
      BY <1>1, <2>2, <2>3, <3>1
    <3>2. CASE i \in 1..(k - 1)
      BY <1>1, <1>2, <3>2 DEF Deduped
    <3>. QED
      BY <1>3, <3>1, <3>2
  <2>. QED
    BY <1>1, <1>2, <1>3, <2>1, <2>3, <2>4 DEF Deduped
<1>5. CASE ~\E d \in Range(s) : PackageOf(d) = PackageOf(c)
  <2>1. PICK t \in Seq(X) : t = Append(s, c) /\ KeepFirst(s, c) = t
    BY <1>1, <1>5, RangeOfAppend DEF KeepFirst
  <2>2. /\ Len(t) = m + 1 /\ DOMAIN t = 1..(m + 1) /\ t[m + 1] = c
        /\ \A i \in 1..m : t[i] = s[i]
    BY <1>1, <1>2, <2>1, AppendTyped
  <2>3. Range(t) = Range(s) \cup {c}
    BY <1>1, <2>1, RangeOfAppend
  <2>4. \A i \in 1..(m + 1) : i \in 1..m \/ i = m + 1
    BY <1>2
  <2>5. \A i \in 1..m : PackageOf(s[i]) # PackageOf(c)
    BY <1>2, <1>5 DEF Range
  <2>6. Distinct(t)
    BY <1>1, <1>2, <2>2, <2>4, <2>5 DEF Distinct, Deduped
  <2>7. m + 1 <= k /\ m + 1 \in 1..(m + 1) /\ \A i \in 1..m : i \in 1..(m + 1)
    BY <1>2
  <2>8. ASSUME NEW i \in 1..k
        PROVE  \E d \in 1..(m + 1) : d <= i /\ PackageOf(t[d]) = PackageOf(seq[i])
    <3>1. CASE i = k
      BY <1>1, <2>2, <2>7, <3>1
    <3>2. CASE i \in 1..(k - 1)
      <4>1. PICK d \in 1..m : d <= i /\ PackageOf(s[d]) = PackageOf(seq[i])
        BY <1>1, <1>2, <3>2 DEF Deduped
      <4>. QED
        BY <2>2, <2>7, <4>1
    <3>. QED
      BY <1>3, <3>1, <3>2
  <2>9. Range(t) \subseteq FirstOf(seq, k)
    BY <1>1, <1>3, <2>3 DEF Deduped
  <2>. QED
    BY <1>1, <2>1, <2>2, <2>6, <2>7, <2>8, <2>9 DEF Deduped
<1>. QED
  BY <1>4, <1>5

LEMMA DedupeIs ==
  ASSUME NEW X, NEW seq \in Seq(X)
  PROVE  Deduped(Dedupe(seq), seq, Len(seq), X)
<1>1. PICK n \in Nat : n = Len(seq) /\ DOMAIN seq = 1..n /\ \A i \in 1..n : seq[i] \in X
  OBVIOUS
<1>2. PICK h : h = CHOOSE g : g = [t \in SUBSET (1..n) |->
                     IF t = {} THEN << >> ELSE KeepFirst(g[t \ {Max(t)}], seq[Max(t)])]
  OBVIOUS
<1>3. Dedupe(seq) = h[1..n]
  BY <1>1, <1>2 DEF Dedupe, FoldLeft, MapThenFoldSet
<1>4. PICK V : V = Seq(X)
  OBVIOUS
<1>5. PICK D : D = [p \in V \X (1..n) |-> KeepFirst(p[1], seq[p[2]])]
  OBVIOUS
<1>6. ASSUME NEW g, Turns(g, V, << >>, n, D)
      PROVE  Unfolds(h, V, << >>, n, D)
  <2>1. g = [t \in SUBSET (1..n) |->
               IF t = {} THEN << >> ELSE KeepFirst(g[t \ {Max(t)}], seq[Max(t)])]
    BY <1>5, <1>6 DEF Turns
  <2>2. h = [t \in SUBSET (1..n) |->
               IF t = {} THEN << >> ELSE KeepFirst(h[t \ {Max(t)}], seq[Max(t)])]
    BY <1>2, <2>1
  <2>. QED
    BY <1>5, <1>6, <2>2 DEF Unfolds, Turns
<1>7. << >> \in V
  BY <1>4
<1>8. RunsTo(h, V, << >>, n, D)
  <2>1. D \in [V \X (1..n) -> V]
    <3>1. ASSUME NEW v \in V, NEW k \in 1..n
          PROVE  KeepFirst(v, seq[k]) \in V
      BY <1>1, <1>4 DEF KeepFirst
    <3>. QED
      BY <1>5, <3>1
  <2>. QED
    BY <1>6, <1>7, <2>1, FoldLeftRuns
<1> DEFINE I == {p \in (0..n) \X V : Deduped(p[2], seq, p[1], X)}
<1>9. << 0, << >> >> \in I
  <2>1. 1..0 = {} /\ 0 \in 0..n /\ Len(<< >>) = 0 /\ Range(<< >>) = {} /\ Distinct(<< >>)
    BY DEF Range, Distinct
  <2>2. Deduped(<< >>, seq, 0, X)
    BY <2>1 DEF Deduped
  <2>. QED
    BY <1>7, <2>1, <2>2
<1>10. ASSUME NEW k \in 1..n, NEW v \in V, << k - 1, v >> \in I
       PROVE  << k, D[<< v, k >>] >> \in I
  <2>1. Deduped(v, seq, k - 1, X) /\ k \in 0..n /\ k \in Nat \ {0} /\ seq[k] \in X
    BY <1>1, <1>10
  <2>2. D[<< v, k >>] = KeepFirst(v, seq[k])
    BY <1>5
  <2>3. KeepFirst(v, seq[k]) \in V /\ Deduped(KeepFirst(v, seq[k]), seq, k, X)
    BY <1>4, <2>1, KeepNext
  <2>. QED
    BY <2>1, <2>2, <2>3
<1>11. << n, h[1..n] >> \in I
  <2>1. Preserved(I, V, n, D)
    BY <1>10 DEF Preserved
  <2> HIDE DEF I
  <2>. QED
    BY <1>8, <1>9, <2>1, FoldInduction
<1>. QED
  BY <1>1, <1>3, <1>11

LEMMA CapIs ==
  ASSUME NEW X, NEW seq \in Seq(X), NEW n \in Nat
  PROVE  /\ Cap(seq, n) \in Seq(X) /\ Len(Cap(seq, n)) <= n /\ Len(Cap(seq, n)) <= Len(seq)
         /\ \A j \in 1..Len(Cap(seq, n)) : Cap(seq, n)[j] = seq[j]
         /\ \A j \in 1..Len(seq) : j <= n => j \in 1..Len(Cap(seq, n))
<1>1. PICK m \in Nat : m = Len(seq)
  OBVIOUS
<1>2. CASE m > n
  <2>1. PICK t : t = SubSeq(seq, 1, n) /\ Cap(seq, n) = t
    BY <1>1, <1>2 DEF Cap
  <2>2. \A i \in 1..n : i \in 1..m /\ seq[i] \in X
    BY <1>1, <1>2
  <2>3. t \in Seq(X) /\ Len(t) = n /\ \A j \in 1..n : t[j] = seq[j]
    BY <1>1, <1>2, <2>1, <2>2
  <2>. QED
    BY <1>1, <1>2, <2>1, <2>3
<1>3. CASE ~(m > n)
  BY <1>1, <1>3 DEF Cap
<1>. QED
  BY <1>2, <1>3

WithFile(c, i) == [name |-> c.name, version |-> c.version, line |-> c.line, file |-> i]

LEMMA InFileIs ==
  ASSUME NEW names, NEW seq \in Seq(Changes(names)), NEW i \in Nat
  PROVE  /\ InFile(seq, i) \in Seq(Checked(names)) /\ Len(InFile(seq, i)) = Len(seq)
         /\ \A k \in 1..Len(seq) : InFile(seq, i)[k] = WithFile(seq[k], i)
<1>1. PICK m \in Nat : m = Len(seq) /\ DOMAIN seq = 1..m
  OBVIOUS
<1>2. \A k \in 1..m : WithFile(seq[k], i) \in Checked(names)
  <2>1. \A k \in 1..m : seq[k] \in Changes(names)
    BY <1>1
  <2>. QED
    BY <2>1 DEF WithFile, Changes, Checked
<1>3. PICK t : t = [k \in 1..m |-> WithFile(seq[k], i)]
  OBVIOUS
<1>4. t \in Seq(Checked(names)) /\ Len(t) = m /\ \A k \in 1..m : t[k] = WithFile(seq[k], i)
  BY <1>2, <1>3
<1>5. InFile(seq, i) = t
  BY <1>1, <1>3 DEF InFile, WithFile
<1>. QED
  BY <1>1, <1>4, <1>5

\* Neither the package nor the place of a change depends on its file.
LEMMA FileOnly ==
  ASSUME NEW c, NEW i
  PROVE  /\ PackageOf(WithFile(c, i)) = PackageOf(c) /\ WithFile(c, i).file = i
         /\ FromDiff(WithFile(c, i)) <=> FromDiff(c)
<1>1. PICK d : /\ d = WithFile(c, i) /\ d.name = c.name /\ d.version = c.version
               /\ d.line = c.line /\ d.file = i
  <2>1. PICK d : d = [name |-> c.name, version |-> c.version, line |-> c.line, file |-> i]
    OBVIOUS
  <2>2. d = WithFile(c, i)
    BY <2>1 DEF WithFile
  <2>3. d.name = c.name /\ d.version = c.version /\ d.line = c.line /\ d.file = i
    BY <2>1
  <2>. QED
    BY <2>2, <2>3
<1>2. FromDiff(d) <=> FromDiff(c)
  BY <1>1 DEF FromDiff, ChangedAt
<1>. QED
  BY <1>1, <1>2 DEF PackageOf

\* The lookups of one file are of its changes, the first ones of their packages.
LEMMA FileChecks ==
  ASSUME DiffInv, NEW f \in Nat
  PROVE  LET checks == InFile(Cap(Dedupe(ExtractChanges), MaxChecks), f) IN
         /\ checks \in Seq(Checked(KindNames))
         /\ \A c \in Range(checks) : FromDiff(c)
         /\ \A i \in 1..Len(patch) : Shows(i) /\ Cardinality(AddedTo(i - 1)) < MaxChecks =>
              \E c \in Range(checks) : PackageOf(c) = Brought(i) /\ c.file = f
<1>1. PICK X : X = Changes(KindNames)
  OBVIOUS
<1>2. PICK a \in Seq(X) : a = ExtractChanges
  BY <1>1, ExtractIs
<1>3. PICK b \in Seq(X) : b = Dedupe(a) /\ Deduped(b, a, Len(a), X)
  BY DedupeIs DEF Deduped
<1>4. PICK e \in Seq(X) :
        /\ e = Cap(b, MaxChecks) /\ Len(e) <= Len(b)
        /\ \A j \in 1..Len(e) : e[j] = b[j]
        /\ \A j \in 1..Len(b) : j <= MaxChecks => j \in 1..Len(e)
  BY CapIs, ContextConstants
<1>5. PICK t \in Seq(Checked(KindNames)) :
        /\ t = InFile(e, f) /\ Len(t) = Len(e)
        /\ \A k \in 1..Len(e) : t[k] = WithFile(e[k], f)
  BY <1>1, InFileIs
<1>6. PICK m \in Nat, n \in Nat, p \in Nat :
        /\ m = Len(e) /\ n = Len(b) /\ p = Len(a) /\ m <= n
        /\ DOMAIN t = 1..m /\ DOMAIN b = 1..n /\ DOMAIN a = 1..p
  BY <1>4, <1>5
<1>7. ASSUME NEW k \in 1..m
      PROVE  FromDiff(t[k])
  <2>1. k \in 1..n /\ t[k] = WithFile(b[k], f)
    BY <1>4, <1>5, <1>6
  <2>2. b[k] \in Range(b)
    BY <1>6, <2>1 DEF Range
  <2>3. b[k] \in Range(a)
    BY <1>3, <1>6, <2>2 DEF Deduped, FirstOf, Range
  <2>. QED
    BY <1>2, <2>1, <2>3, ExtractIs, FileOnly
<1>8. ASSUME NEW i \in 1..Len(patch), Shows(i), Cardinality(AddedTo(i - 1)) < MaxChecks
      PROVE  \E c \in Range(t) : PackageOf(c) = Brought(i) /\ c.file = f
  <2>1. i \in Nat \ {0} /\ MaxChecks \in Nat
    BY ContextConstants DEF DiffInv
  <2>2. PICK s \in Nat : s = Cardinality(AddedTo(i - 1)) /\ s + 1 <= MaxChecks
    BY <1>8, <2>1, AddedNext
  <2>3. PICK j \in 1..p : j <= s + 1 /\ PackageOf(a[j]) = Brought(i)
    BY <1>2, <1>6, <1>8, <2>2, ExtractIs
  <2>4. PICK k \in 1..n : k <= j /\ PackageOf(b[k]) = Brought(i)
    BY <1>3, <1>6, <2>3 DEF Deduped
  <2>5. k <= MaxChecks
    BY <2>1, <2>2, <2>3, <2>4
  <2>6. k \in 1..m /\ t[k] = WithFile(b[k], f)
    BY <1>4, <1>5, <1>6, <2>4, <2>5
  <2>7. t[k] \in Range(t)
    BY <1>6, <2>6 DEF Range
  <2>. QED
    BY <2>4, <2>6, <2>7, FileOnly
<1>9. \A c \in Range(t) : FromDiff(c)
  BY <1>6, <1>7 DEF Range
<1>. QED
  BY <1>2, <1>3, <1>4, <1>5, <1>8, <1>9

LEMMA ChecksAre ==
  ASSUME DiffInv, NEW n \in Nat
  PROVE  /\ Checks(n) \in Seq(Checked(KindNames))
         /\ \A c \in Range(Checks(n)) : FromDiff(c)
         /\ \A i \in 1..Len(patch), f \in 1..n :
              Shows(i) /\ Cardinality(AddedTo(i - 1)) < MaxChecks =>
                \E c \in Range(Checks(n)) : PackageOf(c) = Brought(i) /\ c.file = f
<1>1. PICK X : X = Checked(KindNames)
  OBVIOUS
<1>2. PICK a : a = Cap(Dedupe(ExtractChanges), MaxChecks)
  OBVIOUS
<1>3. PICK seqs : seqs = [f \in 1..n |-> InFile(a, f)]
  OBVIOUS
<1>4. ASSUME NEW f \in 1..n
      PROVE  /\ seqs[f] \in Seq(X)
             /\ \A c \in Range(seqs[f]) : FromDiff(c)
             /\ \A i \in 1..Len(patch) : Shows(i) /\ Cardinality(AddedTo(i - 1)) < MaxChecks =>
                  \E c \in Range(seqs[f]) : PackageOf(c) = Brought(i) /\ c.file = f
  <2>1. f \in Nat /\ seqs[f] = InFile(a, f)
    BY <1>3
  <2>. QED
    BY <1>1, <1>2, <2>1, FileChecks
<1>5. seqs \in Seq(Seq(X)) /\ Len(seqs) = n
  BY <1>3, <1>4
<1>6. PICK t : t = Joined(seqs) /\ t \in Seq(X) /\ Range(t) = InLists(seqs, n)
  BY <1>5, JoinedIs DEF JoinOf
<1>7. Checks(n) = t
  BY <1>2, <1>3, <1>6 DEF Checks
<1>. QED
  BY <1>1, <1>4, <1>6, <1>7 DEF InLists

LEMMA LookupsAre ==
  ASSUME DiffInv
  PROVE  /\ Lookups \in Seq(Checked(KindNames)) /\ Distinct(Lookups)
         /\ Len(Lookups) <= MaxPackages /\ (Lookups # << >> => kind = "npm")
<1>1. CASE kind = "npm"
  <2>1. PICK X : X = Checked(KindNames)
    OBVIOUS
  <2>2. PICK a \in Seq(X) : a = InFile(ExtractChanges, 1)
    BY <2>1, ExtractIs, InFileIs
  <2>3. PICK b \in Seq(X) : b = Dedupe(a) /\ Distinct(b)
    BY DedupeIs DEF Deduped
  <2>4. PICK e \in Seq(X) :
          /\ e = Cap(b, MaxPackages) /\ Len(e) <= Len(b) /\ Len(e) <= MaxPackages
          /\ \A j \in 1..Len(e) : e[j] = b[j]
    BY CapIs, ContextConstants
  <2>5. \A j \in DOMAIN e : j \in DOMAIN b /\ e[j] = b[j]
    BY <2>4
  <2>6. Distinct(e)
    BY <2>3, <2>5 DEF Distinct
  <2>7. Lookups = e
    BY <1>1, <2>2, <2>3, <2>4 DEF Lookups
  <2>. QED
    BY <1>1, <2>1, <2>4, <2>6, <2>7
<1>2. CASE kind # "npm"
  <2>1. Lookups = << >> /\ Len(<< >>) = 0 /\ << >> \in Seq(Checked(KindNames)) /\ Distinct(<< >>)
    BY <1>2 DEF Lookups, Distinct
  <2>. QED
    BY <2>1, ContextConstants
<1>. QED
  BY <1>1, <1>2

(***************************************************************************)
(* The diff and the stages.                                                *)
(***************************************************************************)
LEMMA HeadTail ==
  ASSUME NEW X, NEW s \in Seq(X), s # << >>
  PROVE  /\ Head(s) \in X /\ Tail(s) \in Seq(X) /\ Head(s) = s[1]
         /\ Range(s) = {Head(s)} \cup Range(Tail(s))
         /\ Len(s) \in Nat \ {0} /\ Len(Tail(s)) = Len(s) - 1
         /\ \A i \in 1..Len(Tail(s)) : Tail(s)[i] = s[i + 1] /\ i + 1 \in 1..Len(s)
<1>1. PICK n \in Nat : n = Len(s) /\ DOMAIN s = 1..n /\ n # 0
  OBVIOUS
<1>0. Tail(s) \in Seq(X) /\ Len(Tail(s)) = Len(s) - 1
  OBVIOUS
<1>2. PICK t \in Seq(X) : t = Tail(s)
  BY <1>0, Zenon
<1>3. /\ Len(t) = n - 1 /\ DOMAIN t = 1..(n - 1)
      /\ \A i \in 1..(n - 1) : t[i] = s[i + 1] /\ i + 1 \in 1..n
  BY <1>0, <1>1, <1>2
<1>4. Head(s) = s[1] /\ s[1] \in X /\ 1 \in 1..n
  BY <1>1
<1>5. Range(s) = {s[1]} \cup Range(t)
  <2>1. \A i \in 1..n : i = 1 \/ (i - 1 \in 1..(n - 1) /\ s[i] = t[i - 1])
    <3>1. ASSUME NEW i \in 1..n, i # 1
          PROVE  i - 1 \in 1..(n - 1) /\ s[i] = t[i - 1]
      <4>1. i - 1 \in 1..(n - 1) /\ (i - 1) + 1 = i
        BY <3>1
      <4>. QED
        BY <1>3, <4>1
    <3>. QED
      BY <3>1
  <2>2. ASSUME NEW x \in Range(s)
        PROVE  x = s[1] \/ x \in Range(t)
    <3>1. PICK i \in 1..n : x = s[i]
      BY <1>1 DEF Range
    <3>2. CASE i = 1
      BY <3>1, <3>2
    <3>3. CASE i - 1 \in 1..(n - 1) /\ s[i] = t[i - 1]
      BY <1>3, <3>1, <3>3 DEF Range
    <3>. QED
      BY <2>1, <3>2, <3>3
  <2>3. \A x \in Range(t) : x \in Range(s)
    BY <1>1, <1>3 DEF Range
  <2>4. s[1] \in Range(s)
    BY <1>1, <1>4 DEF Range
  <2>. QED
    BY <2>2, <2>3, <2>4
<1>. QED
  BY <1>1, <1>2, <1>3, <1>4, <1>5

\* What the reports depend on.
LEMMA SameDiff ==
  ASSUME UNCHANGED << patch, truth >>
  PROVE  /\ \A c : FromDiff(c)' <=> FromDiff(c)
         /\ \A i : (Wanted(i)' <=> Wanted(i)) /\ Brought(i)' = Brought(i)
<1>1. /\ \A i : Added(i)' <=> Added(i)
      /\ \A i : KeysBefore(i)' = KeysBefore(i)
  BY DEF Added, KeysBefore
<1>2. \A i : Obscured(i)' <=> Obscured(i)
  BY <1>1 DEF Obscured
<1>3. \A c : FromDiff(c)' <=> FromDiff(c)
  BY <1>1, <1>2 DEF FromDiff, ChangedAt
<1>4. ASSUME NEW i
      PROVE  (Wanted(i)' <=> Wanted(i)) /\ Brought(i)' = Brought(i)
  <2>1. {k \in 1..(i - 1) : Added(k)}' = {k \in 1..(i - 1) : Added(k)}
    BY <1>1
  <2>. QED
    BY <1>1, <1>2, <2>1 DEF Wanted, Brought
<1>. QED
  BY <1>3, <1>4

WriteLine ==
  \/ Hunk
  \/ \E mark \in {"+", "-", "="} : KeyLine(mark) \/ VersionLine(mark) \/ Coordinate(mark)

\* What git's lines leave alone.
LEMMA WriteLeaves ==
  ASSUME WriteLine
  PROVE  /\ stage = "diff"
         /\ UNCHANGED << kind, copies, stage, todo, reply, results, world, caches, history >>
BY DEF WriteLine, Hunk, KeyLine, VersionLine, Coordinate, Write, Add

\* The actions that leave the diff alone.
Undiffed ==
  \/ Get \/ Ask \/ Set \/ FindRepo \/ GetNotes \/ AskGitHub \/ EndSearch \/ Keep
  \/ Deprecate \/ Publish \/ Expire \/ UNCHANGED vars

LEMMA UndiffedLeaves ==
  ASSUME Undiffed
  PROVE  UNCHANGED diff
BY DEF Undiffed, Get, Ask, Set, FindRepo, GetNotes, AskGitHub, EndSearch, Keep, Deprecate, Publish,
       Expire, vars

LEMMA NextCases ==
  ASSUME [Next]_vars
  PROVE  WriteLine \/ Review \/ Resolved \/ Finish \/ Undiffed
BY DEF Next, WriteLine, Undiffed

LEMMA DiffNext ==
  ASSUME DiffInv, StageInv, [Next]_vars
  PROVE  DiffInv'
<1>1. CASE WriteLine
  BY <1>1, DiffWritten DEF WriteLine
<1>2. ASSUME UNCHANGED << kind, patch, truth, owner, number >>, copies' \in 1..2
      PROVE  DiffInv'
  <2>1. \A i : LineOK(i)' <=> LineOK(i)
    BY <1>2 DEF LineOK, NumberAfter
  <2>2. KindNames' = KindNames /\ \A i : NumberAfter(i)' = NumberAfter(i)
    BY <1>2 DEF KindNames, NumberAfter
  <2>. QED
    BY <1>2, <2>1, <2>2 DEF DiffInv
<1>3. CASE Review
  BY <1>2, <1>3 DEF Review
<1>4. CASE Undiffed
  <2>1. UNCHANGED diff
    BY <1>4, UndiffedLeaves
  <2>2. copies \in 1..2
    BY DEF DiffInv
  <2>. QED
    BY <1>2, <2>1, <2>2 DEF diff
<1>5. CASE Resolved
  <2>1. /\ kind' = kind /\ copies' = 1 /\ patch' = << >> /\ truth' = << >>
        /\ owner' = None /\ number' = 1
    BY <1>5 DEF Resolved
  <2>2. 1 \in Nat /\ 1 \in 1..2 /\ Len(<< >>) = 0 /\ 0 <= MaxLines
    BY ContextConstants
  <2>. QED
    BY <2>1, <2>2 DEF DiffInv
<1>6. CASE Finish
  <2>1. /\ kind' \in {"npm", "gradle"} /\ patch = << >>
        /\ UNCHANGED << copies, patch, truth, owner, number >>
    BY <1>6 DEF Finish, StageInv
  <2>2. Len(<< >>) = 0
    OBVIOUS
  <2>. QED
    BY <2>1, <2>2 DEF DiffInv
<1>. QED
  BY <1>1, <1>3, <1>4, <1>5, <1>6, NextCases

LEMMA StageNext ==
  ASSUME DiffInv, StageInv, [Next]_vars
  PROVE  StageInv'
<1>1. PICK X : X = Checked(KindNames)
  OBVIOUS
<1>2. /\ todo \in Seq(X) /\ findings \in SUBSET X
      /\ KindNames' = KindNames => Checked(KindNames)' = X
  BY <1>1 DEF StageInv, Checked
<1>3. todo # << >> => /\ Current \in X /\ Tail(todo) \in Seq(X) /\ Package \in Packages
  <2>1. ASSUME todo # << >>
        PROVE  Current \in X /\ Tail(todo) \in Seq(X)
    BY <1>2, <2>1, HeadTail DEF Current
  <2>2. \A c \in X : PackageOf(c) \in Packages
    BY <1>1, ContextConstants DEF Checked, PackageOf, Packages
  <2>. QED
    BY <2>1, <2>2 DEF Package
<1>4. ASSUME UNCHANGED kind PROVE Checked(KindNames)' = X
  BY <1>2, <1>4 DEF KindNames
<1>5. CASE WriteLine
  BY <1>1, <1>4, <1>5, WriteLeaves DEF StageInv, results, world, caches, history
<1>6. CASE Review
  <2>1. todo' \in Seq(X) /\ kind' = kind
    BY <1>1, <1>6, ChecksAre DEF Review
  <2>. QED
    BY <1>1, <1>4, <1>6, <2>1 DEF StageInv, Review, Stages, results, world, caches
<1>7. CASE Get
  <2>1. kind' = kind /\ patch' = patch /\ todo # << >> /\ stage = "get" /\ flagged' = flagged
        /\ remembered' = remembered /\ before' = before /\ stale' = stale
    BY <1>7 DEF Get, diff, world, caches
  <2>2. /\ stage' \in {"get", "ask"} /\ todo' \in {todo, Tail(todo)} /\ excused' \in {excused, excused \cup (stale \cap {Package})}
        /\ findings' \in {findings, findings \cup {Current}}
        /\ stage' = "ask" => todo' = todo
    BY <1>7 DEF Get, Done, Found
  <2>. QED
    BY <1>1, <1>2, <1>3, <1>4, <2>1, <2>2 DEF StageInv, Stages
<1>8. CASE Ask
  <2>1. kind' = kind /\ patch' = patch /\ stage = "ask" /\ flagged' = flagged /\ findings' = findings
        /\ remembered' = remembered /\ before' = before /\ stale' = stale
    BY <1>8 DEF Ask, diff, world, caches, results
  <2>2. /\ excused' \in {excused, excused \cup {Package}}
        /\ \/ stage' = "set" /\ todo' = todo /\ reply' \in {"fine", "flagged"}
           \/ stage' = "get" /\ todo' = Tail(todo)
    BY <1>8 DEF Ask, Done, Unanswered
  <2>. QED
    BY <1>1, <1>2, <1>3, <1>4, <2>1, <2>2 DEF StageInv, Stages
<1>9. CASE Set
  <2>1. kind' = kind /\ patch' = patch /\ stage = "set" /\ flagged' = flagged
        /\ before' = before /\ stale' = stale /\ excused' = excused
    BY <1>9 DEF Set, diff, world, history
  <2>2. /\ stage' = "get" /\ todo' = Tail(todo) /\ findings' \in {findings, findings \cup {Current}}
        /\ remembered' \in {remembered, [remembered EXCEPT ![Package] = reply]}
    BY <1>9 DEF Set, Done, Found
  <2>3. remembered' \in [Packages -> {"missing", "fine", "flagged"}]
    BY <2>1, <2>2 DEF StageInv
  <2>. QED
    BY <1>1, <1>2, <1>3, <1>4, <2>1, <2>2, <2>3 DEF StageInv, Stages
<1>10. CASE Resolved
  <2>1. kind' = kind /\ stage' = "repo" /\ flagged' = flagged /\ findings' = {} /\ patch' = << >>
        /\ remembered' = remembered /\ before' = {} /\ stale' = stale /\ excused' = {}
    BY <1>10 DEF Resolved, world, caches
  <2>2. todo' \in Seq(X)
    <3>1. Lookups \in Seq(X) /\ << >> \in Seq(X)
      BY <1>1, LookupsAre
    <3>2. todo' = Lookups \/ todo' = << >>
      BY <1>10 DEF Resolved
    <3>. QED
      BY <3>1, <3>2
  <2>. QED
    BY <1>1, <1>2, <1>4, <2>1, <2>2 DEF StageInv, Stages
<1>11. CASE FindRepo \/ GetNotes \/ AskGitHub \/ EndSearch \/ Keep
  <2>1. kind' = kind /\ patch' = patch /\ flagged' = flagged /\ findings' = findings
        /\ remembered' = remembered /\ before' = before /\ stale' = stale /\ excused' = excused
    BY <1>11 DEF FindRepo, GetNotes, AskGitHub, EndSearch, Keep, diff, world, caches, results, history
  <2>2. /\ stage \in {"repo", "notes", "search", "keep"} /\ todo # << >>
        /\ \/ stage' \in {"notes", "search", "keep"} /\ todo' = todo
           \/ stage' = "repo" /\ todo' = Tail(todo)
    BY <1>11 DEF FindRepo, GetNotes, AskGitHub, HasNotes, Denies, Fails, EndSearch, Keep, Skip, Done, StageInv
  <2>. QED
    BY <1>1, <1>2, <1>3, <1>4, <2>1, <2>2 DEF StageInv, Stages
<1>12. CASE Finish
  <2>1. << >> \in Seq(Checked(KindNames)')
    OBVIOUS
  <2>2. /\ stage = "repo" /\ stage' = "diff" /\ todo' = << >> /\ findings' = {}
        /\ UNCHANGED << flagged, remembered, before, excused, stale >>
    BY <1>12 DEF Finish, StageInv, world, caches, history
  <2>. QED
    BY <2>1, <2>2 DEF StageInv, Stages
<1>13. CASE Deprecate
  <2>1. /\ kind' = kind /\ patch' = patch /\ stage' = stage /\ todo' = todo /\ reply' = reply /\ findings' = findings
        /\ remembered' = remembered /\ before' = before /\ excused' = excused
        /\ flagged' = flagged \cup {Package} /\ stale' \in {stale, stale \cup {Package}} /\ todo # << >>
    BY <1>13 DEF Deprecate, diff, caches, results
  <2>. QED
    BY <1>1, <1>3, <1>4, <2>1 DEF StageInv
<1>16. CASE Publish
  <2>1. /\ kind' = kind /\ patch' = patch /\ stage' = stage /\ todo' = todo /\ reply' = reply
        /\ findings' = findings /\ remembered' = remembered /\ before' = before
        /\ excused' = excused /\ flagged' = flagged /\ stale' = stale
    BY <1>16 DEF Publish, diff, caches, results
  <2>. QED
    BY <1>1, <1>4, <2>1 DEF StageInv
<1>14. CASE Expire
  <2>1. /\ kind' = kind /\ patch' = patch /\ stage' = stage /\ todo' = todo /\ reply' = reply /\ findings' = findings
        /\ before' = before /\ excused' = excused /\ flagged' = flagged /\ stale' = stale
        /\ remembered' \in {remembered, [remembered EXCEPT ![Package] = "missing"]}
    BY <1>14 DEF Expire, diff, world, results, history
  <2>2. remembered' \in [Packages -> {"missing", "fine", "flagged"}]
    BY <2>1 DEF StageInv
  <2>. QED
    BY <1>1, <1>4, <2>1, <2>2 DEF StageInv
<1>15. CASE UNCHANGED vars
  BY <1>1, <1>4, <1>15 DEF StageInv, vars, diff, world, results, caches, history
<1>. QED
  BY <1>5, <1>6, <1>7, <1>8, <1>9, <1>10, <1>11, <1>12, <1>13, <1>14, <1>15, <1>16 DEF Next, WriteLine

(***************************************************************************)
(* The findings.                                                           *)
(***************************************************************************)
\* The change at the head of the list is about a package.
LEMMA OnCurrent ==
  ASSUME StageInv, todo # << >>
  PROVE  /\ Package \in Packages /\ Package = PackageOf(Current)
         /\ Current \in Range(todo) /\ Range(todo) = {Current} \cup Range(Tail(todo))
<1>1. /\ Current \in Checked(KindNames) /\ Range(todo) = {Current} \cup Range(Tail(todo))
  BY HeadTail DEF StageInv, Current
<1>2. Current.name \in Names /\ Current.version \in Versions
  BY <1>1, ContextConstants DEF Checked
<1>. QED
  BY <1>1, <1>2 DEF Package, PackageOf, Packages

LEMMA SoundNext ==
  ASSUME DiffInv, StageInv, SoundInv, [Next]_vars
  PROVE  SoundInv'
<1>1. CASE WriteLine
  <2>1. stage' = "diff" /\ findings' = {} /\ remembered' = remembered /\ flagged' = flagged
    BY <1>1, WriteLeaves DEF StageInv, results, world, caches
  <2>. QED
    BY <2>1 DEF SoundInv, Resolving
<1>2. CASE Review
  <2>1. UNCHANGED << patch, truth >> /\ findings' = findings /\ findings = {} /\ copies' \in Nat
    BY <1>2 DEF Review, StageInv, results
  <2>2. \A c \in Range(todo') : FromDiff(c)
    BY <1>2, <2>1, ChecksAre DEF Review
  <2>3. stage' = "get" /\ remembered' = remembered /\ flagged' = flagged
    BY <1>2 DEF Review, world, caches
  <2>. QED
    BY <2>1, <2>2, <2>3, SameDiff DEF SoundInv
<1>3. CASE Finish
  <2>1. /\ stage' = "diff" /\ findings' = {} /\ remembered' = remembered /\ flagged' = flagged
    BY <1>3 DEF Finish, StageInv, world, caches
  <2>. QED
    BY <2>1 DEF SoundInv, Resolving
<1>5. CASE Resolved
  <2>1. stage' = "repo" /\ findings' = {} /\ remembered' = remembered /\ flagged' = flagged
    BY <1>5 DEF Resolved, world, caches
  <2>. QED
    BY <2>1 DEF SoundInv, Resolving
<1>4. CASE Undiffed
  <2>0. UNCHANGED << patch, truth >> /\ \A c : FromDiff(c)' <=> FromDiff(c)
    BY <1>4, UndiffedLeaves, SameDiff DEF diff
  <2>1. CASE Get
    <3>1. /\ stage = "get" /\ todo # << >> /\ flagged' = flagged /\ remembered' = remembered
          /\ stage' \in {"get", "ask"}
          /\ \/ /\ todo' = Tail(todo)
                /\ findings' = IF remembered[Package] = "flagged" THEN findings \cup {Current} ELSE findings
             \/ todo' = todo /\ findings' = findings
      BY <2>1 DEF Get, Done, Found, world, caches
    <3>2. Resolving
      BY <3>1 DEF Resolving
    <3>3. \A c \in Range(todo') : FromDiff(c)
      BY <3>1, <3>2, OnCurrent DEF SoundInv
    <3>4. \A c \in findings' : PackageOf(c) \in flagged /\ FromDiff(c)
      BY <3>1, <3>2, OnCurrent DEF SoundInv
    <3>. QED
      BY <2>0, <3>1, <3>3, <3>4 DEF SoundInv
  <2>2. CASE Ask
    <3>1. /\ stage = "ask" /\ todo # << >> /\ flagged' = flagged /\ remembered' = remembered
          /\ findings' = findings
          /\ \/ /\ todo' = todo /\ stage' = "set"
                /\ reply' = IF Package \in flagged THEN "flagged" ELSE "fine"
             \/ todo' = Tail(todo) /\ stage' = "get"
      BY <2>2 DEF Ask, Unanswered, Done, StageInv, results, world, caches
    <3>2. Resolving
      BY <3>1 DEF Resolving
    <3>3. \A c \in Range(todo') : FromDiff(c)
      BY <3>1, <3>2, OnCurrent DEF SoundInv
    <3>4. stage' = "set" /\ reply' = "flagged" => Package' \in flagged'
      BY <3>1 DEF Package, Current
    <3>. QED
      BY <2>0, <3>1, <3>3, <3>4 DEF SoundInv
  <2>3. CASE Set
    <3>1. /\ stage = "set" /\ todo # << >> /\ flagged' = flagged
          /\ todo' = Tail(todo) /\ stage' = "get"
          /\ findings' = IF reply = "flagged" THEN findings \cup {Current} ELSE findings
          /\ remembered' \in {remembered, [remembered EXCEPT ![Package] = reply]}
      BY <2>3 DEF Set, Done, Found, StageInv, world
    <3>2. Resolving
      BY <3>1 DEF Resolving
    <3>3. \A c \in Range(todo') : FromDiff(c)
      BY <3>1, <3>2, OnCurrent DEF SoundInv
    <3>4. \A c \in findings' : PackageOf(c) \in flagged /\ FromDiff(c)
      BY <3>1, <3>2, OnCurrent DEF SoundInv
    <3>5. \A p \in Packages : remembered'[p] = "flagged" => p \in flagged
      BY <3>1, OnCurrent DEF SoundInv, StageInv
    <3>. QED
      BY <2>0, <3>1, <3>3, <3>4, <3>5 DEF SoundInv
  <2>4. CASE Publish
    <3>1. /\ UNCHANGED << stage, todo, reply, findings, flagged, remembered >>
      BY <2>4 DEF Publish, results, caches
    <3>2. Package' = Package /\ (Resolving' <=> Resolving)
      BY <3>1 DEF Package, Current, Resolving
    <3>. QED
      BY <2>0, <3>1, <3>2 DEF SoundInv
  <2>5. CASE FindRepo \/ GetNotes \/ AskGitHub \/ EndSearch \/ Keep
    <3>1. /\ stage' \in {"repo", "notes", "search", "keep"} /\ findings' = findings
          /\ flagged' = flagged /\ remembered' = remembered
      BY <2>5 DEF FindRepo, GetNotes, AskGitHub, HasNotes, Denies, Fails, EndSearch, Keep, Skip,
                  results, world, caches
    <3>. QED
      BY <2>0, <3>1 DEF SoundInv, Resolving
  <2>6. CASE Deprecate
    <3>1. /\ flagged' = flagged \cup {Package}
          /\ stage' = stage /\ todo' = todo /\ reply' = reply /\ findings' = findings
          /\ remembered' = remembered
      BY <2>6 DEF Deprecate, results, caches
    <3>2. Package' = Package /\ (Resolving' <=> Resolving)
      BY <3>1 DEF Package, Current, Resolving
    <3>. QED
      BY <2>0, <3>1, <3>2 DEF SoundInv
  <2>7. CASE Expire
    <3>1. /\ flagged' = flagged /\ stage' = stage /\ todo' = todo /\ reply' = reply /\ findings' = findings
          /\ todo # << >>
          /\ remembered' \in {remembered, [remembered EXCEPT ![Package] = "missing"]}
      BY <2>7 DEF Expire, results, world
    <3>2. Package' = Package /\ (Resolving' <=> Resolving)
      BY <3>1 DEF Package, Current, Resolving
    <3>3. \A p \in Packages : remembered'[p] = "flagged" => p \in flagged
      BY <3>1, OnCurrent DEF SoundInv, StageInv
    <3>. QED
      BY <2>0, <3>1, <3>2, <3>3 DEF SoundInv
  <2>8. CASE UNCHANGED vars
    <3>1. /\ flagged' = flagged /\ stage' = stage /\ todo' = todo /\ reply' = reply /\ findings' = findings
          /\ remembered' = remembered
      BY <2>8 DEF vars, results, world, caches
    <3>2. Package' = Package /\ (Resolving' <=> Resolving)
      BY <3>1 DEF Package, Current, Resolving
    <3>. QED
      BY <2>0, <3>1, <3>2 DEF SoundInv
  <2>. QED
    BY <1>4, <2>1, <2>2, <2>3, <2>4, <2>5, <2>6, <2>7, <2>8 DEF Undiffed
<1>. QED
  BY <1>1, <1>2, <1>3, <1>4, <1>5, NextCases

\* A package that the resolver has to find is found or still to be looked up.
Pending(i, f) ==
  Wanted(i) /\ Brought(i) \in before \ excused =>
    \E c \in findings \cup Range(todo) : PackageOf(c) = Brought(i) /\ c.file = f

\* A lookup leaves the list when its package is found, or need not be.
LEMMA LookedUp ==
  ASSUME StageInv, MissInv, Resolving, todo # << >>, todo' = Tail(todo), UNCHANGED diff, before' = before,
         excused \subseteq excused', findings \subseteq findings',
         Current \in findings' \/ Package \notin before \ excused'
  PROVE  \A i \in 1..Len(patch), f \in 1..copies : Pending(i, f)'
<1>1. UNCHANGED << patch, truth, copies >> /\ \A i : (Wanted(i)' <=> Wanted(i)) /\ Brought(i)' = Brought(i)
  BY SameDiff DEF diff
<1>2. ASSUME NEW i \in 1..Len(patch), NEW f \in 1..copies, Wanted(i), Brought(i) \in before \ excused'
      PROVE  \E c \in findings' \cup Range(Tail(todo)) : PackageOf(c) = Brought(i) /\ c.file = f
  <2>1. PICK c \in findings \cup Range(todo) : PackageOf(c) = Brought(i) /\ c.file = f
    BY <1>2 DEF MissInv
  <2>2. c \in findings' \/ c = Current \/ c \in Range(Tail(todo))
    BY <2>1, OnCurrent
  <2>3. c = Current => c \in findings'
    BY <1>2, <2>1, OnCurrent
  <2>. QED
    BY <2>1, <2>2, <2>3
<1>3. ASSUME NEW i \in 1..Len(patch), NEW f \in 1..copies
      PROVE  Pending(i, f)'
  BY <1>1, <1>2, <1>3 DEF Pending
<1>. QED
  BY <1>3

\* Nothing is found or looked up.
LEMMA StillPending ==
  ASSUME MissInv, Resolving, UNCHANGED << diff, todo, findings, before >>, excused \subseteq excused'
  PROVE  \A i \in 1..Len(patch), f \in 1..copies : Pending(i, f)'
<1>1. UNCHANGED << patch, truth, copies >> /\ \A i : (Wanted(i)' <=> Wanted(i)) /\ Brought(i)' = Brought(i)
  BY SameDiff DEF diff
<1>2. ASSUME NEW i \in 1..Len(patch), NEW f \in 1..copies
      PROVE  Pending(i, f)'
  <2>1. Pending(i, f)
    BY DEF MissInv, Pending
  <2>. QED
    BY <1>1, <2>1 DEF Pending
<1>. QED
  BY <1>2

LEMMA MissNext ==
  ASSUME DiffInv, StageInv, MissInv, [Next]_vars
  PROVE  MissInv'
<1>0. ASSUME \A i \in 1..Len(patch)', f \in 1..copies' : Pending(i, f)',
             \A p \in Packages : remembered'[p] = "fine" /\ p \in flagged' => p \in stale',
             stage' = "set" /\ reply' = "fine" =>
               Package' \notin before' /\ (Package' \in flagged' => Package' \in stale')
      PROVE  MissInv'
  BY <1>0 DEF MissInv, Pending
<1>1. CASE WriteLine
  <2>1. stage' = "diff" /\ remembered' = remembered /\ flagged' = flagged /\ stale' = stale
    BY <1>1, WriteLeaves DEF world, caches, history
  <2>. QED
    BY <2>1 DEF MissInv, Resolving
<1>2. CASE Review
  <2>1. /\ UNCHANGED << patch, truth, findings, remembered, flagged, stale, excused >>
        /\ copies' \in Nat /\ stage' = "get" /\ before' = flagged /\ todo' = Checks(copies')
    BY <1>2 DEF Review, results, caches, world
  <2>2. ASSUME NEW i \in 1..Len(patch), NEW f \in 1..copies'
        PROVE  Pending(i, f)'
    <3>1. ASSUME Wanted(i), Brought(i) \in flagged
          PROVE  \E c \in findings' \cup Range(todo') : PackageOf(c) = Brought(i) /\ c.file = f
      <4>1. Brought(i).name \in Names
        BY <3>1 DEF StageInv, Packages
      <4>2. Shows(i) /\ Cardinality(AddedTo(i - 1)) < MaxChecks
        BY <3>1, <4>1 DEF Shows, Wanted, AddedTo, Brought
      <4>3. PICK n \in Nat : n = copies' /\ f \in 1..n /\ todo' = Checks(n)
        BY <2>1
      <4>4. \E c \in Range(Checks(n)) : PackageOf(c) = Brought(i) /\ c.file = f
        BY <4>2, <4>3, ChecksAre
      <4>. QED
        BY <4>3, <4>4
    <3>. QED
      BY <2>1, <3>1, SameDiff DEF Pending
  <2>. QED
    BY <1>0, <2>1, <2>2 DEF MissInv
<1>3. CASE Finish
  BY <1>3 DEF Finish, MissInv, Resolving, world, caches, history
<1>5. CASE Resolved
  <2>1. stage' = "repo" /\ UNCHANGED << remembered, flagged, stale >>
    BY <1>5 DEF Resolved, world, caches
  <2>. QED
    BY <2>1 DEF MissInv, Resolving
<1>4. CASE Undiffed
  <2>0. UNCHANGED diff /\ UNCHANGED << patch, truth, copies >>
    BY <1>4, UndiffedLeaves DEF diff
  <2>1. CASE Get
    <3>1. /\ stage = "get" /\ Resolving /\ todo # << >> /\ stage' # "set"
          /\ UNCHANGED << flagged, remembered, before, stale >>
      BY <2>1 DEF Get, Resolving, world, caches
    <3>2. CASE remembered[Package] # "missing" /\ Found(remembered[Package])
               /\ excused' = excused \cup (stale \cap {Package}) /\ Done
      <4>1. CASE remembered[Package] = "flagged"
        BY <1>0, <2>0, <3>1, <3>2, <4>1, LookedUp DEF Found, Done, MissInv
      <4>2. CASE remembered[Package] # "flagged"
        <5>1. remembered[Package] = "fine" /\ Package \in Packages
          BY <3>1, <3>2, <4>2, OnCurrent DEF StageInv
        <5>2. Package \notin before \ excused'
          BY <3>2, <5>1 DEF MissInv, StageInv
        <5>. QED
          BY <1>0, <2>0, <3>1, <3>2, <4>2, <5>2, LookedUp DEF Found, Done, MissInv
      <4>. QED
        BY <4>1, <4>2
    <3>3. CASE stage' = "ask" /\ UNCHANGED << findings, todo, reply, excused >>
      BY <1>0, <2>0, <3>1, <3>3, StillPending DEF MissInv
    <3>. QED
      BY <2>1, <3>2, <3>3 DEF Get
  <2>2. CASE Ask
    <3>1. /\ stage = "ask" /\ Resolving /\ todo # << >>
          /\ UNCHANGED << flagged, remembered, before, stale, findings >>
      BY <2>2 DEF Ask, Resolving, StageInv, results, world, caches
    <3>2. CASE reply' = (IF Package \in flagged THEN "flagged" ELSE "fine")
               /\ stage' = "set" /\ UNCHANGED << todo, excused >>
      <4>1. Package' = Package
        BY <3>2 DEF Package, Current
      <4>2. reply' = "fine" => Package \notin flagged /\ Package \notin before
        BY <3>2 DEF StageInv
      <4>. QED
        BY <1>0, <2>0, <3>1, <3>2, <4>1, <4>2, StillPending DEF MissInv
    <3>3. CASE Unanswered
      BY <1>0, <2>0, <3>1, <3>3, LookedUp DEF MissInv, Unanswered, Done
    <3>. QED
      BY <2>2, <3>2, <3>3 DEF Ask
  <2>3. CASE Set
    <3>1. /\ stage = "set" /\ Resolving /\ todo # << >> /\ stage' = "get" /\ reply \in {"fine", "flagged"}
          /\ UNCHANGED << flagged, before, stale, excused >> /\ todo' = Tail(todo)
          /\ findings' = IF reply = "flagged" THEN findings \cup {Current} ELSE findings
          /\ remembered' \in {remembered, [remembered EXCEPT ![Package] = reply]}
      BY <2>3 DEF Set, Resolving, Found, Done, StageInv, world, history
    <3>2. Current \in findings' \/ Package \notin before \ excused'
      BY <3>1 DEF MissInv
    <3>3. \A i \in 1..Len(patch), f \in 1..copies : Pending(i, f)'
      BY <2>0, <3>1, <3>2, LookedUp
    <3>4. \A p \in Packages : remembered'[p] = "fine" /\ p \in flagged' => p \in stale'
      BY <3>1, OnCurrent DEF MissInv, StageInv
    <3>. QED
      BY <1>0, <2>0, <3>1, <3>3, <3>4
  <2>4. CASE Publish
    <3>1. /\ UNCHANGED << stage, todo, reply, findings, before, excused, stale, flagged, remembered >>
          /\ stage \in {"notes", "search", "keep"}
      BY <2>4 DEF Publish, results, caches
    <3>. QED
      BY <3>1 DEF MissInv, Resolving
  <2>5. CASE FindRepo \/ GetNotes \/ AskGitHub \/ EndSearch \/ Keep
    <3>1. /\ stage' \in {"repo", "notes", "search", "keep"}
          /\ flagged' = flagged /\ remembered' = remembered /\ stale' = stale
      BY <2>5 DEF FindRepo, GetNotes, AskGitHub, HasNotes, Denies, Fails, EndSearch, Keep, Skip,
                  world, caches, history
    <3>. QED
      BY <3>1 DEF MissInv, Resolving
  <2>6. CASE Deprecate
    <3>1. /\ Resolving /\ todo # << >> /\ flagged' = flagged \cup {Package} /\ Package \notin flagged
          /\ stale' = IF stage = "set" \/ remembered[Package] = "fine"
                      THEN stale \cup {Package} ELSE stale
          /\ UNCHANGED << stage, todo, reply, findings, remembered, before, excused >>
      BY <2>6 DEF Deprecate, Resolving, results, caches
    <3>2. Package' = Package
      BY <3>1 DEF Package, Current
    <3>3. \A i \in 1..Len(patch), f \in 1..copies : Pending(i, f)'
      BY <2>0, <3>1, StillPending
    <3>4. \A p \in Packages : remembered'[p] = "fine" /\ p \in flagged' => p \in stale'
      BY <3>1 DEF MissInv
    <3>5. stage' = "set" /\ reply' = "fine" =>
            Package' \notin before' /\ (Package' \in flagged' => Package' \in stale')
      BY <3>1, <3>2 DEF MissInv
    <3>. QED
      BY <1>0, <2>0, <3>3, <3>4, <3>5
  <2>7. CASE Expire
    <3>1. /\ todo # << >> /\ UNCHANGED << stage, todo, reply, findings, before, excused, stale, flagged >>
          /\ remembered' \in {remembered, [remembered EXCEPT ![Package] = "missing"]}
      BY <2>7 DEF Expire, results, world, history
    <3>2. Package' = Package /\ (Resolving' <=> Resolving)
      BY <3>1 DEF Package, Current, Resolving
    <3>3. \A p \in Packages : remembered'[p] = "fine" /\ p \in flagged' => p \in stale'
      BY <3>1, OnCurrent DEF MissInv, StageInv
    <3>4. CASE Resolving
      BY <1>0, <2>0, <3>1, <3>2, <3>3, <3>4, StillPending DEF MissInv
    <3>5. CASE ~Resolving
      BY <3>1, <3>2, <3>3, <3>5 DEF MissInv, Resolving
    <3>. QED
      BY <3>4, <3>5
  <2>8. CASE UNCHANGED vars
    <3>1. UNCHANGED << stage, todo, reply, findings, before, excused, stale, flagged, remembered >>
      BY <2>8 DEF vars, results, world, caches, history
    <3>2. Package' = Package /\ (Resolving' <=> Resolving)
      BY <3>1 DEF Package, Current, Resolving
    <3>3. CASE Resolving
      BY <1>0, <2>0, <3>1, <3>2, <3>3, StillPending DEF MissInv
    <3>4. CASE ~Resolving
      BY <3>1, <3>2, <3>4 DEF MissInv, Resolving
    <3>. QED
      BY <3>3, <3>4
  <2>. QED
    BY <1>4, <2>1, <2>2, <2>3, <2>4, <2>5, <2>6, <2>7, <2>8 DEF Undiffed
<1>. QED
  BY <1>1, <1>2, <1>3, <1>4, <1>5, NextCases

(***************************************************************************)
(* The release notes.                                                      *)
(***************************************************************************)
\* What NotesOf has of one package.
LEMMA NotesOfOne ==
  ASSUME NEW n \in NpmNames, NEW v
  PROVE  /\ Range(Places(n, v)) \cap noted \subseteq NotesOf(<< RepoOf[n], v >>)
         /\ Range(Places(n, v)) \cap noted \subseteq doubted => None \in NotesOf(<< RepoOf[n], v >>)
<1>1. PICK a : a = RepoOf[n]
  OBVIOUS
<1>2. PICK r : r = << a, v >>
  OBVIOUS
<1>3. r[1] = a /\ r[2] = v
  BY <1>2
<1>4. n \in {m \in NpmNames : RepoOf[m] = r[1]}
  BY <1>1, <1>3
<1>5. NotesFor(n, v) \subseteq NotesOf(r)
  BY <1>3, <1>4 DEF NotesOf
<1>6. PICK found : found = Range(Places(n, v)) \cap noted
  OBVIOUS
<1>7. NotesFor(n, v) = found \cup (IF found \subseteq doubted THEN {None} ELSE {})
  BY <1>6 DEF NotesFor
<1>. QED
  BY <1>1, <1>2, <1>5, <1>6, <1>7

LEMMA PlacesAre ==
  ASSUME NEW n, NEW v
  PROVE  /\ \A i \in 1..5 : Places(n, v)[i] \in Range(Places(n, v))
         /\ \A p \in Range(Places(n, v)) :
              /\ \E i \in 1..5 : p = Places(n, v)[i]
              /\ p.repo = RepoOf[n] /\ p.version = v
<1>1. DOMAIN Places(n, v) = 1..5
  BY DEF Places
<1>2. \A i \in 1..5 : Places(n, v)[i].repo = RepoOf[n] /\ Places(n, v)[i].version = v
  BY DEF Places
<1>. QED
  BY <1>1, <1>2 DEF Range

\* Notes that are there are told as before; "none" is told as before unless a place
\* of the release that is not doubted gets notes.
LEMMA ToldStill ==
  ASSUME noted \subseteq noted', doubted \subseteq doubted', NEW r
  PROVE  /\ \A x \in NotesOf(r) : x # None => x \in NotesOf(r)'
         /\ (\A n \in NpmNames : RepoOf[n] = r[1] =>
               Range(Places(n, r[2])) \cap (noted' \ noted) \subseteq doubted')
            => NotesOf(r) \subseteq NotesOf(r)'
<1>1. ASSUME NEW n \in NpmNames, RepoOf[n] = r[1], NEW x \in NotesFor(n, r[2]), x # None
      PROVE  x \in NotesOf(r)'
  <2>1. x \in Range(Places(n, r[2])) \cap noted
    BY <1>1 DEF NotesFor
  <2>2. x \in NotesFor(n, r[2])'
    BY <2>1 DEF NotesFor
  <2>. QED
    BY <1>1, <2>2 DEF NotesOf
<1>2. \A x \in NotesOf(r) : x # None => x \in NotesOf(r)'
  BY <1>1 DEF NotesOf
<1>3. ASSUME \A n \in NpmNames : RepoOf[n] = r[1] =>
               Range(Places(n, r[2])) \cap (noted' \ noted) \subseteq doubted'
      PROVE  NotesOf(r) \subseteq NotesOf(r)'
  <2>1. ASSUME NEW n \in NpmNames, RepoOf[n] = r[1], None \in NotesFor(n, r[2])
        PROVE  None \in NotesOf(r)'
    <3>1. PICK P : P = Range(Places(n, r[2]))
      OBVIOUS
    <3>2. P \cap (noted' \ noted) \subseteq doubted'
      BY <1>3, <2>1, <3>1
    <3>3. None \in P \cap noted \/ P \cap noted \subseteq doubted
      BY <2>1, <3>1 DEF NotesFor
    <3>4. None \in P \cap noted' \/ P \cap noted' \subseteq doubted'
      BY <3>2, <3>3
    <3>5. NotesFor(n, r[2])' = (P \cap noted') \cup (IF P \cap noted' \subseteq doubted' THEN {None} ELSE {})
      BY <3>1 DEF NotesFor
    <3>6. None \in NotesFor(n, r[2])'
      BY <3>4, <3>5
    <3>. QED
      BY <2>1, <3>6 DEF NotesOf
  <2>2. None \in NotesOf(r) => None \in NotesOf(r)'
    BY <2>1 DEF NotesOf
  <2>. QED
    BY <1>2, <2>2
<1>. QED
  BY <1>2, <1>3

\* What may be told is of some place, or is "none".
LEMMA ToldIsKnown ==
  ASSUME NotesInv, NEW r
  PROVE  NotesOf(r) \subseteq KnownNotes
BY DEF NotesInv, NotesOf, NotesFor, KnownNotes

\* The world does not take notes back, and only Publish adds some.
LEMMA NotedNext ==
  ASSUME NotesInv, [Next]_vars
  PROVE  /\ noted \subseteq noted' /\ doubted \subseteq doubted'
         /\ noted' \subseteq Published /\ doubted' \subseteq noted'
         /\ noted' = noted \/ Publish
         /\ \A q : QuoteTrue(q) => QuoteTrue(q)'
<1>1. /\ noted \subseteq noted' /\ doubted \subseteq doubted'
      /\ noted' \subseteq Published /\ doubted' \subseteq noted'
      /\ noted' = noted \/ Publish
  <2>0. ASSUME noted' = noted, doubted' = doubted
        PROVE  /\ noted \subseteq noted' /\ doubted \subseteq doubted'
               /\ noted' \subseteq Published /\ doubted' \subseteq noted'
               /\ noted' = noted \/ Publish
    BY <2>0 DEF NotesInv
  <2>1. CASE WriteLine
    BY <2>0, <2>1, WriteLeaves DEF world, history
  <2>2. CASE Review
    BY <2>0, <2>2 DEF Review, world
  <2>3. CASE Resolved
    BY <2>0, <2>3 DEF Resolved, world
  <2>4. CASE Finish
    BY <2>0, <2>4 DEF Finish, world, history
  <2>5. CASE AskGitHub
    BY <2>5 DEF AskGitHub, HasNotes, Denies, Fails, world, NotesInv
  <2>6. CASE Publish
    BY <2>6 DEF Publish, NotesInv
  <2>7. CASE Undiffed /\ ~AskGitHub /\ ~Publish
    BY <2>0, <2>7 DEF Undiffed, Get, Ask, Set, FindRepo, GetNotes, EndSearch, Keep, Deprecate, Expire,
                      vars, world, history
  <2>. QED
    BY <2>1, <2>2, <2>3, <2>4, <2>5, <2>6, <2>7, NextCases
<1>2. ASSUME NEW q, QuoteTrue(q)
      PROVE  QuoteTrue(q)'
  BY <1>1, <1>2, ToldStill DEF QuoteTrue
<1>. QED
  BY <1>1, <1>2

\* What the workflow has in hand.
LEMMA InHand ==
  ASSUME StageInv, NotesInv, Gathering, todo # << >>
  PROVE  /\ Current.name \in NpmNames /\ Current.version \in Versions
         /\ RepoOf[Current.name] # None => Release \in Releases
<1>1. kind = "npm" /\ Current \in Checked(KindNames)
  BY HeadTail DEF NotesInv, GatherInv, StageInv, Current
<1>2. Current.name \in NpmNames /\ Current.version \in Versions
  BY <1>1 DEF Checked, KindNames
<1>3. RepoOf[Current.name] \in GitHubRepos \cup {None}
  BY <1>2, ContextConstants
<1>. QED
  BY <1>2, <1>3 DEF Release, Releases

\* The next package, with nothing new to quote.
LEMMA SkipOne ==
  ASSUME StageInv, NotesInv, Gathering, todo # << >>, todo' = Tail(todo), UNCHANGED << kind, evidence >>
  PROVE  GatherInv'
<1>1. PICK X : X = Checked(KindNames)
  OBVIOUS
<1>2. /\ todo \in Seq(X) /\ evidence \in Seq(Quotes) /\ GatherInv /\ kind = "npm"
  BY <1>1 DEF StageInv, NotesInv, GatherInv
<1>3. PICK t \in Seq(X), n \in Nat \ {0}, m \in Nat :
        /\ t = Tail(todo) /\ n = Len(todo) /\ m = Len(evidence) /\ Len(t) = n - 1
        /\ DOMAIN t = 1..(n - 1) /\ DOMAIN todo = 1..n /\ DOMAIN evidence = 1..m
        /\ \A i \in 1..(n - 1) : t[i] = todo[i + 1] /\ i + 1 \in 1..n
  <2>1. /\ Tail(todo) \in Seq(X) /\ Len(todo) \in Nat \ {0} /\ Len(Tail(todo)) = Len(todo) - 1
        /\ \A i \in 1..Len(Tail(todo)) : Tail(todo)[i] = todo[i + 1] /\ i + 1 \in 1..Len(todo)
    BY <1>2, HeadTail
  <2>2. Len(evidence) \in Nat /\ DOMAIN evidence = 1..Len(evidence) /\ DOMAIN todo = 1..Len(todo)
    BY <1>2
  <2>3. DOMAIN Tail(todo) = 1..Len(Tail(todo))
    BY <2>1
  <2>. QED
    BY <2>1, <2>2, <2>3
<1>4. Distinct(t)
  <2>1. ASSUME NEW i \in 1..(n - 1), NEW j \in 1..(n - 1), PackageOf(t[i]) = PackageOf(t[j])
        PROVE  i = j
    <3>1. /\ i + 1 \in 1..n /\ j + 1 \in 1..n
          /\ PackageOf(todo[i + 1]) = PackageOf(todo[j + 1])
      BY <1>3, <2>1
    <3>2. i + 1 = j + 1
      BY <1>2, <1>3, <3>1 DEF GatherInv, Distinct
    <3>. QED
      BY <3>2
  <2>. QED
    BY <1>3, <2>1 DEF Distinct
<1>5. \A i \in DOMAIN evidence, j \in DOMAIN t : PackageOf(evidence[i]) # PackageOf(t[j])
  BY <1>2, <1>3 DEF GatherInv
<1>6. m + (n - 1) <= MaxPackages
  BY <1>2, <1>3, ContextConstants DEF GatherInv
<1>. QED
  BY <1>2, <1>3, <1>4, <1>5, <1>6 DEF GatherInv, Distinct

\* The next package, with the notes of this one in the prompt.
LEMMA QuoteOne ==
  ASSUME StageInv, NotesInv, Gathering, todo # << >>, RepoOf[Current.name] # None,
         NEW answer \in NotesOf(Release), Quote(answer), todo' = Tail(todo), UNCHANGED kind
  PROVE  /\ GatherInv' /\ evidence' \in Seq(Quotes) /\ Distinct(evidence')
         /\ \A q \in Range(evidence') : QuoteTrue(q)
<1>1. CASE answer = None
  BY <1>1, SkipOne DEF Quote, NotesInv
<1>2. CASE answer # None
  <2>1. PICK X : X = Checked(KindNames)
    OBVIOUS
  <2>2. /\ todo \in Seq(X) /\ evidence \in Seq(Quotes) /\ GatherInv /\ kind = "npm"
    BY <2>1 DEF StageInv, NotesInv, GatherInv
  <2>3. PICK t \in Seq(X), n \in Nat \ {0}, m \in Nat :
          /\ t = Tail(todo) /\ n = Len(todo) /\ m = Len(evidence) /\ Len(t) = n - 1
          /\ DOMAIN t = 1..(n - 1) /\ DOMAIN todo = 1..n /\ DOMAIN evidence = 1..m
          /\ \A i \in 1..(n - 1) : t[i] = todo[i + 1] /\ i + 1 \in 1..n
    <3>1. /\ Tail(todo) \in Seq(X) /\ Len(todo) \in Nat \ {0} /\ Len(Tail(todo)) = Len(todo) - 1
          /\ \A i \in 1..Len(Tail(todo)) : Tail(todo)[i] = todo[i + 1] /\ i + 1 \in 1..Len(todo)
      BY <2>2, HeadTail
    <3>2. Len(evidence) \in Nat /\ DOMAIN evidence = 1..Len(evidence) /\ DOMAIN todo = 1..Len(todo)
      BY <2>2
    <3>3. DOMAIN Tail(todo) = 1..Len(Tail(todo))
      BY <3>1
    <3>. QED
      BY <3>1, <3>2, <3>3
  <2>4. PICK q : q = [name |-> Current.name, version |-> Current.version, notes |-> answer]
    OBVIOUS
  <2>5. /\ q.name = Current.name /\ q.version = Current.version /\ q.notes = answer
        /\ q \in Quotes /\ PackageOf(q) = PackageOf(todo[1])
    <3>1. Current.name \in NpmNames /\ Current.version \in Versions /\ Release \in Releases
      BY InHand
    <3>2. answer \in KnownNotes
      BY ToldIsKnown
    <3>3. q \in Quotes
      BY <2>4, <3>1, <3>2 DEF Quotes
    <3>4. q.name = Current.name /\ q.version = Current.version /\ q.notes = answer
      BY <2>4
    <3>5. Current = todo[1]
      BY <2>2, HeadTail DEF Current
    <3>. QED
      BY <3>3, <3>4, <3>5 DEF PackageOf
  <2>6. PICK e \in Seq(Quotes) :
          /\ e = evidence' /\ Len(e) = m + 1 /\ DOMAIN e = 1..(m + 1) /\ e[m + 1] = q
          /\ \A i \in 1..m : e[i] = evidence[i]
    <3>1. evidence' = Append(evidence, q)
      BY <1>2, <2>4 DEF Quote
    <3>2. PICK Q : Q = Quotes
      OBVIOUS
    <3>3. evidence \in Seq(Q) /\ q \in Q /\ m = Len(evidence)
      BY <2>2, <2>3, <2>5, <3>2
    <3>4. PICK e : e = Append(evidence, q)
      OBVIOUS
    <3>5. /\ e \in Seq(Q) /\ Len(e) = m + 1 /\ DOMAIN e = 1..(m + 1) /\ e[m + 1] = q
          /\ \A i \in 1..m : e[i] = evidence[i]
      BY <3>3, <3>4, AppendTyped
    <3>. QED
      BY <3>1, <3>2, <3>4, <3>5
  <2>7. \A i \in 1..(m + 1) : i \in 1..m \/ i = m + 1
    OBVIOUS
  <2>8. 1 \in 1..n /\ \A i \in 1..m : PackageOf(evidence[i]) # PackageOf(q)
    <3>1. 1 \in 1..n
      OBVIOUS
    <3>2. ASSUME NEW i \in 1..m
          PROVE  PackageOf(evidence[i]) # PackageOf(todo[1])
      BY <2>2, <2>3, <3>1 DEF GatherInv
    <3>. QED
      BY <2>5, <3>1, <3>2
  <2>9. Distinct(e)
    BY <2>3, <2>6, <2>7, <2>8 DEF Distinct, NotesInv
  <2>10. Distinct(t)
    <3>1. ASSUME NEW i \in 1..(n - 1), NEW j \in 1..(n - 1), PackageOf(t[i]) = PackageOf(t[j])
          PROVE  i = j
      <4>1. /\ i + 1 \in 1..n /\ j + 1 \in 1..n
            /\ PackageOf(todo[i + 1]) = PackageOf(todo[j + 1])
        BY <2>3, <3>1
      <4>2. i + 1 = j + 1
        BY <2>2, <2>3, <4>1 DEF GatherInv, Distinct
      <4>. QED
        BY <4>2
    <3>. QED
      BY <2>3, <3>1 DEF Distinct
  <2>11. \A j \in 1..(n - 1) : PackageOf(q) # PackageOf(t[j])
    <3>1. ASSUME NEW j \in 1..(n - 1), PackageOf(q) = PackageOf(t[j])
          PROVE  FALSE
      <4>1. 1 = j + 1
        BY <2>2, <2>3, <2>5, <2>8, <3>1 DEF GatherInv, Distinct
      <4>. QED
        BY <4>1
    <3>. QED
      BY <3>1
  <2>12. \A i \in DOMAIN e, j \in DOMAIN t : PackageOf(e[i]) # PackageOf(t[j])
    <3>1. ASSUME NEW i \in 1..m, NEW j \in 1..(n - 1)
          PROVE  PackageOf(evidence[i]) # PackageOf(t[j])
      <4>1. t[j] = todo[j + 1] /\ j + 1 \in 1..n
        BY <2>3
      <4>2. i \in DOMAIN evidence /\ j + 1 \in DOMAIN todo
        BY <2>3, <4>1
      <4>3. PackageOf(evidence[i]) # PackageOf(todo[j + 1])
        BY <2>2, <4>2 DEF GatherInv
      <4>. QED
        BY <4>1, <4>3
    <3>2. ASSUME NEW i \in 1..(m + 1), NEW j \in 1..(n - 1)
          PROVE  PackageOf(e[i]) # PackageOf(t[j])
      <4>1. CASE i \in 1..m
        BY <2>6, <3>1, <4>1
      <4>2. CASE i = m + 1
        BY <2>6, <2>11, <4>2
      <4>. QED
        BY <2>7, <4>1, <4>2
    <3>. QED
      BY <2>3, <2>6, <3>2
  <2>13. (m + 1) + (n - 1) <= MaxPackages
    BY <2>2, <2>3, ContextConstants DEF GatherInv
  <2>14. ASSUME NEW i \in 1..(m + 1)
         PROVE  QuoteTrue(e[i])
    <3>1. CASE i \in 1..m
      <4>1. evidence[i] \in Range(evidence)
        BY <2>3, <3>1 DEF Range
      <4>. QED
        BY <2>6, <3>1, <4>1 DEF NotesInv
    <3>2. CASE i = m + 1
      BY <1>2, <2>5, <2>6, <3>2 DEF Release, QuoteTrue
    <3>. QED
      BY <2>7, <3>1, <3>2
  <2>16. \A d \in Range(e) : QuoteTrue(d)
    BY <2>6, <2>14 DEF Range
  <2>15. GatherInv'
    BY <2>2, <2>3, <2>6, <2>10, <2>12, <2>13 DEF GatherInv, Distinct
  <2>. QED
    BY <2>6, <2>9, <2>15, <2>16
<1>. QED
  BY <1>1, <1>2

LEMMA NotesNext ==
  ASSUME DiffInv, StageInv, NotesInv, [Next]_vars
  PROVE  NotesInv'
<1>0. PICK K, Q : K = KnownNotes /\ Q = Quotes
  OBVIOUS
<1>1. ASSUME notes' \in [Releases -> K \cup {Missing}],
             \A r \in Releases : notes'[r] \in NotesOf(r)' \cup {Missing},
             evidence' \in Seq(Q), Distinct(evidence'),
             \A q \in Range(evidence') : QuoteTrue(q),
             IF stage' \in {"repo", "notes", "search", "keep"} THEN GatherInv' ELSE evidence' = << >>,
             stage' \in {"notes", "search", "keep"} => RepoOf[Current'.name] # None,
             stage' = "search" => SearchInv',
             stage' = "keep" => reply' \in NotesOf(Release)'
      PROVE  NotesInv'
  <2>1. Distinct(evidence)' /\ (Gathering' <=> stage' \in {"repo", "notes", "search", "keep"})
    BY <1>1 DEF Distinct, Gathering
  <2>2. KnownNotes' = KnownNotes /\ Quotes' = Quotes
    BY DEF KnownNotes, Quotes
  <2>3. /\ notes' \in [Releases -> KnownNotes' \cup {Missing}] /\ evidence' \in Seq(Quotes')
    BY <1>0, <1>1, <2>2
  <2>4. \A q \in Range(evidence') : QuoteTrue(q)'
    BY <1>1, NotedNext
  <2>. QED
    BY <1>1, <2>1, <2>3, <2>4, NotedNext DEF NotesInv
<1>2. /\ notes \in [Releases -> K \cup {Missing}]
      /\ \A r \in Releases : notes[r] \in NotesOf(r) \cup {Missing}
      /\ evidence \in Seq(Q) /\ Distinct(evidence)
      /\ \A q \in Range(evidence) : QuoteTrue(q)
  BY <1>0 DEF NotesInv
<1>3. << >> \in Seq(Q) /\ Distinct(<< >>) /\ Range(<< >>) = {} /\ Len(<< >>) = 0
  BY DEF Distinct, Range
<1>20. ASSUME noted' = noted
       PROVE  \A r : NotesOf(r) \subseteq NotesOf(r)'
  <2>1. noted \subseteq noted' /\ doubted \subseteq doubted' /\ noted' \ noted = {}
    BY <1>20, NotedNext
  <2>. QED
    BY <2>1, ToldStill
<1>21. ASSUME noted' = noted, notes' = notes
       PROVE  \A r \in Releases : notes'[r] \in NotesOf(r)' \cup {Missing}
  BY <1>2, <1>20, <1>21
<1>4. CASE WriteLine \/ Review \/ Finish
  <2>1. stage' \in {"diff", "get"} /\ notes' = notes /\ noted' = noted
        /\ (evidence' = << >> \/ (evidence' = evidence /\ ~Gathering))
    <3>1. CASE WriteLine
      BY <3>1, WriteLeaves DEF results, caches, world, Gathering
    <3>2. CASE Review
      BY <3>2 DEF Review, results, caches, world, Gathering
    <3>3. CASE Finish
      BY <3>3 DEF Finish, caches, world
    <3>. QED
      BY <1>4, <3>1, <3>2, <3>3
  <2>2. evidence' = << >>
    BY <2>1 DEF NotesInv
  <2>. QED
    BY <1>1, <1>2, <1>3, <1>21, <2>1, <2>2
<1>5. CASE Get \/ Ask \/ Set
  <2>1. stage \in {"get", "ask", "set"} /\ stage' \in {"get", "ask", "set"} /\ notes' = notes /\ evidence' = evidence
        /\ noted' = noted
    <3>1. CASE Get
      BY <3>1 DEF Get, caches, world
    <3>2. CASE Ask
      BY <3>2 DEF Ask, Unanswered, results, caches, world
    <3>3. CASE Set
      BY <3>3 DEF Set, world
    <3>. QED
      BY <1>5, <3>1, <3>2, <3>3
  <2>2. evidence = << >>
    BY <2>1 DEF NotesInv, Gathering
  <2>. QED
    BY <1>1, <1>2, <1>21, <2>1, <2>2
<1>6. CASE Resolved
  <2>1. /\ stage = "get" /\ stage' = "repo" /\ notes' = notes /\ evidence' = evidence /\ kind' = kind
        /\ noted' = noted /\ (todo' = Lookups \/ todo' = << >>)
    BY <1>6 DEF Resolved, caches, world
  <2>2. evidence = << >> /\ DOMAIN evidence' = {} /\ Len(evidence') = 0
    BY <2>1 DEF NotesInv, Gathering
  <2>3. /\ Distinct(todo') /\ Len(todo') \in Nat /\ Len(todo') <= MaxPackages
        /\ todo' # << >> => kind' = "npm"
    BY <1>3, <2>1, LookupsAre, ContextConstants
  <2>4. GatherInv'
    BY <2>2, <2>3 DEF GatherInv, Distinct
  <2>. QED
    BY <1>1, <1>2, <1>21, <2>1, <2>4
<1>7. CASE FindRepo
  <2>1. /\ stage = "repo" /\ Gathering /\ todo # << >> /\ kind' = kind /\ evidence' = evidence /\ notes' = notes
        /\ noted' = noted
    BY <1>7 DEF FindRepo, Gathering, diff, results, caches, world
  <2>2. CASE Skip
    BY <1>1, <1>2, <1>21, <2>1, <2>2, SkipOne DEF Skip, Done
  <2>3. CASE RepoOf[Current.name] # None /\ stage' = "notes" /\ UNCHANGED << todo, reply >>
    <3>1. Current' = Current /\ GatherInv'
      BY <2>1, <2>3 DEF Current, GatherInv, NotesInv, Distinct
    <3>. QED
      BY <1>1, <1>2, <1>21, <2>1, <2>3, <3>1
  <2>. QED
    BY <1>7, <2>2, <2>3 DEF FindRepo
<1>8. CASE GetNotes
  <2>1. /\ stage = "notes" /\ Gathering /\ todo # << >> /\ kind' = kind /\ notes' = notes
        /\ noted' = noted /\ RepoOf[Current.name] # None
    BY <1>8 DEF GetNotes, Gathering, StageInv, NotesInv, diff, caches, world
  <2>2. CASE notes[Release] # Missing /\ Quote(notes[Release]) /\ Skip
    <3>1. PICK answer \in NotesOf(Release) : answer = notes[Release]
      BY <1>2, <2>1, <2>2, InHand
    <3>2. Quote(answer) /\ todo' = Tail(todo) /\ stage' = "repo"
      BY <2>2, <3>1 DEF Skip, Done
    <3>3. /\ GatherInv' /\ evidence' \in Seq(Quotes) /\ Distinct(evidence')
          /\ \A q \in Range(evidence') : QuoteTrue(q)
      BY <1>0, <2>1, <3>1, <3>2, QuoteOne
    <3>. QED
      BY <1>0, <1>1, <1>2, <1>21, <2>1, <3>2, <3>3
  <2>3. CASE stage' = "search" /\ reply' = [asked |-> 0, failed |-> FALSE] /\ UNCHANGED << evidence, todo >>
    <3>1. Current' = Current /\ GatherInv'
      BY <2>1, <2>3 DEF Current, GatherInv, NotesInv, Distinct
    <3>2. reply'.asked = 0 /\ reply' \in [asked : 0..5, failed : BOOLEAN] /\ 1..0 = {}
      BY <2>3
    <3>3. SearchInv'
      BY <3>2 DEF SearchInv
    <3>. QED
      BY <1>1, <1>2, <1>21, <2>1, <2>3, <3>1, <3>3
  <2>. QED
    BY <1>8, <2>2, <2>3 DEF GetNotes
<1>9. CASE AskGitHub
  <2>1. /\ stage = "search" /\ Gathering /\ todo # << >> /\ kind' = kind /\ notes' = notes /\ evidence' = evidence
        /\ noted' = noted /\ todo' = todo /\ RepoOf[Current.name] # None /\ reply.asked < 5 /\ SearchInv
    BY <1>9 DEF AskGitHub, Gathering, StageInv, NotesInv, diff, caches, results, world
  <2>2. PICK n, v : n \in NpmNames /\ n = Current.name /\ v = Current.version
    BY <2>1, InHand
  <2>3. PICK P : P = Places(n, v)
    OBVIOUS
  <2>4. /\ reply \in [asked : 0..5, failed : BOOLEAN]
        /\ reply.failed = TRUE \/ \A i \in 1..reply.asked : P[i] \in noted => P[i] \in doubted
        /\ Asked = P[reply.asked + 1]
    BY <2>1, <2>2, <2>3 DEF SearchInv, Asked
  <2>5. PICK k \in 0..4 : k = reply.asked
    BY <2>1, <2>4
  <2>6. /\ k + 1 \in 1..5 /\ k + 1 \in 0..5 /\ 1..(k + 1) = (1..k) \cup {k + 1}
    OBVIOUS
  <2>7. Current' = Current /\ GatherInv' /\ Release' = Release
    BY <2>1 DEF Current, GatherInv, NotesInv, Distinct, Release
  <2>8. CASE HasNotes
    <3>1. Asked \in Range(P) /\ Asked \in noted
      BY <2>3, <2>4, <2>5, <2>6, <2>8, PlacesAre DEF HasNotes
    <3>2. Asked \in NotesOf(<< RepoOf[n], v >>)
      BY <2>2, <2>3, <3>1, NotesOfOne
    <3>3. reply' = Asked /\ stage' = "keep"
      BY <2>8 DEF HasNotes
    <3>4. Release = << RepoOf[n], v >> /\ NotesOf(Release) \subseteq NotesOf(Release)'
      <4>1. Release = << RepoOf[n], v >>
        BY <2>2 DEF Release
      <4>2. PICK r : r = Release
        OBVIOUS
      <4>3. NotesOf(r) \subseteq NotesOf(r)'
        BY <1>20, <2>1
      <4>4. NotesOf(Release)' = NotesOf(r)'
        BY <2>7, <4>2 DEF NotesOf, NotesFor
      <4>. QED
        BY <4>1, <4>2, <4>3, <4>4
    <3>. QED
      BY <1>1, <1>2, <1>21, <2>1, <2>7, <3>2, <3>3, <3>4
  <2>9. ASSUME stage' = "search", reply' \in [asked : 0..5, failed : BOOLEAN], reply'.asked = k + 1,
               \/ reply'.failed = TRUE
               \/ reply'.failed = reply.failed /\ (P[k + 1] \in noted => P[k + 1] \in doubted')
        PROVE  NotesInv'
    <3>1. \/ reply'.failed = TRUE
          \/ \A i \in 1..(k + 1) : P[i] \in noted' => P[i] \in doubted'
      BY <2>1, <2>4, <2>5, <2>6, <2>9, NotedNext
    <3>2. SearchInv'
      BY <2>2, <2>3, <2>7, <2>9, <3>1 DEF SearchInv, Places
    <3>. QED
      BY <1>1, <1>2, <1>21, <2>1, <2>7, <2>9, <3>2
  <2>10. CASE Denies
    <3>1. /\ stage' = stage /\ reply' = [reply EXCEPT !.asked = k + 1]
          /\ doubted' = doubted \cup ({Asked} \cap noted)
      BY <2>5, <2>10 DEF Denies
    <3>2. /\ reply' \in [asked : 0..5, failed : BOOLEAN] /\ reply'.asked = k + 1 /\ reply'.failed = reply.failed
      BY <2>4, <2>6, <3>1
    <3>. QED
      BY <2>1, <2>4, <2>5, <2>9, <3>1, <3>2
  <2>11. CASE Fails
    <3>1. stage' = stage /\ reply' = [asked |-> k + 1, failed |-> TRUE]
      BY <2>5, <2>11 DEF Fails
    <3>2. /\ reply' \in [asked : 0..5, failed : BOOLEAN] /\ reply'.asked = k + 1 /\ reply'.failed = TRUE
      BY <2>6, <3>1
    <3>. QED
      BY <2>1, <2>9, <3>1, <3>2
  <2>. QED
    BY <1>9, <2>8, <2>10, <2>11 DEF AskGitHub
<1>22. CASE EndSearch
  <2>1. /\ stage = "search" /\ Gathering /\ todo # << >> /\ kind' = kind /\ notes' = notes /\ evidence' = evidence
        /\ noted' = noted /\ doubted' = doubted /\ RepoOf[Current.name] # None /\ SearchInv
    BY <1>22 DEF EndSearch, Gathering, StageInv, NotesInv, diff, caches, results, world, history
  <2>2. PICK n, v : n \in NpmNames /\ n = Current.name /\ v = Current.version
    BY <2>1, InHand
  <2>3. CASE reply = [asked |-> 5, failed |-> FALSE] /\ reply' = None /\ stage' = "keep" /\ UNCHANGED todo
    <3>1. Current' = Current /\ GatherInv' /\ Release' = Release
      BY <2>1, <2>3 DEF Current, GatherInv, NotesInv, Distinct, Release
    <3>2. reply.asked = 5 /\ reply.failed # TRUE
      BY <2>3
    <3>3. \A i \in 1..5 : Places(n, v)[i] \in noted => Places(n, v)[i] \in doubted
      BY <2>1, <2>2, <3>2 DEF SearchInv
    <3>4. Range(Places(n, v)) \cap noted \subseteq doubted
      BY <3>3, PlacesAre
    <3>5. None \in NotesOf(<< RepoOf[n], v >>)
      BY <2>2, <3>4, NotesOfOne
    <3>6. Release = << RepoOf[n], v >>
      BY <2>2 DEF Release
    <3>7. NotesOf(Release)' = NotesOf(Release)
      BY <2>1, <3>1 DEF NotesOf, NotesFor
    <3>. QED
      BY <1>1, <1>2, <1>21, <2>1, <2>3, <3>1, <3>5, <3>6, <3>7
  <2>4. CASE Skip
    BY <1>1, <1>2, <1>21, <2>1, <2>4, SkipOne DEF Skip, Done
  <2>. QED
    BY <1>22, <2>3, <2>4 DEF EndSearch
<1>10. CASE Keep
  <2>1. /\ stage = "keep" /\ Gathering /\ todo # << >> /\ kind' = kind /\ RepoOf[Current.name] # None
        /\ reply \in NotesOf(Release) /\ Quote(reply) /\ todo' = Tail(todo) /\ stage' = "repo"
        /\ noted' = noted /\ (notes' = notes \/ notes' = [notes EXCEPT ![Release] = reply])
    BY <1>10 DEF Keep, Gathering, StageInv, NotesInv, Skip, Done, diff, world
  <2>2. PICK answer \in NotesOf(Release) : answer = reply
    BY <2>1
  <2>3. /\ GatherInv' /\ evidence' \in Seq(Quotes) /\ Distinct(evidence')
        /\ \A q \in Range(evidence') : QuoteTrue(q)
    BY <1>0, <2>1, <2>2, QuoteOne
  <2>4. Release \in Releases
    BY <2>1, InHand
  <2>5. answer \in K
    BY <1>0, <2>2, ToldIsKnown
  <2>6. /\ notes' \in [Releases -> K \cup {Missing}]
        /\ \A r \in Releases : notes'[r] \in NotesOf(r) \cup {Missing}
    BY <1>2, <2>1, <2>2, <2>4, <2>5
  <2>7. \A r \in Releases : notes'[r] \in NotesOf(r)' \cup {Missing}
    BY <1>20, <2>1, <2>6
  <2>. QED
    BY <1>0, <1>1, <2>1, <2>3, <2>6, <2>7
<1>11. CASE Deprecate \/ Expire \/ UNCHANGED vars
  <2>1. /\ UNCHANGED << kind, stage, todo, reply, evidence, noted, doubted >>
        /\ notes' = notes \/ notes' = [notes EXCEPT ![Release] = Missing]
    <3>1. CASE Deprecate
      BY <3>1 DEF Deprecate, diff, results, caches
    <3>2. CASE Expire
      BY <3>2 DEF Expire, diff, results, world, history
    <3>3. CASE UNCHANGED vars
      BY <3>3 DEF vars, diff, results, caches, world, history
    <3>. QED
      BY <1>11, <3>1, <3>2, <3>3
  <2>2. /\ notes' \in [Releases -> K \cup {Missing}]
        /\ \A r \in Releases : notes'[r] \in NotesOf(r) \cup {Missing}
    BY <1>2, <2>1
  <2>3. Current' = Current /\ Release' = Release
    BY <2>1 DEF Current, Release
  <2>4. IF stage' \in {"repo", "notes", "search", "keep"} THEN GatherInv' ELSE evidence' = << >>
    BY <2>1 DEF NotesInv, Gathering, GatherInv, Distinct
  <2>5. stage' \in {"notes", "search", "keep"} => RepoOf[Current'.name] # None
    BY <2>1, <2>3 DEF NotesInv
  <2>6. \A r : NotesOf(r)' = NotesOf(r)
    BY <2>1 DEF NotesOf, NotesFor
  <2>7. stage' = "keep" => reply' \in NotesOf(Release)'
    BY <2>1, <2>3 DEF NotesInv, NotesOf, NotesFor
  <2>8. stage' = "search" => SearchInv'
    BY <2>1, <2>3 DEF NotesInv, SearchInv
  <2>. QED
    BY <1>1, <1>2, <2>1, <2>2, <2>4, <2>5, <2>6, <2>7, <2>8
<1>23. CASE Publish
  <2>1. /\ UNCHANGED << kind, stage, todo, reply, evidence, notes >>
        /\ stage \in {"notes", "search", "keep"} /\ Gathering /\ todo # << >> /\ RepoOf[Current.name] # None
    BY <1>23 DEF Publish, diff, results, caches, Gathering, StageInv, NotesInv
  <2>2. PICK n, v : n \in NpmNames /\ n = Current.name /\ v = Current.version
    BY <2>1, InHand
  <2>3. PICK P : P = Places(n, v) /\ CurrentPlaces = Range(P)
    BY <2>2 DEF CurrentPlaces
  <2>4. PICK p \in Range(P) :
          /\ noted' = noted \cup {p}
          /\ doubted' = IF TakenAsNone(p) THEN doubted \cup {p} ELSE doubted
    BY <1>23, <2>3 DEF Publish
  <2>5. noted \subseteq noted' /\ doubted \subseteq doubted' /\ noted' \ noted \subseteq {p}
    BY <2>4, NotedNext
  <2>6. TakenAsNone(p) => p \in doubted'
    BY <2>4
  <2>7. Current' = Current /\ Release' = Release /\ Release = << RepoOf[n], v >> /\ Release \in Releases
    BY <2>1, <2>2, InHand DEF Current, Release
  <2>8. p \in doubted' => \A r : NotesOf(r) \subseteq NotesOf(r)'
    BY <2>5, ToldStill
  <2>9. ASSUME NEW r \in Releases, r # Release
        PROVE  NotesOf(r) \subseteq NotesOf(r)'
    <3>1. ASSUME NEW m \in NpmNames, RepoOf[m] = r[1]
          PROVE  p \notin Range(Places(m, r[2]))
      <4>1. p.repo = RepoOf[n] /\ p.version = v
        BY <2>3, <2>4, PlacesAre
      <4>2. p \in Range(Places(m, r[2])) => p.repo = r[1] /\ p.version = r[2]
        BY <3>1, PlacesAre
      <4>3. r = << r[1], r[2] >>
        BY DEF Releases
      <4>. QED
        BY <2>7, <2>9, <4>1, <4>2, <4>3
    <3>. QED
      BY <2>5, <3>1, ToldStill
  <2>10. ASSUME NEW r \in Releases
         PROVE  notes'[r] \in NotesOf(r)' \cup {Missing}
    <3>1. notes'[r] = notes[r] /\ notes[r] \in NotesOf(r) \cup {Missing}
      BY <1>2, <2>1
    <3>2. CASE r # Release
      BY <2>9, <3>1, <3>2
    <3>3. CASE r = Release /\ notes[r] = None
      BY <2>6, <2>8, <3>1, <3>3 DEF TakenAsNone
    <3>4. CASE notes[r] # None
      BY <2>5, <3>1, <3>4, ToldStill
    <3>. QED
      BY <3>2, <3>3, <3>4
  <2>11. stage' = "keep" => reply' \in NotesOf(Release)'
    <3>1. SUFFICES ASSUME stage = "keep" PROVE reply \in NotesOf(Release)'
      BY <2>1
    <3>2. PICK r : r = Release
      OBVIOUS
    <3>3. reply \in NotesOf(r)
      BY <3>1, <3>2 DEF NotesInv
    <3>4. reply \in NotesOf(r)'
      <4>1. CASE reply = None
        BY <2>6, <2>8, <3>1, <3>3, <4>1 DEF TakenAsNone
      <4>2. CASE reply # None
        BY <2>5, <3>3, <4>2, ToldStill
      <4>. QED
        BY <4>1, <4>2
    <3>5. NotesOf(Release)' = NotesOf(r)'
      BY <2>7, <3>2 DEF NotesOf, NotesFor
    <3>. QED
      BY <3>4, <3>5
  <2>12. stage' = "search" => SearchInv'
    <3>1. SUFFICES ASSUME stage = "search" PROVE SearchInv'
      BY <2>1
    <3>2. /\ reply \in [asked : 0..5, failed : BOOLEAN]
          /\ reply.failed = TRUE \/ \A i \in 1..reply.asked : P[i] \in noted => P[i] \in doubted
      BY <2>2, <2>3, <3>1 DEF NotesInv, SearchInv
    <3>3. ASSUME NEW i \in 1..reply.asked, P[i] = p
          PROVE  p \in doubted'
      BY <2>2, <2>3, <2>6, <3>1, <3>3 DEF TakenAsNone
    <3>4. reply.failed = TRUE \/ \A i \in 1..reply.asked : P[i] \in noted' => P[i] \in doubted'
      BY <2>5, <3>2, <3>3
    <3>. QED
      BY <2>1, <2>2, <2>3, <2>7, <3>2, <3>4 DEF SearchInv, Places
  <2>13. GatherInv'
    BY <2>1 DEF NotesInv, GatherInv, Distinct
  <2>14. RepoOf[Current'.name] # None
    BY <2>1, <2>7
  <2>. QED
    BY <1>1, <1>2, <2>1, <2>10, <2>11, <2>12, <2>13, <2>14
<1>. QED
  BY <1>4, <1>5, <1>6, <1>7, <1>8, <1>9, <1>22, <1>10, <1>11, <1>23 DEF Next, WriteLine

(***************************************************************************)
(* The theorems.                                                           *)
(***************************************************************************)
LEMMA ContextInit == Init => ContextInv
<1>. SUFFICES ASSUME Init PROVE ContextInv
  OBVIOUS
<1>1. /\ kind \in {"npm", "gradle"} /\ copies = 1 /\ patch = << >> /\ truth = << >>
      /\ owner = None /\ number = 1
      /\ stage = "diff" /\ todo = << >> /\ findings = {} /\ evidence = << >>
      /\ flagged \in SUBSET Packages /\ noted \in SUBSET Published
      /\ remembered = [p \in Packages |-> "missing"]
      /\ notes = [r \in Releases |-> Missing]
      /\ before = {} /\ excused = {} /\ stale = {} /\ doubted = {}
  BY DEF Init
<1>2. 1 \in Nat /\ 1 \in 1..2 /\ Len(<< >>) = 0 /\ Range(<< >>) = {} /\ 0 <= MaxLines
  BY ContextConstants DEF Range
<1>3. DiffInv
  BY <1>1, <1>2 DEF DiffInv
<1>4. StageInv
  BY <1>1 DEF StageInv, Stages
<1>5. SoundInv
  BY <1>1 DEF SoundInv, Resolving
<1>6. MissInv
  BY <1>1 DEF MissInv, Resolving
<1>7. NotesInv
  BY <1>1, <1>2 DEF NotesInv, Gathering, Distinct
<1>. QED
  BY <1>3, <1>4, <1>5, <1>6, <1>7 DEF ContextInv

LEMMA ContextAlways == Spec => []ContextInv
<1>1. ContextInv /\ [Next]_vars => ContextInv'
  BY DiffNext, StageNext, SoundNext, MissNext, NotesNext DEF ContextInv
<1>. QED
  BY <1>1, ContextInit, PTL DEF Spec

\* Type correctness of the resolver, the workflow and the diff they work on.
THEOREM ContextTypeCorrect == Spec => []TypeOK
<1>1. ContextInv => TypeOK
  <2>. SUFFICES ASSUME DiffInv, StageInv, NotesInv PROVE TypeOK
    BY DEF ContextInv
  <2>1. \A c \in Range(todo) \cup findings : c.name \in Names /\ c.version \in Versions
    <3>1. PICK X : X = Checked(KindNames)
      OBVIOUS
    <3>2. \A c \in X : c.name \in Names /\ c.version \in Versions
      BY <3>1, ContextConstants DEF Checked
    <3>3. todo \in Seq(X) /\ findings \subseteq X
      BY <3>1 DEF StageInv
    <3>4. Range(todo) \subseteq X
      BY <3>3 DEF Range
    <3>. QED
      BY <3>2, <3>3, <3>4
  <2>2. DOMAIN notes = Releases /\ noted \subseteq Published /\ doubted \subseteq noted
    BY DEF NotesInv
  <2>. QED
    BY <2>1, <2>2 DEF TypeOK, DiffInv, StageInv
<1>. QED
  BY <1>1, ContextAlways, PTL

\* Whatever the diff, the caches and the lookups do, a finding of the resolver is
\* about a package that is deprecated or has moved, at a line that brings it in.
THEOREM FindingsAlwaysSound == Spec => []FindingsSound
<1>1. ContextInv => FindingsSound
  BY DEF ContextInv, SoundInv, FromDiff, ChangedAt, FindingsSound
<1>. QED
  BY <1>1, ContextAlways, PTL

\* The resolver is done only when it has found, in every file, each deprecated
\* package it can be held to.
THEOREM NothingEverMissed == Spec => []NothingMissed
<1>1. ContextInv => NothingMissed
  <2>. SUFFICES ASSUME MissInv, stage = "get", todo = << >>,
                       NEW i \in {k \in 1..Len(patch) : Added(k) /\ ~Obscured(k)},
                       Brought(i) \in before \ excused,
                       Cardinality({k \in 1..(i - 1) : Added(k)}) < MaxChecks,
                       NEW f \in 1..copies
                PROVE  \E c \in findings : PackageOf(c) = Brought(i) /\ c.file = f
    BY DEF ContextInv, NothingMissed, Brought
  <2>1. Wanted(i) /\ Resolving /\ Range(todo) = {}
    BY DEF Wanted, Resolving, Range
  <2>. QED
    BY <2>1 DEF MissInv
<1>. QED
  BY <1>1, ContextAlways, PTL

\* The release notes in the cache and in the prompt are those of the release, and
\* "no notes" is never kept for the failure of a place: every place that has notes
\* had answered with something else, or got them later.
THEOREM ReleaseNotesAlwaysTrue == Spec => []ReleaseNotesTrue
<1>1. ContextInv => ReleaseNotesTrue
  <2>. SUFFICES ASSUME StageInv, NotesInv PROVE ReleaseNotesTrue
    BY DEF ContextInv
  <2>1. PICK m \in Nat : m = Len(evidence) /\ DOMAIN evidence = 1..m
    BY DEF NotesInv
  <2>2. ASSUME NEW i \in 1..m
        PROVE  evidence[i].notes \in NotesOf(<< RepoOf[evidence[i].name], evidence[i].version >>)
    <3>1. evidence[i] \in Range(evidence)
      BY <2>1 DEF Range
    <3>. QED
      BY <3>1 DEF NotesInv, QuoteTrue
  <2>3. ASSUME NEW i \in 1..m, NEW k \in 1..(i - 1)
        PROVE  PackageOf(evidence[k]) # PackageOf(evidence[i])
    <3>1. k \in 1..m /\ k # i
      OBVIOUS
    <3>. QED
      BY <2>1, <3>1 DEF NotesInv, Distinct
  <2>4. m <= MaxPackages
    <3>1. CASE Gathering
      <4>1. Len(todo) \in Nat
        BY DEF StageInv
      <4>. QED
        BY <2>1, <3>1, <4>1, ContextConstants DEF NotesInv, GatherInv
    <3>2. CASE ~Gathering
      BY <2>1, <3>2, ContextConstants DEF NotesInv
    <3>. QED
      BY <3>1, <3>2
  <2>5. \A r \in Releases : notes[r] \in NotesOf(r) \cup {Missing}
    BY DEF NotesInv
  <2>. QED
    BY <2>1, <2>2, <2>3, <2>4, <2>5 DEF ReleaseNotesTrue
<1>. QED
  BY <1>1, ContextAlways, PTL
SyncStages == {"idle", "get", "query", "delete", "upsert"}
Tasks == [repo : Repos, link : Links]

(***************************************************************************)
(* ApiSpecSync: Qdrant.                                                    *)
(***************************************************************************)

\* Points are found under the repository and the endpoint they are of.
PointsOK == \A p \in points : p.id = PointId(p.repo, p.entry)

\* The last row is a point of its own.
LEMMA PointsForNonempty ==
  ASSUME NEW S, NEW rows \in Seq(S), rows # << >>, NEW repo
  PROVE  PointsFor(repo, rows) # {}
<1>1. Len(rows) \in DOMAIN rows /\ \A j \in DOMAIN rows : j <= Len(rows)
  OBVIOUS
<1>. QED  BY <1>1 DEF PointsFor

LEMMA PointsForHolds ==
  ASSUME NEW repo, NEW rows, NEW p \in PointsFor(repo, rows)
  PROVE  p.repo = repo /\ p.id = PointId(p.repo, p.entry)
BY DEF PointsFor

\* An upsert adds the points of its repository and replaces none of another.
LEMMA UpsertSearch ==
  ASSUME PointsOK, NEW repo, NEW rows, UpsertEntries(repo, rows)
  PROVE  /\ PointsOK'
         /\ PointsFor(repo, rows) \subseteq Search(repo)'
         /\ Search(repo) = {} => Search(repo)' = PointsFor(repo, rows)
         /\ \A other : other # repo => Search(other)' = Search(other)
<1> DEFINE new == PointsFor(repo, rows)
<1>1. points' = {p \in points : \A q \in new : p.id # q.id} \cup new
  BY DEF UpsertEntries
<1>2. \A q \in new : q.repo = repo /\ q.id = PointId(q.repo, q.entry)
  BY PointsForHolds
<1> HIDE DEF new
<1>3. PointsOK'
  BY <1>1, <1>2 DEF PointsOK
<1>4. new \subseteq Search(repo)'
  BY <1>1, <1>2 DEF Search
<1>5. Search(repo) = {} => Search(repo)' = new
  BY <1>1, <1>2 DEF Search
<1>6. ASSUME NEW other, other # repo
      PROVE  Search(other)' = Search(other)
  <2>1. ASSUME NEW p \in points, NEW q \in new, p.repo = other
        PROVE  p.id # q.id
    BY <1>2, <1>6, <2>1 DEF PointsOK, PointId
  <2>. QED  BY <1>1, <1>2, <1>6, <2>1 DEF Search
<1>. QED  BY <1>3, <1>4, <1>5, <1>6 DEF new

LEMMA DeleteSearch ==
  ASSUME PointsOK, NEW repo, DeleteByRepository(repo)
  PROVE  /\ PointsOK'
         /\ Search(repo)' = {}
         /\ \A other : other # repo => Search(other)' = Search(other)
BY DEF DeleteByRepository, PointsOK, Search

(***************************************************************************)
(* Types of ApiSpecSync.                                                   *)
(***************************************************************************)

LocalOK(s, k, t, e) ==
  /\ s \in SyncStages /\ k \in Seq(Repos) /\ t \in Seq(Tasks) /\ e \in Seq(Rows)
  /\ s = "get" <=> k # << >>
  /\ s \in {"query", "delete", "upsert"} => t # << >>
  /\ s \in {"delete", "upsert"} => e # << >> /\ t[1].link # NoId
  /\ s \in {"idle", "get"} => e = << >>

LEMMA LocalIsOK ==
  ASSUME SyncTypeOK, NEW r \in Runs
  PROVE  LocalOK(pc[r], keys[r], tasks[r], entries[r])
BY DEF SyncTypeOK, StageOK, LocalOK, SyncStages, Tasks, Link

\* What a step of run r does to the state of the runs.
Moves(r, s, k, t, e) ==
  /\ pc' = [pc EXCEPT ![r] = s] /\ keys' = [keys EXCEPT ![r] = k]
  /\ tasks' = [tasks EXCEPT ![r] = t] /\ entries' = [entries EXCEPT ![r] = e]

LEMMA MovesOthers ==
  ASSUME SyncTypeOK, NEW r \in Runs, NEW s, NEW k, NEW t, NEW e, Moves(r, s, k, t, e)
  PROVE  /\ pc'[r] = s /\ keys'[r] = k /\ tasks'[r] = t /\ entries'[r] = e
         /\ \A o \in Runs \ {r} : /\ pc'[o] = pc[o] /\ keys'[o] = keys[o]
                                  /\ tasks'[o] = tasks[o] /\ entries'[o] = entries[o]
BY DEF SyncTypeOK, Moves

LEMMA RunTypes ==
  ASSUME SyncTypeOK, NEW r \in Runs, NEW s, NEW k, NEW t, NEW e,
         Moves(r, s, k, t, e), LocalOK(s, k, t, e)
  PROVE  /\ pc' \in [Runs -> SyncStages] /\ keys' \in [Runs -> Seq(Repos)]
         /\ tasks' \in [Runs -> Seq(Tasks)] /\ entries' \in [Runs -> Seq(Rows)]
         /\ \A o \in Runs : StageOK(o)'
<1>1. /\ pc' \in [Runs -> SyncStages] /\ keys' \in [Runs -> Seq(Repos)]
      /\ tasks' \in [Runs -> Seq(Tasks)] /\ entries' \in [Runs -> Seq(Rows)]
  BY DEF SyncTypeOK, Moves, LocalOK, SyncStages, Tasks
<1>2. ASSUME NEW o \in Runs \ {r} PROVE StageOK(o)'
  <2>1. /\ pc'[o] = pc[o] /\ keys'[o] = keys[o] /\ tasks'[o] = tasks[o] /\ entries'[o] = entries[o]
    BY MovesOthers
  <2>2. StageOK(o)
    BY DEF SyncTypeOK
  <2>. QED  BY <2>1, <2>2 DEF StageOK, Link
<1>3. StageOK(r)'
  BY MovesOthers DEF LocalOK, StageOK, Link
<1>. QED  BY <1>1, <1>2, <1>3

\* What a list of something has at its ends.
LEMMA EndsOfList ==
  ASSUME NEW S, NEW list \in Seq(S)
  PROVE  /\ list # << >> => /\ Head(list) \in S /\ list[1] \in S /\ Tail(list) \in Seq(S)
                            /\ IF Len(list) = 1 THEN Tail(list) = << >>
                               ELSE Len(list) > 1 /\ Tail(list) # << >>
         /\ \A x \in S : Append(list, x) \in Seq(S) /\ Append(list, x) # << >>
         /\ << >> \in Seq(S)
<1>1. ASSUME list # << >>
      PROVE  Head(list) \in S /\ list[1] \in S /\ Tail(list) \in Seq(S)
  BY <1>1
<1>2. ASSUME list # << >>
      PROVE  Len(Tail(list)) = Len(list) - 1 /\ Len(list) \in Nat \ {0}
  BY <1>2
<1>3. ASSUME NEW x \in S
      PROVE  Append(list, x) \in Seq(S) /\ Len(Append(list, x)) = Len(list) + 1
  OBVIOUS
<1>4. \A other \in Seq(S) : other = << >> <=> Len(other) = 0
  OBVIOUS
<1>5. ASSUME list # << >>
      PROVE  IF Len(list) = 1 THEN Tail(list) = << >> ELSE Len(list) > 1 /\ Tail(list) # << >>
  <2>1. Len(Tail(list)) = Len(list) - 1 /\ Len(list) \in Nat \ {0} /\ Tail(list) \in Seq(S)
    BY <1>1, <1>2, <1>5
  <2>2. Len(Tail(list)) = 0 => Tail(list) = << >>
    BY <1>4, <2>1
  <2>3. Tail(list) = << >> => Len(Tail(list)) = 0
    BY <1>4, <2>1
  <2>. QED  BY <2>1, <2>2, <2>3
<1>6. ASSUME NEW x \in S
      PROVE  Append(list, x) \in Seq(S) /\ Append(list, x) # << >>
  <2>1. Len(list) \in Nat /\ Len(Append(list, x)) # 0
    BY <1>3
  <2>. QED  BY <1>3, <1>4, <2>1
<1>7. << >> \in Seq(S)
  OBVIOUS
<1>. QED  BY <1>1, <1>5, <1>6, <1>7

\* The next link, as a move.
LEMMA NextLinkMoves ==
  ASSUME SyncTypeOK, NEW r \in Runs, NextLink(r), pc[r] \in {"query", "delete", "upsert"}
  PROVE  \E s \in {"idle", "query"} : \E t : /\ Moves(r, s, keys[r], t, << >>)
                                             /\ LocalOK(s, keys[r], t, << >>)
<1> DEFINE s == IF Len(tasks[r]) = 1 THEN "idle" ELSE "query"
<1>1. tasks[r] \in Seq(Tasks) /\ tasks[r] # << >> /\ keys[r] = << >>
  BY LocalIsOK DEF LocalOK
<1>2. /\ Tail(tasks[r]) \in Seq(Tasks) /\ (s = "query" => Tail(tasks[r]) # << >>)
      /\ << >> \in Seq(Rows) /\ << >> \in Seq(Repos)
  BY <1>1, EndsOfList
<1>3. keys' = [keys EXCEPT ![r] = keys[r]]
  BY DEF NextLink, SyncTypeOK
<1>4. tasks' = [tasks EXCEPT ![r] = Tail(tasks[r])]
      /\ pc' = [pc EXCEPT ![r] = s] /\ entries' = [entries EXCEPT ![r] = << >>]
  BY DEF NextLink
<1>5. Moves(r, s, keys[r], Tail(tasks[r]), << >>)
  BY <1>3, <1>4 DEF Moves
<1>6. s \in {"idle", "query"} /\ LocalOK(s, keys[r], Tail(tasks[r]), << >>)
  BY <1>1, <1>2 DEF LocalOK, SyncStages
<1>. QED  BY <1>5, <1>6

\* The order in which KEYS lists the keys.
LEMMA KeysOfRepos ==
  ASSUME NEW S \in SUBSET Repos, NEW order \in SetToSeqs(S)
  PROVE  order \in Seq(Repos)
<1>1. IsFiniteSet(S)
  BY SyncAssumption, FS_Subset
<1>2. Cardinality(S) \in Nat
  BY <1>1, FS_CardinalityType
<1>. QED  BY <1>2 DEF SetToSeqs

\* Every step of a run is a move that leaves it with what its stage needs.
LEMMA StartMoves ==
  ASSUME SyncTypeOK, NEW r \in Runs, Start(r)
  PROVE  \E k : Moves(r, "get", k, tasks[r], entries[r]) /\ LocalOK("get", k, tasks[r], entries[r])
<1>1. PICK order \in SetToSeqs({repo \in Repos : links[repo] # NoLink}) :
        order # << >> /\ keys' = [keys EXCEPT ![r] = order]
  BY DEF Start
<1>2. order \in Seq(Repos)
  BY <1>1, KeysOfRepos
<1>3. /\ pc' = [pc EXCEPT ![r] = "get"] /\ pc[r] = "idle"
      /\ tasks' = [tasks EXCEPT ![r] = tasks[r]] /\ entries' = [entries EXCEPT ![r] = entries[r]]
  BY DEF Start, SyncTypeOK
<1>4. LocalOK("get", order, tasks[r], entries[r])
  BY <1>1, <1>2, <1>3, LocalIsOK DEF LocalOK, SyncStages
<1>. QED  BY <1>1, <1>3, <1>4 DEF Moves

LEMMA GetMoves ==
  ASSUME SyncTypeOK, NEW r \in Runs, GetLink(r)
  PROVE  \E s \in {"get", "query", "idle"} : \E t :
           Moves(r, s, Tail(keys[r]), t, entries[r]) /\ LocalOK(s, Tail(keys[r]), t, entries[r])
<1> DEFINE repo == Head(keys[r])
           more == IF links[repo] = NoLink THEN tasks[r]
                   ELSE Append(tasks[r], [repo |-> repo, link |-> links[repo]])
           s == IF Len(keys[r]) > 1 THEN "get" ELSE IF more # << >> THEN "query" ELSE "idle"
<1>1. /\ keys[r] \in Seq(Repos) /\ keys[r] # << >> /\ tasks[r] \in Seq(Tasks) /\ entries[r] = << >>
  BY LocalIsOK DEF GetLink, LocalOK
<1>2. repo \in Repos /\ Tail(keys[r]) \in Seq(Repos) /\ << >> \in Seq(Rows)
  BY <1>1, EndsOfList
<1>3. IF Len(keys[r]) = 1 THEN Tail(keys[r]) = << >> ELSE Len(keys[r]) > 1 /\ Tail(keys[r]) # << >>
  BY <1>1, EndsOfList
<1>4. more \in Seq(Tasks)
  <2>1. CASE links[repo] = NoLink
    BY <1>1, <2>1
  <2>2. CASE links[repo] # NoLink
    <3>1. links[repo] \in Links
      BY <1>2, <2>2 DEF SyncTypeOK
    <3>2. [repo |-> repo, link |-> links[repo]] \in Tasks
      BY <1>2, <3>1 DEF Tasks
    <3>. QED  BY <1>1, <2>2, <3>2, EndsOfList
  <2>. QED  BY <2>1, <2>2
<1>5. /\ tasks' = [tasks EXCEPT ![r] = more] /\ pc' = [pc EXCEPT ![r] = s]
      /\ keys' = [keys EXCEPT ![r] = Tail(keys[r])] /\ entries' = [entries EXCEPT ![r] = entries[r]]
  BY DEF GetLink, SyncTypeOK
<1>6. Moves(r, s, Tail(keys[r]), more, entries[r])
  BY <1>5 DEF Moves
<1>7. LocalOK(s, Tail(keys[r]), more, entries[r]) /\ s \in {"get", "query", "idle"}
  <2>1. CASE Len(keys[r]) = 1
    <3>1. s \in {"query", "idle"} /\ (s = "query" => more # << >>) /\ Tail(keys[r]) = << >>
      BY <1>3, <2>1
    <3> HIDE DEF s, more
    <3>. QED  BY <1>1, <1>2, <1>4, <3>1 DEF LocalOK, SyncStages
  <2>2. CASE Len(keys[r]) # 1
    <3>1. s = "get" /\ Tail(keys[r]) # << >>
      BY <1>3, <2>2
    <3> HIDE DEF s, more
    <3>. QED  BY <1>1, <1>2, <1>4, <3>1 DEF LocalOK, SyncStages
  <2>. QED  BY <2>1, <2>2
<1>. QED  BY <1>6, <1>7

\* A page: the rows read so far and one more of the database.
LEMMA QueryPageMoves ==
  ASSUME SyncTypeOK, NEW r \in Runs, QueryPage(r)
  PROVE  \/ NextLink(r) /\ UNCHANGED points
         \/ \E s \in {"query", "delete"} : \E e :
              /\ Moves(r, s, keys[r], tasks[r], e) /\ LocalOK(s, keys[r], tasks[r], e)
              /\ UNCHANGED points
<1> DEFINE rows == notion[Link(r)]
           n == Len(entries[r])
           read == IF n < Len(rows) THEN Append(entries[r], rows[n + 1]) ELSE entries[r]
<1>1. /\ pc[r] = "query" /\ tasks[r] \in Seq(Tasks) /\ tasks[r] # << >> /\ Link(r) # NoId
      /\ entries[r] \in Seq(Rows)
  BY LocalIsOK DEF QueryPage, LocalOK
<1>2. Link(r) \in Databases
  <2>1. tasks[r][1] \in Tasks
    BY <1>1, EndsOfList
  <2>. QED  BY <1>1, <2>1 DEF Tasks, Link, Links
<1>3. rows \in Seq(Rows)
  BY <1>2, SyncAssumption DEF SyncTypeOK
<1>4. read \in Seq(Rows)
  <2> HIDE DEF rows
  <2>1. n < Len(rows) => rows[n + 1] \in Rows
    BY <1>1, <1>3
  <2>. QED  BY <1>1, <1>3, <2>1
<1>5. CASE read = << >> /\ NoEntries(r)
  BY <1>5 DEF NoEntries, SkipLink
<1>6. ASSUME NEW s \in {"query", "delete"}, entries' = [entries EXCEPT ![r] = read],
             pc' = [pc EXCEPT ![r] = s], UNCHANGED << keys, tasks, points >>, s = "delete" => read # << >>
      PROVE  \E e : /\ Moves(r, s, keys[r], tasks[r], e) /\ LocalOK(s, keys[r], tasks[r], e)
                    /\ UNCHANGED points
  <2>1. keys' = [keys EXCEPT ![r] = keys[r]] /\ tasks' = [tasks EXCEPT ![r] = tasks[r]]
    BY <1>6 DEF SyncTypeOK
  <2>2. LocalOK(s, keys[r], tasks[r], read)
    <3> HIDE DEF read
    <3>. QED  BY <1>1, <1>4, <1>6, LocalIsOK DEF LocalOK, SyncStages, Link
  <2>. QED  BY <1>6, <2>1, <2>2 DEF Moves
<1>7. CASE n + 1 < Len(rows) /\ entries' = [entries EXCEPT ![r] = read] /\ UNCHANGED << pc, keys, tasks, points >>
  <2>1. pc' = [pc EXCEPT ![r] = "query"]
    BY <1>1, <1>7 DEF SyncTypeOK
  <2>. QED  BY <1>6, <1>7, <2>1
<1>8. CASE read # << >> /\ entries' = [entries EXCEPT ![r] = read] /\ Stage(r, "delete") /\ UNCHANGED points
  BY <1>6, <1>8 DEF Stage
<1>. QED  BY <1>5, <1>7, <1>8 DEF QueryPage

\* The link a run follows is of a repository, and names a database once it is read.
LEMMA CurrentLink ==
  ASSUME SyncTypeOK, NEW r \in Runs, pc[r] \in {"query", "delete", "upsert"}
  PROVE  /\ Repo(r) \in Repos /\ Link(r) \in Links
         /\ Link(r) # NoId => Link(r) \in Databases
         /\ pc[r] # "query" => Link(r) \in Databases
<1>1. tasks[r] \in Seq(Tasks) /\ tasks[r] # << >>
  BY LocalIsOK DEF LocalOK
<1>2. tasks[r][1] \in Tasks
  BY <1>1, EndsOfList
<1>3. pc[r] # "query" => Link(r) # NoId
  BY LocalIsOK DEF LocalOK, Link
<1>. QED  BY <1>2, <1>3 DEF Tasks, Links, Repo, Link

RunStep(r) == \E s, k, t, e : Moves(r, s, k, t, e) /\ LocalOK(s, k, t, e)

LEMMA RunSteps ==
  ASSUME SyncTypeOK, NEW r \in Runs, Step(r) \/ QueryFails(r) \/ Raises(r) \/ Kill(r)
  PROVE  RunStep(r)
<1>1. CASE Start(r)
  BY <1>1, StartMoves DEF RunStep
<1>2. CASE GetLink(r)
  BY <1>2, GetMoves DEF RunStep
<1>3. CASE NextLink(r) /\ pc[r] \in {"query", "delete", "upsert"}
  BY <1>3, NextLinkMoves DEF RunStep
<1>4. CASE NoDatabase(r) \/ Upsert(r) \/ Raises(r) \/ QueryFails(r)
  BY <1>3, <1>4 DEF NoDatabase, Upsert, Raises, QueryFails, QueryAnswer, NoEntries, SkipLink
<1>5. CASE QueryPage(r)
  <2>1. pc[r] = "query"
    BY <1>5 DEF QueryPage
  <2>. QED  BY <1>3, <1>5, <2>1, QueryPageMoves DEF RunStep
<1>6. CASE Delete(r)
  <2>1. Moves(r, "upsert", keys[r], tasks[r], entries[r])
    BY <1>6 DEF Delete, Stage, Moves, SyncTypeOK
  <2>2. LocalOK("upsert", keys[r], tasks[r], entries[r])
    BY <1>6, LocalIsOK DEF Delete, LocalOK, SyncStages
  <2>. QED  BY <2>1, <2>2 DEF RunStep
<1>7. CASE Kill(r)
  <2>1. Moves(r, "idle", << >>, << >>, << >>)
    BY <1>7 DEF Kill, Moves
  <2>2. LocalOK("idle", << >>, << >>, << >>)
    BY EndsOfList DEF LocalOK, SyncStages
  <2>. QED  BY <2>1, <2>2 DEF RunStep
<1>. QED  BY <1>1, <1>2, <1>4, <1>5, <1>6, <1>7 DEF Step

(***************************************************************************)
(* What a step of a run does to the copies.                                *)
(***************************************************************************)
Left(r) == broken' = broken \cup {Repo(r)}

Quiet(r) ==
  /\ UNCHANGED << points, source, contended >> /\ pc'[r] # "upsert"
  /\ \/ UNCHANGED broken /\ pc[r] # "upsert"
     \/ Left(r) /\ pc[r] = "upsert"

DeletesLate(r) ==
  /\ pc[r] = "delete" /\ pc'[r] # "upsert"
  /\ DeleteByRepository(Repo(r)) /\ Left(r) /\ UNCHANGED << source, contended >>

Writes(r) ==
  /\ pc[r] = "upsert" /\ pc'[r] # "upsert"
  /\ UpsertEntries(Repo(r), entries[r]) /\ UNCHANGED << source, contended, broken >>

LEMMA StepsOnCopies ==
  ASSUME SyncTypeOK, NEW r \in Runs, Step(r) \/ QueryFails(r) \/ Raises(r) \/ Kill(r)
  PROVE  /\ UNCHANGED << links, notion, edited >>
         /\ Quiet(r) \/ DeletesLate(r) \/ Delete(r) \/ Writes(r)
<1>1. \A s : pc' = [pc EXCEPT ![r] = s] => pc'[r] = s
  BY DEF SyncTypeOK
<1>2. NextLink(r) => pc'[r] # "upsert"
  BY <1>1 DEF NextLink
<1>3. CASE Start(r) \/ GetLink(r)
  BY <1>1, <1>3 DEF Start, GetLink, syncHistory, Quiet
<1>4. CASE NoDatabase(r) \/ QueryFails(r)
  BY <1>2, <1>4 DEF NoDatabase, QueryFails, QueryAnswer, NoEntries, SkipLink, syncHistory, Quiet
<1>5. CASE QueryPage(r)
  <2>1. UNCHANGED << points, source, contended, broken, links, notion, edited >> /\ pc[r] = "query"
    BY <1>5 DEF QueryPage, NoEntries, syncHistory
  <2>2. pc'[r] # "upsert"
    BY <1>1, <1>2, <1>5, <2>1 DEF QueryPage, NoEntries, SkipLink, Stage
  <2>. QED  BY <2>1, <2>2 DEF Quiet
<1>6. CASE Delete(r)
  BY <1>6 DEF Delete
<1>7. CASE Upsert(r)
  BY <1>2, <1>7 DEF Upsert, syncHistory, Writes
<1>8. CASE Raises(r)
  BY <1>2, <1>8 DEF Raises, Quiet, DeletesLate, Writes, Left
<1>9. CASE Kill(r)
  BY <1>1, <1>9 DEF Kill, Quiet, Left
<1>. QED  BY <1>3, <1>4, <1>5, <1>6, <1>7, <1>8, <1>9 DEF Step

LEMMA RunKeepsTypes ==
  ASSUME SyncTypeOK, NEW r \in Runs, Step(r) \/ QueryFails(r) \/ Raises(r) \/ Kill(r)
  PROVE  SyncTypeOK'
<1>1. /\ pc' \in [Runs -> SyncStages] /\ keys' \in [Runs -> Seq(Repos)]
      /\ tasks' \in [Runs -> Seq(Tasks)] /\ entries' \in [Runs -> Seq(Rows)]
      /\ \A o \in Runs : StageOK(o)'
  BY RunSteps, RunTypes DEF RunStep
<1>2. UNCHANGED << links, notion, edited >> /\ (Quiet(r) \/ DeletesLate(r) \/ Delete(r) \/ Writes(r))
  BY StepsOnCopies
<1>3. PointsOK'
  BY <1>2, UpsertSearch, DeleteSearch DEF SyncTypeOK, PointsOK, Quiet, DeletesLate, Delete, Writes
<1>4. /\ source' \in [Repos -> Links \cup {NoLink}]
      /\ broken' \subseteq Repos /\ contended' \subseteq Repos
  <2>1. pc[r] \in {"delete", "upsert"} => Repo(r) \in Repos /\ Link(r) \in Links
    BY CurrentLink
  <2>2. CASE Quiet(r) \/ DeletesLate(r) \/ Writes(r)
    BY <2>1, <2>2 DEF SyncTypeOK, Quiet, DeletesLate, Writes, Left
  <2>3. CASE Delete(r)
    BY <2>1, <2>3 DEF SyncTypeOK, Delete
  <2>. QED  BY <1>2, <2>2, <2>3
<1>5. changes' \in Nat /\ faults' \in Nat
  BY DEF SyncTypeOK, Step, Start, GetLink, NoDatabase, QueryPage, Delete, Upsert, QueryFails, Raises, Kill,
         Fault, counts
<1>. QED  BY <1>1, <1>2, <1>3, <1>4, <1>5 DEF SyncTypeOK, PointsOK, SyncStages, Tasks

LEMMA NextKeepsTypes ==
  ASSUME SyncTypeOK, [SyncNext]_syncVars
  PROVE  SyncTypeOK'
<1>1. ASSUME NEW r \in Runs, Step(r) \/ QueryFails(r) \/ Raises(r) \/ Kill(r)
      PROVE  SyncTypeOK'
  BY <1>1, RunKeepsTypes
<1>2. ASSUME UNCHANGED << points, script, source, broken, contended >>,
             links' \in [Repos -> Links \cup {NoLink}], notion' \in [Databases -> Tables],
             edited' \subseteq Databases, changes' \in Nat, faults' \in Nat
      PROVE  SyncTypeOK'
  <2>1. \A r \in Runs : StageOK(r)'
    BY <1>2 DEF SyncTypeOK, StageOK, Link, script
  <2>. QED  BY <1>2, <2>1 DEF SyncTypeOK, script
<1>3. ASSUME NEW repo \in Repos, ExpireLink(repo) \/ \E link \in Links : SaveLink(repo, link)
      PROVE  SyncTypeOK'
  <2>1. links' \in [Repos -> Links \cup {NoLink}]
    BY <1>3 DEF SyncTypeOK, ExpireLink, SaveLink
  <2>2. changes' \in Nat /\ faults' \in Nat
    BY <1>3 DEF SyncTypeOK, ExpireLink, SaveLink, Change
  <2>3. UNCHANGED << notion, points, script, source, broken, contended, edited >>
    BY <1>3 DEF ExpireLink, SaveLink, syncHistory
  <2>. QED  BY <1>2, <2>1, <2>2, <2>3 DEF SyncTypeOK
<1>4. ASSUME NEW db \in Databases, NEW rows \in Tables, Edit(db, rows)
      PROVE  SyncTypeOK'
  <2>1. notion' \in [Databases -> Tables] /\ edited' \subseteq Databases
    BY <1>4 DEF SyncTypeOK, Edit
  <2>2. changes' \in Nat /\ faults' \in Nat
    BY <1>4 DEF SyncTypeOK, Edit, Change
  <2>3. UNCHANGED << links, points, script, source, broken, contended >>
    BY <1>4 DEF Edit
  <2>. QED  BY <1>2, <2>1, <2>2, <2>3 DEF SyncTypeOK
<1>5. CASE UNCHANGED syncVars
  BY <1>2, <1>5 DEF syncVars, syncHistory, counts, SyncTypeOK
<1>. QED  BY <1>1, <1>3, <1>4, <1>5 DEF SyncNext

LEMMA InitTypes == SyncInit => SyncTypeOK
<1> SUFFICES ASSUME SyncInit PROVE SyncTypeOK
  OBVIOUS
<1>1. << >> \in Seq(Repos) /\ << >> \in Seq(Rows) /\ << >> \in Seq([repo : Repos, link : Links])
  OBVIOUS
<1>. QED  BY <1>1 DEF SyncInit, SyncTypeOK, StageOK

\* State has its type, and a run holds what its stage needs: the database of a
\* link it deletes and upserts for, and rows read from it.
THEOREM SyncTypeCorrect == SyncSpec => []SyncTypeOK
BY InitTypes, NextKeepsTypes, PTL DEF SyncSpec

(***************************************************************************)
(* Copies that stay.                                                       *)
(***************************************************************************)

\* The other runs are where they were.
LEMMA OthersCopying ==
  ASSUME SyncTypeOK, NEW r \in Runs, RunStep(r), NEW o \in Runs \ {r}
  PROVE  /\ pc'[o] = pc[o] /\ entries'[o] = entries[o]
         /\ Repo(o)' = Repo(o) /\ Link(o)' = Link(o)
         /\ \A repo : Copying(o, repo)' = Copying(o, repo)
<1>1. pc'[o] = pc[o] /\ tasks'[o] = tasks[o] /\ entries'[o] = entries[o]
  BY MovesOthers DEF RunStep
<1>. QED  BY <1>1 DEF Copying, Repo, Link

\* OutageHarmless is kept by every step: what is deleted is upserted, or
\* remembered as broken.
LEMMA RunKeepsHarmless ==
  ASSUME SyncTypeOK, OutageHarmless, NEW r \in Runs,
         Step(r) \/ QueryFails(r) \/ Raises(r) \/ Kill(r)
  PROVE  OutageHarmless'
<1> SUFFICES ASSUME NEW repo \in Repos, (source[repo] # NoLink)', (repo \notin broken)', ~Busy(repo)'
             PROVE  Search(repo)' # {}
  BY DEF OutageHarmless
<1>1. \A o \in Runs \ {r} : ~Copying(o, repo)
  <2>1. \A o \in Runs : ~Copying(o, repo)'
    BY DEF Busy
  <2>. QED  BY <2>1, RunSteps, OthersCopying
<1>2. PointsOK
  BY DEF SyncTypeOK, PointsOK
<1>3. CASE Quiet(r)
  <2>1. ~Busy(repo) /\ repo \notin broken /\ source[repo] # NoLink
    BY <1>1, <1>3 DEF Quiet, Left, Busy, Copying
  <2>. QED  BY <1>3, <2>1 DEF Quiet, OutageHarmless, Search
<1>4. CASE DeletesLate(r)
  <2>1. repo # Repo(r)
    BY <1>4 DEF DeletesLate, Left
  <2>2. ~Busy(repo) /\ repo \notin broken /\ source[repo] # NoLink
    BY <1>1, <1>4 DEF DeletesLate, Left, Busy, Copying
  <2>. QED  BY <1>2, <1>4, <2>1, <2>2, DeleteSearch DEF DeletesLate, OutageHarmless
<1>5. CASE Delete(r)
  <2>1. pc'[r] = "upsert" /\ Repo(r)' = Repo(r)
    BY <1>5 DEF Delete, Stage, SyncTypeOK, Repo
  <2>2. repo # Repo(r)
    BY <2>1 DEF Busy, Copying
  <2>3. ~Busy(repo) /\ repo \notin broken /\ source[repo] # NoLink
    BY <1>1, <1>5, <2>2 DEF Delete, Busy, Copying, SyncTypeOK
  <2>. QED  BY <1>2, <1>5, <2>2, <2>3, DeleteSearch DEF Delete, OutageHarmless
<1>6. CASE Writes(r)
  <2>1. CASE repo = Repo(r)
    <3>1. entries[r] \in Seq(Rows) /\ entries[r] # << >>
      BY <1>6, LocalIsOK DEF Writes, LocalOK
    <3>2. PointsFor(repo, entries[r]) # {} /\ UpsertEntries(repo, entries[r])
      BY <1>6, <2>1, <3>1, PointsForNonempty DEF Writes
    <3>. QED  BY <1>2, <3>2, UpsertSearch
  <2>2. CASE repo # Repo(r)
    <3>1. ~Busy(repo) /\ repo \notin broken /\ source[repo] # NoLink
      BY <1>1, <1>6, <2>2 DEF Writes, Busy, Copying
    <3>. QED  BY <1>2, <1>6, <2>2, <3>1, UpsertSearch DEF Writes, OutageHarmless
  <2>. QED  BY <2>1, <2>2
<1>. QED  BY <1>3, <1>4, <1>5, <1>6, StepsOnCopies

\* Once copied, a repository keeps specs while Notion fails or seems empty
\* (sync_api_spec.py), whatever runs, links and databases there are: it has none
\* only while a run copies it or after one ended between the two calls.
THEOREM OutageAlwaysHarmless == SyncSpec => []OutageHarmless
<1>1. ASSUME SyncTypeOK, OutageHarmless, [SyncNext]_syncVars
      PROVE  OutageHarmless'
  <2>1. ASSUME NEW r \in Runs, Step(r) \/ QueryFails(r) \/ Raises(r) \/ Kill(r)
        PROVE  OutageHarmless'
    BY <1>1, <2>1, RunKeepsHarmless
  <2>2. CASE UNCHANGED << points, source, broken, pc, tasks >>
    BY <1>1, <2>2 DEF OutageHarmless, Search, Busy, Copying, Repo
  <2>. QED
    BY <1>1, <2>1, <2>2 DEF SyncNext, ExpireLink, SaveLink, Edit, syncVars, script, syncHistory
<1>2. SyncInit => OutageHarmless
  BY DEF SyncInit, OutageHarmless
<1>. QED  BY <1>1, <1>2, InitTypes, NextKeepsTypes, PTL DEF SyncSpec

(***************************************************************************)
(* Copies that are whole.                                                  *)
(***************************************************************************)

\* What a run has read is the beginning of the database, and at the end all of
\* it, unless the database was edited.
ReadsOK(r) ==
  pc[r] \in {"query", "delete", "upsert"} /\ Link(r) \in Databases \ edited =>
    /\ Len(entries[r]) <= Len(notion[Link(r)])
    /\ \A i \in 1..Len(entries[r]) : entries[r][i] = notion[Link(r)][i]
    /\ pc[r] # "query" => entries[r] = notion[Link(r)]

\* Between the two calls the copy of a repository that nobody else copies is
\* empty.
SoleCopierOK(r) ==
  pc[r] = "upsert" /\ Repo(r) \notin contended =>
    /\ source[Repo(r)] = Link(r) /\ Search(Repo(r)) = {}
    /\ \A o \in Runs \ {r} : ~Copying(o, Repo(r))

WholeInv == SpecWhole /\ \A r \in Runs : ReadsOK(r) /\ SoleCopierOK(r)

\* A list is what it agrees with to the end.
LEMMA SameList ==
  ASSUME NEW S, NEW a \in Seq(S), NEW b \in Seq(S), Len(a) = Len(b),
         \A i \in 1..Len(a) : a[i] = b[i]
  PROVE  a = b
OBVIOUS

LEMMA NothingRead ==
  ASSUME SyncTypeOK', NEW r \in Runs, entries'[r] = << >>, pc'[r] \in {"idle", "get", "query"}
  PROVE  ReadsOK(r)'
<1>1. (Link(r) \in Databases => notion[Link(r)] \in Seq(Rows))'
  BY SyncAssumption DEF SyncTypeOK
<1>2. \A list \in Seq(Rows) : Len(list) \in Nat
  OBVIOUS
<1>. QED  BY <1>1, <1>2 DEF ReadsOK

\* One row more of the database is one row more of its beginning.
LEMMA PageReads ==
  ASSUME NEW S, NEW rows \in Seq(S), NEW sofar \in Seq(S), NEW read,
         Len(sofar) <= Len(rows), \A i \in 1..Len(sofar) : sofar[i] = rows[i],
         read = IF Len(sofar) < Len(rows) THEN Append(sofar, rows[Len(sofar) + 1]) ELSE sofar
  PROVE  /\ Len(read) <= Len(rows)
         /\ \A i \in 1..Len(read) : read[i] = rows[i]
         /\ Len(sofar) + 1 >= Len(rows) => read = rows
<1>1. CASE Len(sofar) < Len(rows)
  <2>1. read = Append(sofar, rows[Len(sofar) + 1]) /\ rows[Len(sofar) + 1] \in S
    BY <1>1
  <2>2. Len(read) = Len(sofar) + 1 /\ read \in Seq(S)
    BY <2>1
  <2>3. \A i \in 1..Len(read) : read[i] = rows[i]
    BY <2>1, <2>2
  <2>. QED  BY <1>1, <2>2, <2>3, SameList
<1>2. CASE ~(Len(sofar) < Len(rows))
  BY <1>2, SameList
<1>. QED  BY <1>1, <1>2

LEMMA RunKeepsReads ==
  ASSUME SyncTypeOK, NEW r \in Runs, ReadsOK(r),
         Step(r) \/ QueryFails(r) \/ Raises(r) \/ Kill(r)
  PROVE  ReadsOK(r)'
<1>1. SyncTypeOK' /\ UNCHANGED << notion, edited >>
  BY RunKeepsTypes, StepsOnCopies
<1>2. CASE NextLink(r) \/ Kill(r) \/ Start(r) \/ GetLink(r)
  <2>1. entries'[r] = << >> /\ pc'[r] \in {"idle", "get", "query"}
    BY <1>2 DEF NextLink, Kill, Start, GetLink, SyncTypeOK, StageOK
  <2>. QED  BY <1>1, <2>1, NothingRead
<1>3. CASE Delete(r)
  <2>1. /\ pc[r] = "delete" /\ pc'[r] = "upsert" /\ UNCHANGED << tasks, entries >>
    BY <1>3 DEF Delete, Stage, SyncTypeOK
  <2>. QED  BY <1>1, <2>1 DEF ReadsOK, Link
<1>4. CASE QueryPage(r) /\ ~NextLink(r)
  <2> DEFINE rows == notion[Link(r)]
             sofar == entries[r]
             read == IF Len(sofar) < Len(rows) THEN Append(sofar, rows[Len(sofar) + 1]) ELSE sofar
  <2>1. pc[r] = "query" /\ UNCHANGED tasks /\ entries' = [entries EXCEPT ![r] = read]
    BY <1>4 DEF QueryPage, NoEntries, SkipLink, Stage
  <2>2. entries'[r] = read /\ Link(r)' = Link(r)
    BY <2>1 DEF SyncTypeOK, Link
  <2>3. pc'[r] # "query" => Len(sofar) + 1 >= Len(rows)
    BY <1>4 DEF QueryPage, NoEntries, SkipLink
  <2>4. ASSUME Link(r) \in Databases \ edited
        PROVE  /\ Len(read) <= Len(rows)
               /\ \A i \in 1..Len(read) : read[i] = rows[i]
               /\ Len(sofar) + 1 >= Len(rows) => read = rows
    <3>1. rows \in Seq(Rows) /\ sofar \in Seq(Rows)
      BY <2>4, SyncAssumption DEF SyncTypeOK
    <3>2. Len(sofar) <= Len(rows) /\ \A i \in 1..Len(sofar) : sofar[i] = rows[i]
      BY <2>1, <2>4 DEF ReadsOK
    <3> HIDE DEF rows, sofar
    <3>. QED  BY <3>1, <3>2, PageReads
  <2>. QED  BY <1>1, <2>2, <2>3, <2>4 DEF ReadsOK
<1>. QED
  BY <1>2, <1>3, <1>4 DEF Step, NoDatabase, Upsert, QueryFails, QueryAnswer, NoEntries, SkipLink, Raises

LEMMA RunKeepsWhole ==
  ASSUME SyncTypeOK, WholeInv, NEW r \in Runs,
         Step(r) \/ QueryFails(r) \/ Raises(r) \/ Kill(r)
  PROVE  WholeInv'
<1>1. PointsOK /\ UNCHANGED << notion, edited >>
  BY StepsOnCopies DEF SyncTypeOK, PointsOK
<1>2. RunStep(r)
  BY RunSteps
<1>3. ASSUME NEW o \in Runs PROVE ReadsOK(o)'
  <2>1. CASE o = r
    BY <2>1, RunKeepsReads DEF WholeInv
  <2>2. CASE o # r
    <3>1. /\ pc'[o] = pc[o] /\ entries'[o] = entries[o] /\ Link(o)' = Link(o)
      BY <1>2, <2>2, OthersCopying
    <3>. QED  BY <1>1, <3>1 DEF WholeInv, ReadsOK
  <2>. QED  BY <2>1, <2>2
<1>4. ASSUME Quiet(r) \/ DeletesLate(r) \/ Writes(r), NEW o \in Runs
      PROVE  SoleCopierOK(o)'
  <2>1. CASE o = r
    BY <1>4, <2>1 DEF Quiet, DeletesLate, Writes, SoleCopierOK
  <2>2. CASE o # r /\ pc'[o] = "upsert" /\ (Repo(o) \notin contended)'
    <3>1. pc[o] = "upsert" /\ Repo(o)' = Repo(o) /\ Link(o)' = Link(o) /\ UNCHANGED << source, contended >>
      BY <1>2, <1>4, <2>2, OthersCopying DEF Quiet, DeletesLate, Writes
    <3>2. /\ source[Repo(o)] = Link(o) /\ Search(Repo(o)) = {}
          /\ \A p \in Runs \ {o} : ~Copying(p, Repo(o))
      BY <2>2, <3>1 DEF WholeInv, SoleCopierOK
    <3>3. Search(Repo(o))' = {}
      <4>1. CASE Quiet(r)
        BY <3>1, <3>2, <4>1 DEF Quiet, Search
      <4>2. CASE DeletesLate(r)
        <5>1. \A repo : Search(repo) = {} => Search(repo)' = {}
          BY <4>2 DEF DeletesLate, DeleteByRepository, Search
        <5>. QED  BY <3>1, <3>2, <5>1 DEF Search
      <4>3. CASE Writes(r)
        <5>1. Repo(o) # Repo(r)
          BY <2>2, <3>2, <4>3 DEF Writes, Copying
        <5>2. \A other : other # Repo(r) => Search(other)' = Search(other)
          BY <1>1, <4>3, UpsertSearch DEF Writes
        <5>. QED  BY <3>1, <3>2, <5>1, <5>2 DEF Search
      <4>. QED  BY <1>4, <4>1, <4>2, <4>3
    <3>4. ASSUME NEW p \in Runs \ {o}
          PROVE  ~Copying(p, Repo(o))'
      <4>1. CASE p = r
        BY <1>4, <4>1 DEF Quiet, DeletesLate, Writes, Copying
      <4>2. CASE p # r
        <5>1. pc'[p] = pc[p] /\ Repo(p)' = Repo(p)
          BY <1>2, <4>2, OthersCopying
        <5>. QED  BY <3>1, <3>2, <5>1 DEF Copying
      <4>. QED  BY <4>1, <4>2
    <3>. QED  BY <3>1, <3>2, <3>3, <3>4 DEF SoleCopierOK
  <2>. QED  BY <2>1, <2>2 DEF SoleCopierOK
<1>5. CASE Quiet(r) \/ DeletesLate(r)
  <2>1. SpecWhole'
    <3> SUFFICES ASSUME NEW repo \in Repos, (repo \notin contended)', (source[repo] \in Databases \ edited)'
                 PROVE  (Search(repo) \in {{}, PointsFor(repo, notion[source[repo]])})'
      BY DEF SpecWhole
    <3>1. UNCHANGED << source, contended, notion, edited >>
      BY <1>1, <1>5 DEF Quiet, DeletesLate
    <3>2. Search(repo) \in {{}, PointsFor(repo, notion[source[repo]])}
      BY <3>1 DEF WholeInv, SpecWhole
    <3>3. Search(repo)' \in {{}, Search(repo)}
      BY <1>1, <1>5, DeleteSearch DEF Quiet, DeletesLate, Search
    <3>. QED  BY <3>1, <3>2, <3>3
  <2>. QED  BY <1>3, <1>4, <1>5, <2>1 DEF WholeInv
<1>6. CASE Writes(r)
  <2>1. SpecWhole'
    <3> SUFFICES ASSUME NEW repo \in Repos, (repo \notin contended)', (source[repo] \in Databases \ edited)'
                 PROVE  (Search(repo) \in {{}, PointsFor(repo, notion[source[repo]])})'
      BY DEF SpecWhole
    <3>1. UNCHANGED << source, contended, notion, edited >>
      BY <1>1, <1>6 DEF Writes
    <3>2. CASE repo = Repo(r)
      <4>1. source[repo] = Link(r) /\ Search(repo) = {}
        BY <1>6, <3>1, <3>2 DEF Writes, WholeInv, SoleCopierOK
      <4>2. entries[r] = notion[source[repo]]
        BY <1>6, <3>1, <4>1 DEF Writes, WholeInv, ReadsOK
      <4>3. Search(repo)' = PointsFor(repo, entries[r])
        BY <1>1, <1>6, <3>2, <4>1, UpsertSearch DEF Writes
      <4>. QED  BY <3>1, <4>2, <4>3
    <3>3. CASE repo # Repo(r)
      <4>1. Search(repo)' = Search(repo)
        BY <1>1, <1>6, <3>3, UpsertSearch DEF Writes
      <4>2. Search(repo) \in {{}, PointsFor(repo, notion[source[repo]])}
        BY <3>1 DEF WholeInv, SpecWhole
      <4>. QED  BY <3>1, <4>1, <4>2
    <3>. QED  BY <3>2, <3>3
  <2>. QED  BY <1>3, <1>4, <1>6, <2>1 DEF WholeInv
<1>7. CASE Delete(r)
  <2>1. /\ pc[r] = "delete" /\ DeleteByRepository(Repo(r))
        /\ source' = [source EXCEPT ![Repo(r)] = Link(r)]
        /\ Repo(r)' = Repo(r) /\ Link(r)' = Link(r)
    BY <1>7 DEF Delete, Stage, Repo, Link
  <2>2. /\ Search(Repo(r))' = {}
        /\ \A other : other # Repo(r) => Search(other)' = Search(other)
    BY <1>1, <2>1, DeleteSearch
  <2>3. /\ Repo(r) \in Repos /\ source'[Repo(r)] = Link(r)
        /\ \A other \in Repos \ {Repo(r)} : source'[other] = source[other]
    BY <2>1, CurrentLink DEF SyncTypeOK
  <2>4. /\ (\E o \in Runs \ {r} : Copying(o, Repo(r))) => Repo(r) \in contended'
        /\ \A other : other # Repo(r) => (other \in contended' <=> other \in contended)
    BY <1>7 DEF Delete
  <2>5. SpecWhole'
    <3> SUFFICES ASSUME NEW repo \in Repos, (repo \notin contended)', (source[repo] \in Databases \ edited)'
                 PROVE  (Search(repo) \in {{}, PointsFor(repo, notion[source[repo]])})'
      BY DEF SpecWhole
    <3>1. CASE repo = Repo(r)
      <4>1. Search(repo)' = {}
        BY <2>1, <3>1 DEF DeleteByRepository, Search
      <4>. QED  BY <4>1
    <3>2. CASE repo # Repo(r)
      <4>1. Search(repo) \in {{}, PointsFor(repo, notion[source[repo]])}
        BY <1>1, <2>3, <2>4, <3>2 DEF WholeInv, SpecWhole
      <4>. QED  BY <1>1, <2>2, <2>3, <3>2, <4>1
    <3>. QED  BY <3>1, <3>2
  <2>6. ASSUME NEW o \in Runs, pc'[o] = "upsert", (Repo(o) \notin contended)'
        PROVE  SoleCopierOK(o)'
    <3>1. CASE o = r
      <4>1. \A p \in Runs \ {r} : ~Copying(p, Repo(r))
        BY <2>1, <2>4, <2>6, <3>1
      <4>2. ASSUME NEW p \in Runs \ {r} PROVE ~Copying(p, Repo(r))'
        <5>1. pc'[p] = pc[p] /\ Repo(p)' = Repo(p)
          BY <1>2, OthersCopying
        <5>. QED  BY <2>1, <4>1, <5>1 DEF Copying
      <4>3. (source[Repo(r)] = Link(r) /\ Search(Repo(r)) = {})'
        BY <2>1, <2>2, <2>3 DEF Search
      <4>. QED  BY <3>1, <4>2, <4>3 DEF SoleCopierOK
    <3>2. CASE o # r
      <4>1. pc[o] = "upsert" /\ Repo(o)' = Repo(o) /\ Link(o)' = Link(o)
        BY <1>2, <2>6, <3>2, OthersCopying
      <4>2. Repo(o) # Repo(r)
        BY <2>4, <2>6, <3>2, <4>1 DEF Copying
      <4>3. Repo(o) \notin contended /\ Repo(o) \in Repos
        BY <2>4, <2>6, <4>1, <4>2, CurrentLink
      <4>4. /\ source[Repo(o)] = Link(o) /\ Search(Repo(o)) = {}
            /\ \A p \in Runs \ {o} : ~Copying(p, Repo(o))
        BY <4>1, <4>3 DEF WholeInv, SoleCopierOK
      <4>5. (source[Repo(o)] = Link(o))' /\ (Search(Repo(o)) = {})'
        BY <2>2, <2>3, <4>1, <4>2, <4>3, <4>4 DEF Search
      <4>6. ASSUME NEW p \in Runs \ {o} PROVE ~Copying(p, Repo(o))'
        <5>1. CASE p = r
          BY <2>1, <4>1, <4>2, <5>1 DEF Copying
        <5>2. CASE p # r
          <6>1. pc'[p] = pc[p] /\ Repo(p)' = Repo(p)
            BY <1>2, <5>2, OthersCopying
          <6>. QED  BY <4>1, <4>4, <6>1 DEF Copying
        <5>. QED  BY <5>1, <5>2
      <4>. QED  BY <4>5, <4>6 DEF SoleCopierOK
    <3>. QED  BY <3>1, <3>2
  <2>. QED  BY <1>3, <2>5, <2>6 DEF WholeInv, SoleCopierOK
<1>. QED  BY <1>5, <1>6, <1>7, StepsOnCopies

\* A repository has the whole copy of its database or none (sync_api_spec.py),
\* whatever fails and whatever is saved or expires, unless two runs copied it at
\* the same time or the database was edited.
THEOREM SpecAlwaysWhole == SyncSpec => []SpecWhole
<1>1. ASSUME SyncTypeOK, WholeInv, [SyncNext]_syncVars
      PROVE  WholeInv'
  <2>1. ASSUME NEW r \in Runs, Step(r) \/ QueryFails(r) \/ Raises(r) \/ Kill(r)
        PROVE  WholeInv'
    BY <1>1, <2>1, RunKeepsWhole
  <2>2. CASE UNCHANGED << notion, points, script, source, edited, contended >>
    BY <1>1, <2>2 DEF WholeInv, SpecWhole, ReadsOK, SoleCopierOK, Search, Copying, Repo, Link, script
  <2>3. ASSUME NEW db \in Databases, NEW rows \in Tables, Edit(db, rows)
        PROVE  WholeInv'
    <3>1. /\ UNCHANGED << points, pc, tasks, entries, source, contended >> /\ edited' = edited \cup {db}
          /\ \A other \in Databases \ edited' : notion'[other] = notion[other]
      BY <1>1, <2>3 DEF Edit, script, SyncTypeOK
    <3>2. SpecWhole'
      BY <1>1, <3>1 DEF WholeInv, SpecWhole, Search
    <3>3. \A r \in Runs : ReadsOK(r)'
      BY <1>1, <3>1 DEF WholeInv, ReadsOK, Link
    <3>4. \A r \in Runs : SoleCopierOK(r)'
      BY <1>1, <3>1 DEF WholeInv, SoleCopierOK, Search, Copying, Repo, Link
    <3>. QED  BY <3>2, <3>3, <3>4 DEF WholeInv
  <2>. QED
    BY <1>1, <2>1, <2>2, <2>3 DEF SyncNext, ExpireLink, SaveLink, syncVars, syncHistory
<1>2. SyncInit => WholeInv
  <2> SUFFICES ASSUME SyncInit PROVE WholeInv
    OBVIOUS
  <2>1. \A repo : Search(repo) = {}
    BY DEF SyncInit, Search
  <2>. QED  BY <2>1 DEF SyncInit, WholeInv, SpecWhole, ReadsOK, SoleCopierOK
<1>3. WholeInv => SpecWhole
  BY DEF WholeInv
<1>. QED  BY <1>1, <1>2, <1>3, InitTypes, NextKeepsTypes, PTL DEF SyncSpec
=============================================================================
