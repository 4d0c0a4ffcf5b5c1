------------------------------ MODULE ApiSpecSync ------------------------------
(***************************************************************************)
(* The API specs of the repositories: a review saves the link to a Notion  *)
(* database that it finds in DOVI.md (_maybe_save_notion_link of           *)
(* app/review/pipeline.py, RedisNotionLinkStore), a script run by cron     *)
(* copies each database to Qdrant (sync_all of scripts/sync_api_spec.py,   *)
(* NotionClient, ApiSpecVectorStore), and a review searches the copy       *)
(* (_retrieve_api_spec_context, ApiSpecRetriever).                         *)
(*                                                                         *)
(* Runs of the script may overlap, and databases are edited while a run    *)
(* reads them page by page. The calls to Qdrant and to the embedding model *)
(* are synchronous, but another run is another process.                    *)
(***************************************************************************)
EXTENDS Integers, SequencesExt

CONSTANTS
  Runs,       \* processes of the script
  Repos,
  Databases,
  NoId,       \* a link in which there is no id of a database
  NoLink,     \* no link is saved, or nothing was copied
  Tables,     \* bound: rows of a database, each with an endpoint and a text
  Faults,     \* which of AllFaults may happen
  MaxChanges, \* bound: links saved or expired, and databases edited
  MaxFaults   \* bound: faults in a behaviour

Links == Databases \cup {NoId}
Rows == UNION {Range(rows) : rows \in Tables}

AllFaults ==
  { "query",  \* Notion refuses a page, or does not answer
    "raise",  \* a call to Qdrant or to the model raises
    "late",   \* a call that raised had already taken effect
    "kill" }  \* the process dies; Redis may also raise, which ends the run

ASSUME SyncAssumption ==
  /\ {NoId, NoLink} \cap Databases = {} /\ NoId # NoLink
  /\ IsFiniteSet(Repos) /\ Tables \subseteq Seq(Rows)
  /\ Faults \subseteq AllFaults
  /\ {MaxChanges, MaxFaults} \subseteq Nat

VARIABLES
  links,     \* Redis: the link saved for a repository
  notion,    \* the rows of each database
  points,    \* Qdrant: the copies
  pc,        \* where each run waits
  keys,      \* the keys a run has still to get
  tasks,     \* the links it has still to follow, the current one first
  entries,   \* what it has read of the current database
  source,    \* history: the database a repository was last copied from
  edited,    \* history: the databases that were edited
  broken,    \* history: repositories whose last copying ended after the delete
  contended, \* history: repositories that two runs copied at the same time
  changes,
  faults

script  == << pc, keys, tasks, entries >>
syncHistory == << source, edited, broken, contended >>
counts  == << changes, faults >>
syncVars == << links, notion, points, script, syncHistory, counts >>

(***************************************************************************)
(* api_spec_vector_store.py                                                *)
(***************************************************************************)
\* _point_id: repository, method and path.
PointId(repo, entry) == << repo, entry.endpoint >>

\* Of two rows for an endpoint the last one stays.
PointsFor(repo, rows) ==
  {[id |-> PointId(repo, rows[i]), repo |-> repo, entry |-> rows[i]] :
     i \in {i \in DOMAIN rows : \A j \in DOMAIN rows :
              rows[j].endpoint = rows[i].endpoint => j <= i}}

UpsertEntries(repo, rows) ==
  LET new == PointsFor(repo, rows)
  IN  points' = {p \in points : \A q \in new : p.id # q.id} \cup new

DeleteByRepository(repo) == points' = {p \in points : p.repo # repo}

\* What a review of the repository may be shown. The collection may not exist
\* yet: the retriever takes the exception for an empty result.
Search(repo) == {p \in points : p.repo = repo}

(***************************************************************************)
(* The script.                                                             *)
(***************************************************************************)
SyncInit ==
  /\ links \in [Repos -> Links \cup {NoLink}]
  /\ notion \in [Databases -> Tables]
  /\ points = {}
  /\ pc = [r \in Runs |-> "idle"]
  /\ keys = [r \in Runs |-> << >>] /\ tasks = keys /\ entries = keys
  /\ source = [repo \in Repos |-> NoLink]
  /\ edited = {} /\ broken = {} /\ contended = {}
  /\ changes = 0 /\ faults = 0

Change == changes < MaxChanges /\ changes' = changes + 1 /\ UNCHANGED faults
Fault(f) == f \in Faults /\ faults < MaxFaults /\ faults' = faults + 1 /\ UNCHANGED changes

Repo(r) == tasks[r][1].repo
Link(r) == tasks[r][1].link
Copying(r, repo) == pc[r] = "upsert" /\ Repo(r) = repo

Stage(r, stage) == pc' = [pc EXCEPT ![r] = stage] /\ UNCHANGED << keys, tasks >>

\* The loop of sync_all goes on with the next link.
NextLink(r) ==
  /\ tasks' = [tasks EXCEPT ![r] = Tail(@)]
  /\ pc' = [pc EXCEPT ![r] = IF Len(tasks[r]) = 1 THEN "idle" ELSE "query"]
  /\ entries' = [entries EXCEPT ![r] = << >>]
  /\ UNCHANGED keys

\* Mutant: a link that cannot be used ends the run.
SkipLink_Ends(r) ==
  /\ pc' = [pc EXCEPT ![r] = "idle"]
  /\ tasks' = [tasks EXCEPT ![r] = << >>]
  /\ entries' = [entries EXCEPT ![r] = << >>]
  /\ UNCHANGED keys

SkipLink(r) == NextLink(r)

\* KEYS lists the keys in any order.
Start(r) ==
  /\ pc[r] = "idle"
  /\ \E order \in SetToSeqs({repo \in Repos : links[repo] # NoLink}) :
       /\ order # << >>
       /\ keys' = [keys EXCEPT ![r] = order]
  /\ pc' = [pc EXCEPT ![r] = "get"]
  /\ UNCHANGED << links, notion, points, tasks, entries, syncHistory, counts >>

\* A key may have expired since.
GetLink(r) ==
  /\ pc[r] = "get"
  /\ LET repo == Head(keys[r])
         more == IF links[repo] = NoLink THEN tasks[r]
                 ELSE Append(tasks[r], [repo |-> repo, link |-> links[repo]])
     IN  /\ tasks' = [tasks EXCEPT ![r] = more]
         /\ pc' = [pc EXCEPT ![r] = IF Len(keys[r]) > 1 THEN "get"
                                    ELSE IF more # << >> THEN "query" ELSE "idle"]
  /\ keys' = [keys EXCEPT ![r] = Tail(@)]
  /\ UNCHANGED << links, notion, points, entries, syncHistory, counts >>

NoDatabase(r) ==
  /\ pc[r] = "query" /\ Link(r) = NoId
  /\ SkipLink(r)
  /\ UNCHANGED << links, notion, points, syncHistory, counts >>

\* Mutant: the old copy is deleted before the answer is looked at.
NoEntries_Deletes(r) == DeleteByRepository(Repo(r)) /\ SkipLink(r)

\* Nothing is deleted for a database that seems to be empty.
NoEntries(r) == UNCHANGED points /\ SkipLink(r)

\* A page: one row, and whether there are more.
QueryPage(r) ==
  /\ pc[r] = "query" /\ Link(r) # NoId
  /\ LET rows == notion[Link(r)]
         n    == Len(entries[r])
         read == IF n < Len(rows) THEN Append(entries[r], rows[n + 1]) ELSE entries[r]
     IN  \/ /\ n + 1 < Len(rows)
            /\ entries' = [entries EXCEPT ![r] = read]
            /\ UNCHANGED << pc, keys, tasks, points >>
         \/ /\ n + 1 >= Len(rows) /\ read # << >>
            /\ entries' = [entries EXCEPT ![r] = read]
            /\ Stage(r, "delete")
            /\ UNCHANGED points
         \/ /\ read = << >>
            /\ NoEntries(r)
  /\ UNCHANGED << links, notion, syncHistory, counts >>

\* Mutant: what was read before the failure is taken for the database.
QueryAnswer_Partial(r) == entries[r]

\* query_database returns no row after a failure, or raises.
QueryAnswer(r) == << >>

QueryFails(r) ==
  /\ pc[r] = "query" /\ Link(r) # NoId /\ Fault("query")
  /\ IF QueryAnswer(r) = << >> THEN NoEntries(r)
     ELSE Stage(r, "delete") /\ UNCHANGED << entries, points >>
  /\ UNCHANGED << links, notion, syncHistory >>

Delete(r) ==
  /\ pc[r] = "delete"
  /\ DeleteByRepository(Repo(r))
  /\ Stage(r, "upsert")
  /\ contended' = IF \E other \in Runs \ {r} : Copying(other, Repo(r))
                  THEN contended \cup {Repo(r)} ELSE contended \ {Repo(r)}
  /\ broken' = broken \ {Repo(r)}
  /\ source' = [source EXCEPT ![Repo(r)] = Link(r)]
  /\ UNCHANGED << links, notion, entries, edited, counts >>

\* embed_documents changes nothing; it and the upsert are one step.
Upsert(r) ==
  /\ pc[r] = "upsert"
  /\ UpsertEntries(Repo(r), entries[r])
  /\ NextLink(r)
  /\ UNCHANGED << links, notion, syncHistory, counts >>

Raises(r) ==
  /\ pc[r] \in {"delete", "upsert"} /\ Fault("raise")
  /\ \/ UNCHANGED points /\ broken' = broken \cup (IF pc[r] = "upsert" THEN {Repo(r)} ELSE {})
     \/ /\ "late" \in Faults /\ pc[r] = "delete"
        /\ DeleteByRepository(Repo(r)) /\ broken' = broken \cup {Repo(r)}
     \/ /\ "late" \in Faults /\ pc[r] = "upsert"
        /\ UpsertEntries(Repo(r), entries[r]) /\ UNCHANGED broken
  /\ NextLink(r)
  /\ UNCHANGED << links, notion, source, edited, contended >>

Kill(r) ==
  /\ pc[r] # "idle" /\ Fault("kill")
  /\ broken' = IF pc[r] = "upsert" THEN broken \cup {Repo(r)} ELSE broken
  /\ pc' = [pc EXCEPT ![r] = "idle"]
  /\ keys' = [keys EXCEPT ![r] = << >>]
  /\ tasks' = [tasks EXCEPT ![r] = << >>]
  /\ entries' = [entries EXCEPT ![r] = << >>]
  /\ UNCHANGED << links, notion, points, source, edited, contended >>

(***************************************************************************)
(* Reviews, Redis and the users of Notion.                                 *)
(***************************************************************************)
\* _maybe_save_notion_link. A review with an OpenAPI file or no link saves
\* nothing, and neither does one whose call of Redis raises.
SaveLink(repo, link) ==
  /\ links[repo] # link /\ Change
  /\ links' = [links EXCEPT ![repo] = link]
  /\ UNCHANGED << notion, points, script, syncHistory >>

\* No review has saved the link again for ttl_seconds.
ExpireLink(repo) ==
  /\ links[repo] # NoLink /\ Change
  /\ links' = [links EXCEPT ![repo] = NoLink]
  /\ UNCHANGED << notion, points, script, syncHistory >>

Edit(db, rows) ==
  /\ notion[db] # rows /\ Change
  /\ notion' = [notion EXCEPT ![db] = rows]
  /\ edited' = edited \cup {db}
  /\ UNCHANGED << links, points, script, source, broken, contended >>

Step(r) == Start(r) \/ GetLink(r) \/ NoDatabase(r) \/ QueryPage(r) \/ Delete(r) \/ Upsert(r)

SyncNext ==
  \/ \E r \in Runs : Step(r) \/ QueryFails(r) \/ Raises(r) \/ Kill(r)
  \/ \E repo \in Repos : ExpireLink(repo) \/ \E link \in Links : SaveLink(repo, link)
  \/ \E db \in Databases, rows \in Tables : Edit(db, rows)

SyncSpec == SyncInit /\ [][SyncNext]_syncVars

\* Cron starts the script again and again, and a run goes on.
FairSpec == SyncSpec /\ \A r \in Runs : WF_syncVars(Step(r))

(***************************************************************************)
(* Properties.                                                             *)
(***************************************************************************)
\* What a run holds at each stage.
StageOK(r) ==
  /\ pc[r] = "get" <=> keys[r] # << >>
  /\ pc[r] \in {"query", "delete", "upsert"} => tasks[r] # << >>
  /\ pc[r] \in {"delete", "upsert"} => entries[r] # << >> /\ Link(r) # NoId
  /\ pc[r] \in {"idle", "get"} => entries[r] = << >>

SyncTypeOK ==
  /\ links \in [Repos -> Links \cup {NoLink}]
  /\ notion \in [Databases -> Tables]
  /\ \A p \in points : p.id = PointId(p.repo, p.entry)
  /\ pc \in [Runs -> {"idle", "get", "query", "delete", "upsert"}]
  /\ keys \in [Runs -> Seq(Repos)]
  /\ tasks \in [Runs -> Seq([repo : Repos, link : Links])]
  /\ entries \in [Runs -> Seq(Rows)]
  /\ \A r \in Runs : StageOK(r)
  /\ source \in [Repos -> Links \cup {NoLink}]
  /\ edited \subseteq Databases /\ broken \subseteq Repos /\ contended \subseteq Repos
  /\ changes \in Nat /\ faults \in Nat

\* Some run is between delete_by_repository and upsert_entries.
Busy(repo) == \E r \in Runs : Copying(r, repo)

\* A repository has the whole copy of its database or none, whatever fails,
\* unless two runs copied it at the same time or the database was edited: a
\* page that is not answered never leaves a part of the specs for all of them.
SpecWhole ==
  \A repo \in Repos \ contended :
    source[repo] \in Databases \ edited =>
      Search(repo) \in {{}, PointsFor(repo, notion[source[repo]])}

\* Once copied, a repository keeps specs while Notion fails or seems empty: it
\* has none only while a run copies it or after one ended between the two calls.
OutageHarmless ==
  \A repo \in Repos :
    source[repo] # NoLink /\ repo \notin broken /\ ~Busy(repo) => Search(repo) # {}

\* Every saved link is finally followed, whatever the links of the other
\* repositories are: the specs are again and again those of the database, while
\* it has any row.
AllSynced ==
  \A repo \in Repos :
    []<>(\A db \in Databases :
           links[repo] = db /\ notion[db] # << >> =>
             Search(repo) = PointsFor(repo, notion[db]))
=============================================================================
