------------------------------- MODULE CatalogSync -------------------------------
(***************************************************************************)
(* POST /sync: application/use_cases/management/sync.py and the catalog    *)
(* mirror of application/services/catalog_sync.py, while the registry goes *)
(* on changing, and the drift report (governance/drift.py) over the        *)
(* result.  The tasks that mirror the subjects run concurrently and share  *)
(* one database session: what one task has merged and not yet committed is *)
(* committed or rolled back by whichever task comes first.                 *)
(***************************************************************************)
EXTENDS Naturals, FiniteSetsExt

CONSTANTS
    Subjects,
    MaxVersion,     \* bound on version numbers
    MaxConcurrent,  \* the semaphore of CatalogSyncService
    MaxChanges,     \* bound on the steps the rest of the system takes
    Starts,         \* the live versions the subjects may have at the start
    Usages,         \* the <<subject, version>> of which usage may be observed
    Text            \* Text[s][v]: the text the registry is given as version v of s

ASSUME SyncAssumption ==
    /\ MaxVersion \in Nat /\ MaxChanges \in Nat /\ MaxConcurrent \in Nat \ {0}
    /\ Starts \subseteq [Subjects -> SUBSET (1..MaxVersion)]

VARIABLES
    live,      \* the registry: the live versions of a subject
    top,       \* the registry: the highest version number ever given to it
    artifacts, \* schema_artifacts: <<subject, version>>
    meta,      \* schema_metadata: subjects
    catalog,   \* schema_subjects.latest_version per subject, 0 for no row
    versions,  \* schema_versions: <<subject, version>>
    observed,  \* observed_usage: the highest version in it per subject, 0 for no row
    pc,        \* the sync request
    infos,     \* describe_subjects: <<subject, version>> still to record
    listed,    \* the subjects CatalogSyncService has listed
    task,      \* per subject: the state of _sync_subject
    pending,   \* the shared session: merged rows <<table, subject, version>>
    lost,      \* history: <<subject, version>> whose row failed or was rolled back
    quiet,     \* history: no call failed and the registry kept still in this sync
    shrunk,    \* history: subjects that have lost versions
    recorded,  \* history: <<subject, version>> recorded by this service in both tables
    late,      \* history: <<subject, version>> new in a removal that has not listed the subject
    changes    \* the steps the rest of the system has taken

registry == <<live, top, observed, changes>>
records  == <<artifacts, meta, recorded, late>>
tables   == <<records, catalog, versions>>
vars == <<registry, tables, pc, infos, listed, task, pending, lost, quiet, shrunk>>

Versions == 1..MaxVersion
Latest(s) == IF live[s] = {} THEN 0 ELSE Max(live[s])
Rows == {"version", "subject"} \X Subjects \X Versions

\* at: where the task is; v: the version in hand; to: the latest version read.
NoTask == [at |-> "waiting", v |-> 0, to |-> 0]
Ats == {"waiting", "started", "fetching", "merged", "described", "ended"}

TypeOK ==
    /\ live \in [Subjects -> SUBSET Versions]
    /\ top \in [Subjects -> 0..MaxVersion]
    /\ \A s \in Subjects : live[s] \subseteq 1..top[s]
    /\ artifacts \subseteq Subjects \X Versions
    /\ meta \subseteq Subjects
    /\ catalog \in [Subjects -> 0..MaxVersion]
    /\ versions \subseteq Subjects \X Versions
    /\ observed \in [Subjects -> 0..MaxVersion]
    /\ \A s \in Subjects : observed[s] <= top[s]
    /\ pc \in {"idle", "recording", "removing", "tasks"}
    /\ infos \subseteq Subjects \X Versions
    /\ listed \subseteq Subjects
    /\ task \in [Subjects -> [at : Ats, v : 0..(MaxVersion + 1), to : 0..MaxVersion]]
    /\ pending \subseteq Rows
    /\ lost \subseteq Subjects \X Versions
    /\ quiet \in BOOLEAN
    /\ shrunk \subseteq Subjects
    /\ recorded \subseteq Subjects \X Versions
    /\ late \subseteq Subjects \X Versions
    /\ changes \in 0..MaxChanges

Init ==
    /\ live \in Starts
    /\ top = [s \in Subjects |-> Latest(s)]
    /\ artifacts = {} /\ meta = {} /\ versions = {}
    /\ catalog = [s \in Subjects |-> 0]
    /\ observed = [s \in Subjects |-> 0]
    /\ recorded = {} /\ late = {}
    /\ pc = "idle" /\ infos = {} /\ listed = {}
    /\ task = [s \in Subjects |-> NoTask]
    /\ pending = {} /\ lost = {} /\ quiet = TRUE
    /\ shrunk = {s \in Subjects : live[s] # 1..Latest(s)}
    /\ changes = 0

-----------------------------------------------------------------------------
(* The rest of the system.                                                 *)

Changed == changes < MaxChanges /\ changes' = changes + 1

\* A schema is registered: by this service, which then records an artifact and
\* the metadata, or by somebody else.  The registry does not give a text a
\* second version while a live one holds it.
Register(s, here) ==
    LET new == <<s, top[s] + 1>> IN
    /\ Changed
    /\ top[s] < MaxVersion
    /\ \A v \in live[s] : Text[s][v] # Text[s][top[s] + 1]
    /\ live' = [live EXCEPT ![s] = @ \cup {top[s] + 1}]
    /\ top' = [top EXCEPT ![s] = @ + 1]
    /\ artifacts' = IF here THEN artifacts \cup {new} ELSE artifacts
    /\ meta' = IF here THEN meta \cup {s} ELSE meta
    /\ recorded' = IF here THEN recorded \cup {new} ELSE recorded
    /\ late' = IF pc = "removing" /\ s \notin listed THEN late \cup {new} ELSE late
    /\ quiet' = FALSE
    /\ UNCHANGED <<observed, catalog, versions, pc, infos, listed, task, pending, lost, shrunk>>

\* A rollback deletes the versions above the one it goes back to, a delete all
\* of them (to = 0).  This service then deletes the artifacts of those versions,
\* and with the last one the metadata.
DeleteVersions(s, to, here) ==
    /\ Changed
    /\ to < Latest(s)
    /\ live' = [live EXCEPT ![s] = {v \in @ : v <= to}]
    /\ artifacts' = IF here THEN {x \in artifacts : x[1] = s => x[2] <= to} ELSE artifacts
    /\ meta' = IF here /\ to = 0 THEN meta \ {s} ELSE meta
    /\ quiet' = FALSE
    /\ shrunk' = shrunk \cup {s}
    /\ UNCHANGED <<top, observed, catalog, versions, recorded, late>>
    /\ UNCHANGED <<pc, infos, listed, task, pending, lost>>

\* Usage of a version is observed: no code here writes the table, and the
\* removal of stale rows leaves it alone.
Observe(s, v) ==
    /\ Changed
    /\ <<s, v>> \in Usages
    /\ v > observed[s]
    /\ observed' = [observed EXCEPT ![s] = v]
    /\ UNCHANGED <<live, top, tables, pc, infos, listed, task, pending, lost, quiet, shrunk>>

-----------------------------------------------------------------------------
(* sync.py                                                                 *)

\* list_all_subjects and describe_subjects; a subject whose description fails
\* is left out.
execute(seen) ==
    /\ pc = "idle"
    /\ seen \subseteq {s \in Subjects : live[s] # {}}
    /\ pc' = "recording"
    /\ infos' = {<<s, Latest(s)>> : s \in seen}
    /\ quiet' = (seen = {s \in Subjects : live[s] # {}})
    /\ UNCHANGED <<registry, tables, listed, task, pending, lost, shrunk>>

\* record_artifact and save_schema_metadata; when the second fails the first stays.
record_synced(i, both) ==
    /\ pc = "recording"
    /\ i \in infos
    /\ infos' = infos \ {i}
    /\ artifacts' = artifacts \cup {i}
    /\ meta' = IF both THEN meta \cup {i[1]} ELSE meta
    /\ recorded' = IF both THEN recorded \cup {i} ELSE recorded
    /\ late' = IF both THEN late \ {i} ELSE late
    /\ quiet' = (quiet /\ both)
    /\ UNCHANGED <<registry, catalog, versions, pc, listed, task, pending, lost, shrunk>>

\* A failure of a subject is counted and skipped.
record_skipped(i) ==
    /\ pc = "recording"
    /\ i \in infos
    /\ infos' = infos \ {i}
    /\ quiet' = FALSE
    /\ UNCHANGED <<registry, tables, pc, listed, task, pending, lost, shrunk>>

-----------------------------------------------------------------------------
(* CatalogSyncService.sync_all                                             *)

get_subjects ==
    /\ pc = "recording" /\ infos = {}
    /\ pc' = "removing"
    /\ listed' = {s \in Subjects : live[s] # {}}
    /\ UNCHANGED <<registry, tables, infos, task, pending, lost, quiet, shrunk>>

\* A timeout or an error: the catalog is left alone and the sync completes.
listing_fails ==
    /\ pc = "recording" /\ infos = {}
    /\ pc' = "idle"
    /\ quiet' = FALSE
    /\ UNCHANGED <<registry, tables, infos, listed, task, pending, lost, shrunk>>

Existing == {s \in Subjects : catalog[s] > 0} \cup {a[1] : a \in artifacts} \cup meta

stale_subjects_Unmirrored == Existing \ {s \in listed : catalog[s] > 0}
stale_subjects == Existing \ listed

\* One transaction removes every row of a subject that was not listed, then
\* the tasks start.
remove_stale ==
    /\ pc = "removing"
    /\ versions'  = {x \in versions : x[1] \notin stale_subjects}
    /\ artifacts' = {x \in artifacts : x[1] \notin stale_subjects}
    /\ meta'      = meta \ stale_subjects
    /\ catalog'   = [s \in Subjects |-> IF s \in stale_subjects THEN 0 ELSE catalog[s]]
    /\ lost'      = {x \in lost : x[1] \notin stale_subjects}
    /\ pc' = "tasks"
    /\ UNCHANGED <<registry, recorded, late, infos, listed, task, pending, quiet, shrunk>>

removal_fails ==
    /\ pc = "removing"
    /\ pc' = "idle"
    /\ quiet' = FALSE
    /\ UNCHANGED <<registry, tables, infos, listed, task, pending, lost, shrunk>>

-----------------------------------------------------------------------------
(* _sync_subject, one task per listed subject.                             *)

At(s, label) == pc = "tasks" /\ s \in listed /\ task[s].at = label
Move(s, t) == task' = [task EXCEPT ![s] = t]
EndTask(s) == Move(s, [task[s] EXCEPT !.at = "ended"])

FirstVersion(s) == catalog[s] + 1

\* The stored latest version is read under the semaphore.
read_current(s) ==
    /\ At(s, "waiting")
    /\ Cardinality({x \in listed : task[x].at \notin {"waiting", "ended"}}) < MaxConcurrent
    /\ Move(s, [at |-> "started", v |-> FirstVersion(s), to |-> 0])
    /\ UNCHANGED <<registry, tables, pc, infos, listed, pending, lost, quiet, shrunk>>

\* The registry's latest version, after retries; only newer ones are fetched.
UpToDate_ByOne(s) == Latest(s) <= task[s].v
UpToDate(s) == Latest(s) < task[s].v

_get_latest_version_with_retry(s) ==
    /\ At(s, "started")
    /\ live[s] # {}
    /\ IF UpToDate(s) THEN EndTask(s)
       ELSE Move(s, [task[s] EXCEPT !.at = "fetching", !.to = Latest(s)])
    /\ UNCHANGED <<registry, tables, pc, infos, listed, pending, lost, quiet, shrunk>>

\* Retries used up, a registry error, or the read of the database failed.
subject_fails(s) ==
    /\ pc = "tasks" /\ s \in listed
    /\ task[s].at \in {"waiting", "started"}
    /\ EndTask(s)
    /\ quiet' = FALSE
    /\ UNCHANGED <<registry, tables, pc, infos, listed, pending, lost, shrunk>>

\* range(start_version, latest + 1)
More_Exclusive(s) == task[s].v < task[s].to
More(s) == task[s].v <= task[s].to

\* _sync_version: the version is fetched and merged into the shared session.
merge_version(s) ==
    /\ At(s, "fetching")
    /\ More(s)
    /\ task[s].v \in live[s]
    /\ pending' = pending \cup {<<"version", s, task[s].v>>}
    /\ Move(s, [task[s] EXCEPT !.at = "merged"])
    /\ UNCHANGED <<registry, tables, pc, infos, listed, lost, quiet, shrunk>>

\* Committing writes what every task has pending.
Committed ==
    /\ versions' = versions \cup {<<r[2], r[3]>> : r \in {x \in pending : x[1] = "version"}}
    /\ catalog' = [s \in Subjects |->
                     LET new == {x[3] : x \in {y \in pending : y[1] = "subject" /\ y[2] = s}} IN
                     IF new = {} THEN catalog[s] ELSE CHOOSE v \in new : TRUE]
    /\ pending' = {}

commit_version(s) ==
    /\ At(s, "merged")
    /\ Committed
    /\ Move(s, [task[s] EXCEPT !.at = "fetching", !.v = @ + 1])
    /\ UNCHANGED <<registry, records, pc, infos, listed, lost, quiet, shrunk>>

\* Rolling back drops what every task has pending.
RolledBack(own) ==
    /\ lost' = lost \cup {<<r[2], r[3]>> : r \in {x \in pending : x[1] = "version"}} \cup own
    /\ pending' = {}

\* Any exception of _sync_version is logged and rolled back, and the loop goes
\* on with the next version: the registry has no such version (any more), a
\* call timed out, or the session was busy with another task.
version_fails(s) ==
    /\ pc = "tasks" /\ s \in listed
    /\ task[s].at \in {"fetching", "merged"}
    /\ More(s)
    /\ RolledBack({<<s, task[s].v>>})
    /\ Move(s, [task[s] EXCEPT !.at = "fetching", !.v = @ + 1])
    /\ quiet' = FALSE
    /\ UNCHANGED <<registry, tables, pc, infos, listed, shrunk>>

\* _update_subject_meta runs whatever became of the versions.
merge_subject(s) ==
    /\ At(s, "fetching")
    /\ ~More(s)
    /\ pending' = pending \cup {<<"subject", s, task[s].to>>}
    /\ Move(s, [task[s] EXCEPT !.at = "described"])
    /\ UNCHANGED <<registry, tables, pc, infos, listed, lost, quiet, shrunk>>

commit_subject(s) ==
    /\ At(s, "described")
    /\ Committed
    /\ EndTask(s)
    /\ UNCHANGED <<registry, records, pc, infos, listed, lost, quiet, shrunk>>

subject_rolled_back(s) ==
    /\ At(s, "described")
    /\ RolledBack({})
    /\ EndTask(s)
    /\ quiet' = FALSE
    /\ UNCHANGED <<registry, tables, pc, infos, listed, shrunk>>

\* gather has all its tasks back; sync.py logs COMPLETED.
gathered ==
    /\ pc = "tasks"
    /\ \A s \in listed : task[s].at = "ended"
    /\ pc' = "idle"
    /\ task' = [s \in Subjects |-> NoTask]
    /\ UNCHANGED <<registry, tables, infos, listed, pending, lost, quiet, shrunk>>

SyncStep ==
    \/ \E seen \in SUBSET Subjects : execute(seen)
    \/ \E i \in infos : record_skipped(i) \/ \E both \in BOOLEAN : record_synced(i, both)
    \/ get_subjects \/ listing_fails \/ remove_stale \/ removal_fails
    \/ \E s \in Subjects :
         \/ read_current(s) \/ _get_latest_version_with_retry(s) \/ subject_fails(s)
         \/ merge_version(s) \/ commit_version(s) \/ version_fails(s)
         \/ merge_subject(s) \/ commit_subject(s) \/ subject_rolled_back(s)
    \/ gathered

Next ==
    \/ \E s \in Subjects :
         \/ \E here \in BOOLEAN : Register(s, here)
         \/ \E to \in live[s] \cup {0}, here \in BOOLEAN : DeleteVersions(s, to, here)
         \/ \E v \in live[s] : Observe(s, v)
    \/ SyncStep

Spec == Init /\ [][Next]_vars

-----------------------------------------------------------------------------
(* drift.py, for a subject with live versions (without one it is not found *)
(* and there is no report).                                                *)

LatestRow(s) ==
    LET rows == {x[2] : x \in {y \in versions : y[1] = s}} IN
    IF rows = {} THEN 0 ELSE Max(rows)

\* The hash of a row is that of the version's text, which the registry never
\* changes; it is compared whatever version the row is of.
drift_flags(s) ==
    (IF catalog[s] = 0 THEN {"catalog_subject_missing"}
     ELSE IF catalog[s] # Latest(s) THEN {"catalog_subject_version_mismatch"} ELSE {})
    \cup
    (IF LatestRow(s) = 0 THEN {"catalog_version_missing"}
     ELSE (IF LatestRow(s) # Latest(s) THEN {"catalog_snapshot_version_mismatch"} ELSE {})
          \cup
          (IF Text[s][LatestRow(s)] # Text[s][Latest(s)]
           THEN {"catalog_canonical_hash_mismatch"} ELSE {}))
    \cup
    (IF observed[s] \notin {0, Latest(s)} THEN {"observed_usage_on_non_latest_version"} ELSE {})

-----------------------------------------------------------------------------
(* Properties.                                                             *)

\* The mirror may be behind but has no unexplained holes: a live version no
\* newer than the stored latest version is stored, unless its own fetch failed
\* or a rollback of another task took its uncommitted row; a later sync starts
\* above the stored latest version and never comes back for it.
HolesHaveCause ==
    \A s \in Subjects : \A v \in live[s] :
      v <= catalog[s] => <<s, v>> \in versions \cup lost

\* No row is ahead of the registry, and a subject that has only grown has all
\* its versions.
RowsKnown ==
    \A s \in Subjects :
      /\ catalog[s] <= top[s]
      /\ \A v \in Versions : <<s, v>> \in versions => v <= top[s]
      /\ s \notin shrunk => live[s] = 1..top[s]

\* Who has merged a row has not yet gone on: nothing is pending between syncs.
PendingOwned ==
    /\ \A s \in Subjects : pc # "tasks" \/ s \notin listed => task[s] = NoTask
    /\ \A s \in Subjects, v \in Versions :
         /\ <<"version", s, v>> \in pending => task[s].at = "merged" /\ task[s].v = v
         /\ <<"subject", s, v>> \in pending => task[s].at = "described" /\ task[s].to = v

Fetched == {"fetching", "merged", "described"}
TasksOrdered ==
    \A s \in Subjects :
      /\ task[s].at = "started" => task[s].v = catalog[s] + 1
      /\ task[s].at \in Fetched => task[s].to \in 1..top[s] /\ task[s].v \in 1..(task[s].to + 1)
      /\ task[s].at = "merged" => More(s)
      /\ task[s].at = "described" => ~More(s)

\* What a task has behind it is stored, lost, or still in the session.
Covered(s, v) == <<s, v>> \in versions \cup lost \/ <<"version", s, v>> \in pending
BehindCovered ==
    \A s \in Subjects :
      /\ task[s].at \in Fetched \cup {"started"} =>
           \A v \in live[s] : v < task[s].v => Covered(s, v)
      /\ task[s].at = "merged" => Covered(s, task[s].v)

\* While nothing goes wrong a task works on what the registry holds, and leaves
\* it in the catalog.
QuietTasks ==
    quiet /\ pc \in {"removing", "tasks"} =>
      /\ listed = {s \in Subjects : live[s] # {}}
      /\ \A s \in Subjects :
           /\ task[s].at \in Fetched => task[s].to = Latest(s)
           /\ task[s].at = "described" =>
                catalog[s] = Latest(s) \/ <<"subject", s, Latest(s)>> \in pending
           /\ task[s].at = "ended" => Latest(s) <= catalog[s]

\* While nothing goes wrong the request has recorded what it does not hold in
\* hand, and the removal has taken all rows of what the registry does not have.
QuietRecords ==
    /\ pc # "recording" => infos = {}
    /\ quiet /\ pc # "idle" =>
         \A s \in Subjects : live[s] # {} =>
           <<s, Latest(s)>> \in infos \/ (<<s, Latest(s)>> \in artifacts /\ s \in meta)
    /\ quiet /\ pc = "tasks" => \A s \in Subjects : live[s] = {} => s \notin Existing

\* Nothing is recorded that the registry has not given out.
NoneAhead == \A x \in recorded \cup infos : x[2] <= top[x[1]]

\* Whatever the removal takes of a live subject is new since the listing.
Unlisted ==
    pc = "removing" => \A s \in Subjects \ listed : \A v \in live[s] : <<s, v>> \in late

\* The inductive invariant: well typed, no hole without a cause, the tasks in
\* the middle of their loops as far as the rows and the session say, and the
\* request as far as the records say.
TasksInv ==
    /\ TypeOK /\ HolesHaveCause /\ RowsKnown
    /\ PendingOwned /\ TasksOrdered /\ BehindCovered /\ QuietTasks
SyncInv == TasksInv /\ QuietRecords /\ NoneAhead /\ Unlisted

\* What this service has recorded of a live version stays: its artifact, and the
\* metadata of the subject.  Only a subject registered between the listing of a
\* sync and its removal of stale rows loses them, until a later sync records it
\* again.
RecordsKept ==
    \A s \in Subjects : \A v \in live[s] :
      <<s, v>> \in recorded \ late => <<s, v>> \in artifacts /\ s \in meta

\* What a sync in which no call failed and the registry kept still leaves in the
\* tables.  A subject in the registry has its metadata, the artifact of its
\* latest version and a catalog row, and each flag the drift report raises for
\* the mirror has its cause: the catalog goes on naming a version that was
\* deleted in the registry (catalog_sync.py:201 skips a subject whose stored
\* version is not below the latest one), the newest row is of such a version, or
\* the row of the latest version was lost in an earlier sync.  (The flag about
\* observed usage is no matter of the mirror: no sync clears it.)  A subject that
\* is not in the registry has none of these rows left.
RowFlags == {"catalog_snapshot_version_mismatch", "catalog_canonical_hash_mismatch"}

Deleted(s) == (1..top[s]) \ live[s]

QuietEnd == pc = "tasks" /\ quiet /\ \A s \in listed : task[s].at = "ended"

Mirrored(s) ==
    /\ s \in meta /\ <<s, Latest(s)>> \in artifacts
    /\ "catalog_subject_missing" \notin drift_flags(s)
    /\ "catalog_subject_version_mismatch" \in drift_flags(s) => catalog[s] \in Deleted(s)
    /\ "catalog_version_missing" \in drift_flags(s) => <<s, Latest(s)>> \in lost
    /\ drift_flags(s) \cap RowFlags # {} =>
         LatestRow(s) \in Deleted(s) \/ <<s, Latest(s)>> \in lost

QuietSyncClearsDrift ==
    QuietEnd => \A s \in Subjects : IF live[s] # {} THEN Mirrored(s) ELSE s \notin Existing
=============================================================================
