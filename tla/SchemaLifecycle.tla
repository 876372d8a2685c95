----------------------------- MODULE SchemaLifecycle -----------------------------
(***************************************************************************)
(* The operations on single subjects: upload, delete, rollback and         *)
(* settings (application/use_cases/management/upload.py, delete.py,        *)
(* settings.py and governance/rollback.py) over one registry and one       *)
(* database.  No transaction spans the two: every call to either is a step,*)
(* may fail, and may be the last thing a cancelled request did.            *)
(***************************************************************************)
EXTENDS Naturals, Sequences, FiniteSetsExt

CONSTANTS
    Requests,
    Subjects,          \* subject names as the sequence of their parts between dots
    Schemas, Modes, Owners,
    Jobs,              \* what a requester may ask for
    Threshold,         \* HIGH_VERSION_COUNT_THRESHOLD
    MaxVersion,        \* bound on version numbers
    Starts,            \* what the subjects may hold at the start: schemas, oldest first
    None               \* null

Kinds == {"upload", "analyze", "delete", "rollback", "settings"}

\* An uploaded file: the parts of its name without the extension, its schema, and
\* whether it has an unsupported extension or size, or cannot be parsed.
File == [stem : Seq(STRING), schema : Schemas, form : {"good", "unsupported", "unparsable"}]

\* Only the default strategy puts the environment in front.
_build_subject_name(job, f) ==
    IF job.strategy = "gov:EnvPrefixed" THEN <<job.env>> \o f.stem ELSE f.stem

\* A name without a dot counts as dev, an unknown prefix as no environment.
_subject_environment(s) ==
    IF Len(s) = 1 THEN "dev" ELSE IF s[1] \in {"dev", "stg", "prod"} THEN s[1] ELSE "none"
_is_production_subject(s) == _subject_environment(s) = "prod"

ASSUME LifecycleAssumption ==
    /\ Threshold \in Nat /\ MaxVersion \in Nat
    /\ None \notin Modes \cup Owners \cup Schemas
    /\ Starts \subseteq [Subjects -> Seq(Schemas)]
    /\ \A start \in Starts, s \in Subjects : Len(start[s]) <= MaxVersion
    /\ \A j \in Jobs :
         /\ j.kind \in Kinds
         /\ j.kind = "upload" =>
              /\ j.files \in Seq(File) /\ j.files # <<>>
              /\ \A k \in DOMAIN j.files : _build_subject_name(j, j.files[k]) \in Subjects
              /\ j.mode \in Modes \cup {None} /\ j.owner \in Owners
         /\ j.kind \in {"analyze", "delete"} => j.subject \in Subjects
         /\ j.kind = "delete" => j.force \in BOOLEAN
         /\ j.kind = "rollback" => j.subject \in Subjects /\ j.version \in Nat
         /\ j.kind = "settings" =>
              j.subject \in Subjects /\ j.mode \in Modes \cup {None} /\ j.owner \in Owners \cup {None}

VARIABLES
    sr,        \* the registry: per subject its live versions, as a function to schemas
    top,       \* the registry: the highest version number ever given to a subject
    config,    \* the registry: the compatibility mode of a subject, or None
    artifacts, \* schema_artifacts: <<subject, version>>
    meta,      \* schema_metadata: [owner, mode] per subject, or NoMeta
    audit,     \* closing audit rows: <<request, status>>
    pc, op,    \* per request: program counter and locals
    ours,      \* history: the versions <<subject, version>> that this service registered
    tainted    \* history: subjects on which a write failed or two requests overlapped

vars == <<sr, top, config, artifacts, meta, audit, pc, op, ours, tainted>>

NoMeta == [owner |-> None, mode |-> None, absent |-> TRUE]
Meta   == [owner : Owners \cup {None}, mode : Modes \cup {None}, absent : {FALSE}]

\* The job; k: the file in hand; version: the version read back or rolled back
\* to; todo: the newer versions still to delete; blind: describe_subjects
\* reported an error as absence; seen: history, the highest number given to the
\* subject when a rollback listed its versions or a delete analysed it.
NoJob == [kind |-> "none"]
NoOp  == [job |-> NoJob, k |-> 1, version |-> 0, todo |-> {}, blind |-> FALSE,
          seen |-> 0]
Op    == [job : Jobs \cup {NoJob}, k : Nat \ {0}, version : 0..MaxVersion,
          todo : SUBSET (1..MaxVersion), blind : BOOLEAN, seen : 0..MaxVersion]

Live(s)   == DOMAIN sr[s]
Latest(s) == IF Live(s) = {} THEN 0 ELSE Max(Live(s))

Pcs == {"idle", "validating", "file", "registered", "versioned", "configured", "described", "uploaded",
        "analyzing", "deleting", "deleted", "reading", "stepping", "trimming", "saving",
        "looking", "configuring", "describing", "closing", "failing", "done"}

TypeOK ==
    /\ sr = [s \in Subjects |-> [v \in Live(s) |-> sr[s][v]]]
    /\ top \in [Subjects -> 0..MaxVersion]
    /\ \A s \in Subjects :
         Live(s) \subseteq 1..top[s] /\ \A v \in Live(s) : sr[s][v] \in Schemas
    /\ config \in [Subjects -> Modes \cup {None}]
    /\ artifacts \subseteq Subjects \X (1..MaxVersion)
    /\ meta \in [Subjects -> Meta \cup {NoMeta}]
    /\ audit \subseteq Requests \X {"COMPLETED", "FAILED", "success", "failed", "completed"}
    /\ pc \in [Requests -> Pcs]
    /\ op \in [Requests -> Op]
    /\ \A r \in Requests : IF pc[r] = "idle" THEN op[r] = NoOp ELSE op[r].job \in Jobs
    /\ ours \subseteq Subjects \X (1..MaxVersion)
    /\ tainted \subseteq Subjects

Init ==
    /\ \E start \in Starts :
         /\ sr = [s \in Subjects |-> start[s]]
         /\ top = [s \in Subjects |-> Len(start[s])]
    /\ config = [s \in Subjects |-> None]
    /\ artifacts = {}
    /\ meta = [s \in Subjects |-> NoMeta]
    /\ audit = {}
    /\ pc = [r \in Requests |-> "idle"]
    /\ op = [r \in Requests |-> NoOp]
    /\ ours = {}
    /\ tainted = {}

-----------------------------------------------------------------------------
Touches(job) ==
    IF job.kind = "upload" THEN {_build_subject_name(job, job.files[k]) : k \in DOMAIN job.files}
    ELSE {job.subject}
Running(r) == pc[r] \notin {"idle", "done"}

\* The subject a request is writing to.
Subject(r) ==
    IF op[r].job.kind = "upload" THEN _build_subject_name(op[r].job, op[r].job.files[op[r].k])
    ELSE op[r].job.subject

Goto(r, label) == pc' = [pc EXCEPT ![r] = label]
Step(r, from, to) == pc[r] = from /\ Goto(r, to)

Start(r, job, label) ==
    /\ pc[r] = "idle"
    /\ Goto(r, label)
    /\ op' = [op EXCEPT ![r].job = job]
    /\ tainted' = tainted \cup
         {s \in Touches(job) : \E q \in Requests \ {r} : Running(q) /\ s \in Touches(op[q].job)}
    /\ UNCHANGED <<sr, top, config, artifacts, meta, audit, ours>>

\* The routes.
upload_schemas(r, job)          == job.kind = "upload"   /\ Start(r, job, "validating")
analyze_schema_delete(r, job)   == job.kind = "analyze"  /\ Start(r, job, "analyzing")
delete_schema(r, job)           == job.kind = "delete"   /\ Start(r, job, "analyzing")
execute_schema_rollback(r, job) == job.kind = "rollback" /\ Start(r, job, "reading")
update_schema_settings(r, job)  == job.kind = "settings" /\ Start(r, job, "looking")

\* Where an exception leads: an upload and a delete log it, the others do not.
Raised(r) ==
    IF \/ op[r].job.kind = "upload" /\ pc[r] # "failing"
       \/ op[r].job.kind = "delete" /\ pc[r] \in {"deleting", "deleted", "closing"}
    THEN "failing" ELSE "done"

-----------------------------------------------------------------------------
(* Upload: one file after the other.                                       *)

\* All files are read and checked before the first is processed.
_validate_files(r) ==
    LET fs == op[r].job.files IN
    /\ Step(r, "validating",
            IF \E k \in DOMAIN fs : fs[k].form = "unsupported" THEN "failing" ELSE "file")
    /\ UNCHANGED <<sr, top, config, artifacts, meta, audit, op, ours, tainted>>

\* A file must parse and the upload must name a compatibility mode.
Accepted(r) == op[r].job.files[op[r].k].form # "unparsable" /\ op[r].job.mode # None

\* The registry gives a new version to a schema it does not hold, one past
\* every version it ever gave; the adapter then reads the latest version.
register_schema(r) ==
    LET f == op[r].job.files[op[r].k]
        s == Subject(r)
        known == \E v \in Live(s) : sr[s][v] = f.schema
        n == top[s] + 1 IN
    /\ Step(r, "file", "registered")
    /\ Accepted(r)
    /\ known \/ n <= MaxVersion
    /\ sr' = IF known THEN sr
             ELSE [sr EXCEPT ![s] = [v \in Live(s) \cup {n} |-> IF v = n THEN f.schema ELSE sr[s][v]]]
    /\ top' = IF known THEN top ELSE [top EXCEPT ![s] = n]
    /\ ours' = IF known THEN ours ELSE ours \cup {<<s, n>>}
    /\ UNCHANGED <<config, artifacts, meta, audit, op, tainted>>

read_version(r) ==
    /\ Step(r, "registered", "versioned")
    /\ Live(Subject(r)) # {}
    /\ op' = [op EXCEPT ![r].version = Latest(Subject(r))]
    /\ UNCHANGED <<sr, top, config, artifacts, meta, audit, ours, tainted>>

set_compatibility_mode(r) ==
    /\ Step(r, "versioned", "configured")
    /\ config' = [config EXCEPT ![Subject(r)] = op[r].job.mode]
    /\ UNCHANGED <<sr, top, artifacts, meta, audit, op, ours, tainted>>

\* The owner is always in the payload and so always overwritten; a mode that
\* is not given leaves the stored one.
Saved(m, owner, mode) ==
    [owner |-> owner, mode |-> IF mode = None THEN m.mode ELSE mode, absent |-> FALSE]

save_schema_metadata(r) ==
    /\ Step(r, "configured", "described")
    /\ meta' = [meta EXCEPT ![Subject(r)] = Saved(@, op[r].job.owner, op[r].job.mode)]
    /\ UNCHANGED <<sr, top, config, artifacts, audit, op, ours, tainted>>

\* After the artifact, the next file.
AfterFile(r) == IF op[r].k < Len(op[r].job.files) THEN "file" ELSE "uploaded"

record_artifact(r) ==
    /\ Step(r, "described", AfterFile(r))
    /\ artifacts' = artifacts \cup {<<Subject(r), op[r].version>>}
    /\ op' = [op EXCEPT ![r].k = IF AfterFile(r) = "file" THEN @ + 1 ELSE @]
    /\ UNCHANGED <<sr, top, config, meta, audit, ours, tainted>>

\* Seen only when the turn of the file comes.
file_refused_Skipped(r) ==
    /\ Step(r, "file", AfterFile(r))
    /\ ~Accepted(r)
    /\ op' = [op EXCEPT ![r].k = IF AfterFile(r) = "file" THEN @ + 1 ELSE @]
    /\ UNCHANGED <<sr, top, config, artifacts, meta, audit, ours, tainted>>
file_refused(r) ==
    /\ Step(r, "file", "failing")
    /\ ~Accepted(r)
    /\ UNCHANGED <<sr, top, config, artifacts, meta, audit, op, ours, tainted>>

\* Its failure is logged and forgotten.
save_upload_result(r) ==
    /\ Step(r, "uploaded", "closing")
    /\ UNCHANGED <<sr, top, config, artifacts, meta, audit, op, ours, tainted>>

-----------------------------------------------------------------------------
(* Delete.                                                                 *)

_is_safe_to_delete_OneMore(s) == Latest(s) <= Threshold + 1 /\ ~_is_production_subject(s)
_is_safe_to_delete(s) == Latest(s) <= Threshold /\ ~_is_production_subject(s)

\* What is not described is absent, and absent is safe.
analyze_delete_impact(r, blind) ==
    LET s == op[r].job.subject
        safe == blind \/ Live(s) = {} \/ _is_safe_to_delete(s) IN
    /\ op[r].job.kind = "delete"
    /\ Step(r, "analyzing", IF op[r].job.force \/ safe THEN "deleting" ELSE "done")
    /\ op' = [op EXCEPT ![r].blind = blind, ![r].seen = top[s]]
    /\ UNCHANGED <<sr, top, config, artifacts, meta, audit, ours, tainted>>

\* The analysis on its own only leaves an audit row.
analyze(r) ==
    /\ op[r].job.kind = "analyze"
    /\ Step(r, "analyzing", "closing")
    /\ UNCHANGED <<sr, top, config, artifacts, meta, audit, op, ours, tainted>>

delete_subject(r) ==
    LET s == op[r].job.subject IN
    /\ Step(r, "deleting", "deleted")
    /\ Live(s) # {}
    /\ sr' = [sr EXCEPT ![s] = <<>>]
    /\ config' = [config EXCEPT ![s] = None]
    /\ UNCHANGED <<top, artifacts, meta, audit, op, ours, tainted>>

\* The registry answers 404.
nothing_to_delete(r) ==
    /\ Step(r, "deleting", "failing")
    /\ Live(op[r].job.subject) = {}
    /\ UNCHANGED <<sr, top, config, artifacts, meta, audit, op, ours, tainted>>

delete_artifact_by_subject_KeepsMeta(r) ==
    LET s == op[r].job.subject IN
    /\ Step(r, "deleted", "closing")
    /\ artifacts' = {a \in artifacts : a[1] # s}
    /\ UNCHANGED <<sr, top, config, meta, audit, op, ours, tainted>>
delete_artifact_by_subject(r) ==
    LET s == op[r].job.subject IN
    /\ Step(r, "deleted", "closing")
    /\ artifacts' = {a \in artifacts : a[1] # s}
    /\ meta' = [meta EXCEPT ![s] = NoMeta]
    /\ UNCHANGED <<sr, top, config, audit, op, ours, tainted>>

\* A failure of the database here is swallowed.
artifacts_kept(r) ==
    /\ Step(r, "deleted", "closing")
    /\ tainted' = tainted \cup {op[r].job.subject}
    /\ UNCHANGED <<sr, top, config, artifacts, meta, audit, op, ours>>

-----------------------------------------------------------------------------
(* Rollback: the versions above the target are deleted, newest first.      *)

Newer(s, v) == {w \in Live(s) : w > v}

get_schema_by_version(r) ==
    LET s == op[r].job.subject
        v == op[r].job.version IN
    /\ Step(r, "reading", IF v \notin Live(s) THEN "done"
                          ELSE IF Newer(s, v) = {} THEN "saving" ELSE "stepping")
    /\ op' = [op EXCEPT ![r].todo = Newer(s, v), ![r].seen = top[s]]
    /\ UNCHANGED <<sr, top, config, artifacts, meta, audit, ours, tainted>>

Next_Ascending(todo) == Min(todo)
NextVersion(todo) == Max(todo)

delete_version(r) ==
    LET s == op[r].job.subject
        v == NextVersion(op[r].todo) IN
    /\ pc[r] = "stepping"
    /\ v \in Live(s)
    /\ sr' = [sr EXCEPT ![s] = [w \in Live(s) \ {v} |-> sr[s][w]]]
    /\ op' = [op EXCEPT ![r].todo = @ \ {v}]
    /\ Goto(r, IF op[r].todo = {v} THEN "trimming" ELSE "stepping")
    /\ UNCHANGED <<top, config, artifacts, meta, audit, ours, tainted>>

\* Somebody else has deleted it: the registry answers 404.
version_gone(r) ==
    /\ Step(r, "stepping", "done")
    /\ NextVersion(op[r].todo) \notin Live(op[r].job.subject)
    /\ tainted' = tainted \cup {op[r].job.subject}
    /\ UNCHANGED <<sr, top, config, artifacts, meta, audit, op, ours>>

delete_artifacts_newer_than(r) ==
    /\ Step(r, "trimming", "saving")
    /\ artifacts' = {a \in artifacts : ~(a[1] = op[r].job.subject /\ a[2] > op[r].job.version)}
    /\ UNCHANGED <<sr, top, config, meta, audit, op, ours, tainted>>

\* A rollback writes a result row and no audit row.
save_apply_result(r) ==
    /\ Step(r, "saving", "done")
    /\ UNCHANGED <<sr, top, config, artifacts, meta, audit, op, ours, tainted>>

-----------------------------------------------------------------------------
(* Settings.                                                               *)

describe_subjects(r, blind) ==
    LET found == ~blind /\ Live(op[r].job.subject) # {} IN
    /\ Step(r, "looking", IF found THEN "configuring" ELSE "done")
    /\ UNCHANGED <<sr, top, config, artifacts, meta, audit, op, ours, tainted>>

\* Only a mode that was given is set.
configure(r) ==
    /\ Step(r, "configuring", "describing")
    /\ config' = [config EXCEPT ![op[r].job.subject] =
                    IF op[r].job.mode = None THEN @ ELSE op[r].job.mode]
    /\ UNCHANGED <<sr, top, artifacts, meta, audit, op, ours, tainted>>

save_settings(r) ==
    /\ Step(r, "describing", "closing")
    /\ meta' = [meta EXCEPT ![op[r].job.subject] = Saved(@, op[r].job.owner, op[r].job.mode)]
    /\ UNCHANGED <<sr, top, config, artifacts, audit, op, ours, tainted>>

-----------------------------------------------------------------------------
\* The closing audit row.
audit_completed(r) ==
    /\ Step(r, "closing", "done")
    /\ audit' = audit \cup {<<r, CASE op[r].job.kind = "delete"  -> "success"
                                  [] op[r].job.kind = "analyze" -> "completed"
                                  [] OTHER                      -> "COMPLETED">>}
    /\ UNCHANGED <<sr, top, config, artifacts, meta, op, ours, tainted>>

audit_failed(r) ==
    /\ Step(r, "failing", "done")
    /\ audit' = audit \cup {<<r, IF op[r].job.kind = "delete" THEN "failed" ELSE "FAILED">>}
    /\ UNCHANGED <<sr, top, config, artifacts, meta, op, ours, tainted>>

Writing == Pcs \ {"idle", "validating", "analyzing", "reading", "looking", "failing", "done"}

\* A call raises.  A call that did its work and lost its answer is its step
\* followed by this one.
fails(r) ==
    /\ Running(r)
    /\ Goto(r, Raised(r))
    /\ tainted' = IF pc[r] \in Writing THEN tainted \cup {Subject(r)} ELSE tainted
    /\ UNCHANGED <<sr, top, config, artifacts, meta, audit, op, ours>>

\* Client gone or process down: no handler runs.
cancelled(r) ==
    /\ Running(r)
    /\ Goto(r, "done")
    /\ tainted' = IF pc[r] \in Writing THEN tainted \cup {Subject(r)} ELSE tainted
    /\ UNCHANGED <<sr, top, config, artifacts, meta, audit, op, ours>>

Upload(r) ==
    \/ _validate_files(r) \/ register_schema(r) \/ read_version(r) \/ set_compatibility_mode(r)
    \/ save_schema_metadata(r) \/ record_artifact(r) \/ file_refused(r) \/ save_upload_result(r)

Delete(r) ==
    \/ analyze(r) \/ \E blind \in BOOLEAN : analyze_delete_impact(r, blind)
    \/ delete_subject(r) \/ nothing_to_delete(r)
    \/ delete_artifact_by_subject(r) \/ artifacts_kept(r)

Rollback(r) ==
    \/ get_schema_by_version(r) \/ delete_version(r) \/ version_gone(r)
    \/ delete_artifacts_newer_than(r) \/ save_apply_result(r)

Settings(r) ==
    \/ \E blind \in BOOLEAN : describe_subjects(r, blind)
    \/ configure(r) \/ save_settings(r)

Close(r) == audit_completed(r) \/ audit_failed(r) \/ fails(r) \/ cancelled(r)

\* The bound on version numbers stops a model, never the service.
Finished ==
    /\ \A r \in Requests : pc[r] = "done"
    /\ UNCHANGED vars

Next ==
    \/ \E r \in Requests :
         \/ \E job \in Jobs :
              \/ upload_schemas(r, job) \/ analyze_schema_delete(r, job) \/ delete_schema(r, job)
              \/ execute_schema_rollback(r, job) \/ update_schema_settings(r, job)
         \/ Upload(r) \/ Delete(r) \/ Rollback(r) \/ Settings(r) \/ Close(r)
    \/ Finished

Spec == Init /\ [][Next]_vars

-----------------------------------------------------------------------------
(* Properties.                                                             *)

Settled(s) == s \notin tainted /\ \A r \in Requests : Running(r) => s \notin Touches(op[r].job)

ArtifactsLive(s) == \A v \in 1..MaxVersion : <<s, v>> \in artifacts => v \in Live(s)
OursRecorded(s)  == \A v \in Live(s) : <<s, v>> \in ours => <<s, v>> \in artifacts
ModeStored(s)    == meta[s].mode = config[s]
Mirrored(s)      == ArtifactsLive(s) /\ OursRecorded(s) /\ ModeStored(s)

\* Between requests the database mirrors the registry: the artifacts of a
\* subject are of live versions, every live version this service registered
\* has one, and the stored mode is the registry's, as long as no write on the
\* subject has failed and no two requests on it overlapped.  No transaction
\* spans the two stores, so this rests on the order and the completeness of
\* the calls of each use case.
MirrorAgrees == \A s \in Subjects : Settled(s) => Mirrored(s)

\* The number of files an upload has behind it.
Behind(r) == IF pc[r] \in {"uploaded", "closing"} THEN Len(op[r].job.files) ELSE op[r].k - 1

FileStored(job, i) ==
    LET f == job.files[i]
        s == _build_subject_name(job, f) IN
    \/ s \in tainted
    \/ /\ config[s] = job.mode
       /\ \E v, w \in Live(s) : sr[s][v] = f.schema /\ v <= w /\ <<s, w>> \in artifacts

\* An upload goes through its files in order and stops at the first that fails,
\* unlike the items of a batch apply: at any moment, an imminent COMPLETED or
\* FAILED row included, every file behind it is registered, its mode is set and
\* an artifact of its version or a later one is recorded, unless the subject
\* met a failure or another request.
UploadedPrefixStored ==
    \A r \in Requests :
      Running(r) /\ op[r].job.kind = "upload" =>
        \A i \in 1..Behind(r) : FileStored(op[r].job, i)

\* Where a request of each kind may be.
Stages(kind) ==
    CASE kind = "upload"   -> {"validating", "file", "registered", "versioned", "configured",
                               "described", "uploaded", "closing", "failing"}
      [] kind = "analyze"  -> {"analyzing", "closing"}
      [] kind = "delete"   -> {"analyzing", "deleting", "deleted", "closing", "failing"}
      [] kind = "rollback" -> {"reading", "stepping", "trimming", "saving"}
      [] kind = "settings" -> {"looking", "configuring", "describing", "closing"}
Staged ==
    \A r \in Requests : Running(r) =>
      /\ pc[r] \in Stages(op[r].job.kind)
      /\ op[r].job.kind = "upload" => op[r].k \in 1..Len(op[r].job.files)
      /\ pc[r] = "validating" => op[r].k = 1
      /\ pc[r] \in {"versioned", "configured", "described"} => op[r].version # 0

\* A subject on which nothing went wrong has one running request at most.
Alone ==
    \A q, r \in Requests : q # r /\ Running(q) /\ Running(r) =>
      Touches(op[q].job) \cap Touches(op[r].job) \subseteq tainted

\* Between the first and the last write of a request the two stores differ in
\* what it has still to do.
MidWay == {"registered", "versioned", "configured", "described", "deleted",
           "stepping", "trimming", "describing"}
NewIsLatest(s) == \A v \in Live(s) : <<s, v>> \in ours => <<s, v>> \in artifacts \/ v = Latest(s)
HalfUploaded(r, s) ==
    /\ ArtifactsLive(s) /\ NewIsLatest(s) /\ op[r].job.mode # None
    /\ \E v \in Live(s) : sr[s][v] = op[r].job.files[op[r].k].schema
    /\ pc[r] # "registered" => op[r].version = Latest(s)
    /\ IF pc[r] \in {"registered", "versioned"} THEN ModeStored(s) ELSE config[s] = op[r].job.mode
    /\ pc[r] = "described" => ModeStored(s)
HalfRolledBack(r, s) ==
    /\ OursRecorded(s) /\ ModeStored(s)
    /\ op[r].job.version \in Live(s)
    /\ Newer(s, op[r].job.version) = IF pc[r] = "stepping" THEN op[r].todo ELSE {}
    /\ pc[r] = "stepping" => op[r].todo # {}
    /\ \A v \in 1..MaxVersion :
         <<s, v>> \in artifacts => v \in Live(s) \/ v > op[r].job.version
HalfConfigured(r, s) ==
    /\ ArtifactsLive(s) /\ OursRecorded(s)
    /\ IF op[r].job.mode = None THEN ModeStored(s) ELSE config[s] = op[r].job.mode
Partial(r, s) ==
    /\ op[r].job.kind = "upload"   => HalfUploaded(r, s)
    /\ op[r].job.kind = "delete"   => Live(s) = {} /\ config[s] = None
    /\ op[r].job.kind = "rollback" => HalfRolledBack(r, s)
    /\ op[r].job.kind = "settings" => HalfConfigured(r, s)

HalfDone ==
    \A r \in Requests : pc[r] \in MidWay /\ Subject(r) \notin tainted => Partial(r, Subject(r))
MirroredElsewhere ==
    \A s \in Subjects \ tainted :
      Mirrored(s) \/ \E r \in Requests : pc[r] \in MidWay /\ Subject(r) = s

Unsafe(s) == Live(s) # {} /\ (_is_production_subject(s) \/ Latest(s) > Threshold)

\* What went on under a delete since it was judged safe.
JudgedSafe ==
    \A r \in Requests :
      LET s == op[r].job.subject IN
      pc[r] = "deleting" =>
        /\ op[r].seen <= top[s]
        /\ ~op[r].job.force /\ Unsafe(s) => op[r].blind \/ top[s] > op[r].seen

\* Whatever else goes on, the listed versions a rollback has not deleted are
\* those it still has in hand.
Pending(r) == {v \in Live(op[r].job.subject) : op[r].job.version < v /\ v <= op[r].seen}
Listed ==
    \A r \in Requests : pc[r] \in {"stepping", "trimming", "saving"} =>
      /\ op[r].seen <= top[op[r].job.subject]
      /\ \A v \in op[r].todo : op[r].job.version < v /\ v <= op[r].seen
      /\ IF pc[r] = "stepping" THEN op[r].todo # {} ELSE op[r].todo = {}
      /\ Pending(r) \subseteq op[r].todo

\* Well typed, one request at most on a subject where nothing went wrong, and
\* there the stores differ by what that request still has to do.
StoresInv == TypeOK /\ Staged /\ Alone /\ HalfDone /\ MirroredElsewhere /\ MirrorAgrees

\* The inductive invariant: besides, what a delete and a rollback have read
\* and the others have changed since, on every subject.
LifecycleInv == StoresInv /\ JudgedSafe /\ Listed

\* What a rollback takes away are versions newer than its target, each the
\* newest of those it listed, so that wherever it is interrupted, and whoever
\* else works on the subject, the target and the listed versions below the
\* break are left; and it goes on to the artifacts only when no listed version
\* newer than the target lives.  A version registered after the listing stays,
\* newer than the target.  (The description of the route, governance_router.py
\* line 326, announces something else: that the old schema is registered again
\* as a new version.)
RollbackStepsBack ==
    [][\A r \in Requests :
         pc[r] = "stepping" /\ op'[r] # op[r] =>
           LET s == op[r].job.subject
               left == DOMAIN sr'[s] IN
           /\ \E d \in Live(s) :
                /\ Live(s) \ left = {d} /\ op[r].job.version < d
                /\ \A v \in left : d < v => op[r].seen < v
           /\ pc'[r] = "trimming" =>
                \A v \in left : op[r].job.version < v => op[r].seen < v]_vars

Erases(r) == pc[r] = "deleting" /\ pc'[r] = "deleted" /\ ~op[r].job.force /\ Unsafe(op[r].job.subject)

\* Without force a subject that is in production or has many versions is
\* deleted only when its description failed and was taken for absence, or a
\* version was registered between the analysis and the deletion: no failed
\* write and no other request is an excuse.
UnsafeDeleteHasCause ==
    [][\A r \in Requests : Erases(r) =>
         op[r].blind \/ top[op[r].job.subject] > op[r].seen]_vars
=============================================================================
