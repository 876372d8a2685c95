---------------------------- MODULE GovernanceStats ----------------------------
(***************************************************************************)
(* The governance dashboard                                                *)
(* (application/use_cases/governance/stats.py).  The dashboard             *)
(* lists the subjects of the registry, reads the artifacts with the owner  *)
(* of their subject, and then describes a sample of the subjects           *)
(* concurrently; subjects come, go and get owners meanwhile.               *)
(***************************************************************************)
EXTENDS Naturals, Sequences, SequencesExt, FiniteSetsExt

CONSTANTS
    SubjectNames, Owners,
    Sample,        \* how many subjects are described: 50 in the code
    MaxChanges,    \* bound on the changes made by other requests
    None

ASSUME StatsAssumption ==
    IsFiniteSet(SubjectNames) /\ Sample \in Nat /\ MaxChanges \in Nat /\ None \notin Owners

VARIABLES
    sr,          \* the subjects of the registry
    artifacts,   \* subjects with a row in schema_artifacts
    owner,       \* schema_metadata: the owner of a subject, or None
    at,          \* program counter of the dashboard request
    listed,      \* all_subjects, in the order of the registry
    meta_map,    \* per subject with an artifact its owner, for the others absent
    todo,        \* sampled subjects still to describe
    counted,     \* subjects counted as orphans
    undescribed, \* sampled subjects left out: a failed or an empty description
    changes,     \* number of changes so far
    owned,       \* history: subjects that had an owner at some moment of the request
    bare,        \* history: subjects that had no owner at some moment of the request
    stayed       \* history: subjects in the registry since the request began

statsVars == <<sr, artifacts, owner, at, listed, meta_map, todo, counted, undescribed, changes, owned, bare, stayed>>
request == <<at, listed, meta_map, todo, counted, undescribed>>
world   == <<sr, artifacts, owner, changes, owned, bare, stayed>>

HasOwner == {s \in SubjectNames : owner[s] # None}

StatsTypeOK ==
    /\ sr \subseteq SubjectNames /\ artifacts \subseteq SubjectNames
    /\ owner \in [SubjectNames -> Owners \cup {None}]
    /\ at \in {"idle", "listed", "mapped", "describing", "answered", "error", "zeros"}
    /\ listed \in Seq(SubjectNames) /\ Len(listed) = Cardinality(ToSet(listed))
    /\ DOMAIN meta_map \subseteq SubjectNames
    /\ todo \subseteq SubjectNames /\ counted \subseteq SubjectNames /\ undescribed \subseteq SubjectNames
    /\ changes \in 0..MaxChanges

StatsInit ==
    /\ sr \in SUBSET SubjectNames /\ artifacts \in SUBSET sr
    /\ owner = [s \in SubjectNames |-> None]
    /\ at = "idle" /\ listed = <<>> /\ meta_map = <<>>
    /\ todo = {} /\ counted = {} /\ undescribed = {}
    /\ changes = 0
    /\ owned = {} /\ bare = {} /\ stayed = {}

-----------------------------------------------------------------------------
(* Other requests *)

Changed ==
    /\ changes < MaxChanges /\ changes' = changes + 1
    /\ owned' = owned \cup {s \in SubjectNames : owner'[s] # None}
    /\ bare' = bare \cup {s \in SubjectNames : owner'[s] = None}
    /\ stayed' = stayed \cap sr'
    /\ UNCHANGED request

\* A registration by this service, or by another client of the registry.
register_schema(s) ==
    /\ sr' = sr \cup {s}
    /\ artifacts' \in {artifacts, artifacts \cup {s}}
    /\ UNCHANGED owner
    /\ Changed
\* An upload and the settings write the owner.  The settings always send one and
\* need no artifact: left out, blank or a placeholder, it erases the stored one.
save_schema_metadata(s) ==
    /\ \E o \in Owners \cup {None} : owner' = [owner EXCEPT ![s] = o]
    /\ UNCHANGED <<sr, artifacts>>
    /\ Changed
\* Deletion of a subject, with its rows unless the database fails.
delete_subject(s) ==
    /\ s \in sr /\ sr' = sr \ {s}
    /\ \/ artifacts' = artifacts \ {s} /\ owner' = [owner EXCEPT ![s] = None]
       \/ UNCHANGED <<artifacts, owner>>
    /\ Changed

-----------------------------------------------------------------------------
(* The dashboard *)

\* The registry lists its subjects in an order of its own.
list_all_subjects ==
    /\ at = "idle" /\ at' = "listed"
    /\ listed' \in SetToSeqs(sr)
    /\ owned' = HasOwner /\ bare' = SubjectNames \ HasOwner /\ stayed' = sr
    /\ UNCHANGED <<sr, artifacts, owner, changes, meta_map, todo, counted, undescribed>>

list_artifacts_NoOwner ==
    /\ at = "listed" /\ at' = "mapped"
    /\ meta_map' = [s \in artifacts \cap ToSet(listed) |-> None]
    /\ UNCHANGED <<world, listed, todo, counted, undescribed>>
\* Owners are found through artifacts: a subject without one has no entry.
list_artifacts ==
    /\ at = "listed" /\ at' = "mapped"
    /\ meta_map' = [s \in artifacts \cap ToSet(listed) |-> owner[s]]
    /\ UNCHANGED <<world, listed, todo, counted, undescribed>>

target_subjects == IF Len(listed) <= Sample THEN ToSet(listed) ELSE ToSet(SubSeq(listed, 1, Sample))

\* The policies are loaded, then the sample is described concurrently.
list_active_policies ==
    /\ at = "mapped" /\ at' = "describing"
    /\ todo' = target_subjects
    /\ UNCHANGED <<world, listed, meta_map, counted, undescribed>>

\* The owner in the list of top subjects; a subject without one counts as orphan.
stat_owner(s) == IF s \in DOMAIN meta_map THEN meta_map[s] ELSE None
describe_subjects_AnyMeta(s) ==
    /\ at = "describing" /\ s \in todo \cap sr
    /\ todo' = todo \ {s}
    /\ counted' = IF s \notin DOMAIN meta_map THEN counted \cup {s} ELSE counted
    /\ UNCHANGED <<world, at, listed, meta_map, undescribed>>
describe_subjects(s) ==
    /\ at = "describing" /\ s \in todo \cap sr
    /\ todo' = todo \ {s}
    /\ counted' = IF stat_owner(s) = None THEN counted \cup {s} ELSE counted
    /\ UNCHANGED <<world, at, listed, meta_map, undescribed>>
\* An exception, or a subject that is absent or whose read failed, is passed over.
describe_skipped(s) ==
    /\ at = "describing" /\ s \in todo
    /\ todo' = todo \ {s}
    /\ undescribed' = undescribed \cup {s}
    /\ UNCHANGED <<world, at, listed, meta_map, counted>>

\* SubjectNames beyond the sample are added to the orphans.
orphan_subjects == Cardinality(counted) + (Len(listed) - Cardinality(target_subjects))
answer ==
    /\ at = "describing" /\ todo = {} /\ at' = "answered"
    /\ UNCHANGED <<world, listed, meta_map, todo, counted, undescribed>>

\* Without a client the dashboard shows zeros.
no_client ==
    /\ at = "idle" /\ at' = "zeros"
    /\ UNCHANGED <<world, listed, meta_map, todo, counted, undescribed>>
\* A registry or database error, or, once the sample is described, a schema type
\* or a compatibility mode that is none of the known ones or a policy that cannot
\* be evaluated.
stats_fail ==
    /\ at \in {"idle", "listed", "mapped", "describing"} /\ at' = "error"
    /\ UNCHANGED <<world, listed, meta_map, todo, counted, undescribed>>

StatsNext ==
    \/ list_all_subjects \/ list_artifacts \/ list_active_policies \/ answer \/ no_client \/ stats_fail
    \/ \E s \in SubjectNames :
         \/ register_schema(s) \/ save_schema_metadata(s) \/ delete_subject(s)
         \/ describe_subjects(s) \/ describe_skipped(s)

StatsSpec == StatsInit /\ [][StatsNext]_statsVars

-----------------------------------------------------------------------------
(***************************************************************************)
(* The dashboard hides no orphan: the number it shows is at least that of  *)
(* the subjects that were in the registry and without an owner during the  *)
(* whole request and whose description did not fail, the ones beyond the   *)
(* sample included.                                                        *)
(***************************************************************************)
NoOrphanHidden ==
    at = "answered" => Cardinality((stayed \ owned) \ undescribed) <= orphan_subjects

(***************************************************************************)
(* A subject that had an owner during the whole request, and an artifact   *)
(* when the artifacts were read, is not among the counted orphans.         *)
(***************************************************************************)
CountedHasCause ==
    at = "answered" => \A s \in counted : s \in bare \/ s \notin DOMAIN meta_map

\* What the request has taken down agrees with what has been the case since it began:
\* who had an owner and who had none, and what becomes of each sampled subject.
Asked == {"listed", "mapped", "describing", "answered"}
RequestKnows ==
    /\ at \in {"idle", "listed"} => meta_map = <<>> /\ counted = {}
    /\ at = "mapped" => counted = {}
    /\ at = "answered" => todo = {}
    /\ at \in Asked =>
         /\ HasOwner \subseteq owned /\ SubjectNames \ HasOwner \subseteq bare
         /\ stayed \subseteq ToSet(listed)
         /\ \A s \in DOMAIN meta_map : IF meta_map[s] = None THEN s \in bare ELSE s \in owned
         /\ \A s \in counted : s \in bare \/ s \notin DOMAIN meta_map
    /\ at \in {"describing", "answered"} =>
         target_subjects \subseteq todo \cup counted \cup undescribed \cup owned

\* The inductive invariant: well typed, no subject listed twice, no owned subject
\* among the orphans, and every sampled subject accounted for.
StatsInv == StatsTypeOK /\ CountedHasCause /\ RequestKnows
=============================================================================
