---------------------------- MODULE VersionHistory ----------------------------
(***************************************************************************)
(* Who is shown as the author of a version, and what a listing of versions *)
(* contains (application/use_cases/governance/history.py, versions.py).    *)
(* The registry knows the versions; author and reason come from joining    *)
(* schema_artifacts, the audit log and the plans by change id.  Writers    *)
(* (apply, upload, sync, rollback) run between the reads of a view.        *)
(* One subject; a writer stands for its actor and for the reason it gives. *)
(***************************************************************************)
EXTENDS Naturals, FiniteSetsExt

CONSTANTS
    Writers, Readers,
    ChangeIds,     \* change ids that requesters choose, for applies and uploads
    MaxVersion,    \* bound on version numbers
    System,        \* the author shown for what nobody is known to have registered
    None

ASSUME HistoryAssumption ==
    /\ MaxVersion \in Nat
    /\ System \notin Writers /\ None \notin Writers \cup {System} \cup ChangeIds

Versions  == 1..MaxVersion
sync_id(w) == <<"sync", w>>                 \* sync_<uuid>: never shared
Ids       == ChangeIds \cup {sync_id(w) : w \in Writers}

VARIABLES
    sr, top,      \* the registry: live versions, highest number ever given
    artifacts,    \* schema_artifacts: the change id of a version, or None
    audit,        \* audit log: <<change id, actor>>
    plans,        \* plans: per change id the writer whose plan is stored, or None
    pc, op,       \* per writer
    at, view,     \* per reader
    maker,        \* history: who registered a version, System for what was there
    borrowed,     \* history: versions whose artifact another registration recorded
    stayed, tops  \* history: per reader the versions live since its call began, and
                  \* those that have been the latest since

vars == <<sr, top, artifacts, audit, plans, pc, op, at, view, maker, borrowed, stayed, tops>>
registry == <<sr, top, maker, stayed, tops>>
database == <<artifacts, audit, plans, borrowed>>
readers  == <<at, view>>

Latest(live) == IF live = {} THEN 0 ELSE Max(live)

\* made: the version that holds the registered schema; new: this request created
\* it; version: the version read back; todo: newer versions a rollback deletes.
NoOp   == [cid |-> None, made |-> 0, new |-> FALSE, version |-> 0, todo |-> {}]
Kinds  == {"history", "versions", "exact", "latest"}
NoView == [kind |-> "none", want |-> {}, todo |-> {}, got |-> {}, unread |-> {}]

TypeOK ==
    /\ top \in 0..MaxVersion /\ sr \subseteq 1..top
    /\ artifacts \in [Versions -> Ids \cup {None}]
    /\ audit \subseteq Ids \X Writers
    /\ plans \in [Ids -> Writers \cup {None}]
    /\ pc \in [Writers -> {"idle", "planning", "registering", "reading", "describing",
                           "recording", "stepping", "trimming", "done"}]
    /\ op \in [Writers -> [cid : Ids \cup {None}, made : 0..MaxVersion, new : BOOLEAN,
                           version : 0..MaxVersion, todo : SUBSET Versions]]
    /\ at \in [Readers -> {"idle", "describing", "checking", "listing", "fetching", "loading",
                           "answered", "error"}]
    /\ view \in [Readers -> [kind : Kinds \cup {"none"}, want : SUBSET Versions,
                             todo : SUBSET Versions, got : SUBSET Versions, unread : SUBSET Versions]]
    /\ maker \in [Versions -> Writers \cup {System}]
    /\ borrowed \subseteq Versions
    /\ stayed \in [Readers -> SUBSET Versions] /\ tops \in [Readers -> SUBSET (0..MaxVersion)]

Init ==
    /\ top \in 0..MaxVersion /\ sr = 1..top
    /\ artifacts = [v \in Versions |-> None]
    /\ audit = {}
    /\ plans = [c \in Ids |-> None]
    /\ pc = [w \in Writers |-> "idle"] /\ op = [w \in Writers |-> NoOp]
    /\ at = [r \in Readers |-> "idle"] /\ view = [r \in Readers |-> NoView]
    /\ maker = [v \in Versions |-> System]
    /\ borrowed = {}
    /\ stayed = [r \in Readers |-> {}] /\ tops = [r \in Readers |-> {}]

-----------------------------------------------------------------------------
(* Writers *)

Step(w, from, to) == pc[w] = from /\ pc' = [pc EXCEPT ![w] = to]

\* Every reader under way sees the registry change.
Observe(live) ==
    /\ sr' = live
    /\ stayed' = [r \in Readers |-> stayed[r] \cap live]
    /\ tops' = [r \in Readers |-> IF view[r].kind = "none" THEN {} ELSE tops[r] \cup {Latest(live)}]

\* The STARTED row of an apply, an upload or a sync.
log_started(w, label, c) ==
    /\ Step(w, "idle", label)
    /\ op' = [op EXCEPT ![w].cid = c]
    /\ audit' = audit \cup {<<c, w>>}
    /\ UNCHANGED <<registry, artifacts, plans, borrowed, readers>>
Begins(w) ==
    \/ \E c \in ChangeIds : log_started(w, "planning", c) \/ log_started(w, "registering", c)
    \/ log_started(w, "describing", sync_id(w))

\* Only an apply stores a plan; the stored plan of a change id is overwritten.
save_plan(w) ==
    /\ Step(w, "planning", "registering")
    /\ plans' = [plans EXCEPT ![op[w].cid] = w]
    /\ UNCHANGED <<registry, artifacts, audit, borrowed, op, readers>>

\* A new schema gets the next number, a schema that is already held keeps its own.
register_schema(w) ==
    /\ Step(w, "registering", "reading")
    /\ \/ /\ top < MaxVersion
          /\ top' = top + 1 /\ Observe(sr \cup {top + 1})
          /\ maker' = [maker EXCEPT ![top + 1] = w]
          /\ op' = [op EXCEPT ![w].made = top + 1, ![w].new = TRUE]
       \/ \E v \in sr : op' = [op EXCEPT ![w].made = v] /\ UNCHANGED registry
    /\ UNCHANGED <<database, readers>>

\* An apply or an upload, after registering, and a sync all take the greatest version.
read_version(w) ==
    /\ sr # {}
    /\ Step(w, "reading", "recording") \/ Step(w, "describing", "recording")
    /\ op' = [op EXCEPT ![w].version = Latest(sr)]
    /\ UNCHANGED <<registry, database, readers>>

Record(w, v) ==
    /\ artifacts' = [artifacts EXCEPT ![v] = op[w].cid]
    /\ borrowed' = IF op[w].new /\ op[w].made = op[w].version
                   THEN borrowed \ {op[w].version} ELSE borrowed \cup {op[w].version}
record_artifact_Latest(w) ==
    /\ Step(w, "recording", "done") /\ sr # {}
    /\ Record(w, Latest(sr))
    /\ UNCHANGED <<registry, audit, plans, op, readers>>
\* An upsert that overwrites the change id of the row.
record_artifact(w) ==
    /\ Step(w, "recording", "done")
    /\ Record(w, op[w].version)
    /\ UNCHANGED <<registry, audit, plans, op, readers>>

\* A rollback to a live version deletes what is newer, newest first.
rollback(w) ==
    /\ \E v \in sr :
         LET newer == {u \in sr : u > v}
         IN  /\ Step(w, "idle", IF newer = {} THEN "done" ELSE "stepping")
             /\ op' = [op EXCEPT ![w].version = v, ![w].todo = newer]
    /\ UNCHANGED <<registry, database, readers>>
delete_version(w) ==
    LET v == Max(op[w].todo)
    IN  /\ pc[w] = "stepping" /\ v \in sr
        /\ Observe(sr \ {v})
        /\ op' = [op EXCEPT ![w].todo = @ \ {v}]
        /\ Step(w, "stepping", IF op[w].todo = {v} THEN "trimming" ELSE "stepping")
        /\ UNCHANGED <<top, maker, database, readers>>
delete_artifacts_newer_than(w) ==
    /\ Step(w, "trimming", "done")
    /\ artifacts' = [v \in Versions |-> IF v > op[w].version THEN None ELSE artifacts[v]]
    /\ UNCHANGED <<registry, audit, plans, borrowed, op, readers>>

\* A call that fails, a version or a subject that has gone, a cancelled request.
fails(w) ==
    /\ pc[w] \notin {"idle", "done"}
    /\ Step(w, pc[w], "done")
    /\ UNCHANGED <<registry, database, op, readers>>

-----------------------------------------------------------------------------
(* Readers *)

Move(r, from, to) == at[r] = from /\ at' = [at EXCEPT ![r] = to]
writers == <<pc, op, database, registry>>

\* The history starts with the list of versions, the other views by describing the
\* subject.  An exact view is of one version, a comparison of two.
First(kind) == CASE kind = "history" -> "listing"
                 [] kind = "latest"  -> "describing"
                 [] OTHER            -> "checking"
Fresh(kind, want) == [NoView EXCEPT !.kind = kind, !.want = want]
Wanted(kind) == IF kind = "exact" THEN {{v, u} : v, u \in Versions} ELSE {{}}
open_view(r) ==
    /\ at[r] = "idle"
    /\ \E kind \in Kinds : \E want \in Wanted(kind) :
         /\ view' = [view EXCEPT ![r] = Fresh(kind, want)]
         /\ at' = [at EXCEPT ![r] = First(kind)]
    /\ stayed' = [stayed EXCEPT ![r] = sr]
    /\ tops' = [tops EXCEPT ![r] = {Latest(sr)}]
    /\ UNCHANGED <<sr, top, maker, database, pc, op>>

execute_latest_Artifact(r) ==
    /\ sr # {} /\ Move(r, "describing", "checking")
    /\ LET known == {v \in sr : artifacts[v] # None}
       IN  view' = [view EXCEPT ![r].want = {IF known = {} THEN Latest(sr) ELSE Max(known)}]
    /\ UNCHANGED writers
\* The export of the latest version fixes its number first, and then asks for that
\* version like an exact view.
execute_latest(r) ==
    /\ sr # {} /\ Move(r, "describing", "checking")
    /\ view' = [view EXCEPT ![r].want = {Latest(sr)}]
    /\ UNCHANGED writers

_ensure_subject_exists(r) ==
    /\ sr # {} /\ Move(r, "checking", "listing")
    /\ UNCHANGED <<view, writers>>

\* Versions asked for by number have to be listed; a subject without versions is
\* an error of the registry.
get_schema_versions(r) ==
    LET kind == view[r].kind
    IN  /\ sr # {} /\ view[r].want \subseteq sr
        /\ Move(r, "listing", IF kind = "history" THEN "loading" ELSE "fetching")
        /\ view' = [view EXCEPT ![r].todo = IF kind \in {"history", "versions"} THEN sr ELSE view[r].want]
        /\ UNCHANGED writers

\* The reads of single versions run concurrently.
get_schema_by_version(r, v) ==
    /\ at[r] = "fetching" /\ v \in view[r].todo \cap sr
    /\ view' = [view EXCEPT ![r].todo = @ \ {v}, ![r].got = @ \cup {v}]
    /\ UNCHANGED <<at, writers>>

version_unread_Dropped(r, v) ==
    /\ at[r] = "fetching" /\ v \in view[r].todo
    /\ view' = [view EXCEPT ![r].todo = @ \ {v}, ![r].unread = @ \cup {v}]
    /\ UNCHANGED <<at, writers>>
\* A version that cannot be read, deleted or not: the history leaves it out, every
\* other view fails.
version_unread(r, v) ==
    /\ at[r] = "fetching" /\ v \in view[r].todo
    /\ IF view[r].kind = "history"
       THEN /\ view' = [view EXCEPT ![r].todo = @ \ {v}, ![r].unread = @ \cup {v}]
            /\ UNCHANGED at
       ELSE Move(r, "fetching", "error") /\ UNCHANGED view
    /\ UNCHANGED writers

\* The history has read the database before the versions, the others read it last.
gathered(r) ==
    /\ view[r].todo = {}
    /\ Move(r, "fetching", IF view[r].kind = "history" THEN "answered" ELSE "loading")
    /\ UNCHANGED <<view, writers>>
_load_context(r) ==
    /\ Move(r, "loading", IF view[r].kind = "history" THEN "fetching" ELSE "answered")
    /\ UNCHANGED <<view, writers>>

\* No subject, a version not listed, or a call that fails.
view_fails(r) ==
    /\ at[r] \in {"describing", "checking", "listing", "loading"}
    /\ Move(r, at[r], "error")
    /\ UNCHANGED <<view, writers>>

-----------------------------------------------------------------------------
(* What a view shows of a version, from the rows it joins. *)

\* The last row read for a change id wins, and the query names no order.
audit_logs(c) == {a \in Writers : <<c, a>> \in audit}
Author(v) ==
    IF artifacts[v] = None \/ audit_logs(artifacts[v]) = {} THEN {System} ELSE audit_logs(artifacts[v])
commit_message(v) == IF artifacts[v] = None THEN None ELSE plans[artifacts[v]]

-----------------------------------------------------------------------------
Next ==
    \/ \E w \in Writers :
         \/ Begins(w) \/ save_plan(w) \/ register_schema(w) \/ read_version(w)
         \/ record_artifact(w) \/ rollback(w) \/ delete_version(w)
         \/ delete_artifacts_newer_than(w) \/ fails(w)
    \/ \E r \in Readers :
         \/ open_view(r) \/ execute_latest(r) \/ _ensure_subject_exists(r)
         \/ get_schema_versions(r) \/ gathered(r) \/ _load_context(r) \/ view_fails(r)
         \/ \E v \in Versions : get_schema_by_version(r, v) \/ version_unread(r, v)

Spec == Init /\ [][Next]_vars

-----------------------------------------------------------------------------
Shared(c) == \E a, b \in audit_logs(c) : a # b

(***************************************************************************)
(* The author and the reason shown for a version are those of the request  *)
(* that registered it, unless nothing was recorded for it, a sync recorded *)
(* it anew, several actors used its change id, or the row was written by a *)
(* request that registered another version or nothing new (register_schema *)
(* returns the greatest version).                                          *)
(***************************************************************************)
CreditHasCause ==
    \A v \in sr :
      \/ artifacts[v] \in {None} \cup {sync_id(w) : w \in Writers}
      \/ Shared(artifacts[v])
      \/ v \in borrowed
      \/ Author(v) = {maker[v]} /\ commit_message(v) \in {None, maker[v]}

\* A version that its own registration recorded last has its maker in the audit
\* log, under the change id of the row; what nobody has registered has no row, and
\* the plan of a change id is that of somebody who logged it.
RowsKnown ==
    /\ \A v \in Versions : artifacts[v] \in ChangeIds /\ v \notin borrowed =>
         <<artifacts[v], maker[v]>> \in audit
    /\ \A v \in Versions : v > top => artifacts[v] = None
    /\ \A c \in Ids : plans[c] # None => <<c, plans[c]>> \in audit

\* A writer has logged its change id, is the maker of the version it has created,
\* and records a version that exists or has existed.
WritersKnown ==
    \A w \in Writers :
      /\ pc[w] \in {"idle", "planning", "registering", "describing"} => ~op[w].new
      /\ pc[w] \in {"planning", "registering", "reading", "describing", "recording"} =>
           <<op[w].cid, w>> \in audit
      /\ op[w].new => op[w].made \in 1..top /\ maker[op[w].made] = w
      /\ pc[w] = "recording" => op[w].version \in 1..top

\* What a view under way has read and still has to read is what was asked for, or
\* all that has been live since it began; an export asks for what was the latest.
Reading == {"fetching", "loading", "answered"}
ViewsSound ==
    \A r \in Readers :
      /\ stayed[r] \subseteq sr
      /\ view[r].kind \in Kinds \/ (at[r] = "idle" /\ view[r] = NoView)
      /\ at[r] # "idle" => view[r].kind \in Kinds /\ Latest(sr) \in tops[r]
      /\ at[r] = "describing" => view[r].kind = "latest"
      /\ at[r] \in {"describing", "checking", "listing"} => view[r].got = {} /\ view[r].unread = {}
      /\ view[r].kind = "latest" /\ at[r] \in {"checking", "listing"} \cup Reading =>
           view[r].want # {} /\ view[r].want \subseteq tops[r]
      /\ at[r] \in Reading =>
           IF view[r].kind \in {"exact", "latest"}
           THEN view[r].got \cup view[r].todo = view[r].want
           ELSE stayed[r] \subseteq view[r].got \cup view[r].unread \cup view[r].todo
      /\ view[r].kind # "history" => view[r].unread = {}
      /\ at[r] = "answered" \/ (at[r] = "loading" /\ view[r].kind # "history") => view[r].todo = {}

\* The inductive invariant: well typed, every author and reason shown with its
\* cause, and the requests and views under way consistent with the rows.
HistoryInv == TypeOK /\ CreditHasCause /\ RowsKnown /\ WritersKnown /\ ViewsSound

(***************************************************************************)
(* A list of versions that is answered leaves out no version that was live *)
(* during the whole call, whatever a rollback deletes meanwhile; a history *)
(* leaves out at most those it could not read, and a view of versions by   *)
(* number has all of them.                                                 *)
(***************************************************************************)
ListingIsWhole ==
    \A r \in Readers : at[r] = "answered" =>
      CASE view[r].kind = "versions" -> stayed[r] \subseteq view[r].got
        [] view[r].kind = "history"  -> stayed[r] \subseteq view[r].got \cup view[r].unread
        [] OTHER                     -> view[r].got = view[r].want

(***************************************************************************)
(* The export of the latest schema delivers a version that was the latest  *)
(* at some moment of the call (execute_latest reads twice).                *)
(***************************************************************************)
ExportWasLatest ==
    \A r \in Readers :
      at[r] = "answered" /\ view[r].kind = "latest" => view[r].got # {} /\ view[r].got \subseteq tops[r]
=============================================================================
