------------------------------- MODULE SchemaApply -------------------------------
(***************************************************************************)
(* The two batch use cases, dry run and apply, running concurrently        *)
(* against one Schema Registry and one database                            *)
(* (application/use_cases/batch/dry_run.py and apply.py, with the planner, *)
(* the registry adapter and the repositories they call).  Every await is a *)
(* step boundary.  Every call may fail, and a request may be cancelled     *)
(* (client gone, process down) at any await.                               *)
(***************************************************************************)
EXTENDS PolicyPack, Sequences

CONSTANTS
    Requests,    \* running use cases
    ChangeIds,   \* change ids a requester may put on a batch
    Subjects,
    Forms,       \* the batches a requester may submit
    Histories,   \* the schemas a subject may start with, oldest first
    Unread,      \* describe_subjects has not come to the subject yet
    Nobody       \* no request

\* A batch: one spec per subject, the subjects marked dry_run_only, and the
\* policies list_active_policies returns for it.
ASSUME FormsAssumption ==
    /\ Forms # {}
    /\ \A f \in Forms :
         /\ DOMAIN f = {"env", "specs", "dryOnly", "policies"}
         /\ f.env \in Envs
         /\ DOMAIN f.specs \in (SUBSET Subjects) \ {{}}
         /\ \A s \in DOMAIN f.specs : f.specs[s] \in SchemaSpec
         /\ f.dryOnly \subseteq DOMAIN f.specs
         /\ f.policies \subseteq LintPolicy \cup GuardPolicy

ASSUME HistoriesAssumption == Histories \subseteq Seq(Schema)
ASSUME NamesAssumption ==
    /\ Subjects # {}
    /\ Nobody \notin Requests \cup ChangeIds
    /\ Unread \notin Schema \cup {NoSchema}

VARIABLES
    sr,         \* the registry: per subject its versions, oldest first
    plans,      \* schema_plans by change id: the request that saved the row last
    results,    \* schema_apply_results by change id: the request that inserted the row
    artifacts,  \* schema_artifacts, keyed by subject and version
    audit,      \* the audit log
    approvals,  \* requests that have raised an approval request
    pc, op      \* per request: program counter and locals

vars == <<sr, plans, results, artifacts, audit, approvals, pc, op>>

\* A version remembers who registered it; that is history, the registry does not.
Version  == [schema : Schema, by : Requests \cup {Nobody}]
Artifact == [subject : Subjects, version : Nat, schema : Schema, change : ChangeIds]
Modes    == {"dry_run", "apply"}
Audit    == [by : Requests, change : ChangeIds, mode : Modes,
             status : {"STARTED", "COMPLETED", "FAILED"}]

\* The request (mode, change, form, override); current: what describe_subjects
\* found; bad: subjects with a negative compatibility report; the lists of the
\* apply loop; item, version: the item in hand; hurt: history, a call of this
\* request has failed or the request was cancelled.
Op == [mode : Modes, change : ChangeIds \cup {Nobody}, form : Forms, override : BOOLEAN,
       current : [Subjects -> Schema \cup {NoSchema, Unread}], bad : SUBSET Subjects,
       todo : SUBSET Subjects, registered : SUBSET Subjects, skipped : SUBSET Subjects,
       failed : SUBSET Subjects, item : Subjects, version : Nat, hurt : BOOLEAN]

Pcs == {"idle", "describing", "applying", "registered", "versioned",
        "completing", "approval", "failing", "done"}

TypeOK ==
    /\ sr \in [Subjects -> Seq(Version)]
    /\ plans \in [ChangeIds -> Requests \cup {Nobody}]
    /\ results \in [ChangeIds -> Requests \cup {Nobody}]
    /\ artifacts \subseteq Artifact
    /\ audit \subseteq Audit
    /\ approvals \subseteq Requests
    /\ pc \in [Requests -> Pcs]
    /\ op \in [Requests -> Op]
    /\ \A q \in Requests : pc[q] # "idle" => op[q].change \in ChangeIds

NewOp(m, c, f, o) ==
    [mode |-> m, change |-> c, form |-> f, override |-> o,
     current |-> [s \in Subjects |-> Unread], bad |-> {}, todo |-> {},
     registered |-> {}, skipped |-> {}, failed |-> {},
     item |-> CHOOSE s \in Subjects : TRUE, version |-> 0, hurt |-> FALSE]

Init ==
    /\ \E h \in [Subjects -> Histories] :
         sr = [s \in Subjects |-> [i \in DOMAIN h[s] |-> [schema |-> h[s][i], by |-> Nobody]]]
    /\ plans = [c \in ChangeIds |-> Nobody]
    /\ results = [c \in ChangeIds |-> Nobody]
    /\ artifacts = {}
    /\ audit = {}
    /\ approvals = {}
    /\ pc = [q \in Requests |-> "idle"]
    /\ op = [q \in Requests |-> NewOp("dry_run", Nobody, CHOOSE f \in Forms : TRUE, FALSE)]

------------------------------------------------------------------------------
(* Planning. *)

Batch(q) == DOMAIN op[q].form.specs
Goto(q, l) == pc' = [pc EXCEPT ![q] = l]

log_operation(q, c, m, st) ==
    audit' = audit \cup {[by |-> q, change |-> c, mode |-> m, status |-> st]}

\* The request arrives and its STARTED row is written.  When that write fails
\* the request ends without a trace and is not modelled.
Start(q, m, c, f, o) ==
    /\ pc[q] = "idle"
    /\ op' = [op EXCEPT ![q] = NewOp(m, c, f, o)]
    /\ log_operation(q, c, m, "STARTED")
    /\ Goto(q, "describing")
    /\ UNCHANGED <<sr, plans, results, artifacts, approvals>>

\* _get_latest_schema_version_info on the registry as it is now.
Latest(s) == IF sr[s] = <<>> THEN NoSchema ELSE sr[s][Len(sr[s])].schema

\* describe_subjects reads one subject.  A registry error on one subject is
\* logged and the subject is left out, as if it did not exist.
describe_subject(q, s) ==
    /\ pc[q] = "describing"
    /\ s \in Batch(q)
    /\ op[q].current[s] = Unread
    /\ \E found \in {Latest(s), NoSchema} :
         op' = [op EXCEPT ![q].current[s] = found,
                          ![q].hurt = @ \/ found # Latest(s)]
    /\ UNCHANGED <<sr, plans, results, artifacts, audit, approvals, pc>>

\* The evaluation of request q, given its negative compatibility reports.
Violations(q) == plan_violations(op[q].form.env, op[q].form.specs, op[q].form.policies)
Rules(q, bad) ==
    evaluate_rules(op[q].form.env, op[q].form.specs, op[q].current, bad, Violations(q))
CanApply(q, bad) ==
    can_apply(bad, evaluate_violations(op[q].form.env, op[q].form.specs, op[q].current, bad,
                                       Violations(q)))

\* The split of the plan's items: nothing to do, or marked dry_run_only.
Skipped(q) ==
    {s \in Batch(q) :
       \/ _determine_plan_action(op[q].current[s], text(op[q].form.specs[s])) = "NONE"
       \/ s \in op[q].form.dryOnly}

\* Mutant: the approval gate is forgotten, can_apply decides alone.
AfterPlan_NoApproval(q, bad) ==
    IF op[q].mode = "dry_run" THEN "completing"
    ELSE IF CanApply(q, bad) THEN "applying" ELSE "failing"

\* Where save_plan returns to: a dry run is complete, an apply meets the two
\* gates and starts its loop.
AfterPlan(q, bad) ==
    IF op[q].mode = "dry_run" THEN "completing"
    ELSE LET gate == ensure_approval(Rules(q, bad), op[q].override) IN
         IF gate = "approval_required" THEN "approval"
         ELSE IF gate = "pass" /\ CanApply(q, bad) THEN "applying" ELSE "failing"

\* The compatibility reports are in (bad holds the negative ones: the registry
\* said no, or did not answer), no policy raised, the plan is evaluated and saved.
save_plan(q, bad) ==
    /\ pc[q] = "describing"
    /\ \A s \in Batch(q) : op[q].current[s] # Unread
    /\ ~plan_raises(op[q].form.env, op[q].form.specs, op[q].form.policies)
    /\ plans' = [plans EXCEPT ![op[q].change] = q]
    /\ Goto(q, AfterPlan(q, bad))
    /\ op' = [op EXCEPT ![q].bad = bad, ![q].skipped = Skipped(q),
                        ![q].todo = Batch(q) \ Skipped(q)]
    /\ UNCHANGED <<sr, results, artifacts, audit, approvals>>

------------------------------------------------------------------------------
(* The apply loop: one item at a time, an exception moves on to the next. *)

\* The registry's answer to a registration: a schema it already has keeps its
\* version, a new one becomes the latest.
Registered(q, s) ==
    LET new == op[q].form.specs[s].schema IN
    IF \E i \in DOMAIN sr[s] : sr[s][i].schema = new THEN sr
    ELSE [sr EXCEPT ![s] = Append(@, [schema |-> new, by |-> q])]

\* Mutant: the subject is listed as registered before the item is through.
register_ListedEarly(q, s) ==
    /\ pc[q] = "applying"
    /\ s \in op[q].todo
    /\ sr' = Registered(q, s)
    /\ op' = [op EXCEPT ![q].item = s, ![q].todo = @ \ {s}, ![q].registered = @ \cup {s}]
    /\ Goto(q, "registered")
    /\ UNCHANGED <<plans, results, artifacts, audit, approvals>>

\* The first call of register_schema.
register(q, s) ==
    /\ pc[q] = "applying"
    /\ s \in op[q].todo
    /\ sr' = Registered(q, s)
    /\ op' = [op EXCEPT ![q].item = s, ![q].todo = @ \ {s}]
    /\ Goto(q, "registered")
    /\ UNCHANGED <<plans, results, artifacts, audit, approvals>>

\* It raises: the registry refused, or it registered and the answer was lost.
register_fails(q, s) ==
    /\ pc[q] = "applying"
    /\ s \in op[q].todo
    /\ sr' \in {sr, Registered(q, s)}
    /\ op' = [op EXCEPT ![q].failed = @ \cup {s}, ![q].todo = @ \ {s}, ![q].hurt = TRUE]
    /\ UNCHANGED <<plans, results, artifacts, audit, approvals, pc>>

\* Mutant: always the fallback version.
read_version_Fallback(q) ==
    /\ pc[q] = "registered"
    /\ op' = [op EXCEPT ![q].version = 1]
    /\ Goto(q, "versioned")
    /\ UNCHANGED <<sr, plans, results, artifacts, audit, approvals>>

\* The second call of register_schema: the version is the greatest one the
\* subject has by now.
read_version(q) ==
    /\ pc[q] = "registered"
    /\ op' = [op EXCEPT ![q].version = Len(sr[op[q].item])]
    /\ Goto(q, "versioned")
    /\ UNCHANGED <<sr, plans, results, artifacts, audit, approvals>>

\* record_artifact: an upsert on subject and version.
Upserted(row) ==
    {a \in artifacts : <<a.subject, a.version>> # <<row.subject, row.version>>} \cup {row}

\* _persist_artifact, then the event, whose failures the bus swallows.
record_artifact(q) ==
    LET s == op[q].item IN
    /\ pc[q] = "versioned"
    /\ artifacts' = Upserted([subject |-> s, version |-> op[q].version,
                              schema |-> op[q].form.specs[s].schema, change |-> op[q].change])
    /\ op' = [op EXCEPT ![q].registered = @ \cup {s}]
    /\ Goto(q, "applying")
    /\ UNCHANGED <<sr, plans, results, audit, approvals>>

\* Either of the two calls after the registration raises.
item_fails(q) ==
    /\ pc[q] \in {"registered", "versioned"}
    /\ op' = [op EXCEPT ![q].failed = @ \cup {op[q].item}, ![q].hurt = TRUE]
    /\ Goto(q, "applying")
    /\ UNCHANGED <<sr, plans, results, artifacts, audit, approvals>>

------------------------------------------------------------------------------
(* Closing. *)

\* Mutant: an upsert, as in save_plan.
save_apply_result_Upsert(q) ==
    /\ pc[q] = "applying"
    /\ op[q].todo = {}
    /\ results' = [results EXCEPT ![op[q].change] = q]
    /\ Goto(q, "completing")
    /\ UNCHANGED <<sr, plans, artifacts, audit, approvals, op>>

\* Mutant: the integrity error is swallowed.
save_apply_result_Swallowed(q) ==
    /\ pc[q] = "applying"
    /\ op[q].todo = {}
    /\ results' = [results EXCEPT ![op[q].change] = IF @ = Nobody THEN q ELSE @]
    /\ Goto(q, "completing")
    /\ UNCHANGED <<sr, plans, artifacts, audit, approvals, op>>

\* save_apply_result: an insert; a row with this change id makes it raise.
save_apply_result(q) ==
    LET c == op[q].change IN
    /\ pc[q] = "applying"
    /\ op[q].todo = {}
    /\ IF results[c] = Nobody
         THEN results' = [results EXCEPT ![c] = q] /\ Goto(q, "completing")
         ELSE UNCHANGED results /\ Goto(q, "failing")
    /\ UNCHANGED <<sr, plans, artifacts, audit, approvals, op>>

audit_completed(q) ==
    /\ pc[q] = "completing"
    /\ log_operation(q, op[q].change, op[q].mode, "COMPLETED")
    /\ Goto(q, "done")
    /\ UNCHANGED <<sr, plans, results, artifacts, approvals, op>>

\* Mutant: the handler raises again without its audit row.
_create_approval_request_Unlogged(q) ==
    /\ pc[q] = "approval"
    /\ approvals' = approvals \cup {q}
    /\ Goto(q, "done")
    /\ UNCHANGED <<sr, plans, results, artifacts, audit, op>>

\* except ApprovalRequiredError: the approval request is created first.
_create_approval_request(q) ==
    /\ pc[q] = "approval"
    /\ approvals' = approvals \cup {q}
    /\ Goto(q, "failing")
    /\ UNCHANGED <<sr, plans, results, artifacts, audit, op>>

audit_failed(q) ==
    /\ pc[q] = "failing"
    /\ log_operation(q, op[q].change, op[q].mode, "FAILED")
    /\ Goto(q, "done")
    /\ UNCHANGED <<sr, plans, results, artifacts, approvals, op>>

\* A call outside the loop raises before it has an effect: the handler logs it.
\* So does an evaluation that raises.
raises(q) ==
    /\ \/ pc[q] \in {"describing", "completing"}
       \/ pc[q] = "applying" /\ op[q].todo = {}
    /\ op' = [op EXCEPT ![q].hurt = TRUE]
    /\ Goto(q, "failing")
    /\ UNCHANGED <<sr, plans, results, artifacts, audit, approvals>>

\* A call of a handler raises, or the request is cancelled at any await: no
\* handler runs (CancelledError is not an Exception) and nothing is logged.
abandoned(q) ==
    /\ pc[q] \notin {"idle", "done"}
    /\ op' = [op EXCEPT ![q].hurt = TRUE]
    /\ Goto(q, "done")
    /\ UNCHANGED <<sr, plans, results, artifacts, audit, approvals>>

------------------------------------------------------------------------------
Step(q) ==
    \/ \E s \in Subjects : describe_subject(q, s) \/ register(q, s) \/ register_fails(q, s)
    \/ \E bad \in SUBSET Batch(q) : save_plan(q, bad)
    \/ read_version(q) \/ record_artifact(q) \/ item_fails(q)
    \/ save_apply_result(q) \/ audit_completed(q) \/ _create_approval_request(q)
    \/ audit_failed(q) \/ raises(q) \/ abandoned(q)

Arrive ==
    \E q \in Requests, m \in Modes, c \in ChangeIds, f \in Forms, o \in BOOLEAN :
        (m = "dry_run" => ~o) /\ Start(q, m, c, f, o)

Next == Arrive \/ \E q \in Requests : Step(q)

Spec == Init /\ [][Next]_vars

\* Calls have timeouts, so a request that has started goes on until it is done;
\* nothing makes requests arrive.
Fairness == \A q \in Requests : WF_vars(Step(q))

FairSpec == Spec /\ Fairness

------------------------------------------------------------------------------
(* Properties *)

Wrote(q, s) == \E i \in DOMAIN sr[s] : sr[s][i].by = q
WroteSomething(q) == \E s \in Subjects : Wrote(q, s)
Has(s, schema) == \E i \in DOMAIN sr[s] : sr[s][i].schema = schema
Logged(q, st) == \E a \in audit : a.by = q /\ a.status = st

\* Every version that reaches the registry was let through: it belongs to an
\* apply, is not marked dry_run_only, its batch raised no rejection on what the
\* request had read, an approval was given if one was needed, a plan for the
\* change is on record, and the request never asked for approval
\* (apply.py:112-144, 221-227).
GatedWrites ==
    \A q \in Requests, s \in Subjects : Wrote(q, s) =>
        /\ op[q].mode = "apply"
        /\ s \in Batch(q) \ op[q].form.dryOnly
        /\ approval_state(Rules(q, op[q].bad), op[q].override) \in {"approved", "not_required"}
        /\ op[q].bad = {}
        /\ plans[op[q].change] # Nobody
        /\ q \notin approvals

\* The result row tells the truth, whatever failed on the way: its three lists
\* split the batch, what it calls registered or unchanged is in the registry,
\* and the request wrote nothing it does not own up to (apply.py:127-191).
HonestResult ==
    \A c \in ChangeIds : results[c] # Nobody =>
        LET o == op[results[c]] IN
        /\ o.registered \cup o.skipped \cup o.failed = DOMAIN o.form.specs
        /\ o.registered \cap o.failed = {}
        /\ o.skipped \cap (o.registered \cup o.failed) = {}
        /\ \A s \in o.registered \cup (o.skipped \ o.form.dryOnly) :
              Has(s, o.form.specs[s].schema)
        /\ \A s \in Subjects : Wrote(results[c], s) => s \in o.registered \cup o.failed

\* An artifact names a version that exists, and its schema was registered no
\* later than that version, even though another request may register between
\* the two calls of register_schema (schema_registry_adapter.py:166-176).
ArtifactCovered ==
    \A a \in artifacts :
        /\ a.version \in DOMAIN sr[a.subject]
        /\ \E i \in 1 .. a.version : sr[a.subject][i].schema = a.schema

\* A change id is applied once: an apply that is logged as COMPLETED holds the
\* result row of its change id, so no two applies of one id complete, however
\* they interleave (apply.py:193-199, models.py:74-82).
AppliedOnce ==
    \A a \in audit :
        a.mode = "apply" /\ a.status = "COMPLETED" => results[a.change] = a.by

(* What is known of one request r at every step; with the shared parts it makes *)
(* the invariants above inductive.                                              *)

Looping(r) == pc[r] \in {"applying", "registered", "versioned"}
InHand(r)  == IF pc[r] \in {"registered", "versioned"} THEN {op[r].item} ELSE {}
Holder(r)  == \E c \in ChangeIds : results[c] = r
Writable(r) == Batch(r) \ op[r].form.dryOnly

\* Past the gates, which nothing reopens.
Cleared(r) ==
    /\ op[r].mode = "apply"
    /\ approval_state(Rules(r, op[r].bad), op[r].override) \in {"approved", "not_required"}
    /\ op[r].bad = {}
    /\ plans[op[r].change] # Nobody
    /\ r \notin approvals

\* Before the gates a request has done and recorded nothing.
Untouched(r) ==
    /\ ~WroteSomething(r)
    /\ r \notin approvals
    /\ op[r].registered = {} /\ op[r].failed = {}

\* Only a request past the gates loops or has written.
ClearedToWrite(r) ==
    /\ Looping(r) \/ WroteSomething(r) => Cleared(r)
    /\ pc[r] \in {"idle", "describing"} => Untouched(r)
    /\ pc[r] = "approval" => ~WroteSomething(r)
    /\ Holder(r) => pc[r] \in {"completing", "failing", "done"}
    /\ \A s \in Subjects : Wrote(r, s) => s \in Writable(r)

\* The lists of the loop, the item in hand and what is left split the batch.
Accounted(r) ==
    Looping(r) \/ Holder(r) =>
        /\ op[r].todo \cup InHand(r) \subseteq Writable(r)
        /\ op[r].todo \cup InHand(r) \cup op[r].registered \cup op[r].skipped \cup op[r].failed
             = Batch(r)
        /\ (op[r].todo \cup InHand(r) \cup op[r].registered \cup op[r].failed) \cap op[r].skipped = {}
        /\ (op[r].todo \cup InHand(r) \cup op[r].registered) \cap op[r].failed = {}
        /\ op[r].todo \cap InHand(r) = {}
        /\ (op[r].todo \cup InHand(r)) \cap op[r].registered = {}
        /\ Holder(r) => op[r].todo = {}
        /\ \A s \in Subjects : Wrote(r, s) => s \in op[r].registered \cup op[r].failed \cup InHand(r)

\* What the request has read, registered or found unchanged is in the registry.
Held(r) ==
    /\ \A s \in Subjects :
          op[r].current[s] \notin {NoSchema, Unread} => Has(s, op[r].current[s])
    /\ Looping(r) \/ Holder(r) =>
          \A s \in op[r].registered \cup (op[r].skipped \ op[r].form.dryOnly) \cup InHand(r) :
              Has(s, op[r].form.specs[s].schema)
    /\ pc[r] = "versioned" =>
          /\ op[r].version \in DOMAIN sr[op[r].item]
          /\ \E i \in 1 .. op[r].version :
                sr[op[r].item][i].schema = op[r].form.specs[op[r].item].schema

\* An apply about to be logged as completed holds its result row.
CompletingHolds(r) ==
    pc[r] = "completing" /\ op[r].mode = "apply" => results[op[r].change] = r

RequestInv(r) ==
    ClearedToWrite(r) /\ Accounted(r) /\ Held(r) /\ CompletingHolds(r)

\* The inductive invariant of the module.
IInv ==
    /\ TypeOK
    /\ \A r \in Requests : RequestInv(r)
    /\ ArtifactCovered
    /\ AppliedOnce

\* Every request that starts is closed by a COMPLETED or a FAILED row, unless
\* one of its calls failed or it was cancelled (apply.py:221-254).
EveryRequestClosed ==
    \A q \in Requests :
        Logged(q, "STARTED") ~>
            Logged(q, "COMPLETED") \/ Logged(q, "FAILED") \/ op[q].hurt

\* The batch use cases implement the abstract change control.
PhaseOf(l) ==
    CASE l = "idle" -> "new"
      [] l = "describing" -> "open"
      [] l \in {"applying", "registered", "versioned"} -> "cleared"
      [] l \in {"completing", "approval", "failing"} -> "closing"
      [] l = "done" -> "closed"
phase == [q \in Requests |-> PhaseOf(pc[q])]
written == [q \in Requests |-> {s \in Subjects : Wrote(q, s)}]
outcome == [q \in Requests |->
              IF Logged(q, "COMPLETED") THEN "COMPLETED"
              ELSE IF Logged(q, "FAILED") THEN "FAILED" ELSE "none"]
CC == INSTANCE ChangeControl WITH owner <- results

\* dry_run.py and apply.py implement ChangeControl: registry writes happen only
\* between the gates and the result row, and never after the closing row.
ImplementsChangeControl == CC!Spec
=============================================================================
