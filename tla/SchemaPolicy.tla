------------------------------ MODULE SchemaPolicy ------------------------------
(***************************************************************************)
(* The life of the user-defined schema policies                            *)
(* (application/use_cases/policy/management.py over                        *)
(* infrastructure/repository/policy_repository.py, driven by               *)
(* interface/routers/policy_router.py).  Every repository call is a        *)
(* transaction of its own, so the requests of several clients interleave   *)
(* between the calls of one use case, and each call may fail.              *)
(***************************************************************************)
EXTENDS Naturals

CONSTANTS
    Clients,      \* concurrent HTTP requests
    Policies,     \* policy ids uuid4 may produce
    Contents,     \* rule contents
    Envs,         \* target environments other than "total"
    MaxVersion,   \* bound on version numbers
    Nothing       \* no row, no policy

ASSUME BoundAssumption == MaxVersion \in Nat \ {0}
ASSUME NothingAssumption == Nothing \notin Policies

VARIABLES
    rows,    \* schema_policies: per policy id and version the row, or Nothing
    pc, op,  \* per client: program counter and locals
    used,    \* history: the ids create_policy has handed out
    split,   \* history: the last activation of the policy that ended met a rival
    cause,   \* history: why the policy may have lost its active version
    governed \* history: the policies that have had an active version

vars == <<rows, pc, op, used, split, cause, governed>>

Versions == 1..MaxVersion
Targets  == Envs \cup {"total"}
Types    == {"lint", "guardrail"}
Statuses == {"draft", "active", "archived"}
Row == [type : Types, content : Contents, env : Targets, by : Clients, status : Statuses]
NoRow == [type |-> "none"]

\* The request in hand: the policy, the version, the row to save, the active
\* versions still to archive; raced: history, a rival version became active
\* after this activation had listed the active ones.
Op == [policy : Policies \cup {Nothing}, version : Nat, row : Row \cup {NoRow},
       todo : SUBSET Versions, raced : BOOLEAN]
NoOp == [policy |-> Nothing, version |-> 0, row |-> NoRow, todo |-> {}, raced |-> FALSE]

Causes == {"withdrawn", "deleted", "missing", "failed"}

TypeOK ==
    /\ rows \in [Policies -> [Versions -> Row \cup {NoRow}]]
    /\ pc \in [Clients -> {"idle", "updating", "activating", "activated"}]
    /\ op \in [Clients -> Op]
    /\ used \subseteq Policies
    /\ split \in [Policies -> BOOLEAN]
    /\ cause \in [Policies -> SUBSET Causes]
    /\ governed \subseteq Policies

Init ==
    /\ rows = [p \in Policies |-> [v \in Versions |-> NoRow]]
    /\ pc = [c \in Clients |-> "idle"]
    /\ op = [c \in Clients |-> NoOp]
    /\ used = {}
    /\ split = [p \in Policies |-> FALSE]
    /\ cause = [p \in Policies |-> {}]
    /\ governed = {}

-----------------------------------------------------------------------------
(* The repository.                                                         *)

\* The primary key of the table is a counter of its own; policy and version
\* are unique together.
Stored(p)  == {v \in Versions : rows[p][v] # NoRow}
Active(p)  == {v \in Stored(p) : rows[p][v].status = "active"}

\* get_by_id without a version
get_latest(p) == CHOOSE v \in Stored(p) : \A w \in Stored(p) : w <= v

\* The environment filter of the two list queries.
Matches(r, env) == env = "total" \/ r.env \in {env, "total"}

list_active_policies(env) ==
    {pv \in Policies \X Versions : pv[2] \in Active(pv[1]) /\ Matches(rows[pv[1]][pv[2]], env)}

\* The versions of p that activate_policy finds active.
ActiveOthers_SameEnv(p, v) ==
    {w \in Versions \ {v} : <<p, w>> \in list_active_policies(IF v \in Stored(p) THEN rows[p][v].env ELSE "total")}
ActiveOthers(p, v) == {w \in Versions \ {v} : <<p, w>> \in list_active_policies("total")}

\* update_status does nothing when the row is gone.
WithStatus(p, v, status) ==
    IF v \in Stored(p) THEN [rows EXCEPT ![p][v].status = status] ELSE rows

\* save is a plain insert.
Insertable_Upsert(p, v) == TRUE
Insertable(p, v) == rows[p][v] = NoRow

-----------------------------------------------------------------------------
Goto(c, label, o) ==
    /\ pc' = [pc EXCEPT ![c] = label]
    /\ op' = [op EXCEPT ![c] = o]

End(c) == Goto(c, "idle", NoOp)

create_policy(c, p, t, x, e) ==
    /\ pc[c] = "idle"
    /\ p \notin used
    /\ rows' = [rows EXCEPT ![p][1] =
                  [type |-> t, content |-> x, env |-> e, by |-> c, status |-> "draft"]]
    /\ used' = used \cup {p}
    /\ UNCHANGED <<pc, op, split, cause, governed>>

\* Only a policy that has a version can be updated; the new version is one
\* past the latest, keeps the type and starts as a draft.
update_policy(c, p, x, e) ==
    /\ pc[c] = "idle"
    /\ Stored(p) # {}
    /\ get_latest(p) < MaxVersion
    /\ Goto(c, "updating",
            [NoOp EXCEPT !.policy = p, !.version = get_latest(p) + 1,
                         !.row = [type |-> rows[p][get_latest(p)].type, content |-> x,
                                  env |-> e, by |-> c, status |-> "draft"]])
    /\ UNCHANGED <<rows, used, split, cause, governed>>

save(c) ==
    /\ pc[c] = "updating"
    /\ Insertable(op[c].policy, op[c].version)
    /\ rows' = [rows EXCEPT ![op[c].policy][op[c].version] = op[c].row]
    /\ End(c)
    /\ UNCHANGED <<used, split, cause, governed>>

\* A unique key already taken, or any other failure of the insert.
save_fails(c) ==
    /\ pc[c] = "updating"
    /\ End(c)
    /\ UNCHANGED <<rows, used, split, cause, governed>>

\* PATCH /status with status active: the listing.  The version need not exist.
activate_policy(c, p, v) ==
    /\ pc[c] = "idle"
    /\ p \in used
    /\ Goto(c, "activating",
            [NoOp EXCEPT !.policy = p, !.version = v, !.todo = ActiveOthers(p, v)])
    /\ UNCHANGED <<rows, used, split, cause, governed>>

\* One turn of the archiving loop.
archive(c, w) ==
    /\ pc[c] = "activating"
    /\ w \in op[c].todo
    /\ rows' = WithStatus(op[c].policy, w, "archived")
    /\ op' = [op EXCEPT ![c].todo = @ \ {w}]
    /\ UNCHANGED <<pc, used, split, cause, governed>>

\* A version that becomes active now is news to every activation of another
\* version that has already listed.
Raced(p, v) ==
    [d \in Clients |->
       [op[d] EXCEPT !.raced = @ \/ (/\ pc[d] = "activating"
                                     /\ op[d].policy = p
                                     /\ op[d].version # v
                                     /\ v \in Stored(p))]]

\* The last call of an activation, whether or not the row exists.
set_active_NotArchived(c) ==
    LET p == op[c].policy
        v == op[c].version IN
    /\ pc[c] = "activating"
    /\ op[c].todo = {}
    /\ rows' = IF v \in Stored(p) /\ rows[p][v].status = "archived" THEN rows ELSE WithStatus(p, v, "active")
    /\ pc' = [pc EXCEPT ![c] = "activated"]
    /\ op' = Raced(p, v)
    /\ split' = [split EXCEPT ![p] = op[c].raced]
    /\ cause' = [cause EXCEPT ![p] = IF v \in Stored(p) THEN {} ELSE @ \cup {"missing"}]
    /\ governed' = IF v \in Stored(p) THEN governed \cup {p} ELSE governed
    /\ UNCHANGED used
set_active(c) ==
    LET p == op[c].policy
        v == op[c].version IN
    /\ pc[c] = "activating"
    /\ op[c].todo = {}
    /\ rows' = WithStatus(p, v, "active")
    /\ pc' = [pc EXCEPT ![c] = "activated"]
    /\ op' = Raced(p, v)
    /\ split' = [split EXCEPT ![p] = op[c].raced]
    /\ cause' = [cause EXCEPT ![p] = IF v \in Stored(p) THEN {} ELSE @ \cup {"missing"}]
    /\ governed' = IF v \in Stored(p) THEN governed \cup {p} ELSE governed
    /\ UNCHANGED used

\* The route answers "Status updated successfully".
status_updated(c) ==
    /\ pc[c] = "activated"
    /\ End(c)
    /\ UNCHANGED <<rows, used, split, cause, governed>>

\* A call of the activation fails: what was archived stays archived.
activate_fails(c) ==
    /\ pc[c] = "activating"
    /\ End(c)
    /\ cause' = [cause EXCEPT ![op[c].policy] = @ \cup {"failed"}]
    /\ UNCHANGED <<rows, used, split, governed>>

\* PATCH /status with draft or archived.
update_status(c, p, v, status) ==
    /\ pc[c] = "idle"
    /\ v \in Stored(p)
    /\ rows' = WithStatus(p, v, status)
    /\ cause' = [cause EXCEPT ![p] = @ \cup {"withdrawn"}]
    /\ UNCHANGED <<pc, op, used, split, governed>>

delete_policy(c, p) ==
    /\ pc[c] = "idle"
    /\ Stored(p) # {}
    /\ rows' = [rows EXCEPT ![p] = [v \in Versions |-> NoRow]]
    /\ cause' = [cause EXCEPT ![p] = @ \cup {"deleted"}]
    /\ UNCHANGED <<pc, op, used, split, governed>>

delete_version(c, p, v) ==
    /\ pc[c] = "idle"
    /\ v \in Stored(p)
    /\ rows' = [rows EXCEPT ![p][v] = NoRow]
    /\ cause' = [cause EXCEPT ![p] = @ \cup {"deleted"}]
    /\ UNCHANGED <<pc, op, used, split, governed>>

Next ==
    \E c \in Clients :
      \/ \E p \in Policies, x \in Contents, e \in Targets :
           \/ \E t \in Types : create_policy(c, p, t, x, e)
           \/ update_policy(c, p, x, e)
      \/ save(c) \/ save_fails(c)
      \/ \E p \in Policies, v \in Versions :
           \/ activate_policy(c, p, v)
           \/ \E status \in {"draft", "archived"} : update_status(c, p, v, status)
           \/ delete_version(c, p, v)
      \/ \E w \in Versions : archive(c, w)
      \/ set_active(c) \/ status_updated(c) \/ activate_fails(c)
      \/ \E p \in Policies : delete_policy(c, p)

Spec == Init /\ [][Next]_vars

-----------------------------------------------------------------------------
(* Properties.                                                             *)

\* A policy has two active versions only while the last activation that ended
\* had a rival that became active between its listing and its last call
\* (activate_policy): an activation that runs alone, and every later one that
\* does, leaves no other version active, whatever failed before.
OneActiveUnlessRaced ==
    \A p \in Policies : split[p] \/ \A v, w \in Active(p) : v = w

\* A policy that has been active has an active version, or an activation is
\* on its way to its last call, or since the last successful activation one of
\* them failed or named a missing version, or somebody took a version out:
\* the archiving loop alone never leaves a policy unenforced, however many
\* activations overlap.
ProtectionLostHasCause ==
    \A p \in governed :
      \/ Active(p) # {}
      \/ cause[p] # {}
      \/ \E c \in Clients : pc[c] = "activating" /\ op[c].policy = p

\* What a version says is written once: of two updates that read the same
\* latest version one is refused, and no status change touches the content
\* that list_active_policies hands to the policy engine.
VersionsAreImmutable ==
    [][\A p \in Policies, v \in Versions :
         v \in Stored(p) /\ rows'[p][v] # NoRow =>
           [rows[p][v] EXCEPT !.status = "draft"] = [rows'[p][v] EXCEPT !.status = "draft"]]_vars

\* The inductive invariant: an activation that has met no rival still has
\* every other active version on its list.
ListedAll ==
    \A c \in Clients :
      pc[c] = "activating" /\ ~op[c].raced =>
        Active(op[c].policy) \subseteq op[c].todo \cup {op[c].version}

OpOK ==
    \A c \in Clients :
      /\ pc[c] # "idle" => op[c].policy \in Policies /\ op[c].version \in Versions
      /\ pc[c] = "updating" => op[c].row \in Row /\ op[c].row.status = "draft"

\* Rows and requests are about ids that create_policy has handed out.
IdsHandedOut ==
    /\ \A p \in Policies : Stored(p) # {} => p \in used
    /\ \A c \in Clients : pc[c] # "idle" => op[c].policy \in used

IInv ==
    /\ TypeOK /\ OpOK /\ IdsHandedOut /\ ListedAll
    /\ OneActiveUnlessRaced /\ ProtectionLostHasCause
=============================================================================
