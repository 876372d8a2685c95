------------------------------ MODULE ApprovalTrail ------------------------------
(***************************************************************************)
(* Approval requests and the audit views over them                         *)
(* (governance_support/use_cases.py and infrastructure/repository.py,      *)
(* behind interface/routers/operations_router.py).  A decision selects the *)
(* row and writes back, in the same session, the columns it has changed;   *)
(* another decision may commit in between.  The views are queries over     *)
(* approval_requests and schema_audit_logs.                                *)
(*                                                                         *)
(* A row carries the second it was stamped with, all that its DATETIME     *)
(* column keeps.  Rows share seconds, and a row may be committed after one *)
(* with a later stamp: requests are stamped by the application, audit rows *)
(* by the database.                                                        *)
(***************************************************************************)
EXTENDS Naturals, Sequences, FiniteSetsExt

CONSTANTS
    RequestIds,   \* request ids uuid4 may produce
    Actors,       \* requesters and the actors of audit rows
    Approvers,    \* who decides
    Like,         \* pairs <<pattern, name>> where the name contains the pattern
    Reasons,      \* decision reasons somebody writes down
    Rulings,    \* what somebody may decide: verdict, approver, reason
    Deciders,     \* concurrent decisions
    Entries,      \* the <<action, status>> pairs the use cases log
    IgnoresCase,  \* the database compares strings without regard to case
    Seconds,      \* the stamps a row may get
    MaxLog,       \* bound on the number of audit rows
    Limits,       \* limits a reader may ask for
    Null          \* the null of the database

ASSUME IdsAssumption == IsFiniteSet(RequestIds)
ASSUME LogAssumption == MaxLog \in Nat /\ Seconds \subseteq Nat /\ Limits \subseteq Nat \ {0}
\* What the views show or select by is text, which null is not.
ASSUME NullAssumption ==
    Null \notin Actors \cup Approvers \cup Reasons
      \cup {"APPLY", "DRY_RUN", "REGISTER", "UPLOAD", "SYNC", "UPDATE", "DELETE", "DELETE_ANALYSIS",
                               "APPROVED", "REJECTED", "pending"}
ASSUME LikeAssumption == \A a \in Actors : <<a, a>> \in Like
ASSUME EntriesAssumption ==
    Entries \subseteq {"APPLY", "DRY_RUN", "REGISTER", "UPLOAD", "SYNC", "UPDATE", "DELETE", "DELETE_ANALYSIS"}
                      \X {"STARTED", "COMPLETED", "FAILED", "success", "failed", "completed"}

VARIABLES
    requests,   \* approval_requests by id: the row, or NoRow
    audits,     \* schema_audit_logs in the order of their ids
    pc, op,     \* per decision: program counter and locals
    last,       \* history: the decision that was committed last for a request
    rivals      \* history: requests with two decisions in flight at once

trailVars == <<requests, audits, pc, op, last, rivals>>

Verdicts == {"approved", "rejected"}
Decision == [status : Verdicts, approver : Approvers, reason : Reasons \cup {Null}]
Row      == [by : Actors, at : Seconds, status : Verdicts \cup {"pending"},
             approver : Approvers \cup {Null}, reason : Reasons \cup {Null}]
NoRow    == [by |-> Null]
AuditRow == [entry : Entries, actor : Actors, at : Seconds]
Op       == [id : RequestIds, seen : Row, decision : Decision]
NoOp     == [id |-> Null]

ASSUME RulingsAssumption == Rulings \subseteq Decision

TrailTypeOK ==
    /\ requests \in [RequestIds -> Row \cup {NoRow}]
    /\ audits \in Seq(AuditRow) /\ Len(audits) <= MaxLog
    /\ pc \in [Deciders -> {"idle", "selected"}]
    /\ op \in [Deciders -> Op \cup {NoOp}]
    /\ \A d \in Deciders : pc[d] = "selected" => op[d] \in Op /\ requests[op[d].id] # NoRow
    /\ last \in [RequestIds -> Decision \cup {NoRow}]
    /\ rivals \subseteq RequestIds

TrailInit ==
    /\ requests = [r \in RequestIds |-> NoRow]
    /\ audits = <<>>
    /\ pc = [d \in Deciders |-> "idle"]
    /\ op = [d \in Deciders |-> NoOp]
    /\ last = [r \in RequestIds |-> NoRow]
    /\ rivals = {}

-----------------------------------------------------------------------------
(* Writers.                                                                *)

\* The audit row of some use case.
log_operation(e, a, t) ==
    /\ Len(audits) < MaxLog
    /\ audits' = Append(audits, [entry |-> e, actor |-> a, at |-> t])
    /\ UNCHANGED <<requests, pc, op, last, rivals>>

CreateApprovalRequest(r, a, t) ==
    /\ requests[r] = NoRow
    /\ requests' = [requests EXCEPT ![r] =
                      [by |-> a, at |-> t, status |-> "pending", approver |-> Null, reason |-> Null]]
    /\ UNCHANGED <<audits, pc, op, last, rivals>>

\* approve and reject: the present status is not looked at.
select_request(d, r, x) ==
    /\ pc[d] = "idle"
    /\ requests[r] # NoRow
    /\ pc' = [pc EXCEPT ![d] = "selected"]
    /\ op' = [op EXCEPT ![d] = [id |-> r, seen |-> requests[r], decision |-> x]]
    /\ rivals' = IF \E e \in Deciders \ {d} : pc[e] = "selected" /\ op[e].id = r
                 THEN rivals \cup {r} ELSE rivals
    /\ UNCHANGED <<requests, audits, last>>

\* The session writes the columns whose value differs from the one it read.
Column_KeepsReason(stored, seen, new) == IF new \in {seen, Null} THEN stored ELSE new
Column(stored, seen, new) == IF new = seen THEN stored ELSE new

Written(row, seen, x) ==
    [row EXCEPT !.status   = Column(row.status, seen.status, x.status),
                !.approver = Column(row.approver, seen.approver, x.approver),
                !.reason   = Column(row.reason, seen.reason, x.reason)]

End(d) ==
    /\ pc' = [pc EXCEPT ![d] = "idle"]
    /\ op' = [op EXCEPT ![d] = NoOp]

update_status(d) ==
    /\ pc[d] = "selected"
    /\ requests' = [requests EXCEPT ![op[d].id] = Written(@, op[d].seen, op[d].decision)]
    /\ last' = [last EXCEPT ![op[d].id] = op[d].decision]
    /\ End(d)
    /\ UNCHANGED <<audits, rivals>>

update_fails(d) ==
    /\ pc[d] = "selected"
    /\ End(d)
    /\ UNCHANGED <<requests, audits, last, rivals>>

TrailNext ==
    \/ \E e \in Entries, a \in Actors, t \in Seconds : log_operation(e, a, t)
    \/ \E r \in RequestIds, a \in Actors, t \in Seconds : CreateApprovalRequest(r, a, t)
    \/ \E d \in Deciders :
         \/ \E r \in RequestIds, x \in Rulings : select_request(d, r, x)
         \/ update_status(d)
         \/ update_fails(d)

TrailSpec == TrailInit /\ [][TrailNext]_trailVars

-----------------------------------------------------------------------------
(* Views.  A filter of a query is Null when the caller leaves it out.  An  *)
(* answer is the set of the rows it lists: their order is that of their    *)
(* stamps, and rows of one second come in any order.                       *)

\* The rows of the two tables, by table and key.
AuditRows   == {<<"schema", i>> : i \in DOMAIN audits}
RequestRows == {<<"approval", r>> : r \in {q \in RequestIds : requests[q] # NoRow}}
AllRows     == AuditRows \cup RequestRows

At(x) == IF x[1] = "schema" THEN audits[x[2]].at ELSE requests[x[2]].at

\* LIMIT n: as many rows as there are, n at most.
Limited(pass, n) == kSubset(IF Cardinality(pass) < n THEN Cardinality(pass) ELSE n, pass)

\* ORDER BY timestamp DESC LIMIT n: no row is left out that is newer than one that is
\* not.  Which rows of the last second come in is up to the database.
Newest(pass, n) ==
    {page \in Limited(pass, n) : \A x \in page, y \in pass \ page : At(y) <= At(x)}

Upper == [STARTED |-> "STARTED", COMPLETED |-> "COMPLETED", FAILED |-> "FAILED",
          success |-> "SUCCESS", failed |-> "FAILED", completed |-> "COMPLETED",
          pending |-> "PENDING", approved |-> "APPROVED", rejected |-> "REJECTED"]

\* status IN (COMPLETED, PARTIALLY_COMPLETED); no use case logs the second.
VisibleStatus(s) == IF IgnoresCase THEN Upper[s] = "COMPLETED" ELSE s = "COMPLETED"

Visible(x) == x[1] = "approval" \/ VisibleStatus(audits[x[2]].entry[2])

_normalize_action(x) ==
    IF x[1] = "schema" THEN audits[x[2]].entry[1]
    ELSE CASE requests[x[2]].status = "pending"  -> "REQUESTED"
           [] requests[x[2]].status = "approved" -> "APPROVED"
           [] requests[x[2]].status = "rejected" -> "REJECTED"

ActorOf(x) == IF x[1] = "schema" THEN audits[x[2]].actor ELSE requests[x[2]].by

get_recent_activities(n) == Newest({x \in AllRows : Visible(x)}, n)

_get_models_to_query(type) == IF type = Null THEN {"schema", "approval"} ELSE {type} \cap {"schema", "approval"}

\* Approvals are compared with their stored status, case ignored; audit rows
\* with their action.
ActionPasses_Exact(x, action) ==
    \/ action = Null
    \/ action = (IF x[1] = "schema" THEN audits[x[2]].entry[1] ELSE requests[x[2]].status)
ActionPasses(x, action) ==
    \/ action = Null
    \/ action = (IF x[1] = "schema" THEN audits[x[2]].entry[1] ELSE Upper[requests[x[2]].status])

Dated(x, q) == (q.from = Null \/ q.from <= At(x)) /\ (q.to = Null \/ At(x) <= q.to)

_build_filtered_query_AllStatuses(q) ==
    {x \in AllRows :
       /\ x[1] \in _get_models_to_query(q.type)
       /\ Dated(x, q)
       /\ ActionPasses(x, q.action)
       /\ q.actor = Null \/ <<q.actor, ActorOf(x)>> \in Like}
_build_filtered_query(q) ==
    {x \in AllRows :
       /\ x[1] \in _get_models_to_query(q.type)
       /\ Visible(x)
       /\ Dated(x, q)
       /\ ActionPasses(x, q.action)
       /\ q.actor = Null \/ <<q.actor, ActorOf(x)>> \in Like}

get_activity_history(q) == Newest(_build_filtered_query(q), q.limit)

\* The use cases bound the limit by 100 and 500 from above and 1 from below.
Bounded(n, top) == IF n < 1 THEN 1 ELSE IF n > top THEN top ELSE n
GetRecentActivities(n) == get_recent_activities(Bounded(n, 100))
GetActivityHistory(q)  == get_activity_history([q EXCEPT !.limit = Bounded(@, 500)])

\* GET /approval-requests, newest first; the route bounds the limit by 1 and 500.
Matching(status, by) ==
    {x \in RequestRows :
       /\ status \in {Null, requests[x[2]].status}
       /\ by = Null \/ <<by, requests[x[2]].by>> \in Like}
list_requests_Unordered(status, by, n) ==
    Limited(Matching(status, by), n)
list_requests(status, by, n) == Newest(Matching(status, by), n)

-----------------------------------------------------------------------------
(* Properties.                                                             *)

\* A request shows the verdict, the approver and the reason of one decision,
\* the last one committed, unless two decisions on it have been in flight at
\* once; a request decided twice in a row keeps nothing of the first verdict.
OneDecisionShown ==
    \A r \in RequestIds \ rivals :
      requests[r] # NoRow /\ last[r] # NoRow =>
        /\ requests[r].status = last[r].status
        /\ requests[r].approver = last[r].approver
        /\ requests[r].reason = last[r].reason

\* A decision is about a request that has been created.
DecidedExists == \A r \in RequestIds : last[r] # NoRow => requests[r] # NoRow

\* Without rivals there is one decision in flight on a request, and what it has
\* selected is what is stored.
InFlight(r) == {d \in Deciders : pc[d] = "selected" /\ op[d].id = r}
SeenIsStored ==
    \A r \in RequestIds \ rivals :
      \A d \in InFlight(r) : InFlight(r) = {d} /\ op[d].seen = requests[r]

\* The inductive invariant: well typed, every request shows one decision and is
\* decided from its stored row.
TrailInv == TrailTypeOK /\ OneDecisionShown /\ DecidedExists /\ SeenIsStored

\* The two audit views are written twice in the code and agree: the history
\* without filters, asked for as many rows as the list of recent activities may
\* have, gives exactly the answers that list may give.
Unfiltered(n) ==
    [type |-> Null, action |-> Null, actor |-> Null, from |-> Null, to |-> Null, limit |-> n]
HistoryExtendsRecent ==
    \A n \in Limits : GetActivityHistory(Unfiltered(Bounded(n, 100))) = GetRecentActivities(n)

\* What one answer shows of the rows that belong in another: row x is in it, or the
\* limit n has cut it off, all the rows shown being as young as x or younger.
ShownIn(answer, n, x) ==
    \/ x \in answer
    \/ Cardinality(answer) = n /\ \A y \in answer : At(x) <= At(y)

\* Filtering the history by an action finds the activities shown with that action,
\* for every action the views can show but REQUESTED.  Whatever page of recent
\* activities and whatever page of the filtered history two requests get, an
\* activity of the one that belongs in the other is there, unless the limit of the
\* other has cut it off; where rows share a second, either page may stop among them
\* (repository.py:119, 210-212 order by the second alone).
Shown == {"APPLY", "DRY_RUN", "REGISTER", "UPLOAD", "SYNC", "UPDATE", "DELETE", "DELETE_ANALYSIS",
          "APPROVED", "REJECTED"}
FilteredAsShown ==
    \A n \in Limits : \A page \in GetRecentActivities(n) :
      \A a \in Shown, m \in Limits :
      \A rows \in GetActivityHistory([Unfiltered(m) EXCEPT !.action = a]) :
        /\ \A x \in page : _normalize_action(x) = a => ShownIn(rows, Bounded(m, 500), x)
        /\ \A x \in rows : _normalize_action(x) = a /\ ShownIn(page, Bounded(n, 100), x)

\* A pending request is found.  Whatever page of recent activities and whatever list
\* of pending requests a reader gets, a request shown as REQUESTED in the one is in
\* the other, unless the limit of the other has cut it off; so deciding a request
\* removes it from both, and the two differ only beyond their limits and among the
\* requests of the last second they reach (repository.py:119, 317).
PendingIsRequested ==
    \A n \in Limits : \A page \in GetRecentActivities(n) :
      \A m \in Limits : \A waiting \in list_requests("pending", Null, m) :
        /\ \A x \in page : _normalize_action(x) = "REQUESTED" => ShownIn(waiting, m, x)
        /\ \A x \in waiting :
             _normalize_action(x) = "REQUESTED" /\ ShownIn(page, Bounded(n, 100), x)
=============================================================================
