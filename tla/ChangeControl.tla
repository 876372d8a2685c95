----------------------------- MODULE ChangeControl -----------------------------
(***************************************************************************)
(* What the batch use cases promise, without how: a request is opened on   *)
(* the record, writes to the registry only while it is cleared, claims its *)
(* change id before it may be recorded as a completed apply, and writes    *)
(* nothing once it is closing.                                             *)
(***************************************************************************)
CONSTANTS Requests, ChangeIds, Subjects, Nobody

VARIABLES
    phase,     \* per request
    written,   \* per request: the subjects it has added a version to
    outcome,   \* per request: the closing row of its audit trail
    owner      \* per change id: the request whose apply counts

vars == <<phase, written, outcome, owner>>

Init ==
    /\ phase = [q \in Requests |-> "new"]
    /\ written = [q \in Requests |-> {}]
    /\ outcome = [q \in Requests |-> "none"]
    /\ owner = [c \in ChangeIds |-> Nobody]

Move(q, from, to) ==
    /\ phase[q] \in from
    /\ phase' = [phase EXCEPT ![q] = to]

Open(q)  == Move(q, {"new"}, "open") /\ UNCHANGED <<written, outcome, owner>>
Clear(q) == Move(q, {"open"}, "cleared") /\ UNCHANGED <<written, outcome, owner>>

Write(q, s) ==
    /\ phase[q] = "cleared"
    /\ written' = [written EXCEPT ![q] = @ \cup {s}]
    /\ UNCHANGED <<phase, outcome, owner>>

\* The work is over and recorded under change id c, which nobody has used.
Claim(q, c) ==
    /\ owner[c] = Nobody
    /\ owner' = [owner EXCEPT ![c] = q]
    /\ Move(q, {"cleared"}, "closing")
    /\ UNCHANGED <<written, outcome>>

\* The work is over, or never began, and is not recorded.
GiveUp(q) == Move(q, {"open", "cleared"}, "closing") /\ UNCHANGED <<written, outcome, owner>>

\* A request that wrote something completes only as the owner of its change id.
Close(q, o) ==
    /\ o = "COMPLETED" => written[q] = {} \/ \E c \in ChangeIds : owner[c] = q
    /\ outcome' = [outcome EXCEPT ![q] = o]
    /\ Move(q, {"closing"}, "closed")
    /\ UNCHANGED <<written, owner>>

Abandon(q) ==
    Move(q, {"open", "cleared", "closing"}, "closed") /\ UNCHANGED <<written, outcome, owner>>

Next ==
    \E q \in Requests :
        \/ Open(q) \/ Clear(q) \/ GiveUp(q) \/ Abandon(q)
        \/ \E s \in Subjects : Write(q, s)
        \/ \E c \in ChangeIds : Claim(q, c)
        \/ \E o \in {"COMPLETED", "FAILED"} : Close(q, o)

Spec == Init /\ [][Next]_vars
=============================================================================
