---------------------------- MODULE MCApprovalTrail ----------------------------
EXTENDS ApprovalTrail, TLC

CONSTANTS d1, d2, r1, r2, why

Symmetric == Permutations(Deciders) \cup Permutations(RequestIds)

\* "ann" is a substring of "joann".
Names == {<<"joann", "joann">>, <<"ann", "joann">>}

verdict(s, a, r) == [status |-> s, approver |-> a, reason |-> r]
Two == {verdict("approved", "ann", why), verdict("rejected", "joann", Null)}

\* A row that the views show, and one that they show only if case is ignored.
Logged == {<<"APPLY", "COMPLETED">>, <<"DELETE_ANALYSIS", "completed">>}
=============================================================================
