---------------------------- MODULE MCGovernanceStats ----------------------------
EXTENDS GovernanceStats

CONSTANTS s1, s2, s3, kim

Symmetric == Permutations(SubjectNames)
=============================================================================
