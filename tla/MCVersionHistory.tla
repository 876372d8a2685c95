---------------------------- MODULE MCVersionHistory ----------------------------
EXTENDS VersionHistory, TLC

CONSTANTS w1, w2, w3, r1

Symmetric == Permutations(Writers)
=============================================================================
