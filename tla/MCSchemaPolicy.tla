----------------------------- MODULE MCSchemaPolicy -----------------------------
EXTENDS SchemaPolicy, TLC

CONSTANTS c1, c2, p1, x1

Symmetric == Permutations({c1, c2})
=============================================================================
