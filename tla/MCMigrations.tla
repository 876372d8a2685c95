------------------------------ MODULE MCMigrations ------------------------------
EXTENDS Migrations, TLC

CONSTANTS r1, r2

Symmetric == Permutations(Runners)
=============================================================================
