----------------------------- MODULE MCSchemaApply -----------------------------
(* Two requests with one change id on two subjects.  The forms cover every      *)
(* outcome of the gates: free, approval needed, rejected, nothing to do.        *)
EXTENDS SchemaApply, TLC

rec(d) == [schema_type |-> "AVRO", fields |-> [f \in FieldNames |-> IF d = "none" THEN NoField
             ELSE [type |-> <<[name |-> d, syms |-> {}]>>, default |-> TRUE]]]
spec(c, d) == [compat |-> c, meta |-> "full", schema |-> rec(d), inline |-> FALSE, lints |-> {}]
form(specs, dry) == [env |-> "dev", specs |-> specs, dryOnly |-> dry, policies |-> {}]

s_1 == CHOOSE s \in Subjects : TRUE
one(c, d) == form([s \in {s_1} |-> spec(c, d)], {})
both(dry) == form([s \in Subjects |-> spec("FULL", "int")], dry)

\* A free change, one that needs approval, a batch of two subjects, and the same
\* with one of them marked dry_run_only.
Batches == {one("FULL", "int"), one("NONE", "string"), both({}), both({s_1})}
Fresh   == {<<>>}

\* One subject that is new or has two versions; one of the texts comes as
\* a source.
Singles == {one("NONE", "int"),
            form([s \in {s_1} |-> [spec("FULL", "string") EXCEPT !.inline = TRUE]], {})}
Aged    == {<<>>, <<rec("int"), rec("none")>>}

Symmetry == Permutations(Requests)
=============================================================================
