----------------------------- MODULE MCPolicyReview -----------------------------
(* Bounded inputs for the review.  One subject meets every pair of schemas over *)
(* one field; two subjects meet the pairs that make their rules interact.       *)
EXTENDS PolicyReview

Native == [c \in LintCodes |-> "native"]
WarnOnly == [c \in LintCodes |-> "warning"]
lint(e, r) == [kind |-> "LINT", env |-> e, rules |-> r]
guard(e, m, sev) == [kind |-> "GUARDRAIL", env |-> e, requires |-> m, severity |-> sev]

\* No policy, a lint policy everywhere or in production only, a guardrail.
SomePolicies == {{}, {lint("total", Native)}, {lint("prod", Native), guard("total", "FULL", "warning")},
                 {lint("total", WarnOnly), guard("stg", "BACKWARD", "error")}}
FewPolicies  == {{}, {lint("total", Native), guard("total", "FULL", "warning")}}

plain(n) == [name |-> n, syms |-> {}]
enum(n, S) == [name |-> n, syms |-> S]
x_1 == CHOOSE x \in Symbols : TRUE

\* Plain types, enums alone, with null, with another branch, and two in one union.
Types == {<<plain("int")>>, <<plain("null"), plain("int")>>, <<plain("int"), plain("null")>>,
          <<enum("E", {x_1})>>, <<enum("E", Symbols)>>, <<enum("F", Symbols)>>,
          <<plain("null"), enum("E", Symbols)>>, <<plain("int"), enum("E", {x_1})>>,
          <<enum("E", {x_1}), enum("F", Symbols \ {x_1})>>}

record(k, field) == [schema_type |-> k, fields |-> [f \in FieldNames |-> field]]
avro(t, d) == record("AVRO", [type |-> t, default |-> d])
Records == {avro(t, d) : t \in Types, d \in BOOLEAN}
             \cup {record(k, NoField) : k \in {"AVRO", "JSON"}}
Schemas == Records \cup {Opaque, NotObject}
\* Pairs of these raise each structural rule, or none.
FewSchemas == {record("AVRO", NoField), avro(<<plain("int")>>, FALSE),
               avro(<<enum("E", Symbols)>>, TRUE), avro(<<enum("E", {x_1})>>, TRUE), Opaque}

Texts == [compat : Compat, meta : Meta, schema : Schemas, inline : {FALSE}, lints : {{}, LintCodes}]
Sources == [compat : Compat, meta : {"full"}, schema : Schemas, inline : {TRUE}, lints : {LintCodes}]
\* No rule looks at the defaults of the registered schema.
AllCurrents == {avro(t, FALSE) : t \in Types}
                 \cup {record(k, NoField) : k \in {"AVRO", "JSON"}} \cup {Opaque, NotObject, NoSchema}
FewSpecs    == {[compat |-> c, meta |-> m, schema |-> s, inline |-> FALSE,
                 lints |-> IF m = "full" THEN LintCodes ELSE {}] :
                  c \in {"NONE", "FULL"}, m \in {"missing", "full"}, s \in FewSchemas}
FewCurrents == {NoSchema, record("AVRO", NoField), avro(<<enum("E", Symbols)>>, TRUE), Opaque}

Reviews(S, specs, currents, policies) ==
    [env : Envs, batch : [S -> specs], current : [S -> currents], incompatible : SUBSET S,
     policies : policies, override : BOOLEAN]

\* One subject alone, and two in a batch.
OneOrTwo == Reviews({CHOOSE s \in Subjects : TRUE}, Texts \cup Sources, AllCurrents, SomePolicies)
              \cup Reviews(Subjects, FewSpecs, FewCurrents, FewPolicies)
=============================================================================
