------------------------------- MODULE PolicyPack -------------------------------
(***************************************************************************)
(* The decision part of a schema change: what the planner makes of a batch *)
(* (domain/services.py), the violations of the built-in guardrail and of   *)
(* the active policies (compatibility.py, dynamic_engine.py), the rules of *)
(* the default policy pack (policy_pack.py), and the two gates an apply    *)
(* passes (preflight_policy.py, approval.py, plan_result.py).              *)
(*                                                                         *)
(* A schema is its schema_type with a map from field names to fields, or   *)
(* one of two texts without fields: Opaque is not JSON, NotObject is JSON  *)
(* but not an object.  Equality of schemas is equality of the types and of *)
(* the normalised texts.  A batch has one spec per subject: a function.    *)
(***************************************************************************)
EXTENDS Naturals, Sequences, Functions

CONSTANTS
    FieldNames, Symbols,
    LintCodes,        \* codes of the lint checks the dynamic engine knows
    NativeErrors,     \* the lint codes whose own severity is ERROR
    NoField, Opaque, NotObject,
    NoSchema          \* no schema is registered, or no text is given

ASSUME NativeAssumption == NativeErrors \subseteq LintCodes

Envs   == {"dev", "stg", "prod"}
Compat == {"NONE", "BACKWARD", "FULL"}   \* one mode of each class the rules tell apart
Meta   == {"missing", "nodoc", "full"}   \* spec.metadata is None / has no doc / has one

\* The branches of an Avro union, in their order; any other type is one branch.
\* A branch is an enum (its name and symbols), or a type written as its text.
Branch == [name : STRING, syms : SUBSET Symbols]
Type   == Seq(Branch)
Field  == [type : Type, default : BOOLEAN]
Record == [schema_type : {"AVRO", "JSON"}, fields : [FieldNames -> Field \cup {NoField}]]
Schema == Record \cup {Opaque, NotObject}

\* inline: the schema is given as source.inline or source.yaml, spec.schema is None.
SchemaSpec  == [compat : Compat, meta : Meta, schema : Schema, inline : BOOLEAN,
                lints : SUBSET LintCodes]
Severity  == {"error", "warning"}
Violation(S) == [subject : S, rule : STRING, severity : Severity]

------------------------------------------------------------------------------
(* The planner. *)

\* spec.schema: what the planner and the policies see.  The registry adapter
\* registers the text of the source as well, spec.schema in the model.
text(spec) == IF spec.inline THEN NoSchema ELSE spec.schema

\* _determine_plan_action; current is NoSchema when describe_subjects returned
\* nothing for the subject.
_determine_plan_action(current, schema) ==
    IF current = NoSchema THEN "REGISTER"
    ELSE IF current = schema THEN "NONE" ELSE "UPDATE"

\* CompatibilityGuardrail.check
guardrail_check(s, compat, env) ==
    IF env = "prod" /\ compat # "FULL"
      THEN {[subject |-> s, rule |-> "PROD_COMPAT_RESTRICTION", severity |-> "error"]}
    ELSE IF env = "stg" /\ compat = "NONE"
      THEN {[subject |-> s, rule |-> "STG_COMPAT_RECOMMENDATION", severity |-> "warning"]}
    ELSE {}

\* A policy is a LINT policy (per code: not enabled, enabled with the check's own
\* severity, or enabled with a configured one) or a GUARDRAIL policy (the
\* compatibility mode it requires).
LintPolicy  == [kind : {"LINT"}, env : Envs \cup {"total"},
                rules : [LintCodes -> Severity \cup {"off", "native"}]]
GuardPolicy == [kind : {"GUARDRAIL"}, env : Envs \cup {"total"}, requires : Compat,
                severity : Severity]

_evaluate_lint_policy(p, s, spec) ==
    {[subject |-> s, rule |-> c,
      severity |-> IF p.rules[c] # "native" THEN p.rules[c]
                   ELSE IF c \in NativeErrors THEN "error" ELSE "warning"]
       : c \in {d \in spec.lints : p.rules[d] # "off"}}

_evaluate_guardrail_policy(p, s, spec) ==
    {[subject |-> s, rule |-> "GUARDRAIL_COMPATIBILITY", severity |-> p.severity]
       : m \in {p.requires} \ {spec.compat}}

applicable(policies, env) == {p \in policies : p.env \in {"total", env}}

\* DynamicSchemaPolicyEngine.evaluate: without a text, or with one that is not
\* JSON, no policy is looked at.
dynamic_evaluate(policies, s, spec, env) ==
    IF text(spec) \in {NoSchema, Opaque} THEN {}
    ELSE UNION {IF p.kind = "LINT" THEN _evaluate_lint_policy(p, s, spec)
                ELSE _evaluate_guardrail_policy(p, s, spec)
                  : p \in applicable(policies, env)}

\* A lint check reads the keys of the parsed text: it raises on one that is no
\* object, and with it create_plan.
plan_raises(env, batch, policies) ==
    \E s \in DOMAIN batch, p \in applicable(policies, env) :
        /\ text(batch[s]) = NotObject
        /\ p.kind = "LINT"
        /\ \E c \in LintCodes : p.rules[c] # "off"

\* The violations create_plan collects.
plan_violations(env, batch, policies) ==
    UNION {guardrail_check(s, batch[s].compat, env)
             \cup dynamic_evaluate(policies, s, batch[s], env) : s \in DOMAIN batch}

------------------------------------------------------------------------------
(* The policy pack. *)

\* Risk levels none, low, medium, high, critical.
Risk == 0 .. 4
Decisions == {"ALLOW", "WARN", "APPROVAL_REQUIRED", "REJECT"}

_rule(code, decision, severity, risk, s) ==
    [code |-> code, decision |-> decision, severity |-> severity, risk |-> risk, subject |-> s]

_rule_from_violation(v) ==
    IF v.severity = "error"
      THEN _rule(v.rule, "REJECT", v.severity, 3, v.subject)
      ELSE _rule(v.rule, "WARN", v.severity, 1, v.subject)

Present(schema) == {f \in FieldNames : schema.fields[f] # NoField}

_added_required_fields_without_default(old, new) ==
    {f \in Present(new) \ Present(old) : ~new.fields[f].default}

\* The symbols of all enums among the branches, whatever else is among them.
_enum_symbols(t) == UNION {b.syms : b \in Range(t)}

_same_enum_family(t, u) == _enum_symbols(t) # {} /\ _enum_symbols(u) # {}

_changed_field_types(old, new) ==
    {f \in Present(old) \cap Present(new) :
       /\ ~_same_enum_family(old.fields[f].type, new.fields[f].type)
       /\ old.fields[f].type # new.fields[f].type}

\* Mutant: the inclusion is tested the wrong way round.
_enum_narrowing_fields_Swapped(old, new) ==
    {f \in Present(old) \cap Present(new) :
       /\ _same_enum_family(old.fields[f].type, new.fields[f].type)
       /\ ~(_enum_symbols(new.fields[f].type) \subseteq _enum_symbols(old.fields[f].type))}

_enum_narrowing_fields(old, new) ==
    {f \in Present(old) \cap Present(new) :
       /\ _same_enum_family(old.fields[f].type, new.fields[f].type)
       /\ ~(_enum_symbols(old.fields[f].type) \subseteq _enum_symbols(new.fields[f].type))}

compat_none_rules(env, s, spec) ==
    IF spec.compat # "NONE" THEN {}
    ELSE IF env = "prod"
      THEN {_rule("schema.compatibility.none.forbidden", "REJECT", "error", 4, s)}
      ELSE {_rule("schema.compatibility.none.requires_approval", "APPROVAL_REQUIRED", "warning", 3, s)}

\* Mutant: production is forgotten in the list of strict environments.
metadata_rules_StgOnly(env, s, spec) ==
    LET decision == IF env = "stg" THEN "APPROVAL_REQUIRED" ELSE "WARN"
    IN  IF spec.meta = "full" THEN {}
        ELSE {_rule("schema.metadata.missing", decision, "warning", 1, s)}

metadata_rules(env, s, spec) ==
    LET strict   == env \in {"stg", "prod"}
        decision == IF strict THEN "APPROVAL_REQUIRED" ELSE "WARN"
        severity == IF env = "prod" THEN "error" ELSE "warning"
    IN  CASE spec.meta = "missing" ->
               {_rule("schema.metadata.missing", decision, severity, IF strict THEN 3 ELSE 1, s)}
          [] spec.meta = "nodoc" ->
               {_rule("schema.metadata.doc.missing", decision, severity, IF strict THEN 2 ELSE 1, s)}
          [] spec.meta = "full" -> {}

\* The structural rules look at an update of one JSON object by another.
structure_rules(s, spec, current) ==
    IF \/ _determine_plan_action(current, text(spec)) # "UPDATE"
       \/ {current, text(spec)} \cap {NoSchema, Opaque, NotObject} # {}
    THEN {}
    ELSE {_rule("schema.field.required_without_default.forbidden", "REJECT", "error", 4, s)
            : f \in _added_required_fields_without_default(current, spec.schema)}
         \cup {_rule("schema.field.type_change.forbidden", "REJECT", "error", 4, s)
            : f \in _changed_field_types(current, spec.schema)}
         \cup {_rule("schema.enum_narrowing.requires_approval", "APPROVAL_REQUIRED", "warning", 3, s)
            : f \in _enum_narrowing_fields(current, spec.schema)}

\* Mutant: the loop is left, not continued, at a schema that cannot be parsed.
_build_custom_rules_Return(env, batch, current) ==
    UNION {compat_none_rules(env, s, batch[s]) \cup metadata_rules(env, s, batch[s])
             \cup (IF \E t \in DOMAIN batch : Opaque \in {current[t], text(batch[t])}
                    THEN {} ELSE structure_rules(s, batch[s], current[s])) : s \in DOMAIN batch}

_build_custom_rules(env, batch, current) ==
    UNION {compat_none_rules(env, s, batch[s]) \cup metadata_rules(env, s, batch[s])
             \cup structure_rules(s, batch[s], current[s]) : s \in DOMAIN batch}

\* incompatible: the subjects whose compatibility report is negative.
_rules_from_compatibility_reports(incompatible) ==
    {_rule("schema.compatibility.backward_incompatible", "REJECT", "error", 4, s) : s \in incompatible}

\* The codes of the pack's own rules.
PackCodes == {"schema.compatibility.none.forbidden",
              "schema.compatibility.none.requires_approval",
              "schema.metadata.missing", "schema.metadata.doc.missing",
              "schema.field.required_without_default.forbidden",
              "schema.field.type_change.forbidden",
              "schema.enum_narrowing.requires_approval",
              "schema.compatibility.backward_incompatible"}

pack_rules(env, batch, current, incompatible) ==
    _rules_from_compatibility_reports(incompatible) \cup _build_custom_rules(env, batch, current)

\* DefaultSchemaPolicyPackV1.evaluate: the rules of the evaluation ...
evaluate_rules(env, batch, current, incompatible, violations) ==
    {_rule_from_violation(v) : v \in violations}
      \cup pack_rules(env, batch, current, incompatible)

\* Mutant: the severity of the rule is kept.
_violation_from_rule_OwnSeverity(r) ==
    [subject |-> r.subject, rule |-> r.code, severity |-> r.severity]

_violation_from_rule(r) ==
    [subject |-> r.subject, rule |-> r.code,
     severity |-> IF r.decision = "REJECT" THEN "error" ELSE "warning"]

\* ... and the violations of the plan that is saved: a generated one is left
\* out when its code is already among the planner's violations.
evaluate_violations(env, batch, current, incompatible, violations) ==
    violations \cup
      {_violation_from_rule(r) :
         r \in {q \in pack_rules(env, batch, current, incompatible) :
                  \A v \in violations : v.rule # q.code}}

------------------------------------------------------------------------------
(* The evaluation and the gates. *)

blocking(rules) == \E r \in rules : r.decision = "REJECT"

approval_required(rules) ==
    (\E r \in rules : r.decision = "APPROVAL_REQUIRED") /\ ~blocking(rules)

decision(rules) ==
    IF blocking(rules) THEN "REJECT"
    ELSE IF approval_required(rules) THEN "APPROVAL_REQUIRED"
    ELSE IF \E r \in rules : r.decision = "WARN" THEN "WARN" ELSE "ALLOW"

risk_level(rules) ==
    IF rules = {} THEN 0
    ELSE CHOOSE n \in {r.risk : r \in rules} : \A r \in rules : n >= r.risk

\* approval_metadata(...)["state"]
approval_state(rules, override) ==
    IF blocking(rules) THEN "rejected"
    ELSE IF ~approval_required(rules) THEN "not_required"
    ELSE IF override THEN "approved" ELSE "pending"

\* ensure_approval: returns, or raises PolicyBlockedError / ApprovalRequiredError.
ensure_approval(rules, override) ==
    IF blocking(rules) THEN "blocked"
    ELSE IF approval_required(rules) /\ ~override THEN "approval_required" ELSE "pass"

\* DomainSchemaPlan.can_apply
can_apply(incompatible, violations) ==
    incompatible = {} /\ \A v \in violations : v.severity # "error"
=============================================================================
