------------------------------ MODULE PolicyReview ------------------------------
(***************************************************************************)
(* One review of a batch: the planner's findings and the policy pack are   *)
(* turned into a verdict, the verdict is what a dry run announces, and the *)
(* outcome is what an apply of the same batch does with it.                *)
(***************************************************************************)
EXTENDS PolicyPack

CONSTANTS
    Subjects,
    Inputs,       \* the reviews that may be asked for
    NoVerdict, Raised

\* A review: a batch and what the planner meets, the schemas describe_subjects
\* reports, the subjects with a negative compatibility report and the active policies.
ASSUME InputsAssumption ==
    \A in \in Inputs :
        /\ DOMAIN in = {"env", "batch", "current", "incompatible", "policies", "override"}
        /\ in.env \in Envs
        /\ DOMAIN in.batch \in (SUBSET Subjects) \ {{}}
        /\ \A s \in DOMAIN in.batch :
             /\ in.batch[s] \in SchemaSpec
             /\ in.current[s] \in Schema \cup {NoSchema}
        /\ in.incompatible \subseteq DOMAIN in.batch
        /\ in.policies \subseteq LintPolicy \cup GuardPolicy
        /\ in.override \in BOOLEAN

\* Codes of the lint checks are not codes of the pack.
ASSUME CodesAssumption == LintCodes \cap PackCodes = {}

VARIABLES input, verdict
vars == <<input, verdict>>

\* What SchemaBatchApplyUseCase does with an evaluated plan: the approval gate,
\* then the check of can_apply.
apply_outcome(rules, violations, incompatible, override) ==
    IF ensure_approval(rules, override) # "pass" THEN ensure_approval(rules, override)
    ELSE IF can_apply(incompatible, violations) THEN "pass" ELSE "refused"

\* create_plan followed by DefaultSchemaPolicyPackV1.evaluate.
evaluate(in) ==
    LET found == plan_violations(in.env, in.batch, in.policies)
        rules == evaluate_rules(in.env, in.batch, in.current, in.incompatible, found)
        violations == evaluate_violations(in.env, in.batch, in.current, in.incompatible, found)
    IN  [rules      |-> rules,
         violations |-> violations,
         announced  |-> approval_state(rules, FALSE),
         state      |-> approval_state(rules, in.override),
         outcome    |-> apply_outcome(rules, violations, in.incompatible, in.override)]

Init == input \in Inputs /\ verdict = NoVerdict

Raises(in) == plan_raises(in.env, in.batch, in.policies)

Review ==
    /\ verdict = NoVerdict
    /\ ~Raises(input)
    /\ verdict' = evaluate(input)
    /\ UNCHANGED input

\* create_plan raises: the request fails without a verdict.
ReviewFails ==
    /\ verdict = NoVerdict
    /\ Raises(input)
    /\ verdict' = Raised
    /\ UNCHANGED input

Next == Review \/ ReviewFails

Spec == Init /\ [][Next]_vars

------------------------------------------------------------------------------
(* Properties *)

Reviewed == verdict \notin {NoVerdict, Raised}

\* What a dry run announces, which never counts an override, and the state an apply
\* records are what apply does (dry_run.py:73-76, preflight_policy.py:125-157 against
\* apply.py:114-125): a request announced as needing no approval is never refused by
\* the second check, can_apply; a pending one passes exactly with an override; a
\* rejected one passes with none.
AnnouncedIsDone ==
    Reviewed =>
        /\ verdict.state \in {"approved", "not_required"} <=> verdict.outcome = "pass"
        /\ verdict.state = "rejected" <=> verdict.outcome = "blocked"
        /\ verdict.state = "pending" <=> verdict.outcome = "approval_required"
        /\ verdict.announced = "not_required" => verdict.outcome = "pass"
        /\ verdict.announced = "rejected" <=> verdict.outcome = "blocked"
        /\ verdict.announced = "pending" =>
             verdict.outcome = IF input.override THEN "pass" ELSE "approval_required"
        /\ verdict.announced # "approved"

Rank(d) == CASE d = "ALLOW" -> 0 [] d = "WARN" -> 1
             [] d = "APPROVAL_REQUIRED" -> 2 [] d = "REJECT" -> 3

\* The batch with subject s alone.
Only(in, s) ==
    [in EXCEPT !.batch = [x \in {s} |-> in.batch[s]],
               !.incompatible = in.incompatible \cap {s}]

\* Nothing is gained or lost by batching: a batch is decided as its strictest
\* subject is when it is submitted alone, with the highest of their risks
\* (policy_pack.py:28-47, 56; preflight_policy.py:79-100).
StrictestSubject ==
    Reviewed =>
        LET alone(s) == evaluate(Only(input, s)).rules IN
        /\ \A s \in DOMAIN input.batch :
             /\ Rank(decision(alone(s))) <= Rank(decision(verdict.rules))
             /\ risk_level(alone(s)) <= risk_level(verdict.rules)
        /\ \E s \in DOMAIN input.batch : decision(alone(s)) = decision(verdict.rules)
        /\ \E s \in DOMAIN input.batch : risk_level(alone(s)) = risk_level(verdict.rules)

EnvRank(e) == CASE e = "dev" -> 0 [] e = "stg" -> 1 [] e = "prod" -> 2

\* A change is never judged more leniently on its way to production, as long as
\* the active policies are not bound to one environment
\* (compatibility.py:10-42, policy_pack.py:57-122).
StricterTowardsProd ==
    Reviewed /\ (\A p \in input.policies : p.env = "total") =>
        \A e \in Envs : EnvRank(e) <= EnvRank(input.env) =>
            Rank(decision(evaluate([input EXCEPT !.env = e]).rules))
                <= Rank(decision(verdict.rules))

(* The reference for the structural rules: what a consumer that was upgraded *)
(* to the schema that is registered can read.                                *)

\* The values of a type: per enum its symbols; one value stands for those of any
\* other branch.
Values(t) == UNION {{<<b.name, x>> : x \in IF b.syms = {} THEN {"any"} ELSE b.syms} : b \in Range(t)}

Lost(t, u) == Values(t) \ Values(u)

Enums(t) == {b \in Range(t) : b.syms # {}}
Keeps(u, x) == \E b \in Range(u) : x \in b.syms

\* Updates of a record by a record, whichever way its text is given.
Updated == {s \in DOMAIN input.batch :
              {input.current[s], input.batch[s].schema} \cap {NoSchema, Opaque, NotObject} = {}}

\* What an accepted update takes from an upgraded consumer, whatever the declared
\* compatibility mode.  With no rejection and no approval asked for, a value written
\* before is unreadable for one of two causes only: the text came as a source, which
\* no structural rule looks at (policy_pack.py:124), or the field had enums before and
\* has some now, so that anything else about its type passes for an enum change
\* (policy_pack.py:271-330): a branch that is no enum is gone, or an enum that was
\* renamed.  No symbol ever disappears from a field that keeps an enum, and a field
\* that is new has a default.
AcceptedLossHasCause ==
    Reviewed /\ Rank(decision(verdict.rules)) < 2 =>
        \A s \in {t \in Updated : ~input.batch[t].inline} :
            LET old == input.current[s].fields
                new == input.batch[s].schema.fields
            IN  \A f \in {g \in FieldNames : new[g] # NoField} :
                    IF old[f] = NoField THEN new[f].default
                    ELSE /\ Lost(old[f].type, new[f].type) # {} =>
                              Enums(old[f].type) # {} /\ Enums(new[f].type) # {}
                         /\ \A b \in Enums(old[f].type) : \A x \in b.syms : Keeps(new[f].type, x)
=============================================================================
