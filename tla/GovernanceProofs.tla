---------------------------- MODULE GovernanceProofs ----------------------------
(***************************************************************************)
(* What governs changes, for every value of the constants.  A verdict is   *)
(* as strict as its subjects and its environment, and what a dry run       *)
(* announces is what an apply does (PolicyReview); a request for approval  *)
(* shows one decision (ApprovalTrail); the dashboard hides no orphan       *)
(* (GovernanceStats).  The three are separate machines; the names of the   *)
(* last two carry the prefixes Trail and Stats.                            *)
(***************************************************************************)
EXTENDS PolicyReview, ApprovalTrail, GovernanceStats,
        SequenceTheorems, FiniteSetTheorems, FunctionTheorems, TLAPS

\* The names of the planner's own rules.
PlannerCodes == LintCodes \cup {"PROD_COMPAT_RESTRICTION", "STG_COMPAT_RECOMMENDATION",
                                "GUARDRAIL_COMPATIBILITY"}

\* The rules a set of violations turns into are decided by their severities.
LEMMA RulesOfViolations ==
    ASSUME NEW V
    PROVE  (\E r \in {_rule_from_violation(v) : v \in V} : r.decision = "REJECT")
             <=> \E v \in V : v.severity = "error"
<1> DEFINE R == {_rule_from_violation(v) : v \in V}
<1>1. \A v \in V : _rule_from_violation(v).decision = "REJECT" <=> v.severity = "error"
  BY DEF _rule_from_violation, _rule
<1>2. ASSUME NEW r \in R, r.decision = "REJECT"
      PROVE  \E v \in V : v.severity = "error"
  <2>1. PICK v \in V : r = _rule_from_violation(v)  OBVIOUS
  <2> QED BY <2>1, <1>1, <1>2
<1>3. ASSUME NEW v \in V, v.severity = "error"
      PROVE  \E r \in R : r.decision = "REJECT"
  BY <1>1, <1>3
<1> QED BY <1>2, <1>3

\* Every violation the planner collects carries one of the planner's codes.
LEMMA PlannerViolations ==
    ASSUME NEW env, NEW batch, NEW policies \in SUBSET (LintPolicy \cup GuardPolicy),
           \A s \in DOMAIN batch : batch[s].lints \subseteq LintCodes
    PROVE  \A v \in plan_violations(env, batch, policies) : v.rule \in PlannerCodes
<1>1. ASSUME NEW s \in DOMAIN batch, NEW v \in guardrail_check(s, batch[s].compat, env)
      PROVE  v.rule \in PlannerCodes
  BY <1>1 DEF guardrail_check, PlannerCodes
<1>2. ASSUME NEW s \in DOMAIN batch, NEW p \in policies, NEW v,
             v \in _evaluate_lint_policy(p, s, batch[s])
      PROVE  v.rule \in PlannerCodes
  BY <1>2 DEF _evaluate_lint_policy, PlannerCodes
<1>3. ASSUME NEW s \in DOMAIN batch, NEW p \in policies, NEW v,
             v \in _evaluate_guardrail_policy(p, s, batch[s])
      PROVE  v.rule \in PlannerCodes
  BY <1>3 DEF _evaluate_guardrail_policy, PlannerCodes
<1>4. ASSUME NEW s \in DOMAIN batch, NEW v \in dynamic_evaluate(policies, s, batch[s], env)
      PROVE  v.rule \in PlannerCodes
  <2>1. PICK p \in applicable(policies, env) :
          v \in IF p.kind = "LINT" THEN _evaluate_lint_policy(p, s, batch[s])
               ELSE _evaluate_guardrail_policy(p, s, batch[s])
    BY <1>4 DEF dynamic_evaluate
  <2>2. p \in policies  BY DEF applicable
  <2> QED BY <1>2, <1>3, <2>1, <2>2
<1> QED BY <1>1, <1>4 DEF plan_violations

\* Every rule of the pack carries one of the pack's codes.
LEMMA RulesOfPack ==
    ASSUME NEW env, NEW batch, NEW current, NEW incompatible,
           \A s \in DOMAIN batch : batch[s].meta \in Meta
    PROVE  \A r \in pack_rules(env, batch, current, incompatible) : r.code \in PackCodes
<1>1. ASSUME NEW r \in _rules_from_compatibility_reports(incompatible)
      PROVE  r.code \in PackCodes
  BY DEF _rules_from_compatibility_reports, _rule, PackCodes
<1>2. ASSUME NEW s \in DOMAIN batch, NEW r \in compat_none_rules(env, s, batch[s])
      PROVE  r.code \in PackCodes
  BY DEF compat_none_rules, _rule, PackCodes
<1>3. ASSUME NEW s \in DOMAIN batch, NEW r \in metadata_rules(env, s, batch[s])
      PROVE  r.code \in PackCodes
  <2>1. batch[s].meta \in {"missing", "nodoc", "full"}  BY DEF Meta
  <2> QED BY <2>1 DEF metadata_rules, _rule, PackCodes
<1>4. ASSUME NEW s \in DOMAIN batch, NEW r \in structure_rules(s, batch[s], current[s])
      PROVE  r.code \in PackCodes
  BY DEF structure_rules, _rule, PackCodes
<1>5. ASSUME NEW r \in _build_custom_rules(env, batch, current)
      PROVE  r.code \in PackCodes
  BY <1>2, <1>3, <1>4 DEF _build_custom_rules
<1> QED BY <1>1, <1>5 DEF pack_rules

\* A negative compatibility report is a rejection in its own right.
LEMMA ReportRejects ==
    ASSUME NEW env, NEW batch, NEW current, NEW incompatible, incompatible # {}
    PROVE  \E r \in pack_rules(env, batch, current, incompatible) : r.decision = "REJECT"
<1>1. PICK s \in incompatible : TRUE  OBVIOUS
<1>2. _rule("schema.compatibility.backward_incompatible", "REJECT", "error", 4, s)
        \in pack_rules(env, batch, current, incompatible)
  BY DEF pack_rules, _rules_from_compatibility_reports
<1> QED BY <1>2 DEF _rule

\* The two gates see the same thing: the evaluation holds a rejection exactly
\* when the plan that is saved cannot be applied
\* (preflight_policy.py:71-72 and plan_result.py:111-116).
THEOREM GatesAgree ==
    ASSUME NEW env, NEW batch, NEW current, NEW incompatible,
           NEW policies \in SUBSET (LintPolicy \cup GuardPolicy),
           \A s \in DOMAIN batch :
               batch[s].lints \subseteq LintCodes /\ batch[s].meta \in Meta
    PROVE  LET V == plan_violations(env, batch, policies) IN
           blocking(evaluate_rules(env, batch, current, incompatible, V))
             <=> ~can_apply(incompatible,
                            evaluate_violations(env, batch, current, incompatible, V))
<1> DEFINE V == plan_violations(env, batch, policies)
           P == pack_rules(env, batch, current, incompatible)
           W == evaluate_violations(env, batch, current, incompatible, V)
<1> HIDE DEF V, P
<1>1. \A v \in V : v.rule \in PlannerCodes  BY PlannerViolations DEF V
<1>2. \A r \in P : r.code \in PackCodes  BY RulesOfPack DEF P
<1>3. PlannerCodes \cap PackCodes = {}
  BY CodesAssumption DEF PlannerCodes, PackCodes
<1>4. W = V \cup {_violation_from_rule(r) : r \in P}
  <2>1. {q \in P : \A v \in V : v.rule # q.code} = P  BY <1>1, <1>2, <1>3
  <2> QED BY <2>1 DEF evaluate_violations, P
<1>5. (\E w \in {_violation_from_rule(r) : r \in P} : w.severity = "error")
        <=> \E r \in P : r.decision = "REJECT"
  <2>1. \A r \in P : _violation_from_rule(r).severity = "error" <=> r.decision = "REJECT"
    BY DEF _violation_from_rule
  <2>2. ASSUME NEW w \in {_violation_from_rule(r) : r \in P}, w.severity = "error"
        PROVE  \E r \in P : r.decision = "REJECT"
    <3>1. PICK r \in P : w = _violation_from_rule(r)  OBVIOUS
    <3> QED BY <3>1, <2>1, <2>2
  <2>3. ASSUME NEW r \in P, r.decision = "REJECT"
        PROVE  \E w \in {_violation_from_rule(q) : q \in P} : w.severity = "error"
    BY <2>1, <2>3
  <2> QED BY <2>2, <2>3
<1>6. blocking(evaluate_rules(env, batch, current, incompatible, V))
        <=> (\E v \in V : v.severity = "error") \/ (\E r \in P : r.decision = "REJECT")
  <2>1. evaluate_rules(env, batch, current, incompatible, V)
          = {_rule_from_violation(v) : v \in V} \cup P
    BY DEF evaluate_rules, P
  <2>2. (\E r \in {_rule_from_violation(v) : v \in V} : r.decision = "REJECT")
          <=> \E v \in V : v.severity = "error"
    BY RulesOfViolations
  <2> QED BY <2>1, <2>2, Zenon DEF blocking
<1>7. incompatible # {} => \E r \in P : r.decision = "REJECT"
  BY ReportRejects DEF P
<1>8. ~can_apply(incompatible, W)
        <=> incompatible # {} \/ (\E v \in V : v.severity = "error")
              \/ (\E w \in {_violation_from_rule(r) : r \in P} : w.severity = "error")
  BY <1>4 DEF can_apply
<1> QED BY <1>5, <1>6, <1>7, <1>8 DEF V

------------------------------------------------------------------------------
\* What is known of a reviewed input: the verdict is the evaluation of it.
VerdictIsEvaluation ==
    /\ input \in Inputs
    /\ Reviewed => verdict = evaluate(input)

\* The review stores exactly the evaluation of its input.
LEMMA VerdictInvariant == Spec => []VerdictIsEvaluation
<1>1. Init => VerdictIsEvaluation  BY DEF Init, VerdictIsEvaluation, Reviewed
<1>2. VerdictIsEvaluation /\ [Next]_vars => VerdictIsEvaluation'
  BY DEF VerdictIsEvaluation, Reviewed, Next, Review, ReviewFails, vars
<1> QED BY <1>1, <1>2, PTL DEF Spec

\* The announced state is what apply does: Spec implements AnnouncedIsDone
\* (preflight_policy.py:125-157 against apply.py:114-125).
THEOREM Announced == Spec => []AnnouncedIsDone
<1>1. VerdictIsEvaluation => AnnouncedIsDone
  <2> SUFFICES ASSUME VerdictIsEvaluation, Reviewed
               PROVE  AnnouncedIsDone
    BY DEF AnnouncedIsDone
  <2> DEFINE V == plan_violations(input.env, input.batch, input.policies)
             R == evaluate_rules(input.env, input.batch, input.current, input.incompatible, V)
             W == evaluate_violations(input.env, input.batch, input.current, input.incompatible, V)
  <2>1. input.policies \in SUBSET (LintPolicy \cup GuardPolicy)
    BY InputsAssumption DEF VerdictIsEvaluation
  <2>2. \A s \in DOMAIN input.batch :
          input.batch[s].lints \subseteq LintCodes /\ input.batch[s].meta \in Meta
    BY InputsAssumption DEF VerdictIsEvaluation, SchemaSpec
  <2>3. blocking(R) <=> ~can_apply(input.incompatible, W)
    BY <2>1, <2>2, GatesAgree
  <2>4. /\ verdict.state = approval_state(R, input.override)
        /\ verdict.announced = approval_state(R, FALSE)
        /\ verdict.outcome = apply_outcome(R, W, input.incompatible, input.override)
    <3>1. verdict = evaluate(input)  BY DEF VerdictIsEvaluation, Reviewed
    <3> QED BY <3>1 DEF evaluate
  <2> HIDE DEF R, W, V
  <2>5. CASE blocking(R)
    <3>1. verdict.state = "rejected" /\ verdict.announced = "rejected" /\ verdict.outcome = "blocked"
      BY <2>4, <2>5 DEF approval_state, apply_outcome, ensure_approval
    <3> QED BY <3>1 DEF AnnouncedIsDone
  <2>6. CASE ~blocking(R) /\ ~approval_required(R)
    <3>1. verdict.state = "not_required" /\ verdict.announced = "not_required"
      BY <2>4, <2>6 DEF approval_state
    <3>2. verdict.outcome = "pass"
      BY <2>3, <2>4, <2>6 DEF apply_outcome, ensure_approval
    <3> QED BY <3>1, <3>2 DEF AnnouncedIsDone
  <2>7. CASE ~blocking(R) /\ approval_required(R) /\ input.override
    <3>1. verdict.state = "approved" /\ verdict.announced = "pending"
      BY <2>4, <2>7 DEF approval_state
    <3>2. verdict.outcome = "pass"
      BY <2>3, <2>4, <2>7 DEF apply_outcome, ensure_approval
    <3> QED BY <2>7, <3>1, <3>2 DEF AnnouncedIsDone
  <2>8. CASE ~blocking(R) /\ approval_required(R) /\ ~input.override
    <3>1. verdict.state = "pending" /\ verdict.announced = "pending"
      BY <2>4, <2>8 DEF approval_state
    <3>2. verdict.outcome = "approval_required"
      BY <2>4, <2>8 DEF apply_outcome, ensure_approval
    <3> QED BY <2>8, <3>1, <3>2 DEF AnnouncedIsDone
  <2> QED BY <2>5, <2>6, <2>7, <2>8
<1> QED BY <1>1, VerdictInvariant, PTL

------------------------------------------------------------------------------
(* The verdict as a function of the rules. *)

\* What a rule is worth by itself.
Weight(r) == Rank(r.decision)

Ruled(R) == \A r \in R : r.decision \in {"WARN", "APPROVAL_REQUIRED", "REJECT"}

LEMMA RankIs ==
    Rank("ALLOW") = 0 /\ Rank("WARN") = 1 /\ Rank("APPROVAL_REQUIRED") = 2 /\ Rank("REJECT") = 3
BY DEF Rank

\* The decision is that of the weightiest rule.
LEMMA DecisionIs ==
    ASSUME NEW R, Ruled(R)
    PROVE  /\ Rank(decision(R)) \in 0..3
           /\ \A r \in R : Weight(r) <= Rank(decision(R))
           /\ Rank(decision(R)) = 0 \/ \E r \in R : r.decision = decision(R)
           /\ decision(R) \in {"ALLOW", "WARN", "APPROVAL_REQUIRED", "REJECT"}
           /\ decision(R) = "ALLOW" <=> R = {}
<1>1. CASE blocking(R)  BY <1>1, RankIs DEF decision, blocking, Ruled, Weight
<1>2. CASE ~blocking(R) /\ approval_required(R)
  BY <1>2, RankIs DEF decision, approval_required, blocking, Ruled, Weight
<1>3. CASE ~blocking(R) /\ ~approval_required(R)
  BY <1>3, RankIs DEF decision, approval_required, blocking, Ruled, Weight
<1> QED BY <1>1, <1>2, <1>3

\* Rules that are each matched by one at least as weighty are judged no more strictly.
LEMMA DecisionGrows ==
    ASSUME NEW R, NEW S, Ruled(R), Ruled(S), \A r \in R : \E q \in S : Weight(r) <= Weight(q)
    PROVE  Rank(decision(R)) <= Rank(decision(S))
<1>1. Rank(decision(R)) \in 0..3 /\ Rank(decision(S)) \in 0..3  BY DecisionIs
<1>2. \A q \in S : Weight(q) <= Rank(decision(S))  BY DecisionIs
<1>3. \A r \in R : Weight(r) \in 0..3  BY RankIs DEF Ruled, Weight
<1>4. \A q \in S : Weight(q) \in 0..3  BY RankIs DEF Ruled, Weight
<1>5. CASE Rank(decision(R)) = 0  BY <1>1, <1>5
<1>6. CASE \E r \in R : r.decision = decision(R)
  <2>1. PICK r \in R : Weight(r) = Rank(decision(R))  BY <1>6 DEF Weight
  <2>2. PICK q \in S : Weight(r) <= Weight(q)  OBVIOUS
  <2> QED BY <1>1, <1>2, <1>3, <1>4, <2>1, <2>2
<1> QED BY <1>5, <1>6, DecisionIs

\* The risk is that of the riskiest rule.
LEMMA RiskIs ==
    ASSUME NEW R, \A r \in R : r.risk \in 1..4
    PROVE  /\ R = {} => risk_level(R) = 0
           /\ R # {} => (\E r \in R : r.risk = risk_level(R)) /\ \A r \in R : r.risk <= risk_level(R)
           /\ risk_level(R) \in 0..4
<1>1. CASE R = {}  BY <1>1 DEF risk_level
<1>2. CASE R # {}
  <2> DEFINE T == {r.risk : r \in R}
             Top(n) == n \in T /\ \A r \in R : n >= r.risk
  <2>1. \E n : Top(n)
    <3>1. \A n \in T : n \in 1..4  OBVIOUS
    <3>2. \A r \in R : r.risk \in T  OBVIOUS
    <3>3. CASE 4 \in T  BY <3>3
    <3>4. CASE 4 \notin T /\ 3 \in T
      <4>1. \A r \in R : 3 >= r.risk  BY <3>1, <3>2, <3>4
      <4> QED BY <3>4, <4>1
    <3>5. CASE 4 \notin T /\ 3 \notin T /\ 2 \in T
      <4>1. \A r \in R : 2 >= r.risk  BY <3>1, <3>2, <3>5
      <4> QED BY <3>5, <4>1
    <3>6. CASE 4 \notin T /\ 3 \notin T /\ 2 \notin T
      <4>1. \A r \in R : r.risk = 1  BY <3>1, <3>2, <3>6
      <4>2. PICK r \in R : TRUE  BY <1>2
      <4>3. 1 \in T  BY <3>2, <4>1, <4>2
      <4>4. \A q \in R : 1 >= q.risk  BY <4>1
      <4> QED BY <4>3, <4>4
    <3> QED BY <3>3, <3>4, <3>5, <3>6
  <2>2. risk_level(R) = CHOOSE n \in T : \A r \in R : n >= r.risk
    BY <1>2 DEF risk_level
  <2>3. risk_level(R) \in T /\ \A r \in R : risk_level(R) >= r.risk
    BY <2>1, <2>2
  <2>4. PICK r \in R : r.risk = risk_level(R)  BY <2>3
  <2> QED BY <1>2, <2>3, <2>4
<1> QED BY <1>1, <1>2

\* A rule of the evaluation: its decision and its risk.
Sound(r) == r.decision \in {"WARN", "APPROVAL_REQUIRED", "REJECT"} /\ r.risk \in 1..4

\* The rules of one subject of a batch.
SubjectRules(in, env, s) ==
    {_rule_from_violation(v) :
       v \in guardrail_check(s, in.batch[s].compat, env)
               \cup dynamic_evaluate(in.policies, s, in.batch[s], env)}
      \cup _rules_from_compatibility_reports(in.incompatible \cap {s})
      \cup compat_none_rules(env, s, in.batch[s])
      \cup metadata_rules(env, s, in.batch[s])
      \cup structure_rules(s, in.batch[s], in.current[s])

LEMMA SubjectRulesSound ==
    ASSUME NEW in, NEW env, NEW s, in.batch[s].meta \in Meta
    PROVE  \A r \in SubjectRules(in, env, s) : Sound(r)
<1>1. \A v : Sound(_rule_from_violation(v))  BY DEF _rule_from_violation, _rule, Sound
<1>2. \A r \in _rules_from_compatibility_reports(in.incompatible \cap {s}) : Sound(r)
  BY DEF _rules_from_compatibility_reports, _rule, Sound
<1>3. \A r \in compat_none_rules(env, s, in.batch[s]) : Sound(r)
  BY DEF compat_none_rules, _rule, Sound
<1>4. \A r \in metadata_rules(env, s, in.batch[s]) : Sound(r)
  <2>1. in.batch[s].meta \in {"missing", "nodoc", "full"}  BY DEF Meta
  <2> QED BY <2>1 DEF metadata_rules, _rule, Sound
<1>5. \A r \in structure_rules(s, in.batch[s], in.current[s]) : Sound(r)
  BY DEF structure_rules, _rule, Sound
<1> QED BY <1>1, <1>2, <1>3, <1>4, <1>5 DEF SubjectRules

\* The rules of a batch are those of its subjects.
LEMMA RulesBySubject ==
    ASSUME NEW in, NEW env, in.incompatible \subseteq DOMAIN in.batch
    PROVE  evaluate_rules(env, in.batch, in.current, in.incompatible,
                          plan_violations(env, in.batch, in.policies))
             = UNION {SubjectRules(in, env, s) : s \in DOMAIN in.batch}
<1> DEFINE V(s) == guardrail_check(s, in.batch[s].compat, env)
                     \cup dynamic_evaluate(in.policies, s, in.batch[s], env)
           C(s) == compat_none_rules(env, s, in.batch[s]) \cup metadata_rules(env, s, in.batch[s])
                     \cup structure_rules(s, in.batch[s], in.current[s])
           Rep(I) == _rules_from_compatibility_reports(I)
           D == DOMAIN in.batch
           All == evaluate_rules(env, in.batch, in.current, in.incompatible,
                                 plan_violations(env, in.batch, in.policies))
<1>1. in.incompatible \subseteq D  OBVIOUS
<1>2. All = {_rule_from_violation(v) : v \in UNION {V(s) : s \in D}}
              \cup Rep(in.incompatible) \cup UNION {C(s) : s \in D}
  BY DEF evaluate_rules, plan_violations, pack_rules, _build_custom_rules
<1>3. \A s : SubjectRules(in, env, s) =
               {_rule_from_violation(v) : v \in V(s)} \cup Rep(in.incompatible \cap {s}) \cup C(s)
  BY DEF SubjectRules
<1>4. {_rule_from_violation(v) : v \in UNION {V(s) : s \in D}}
        = UNION {{_rule_from_violation(v) : v \in V(s)} : s \in D}
  <2> HIDE DEF V
  <2> QED OBVIOUS
<1>5. \A r : r \in Rep(in.incompatible) <=> \E s \in D : r \in Rep(in.incompatible \cap {s})
  BY <1>1 DEF _rules_from_compatibility_reports
<1> QED
  <2> HIDE DEF V, C, Rep, D, All
  <2>1. ASSUME NEW r \in All PROVE \E s \in D : r \in SubjectRules(in, env, s)
    <3>1. CASE r \in {_rule_from_violation(v) : v \in UNION {V(s) : s \in D}}
      <4>1. PICK s \in D : r \in {_rule_from_violation(v) : v \in V(s)}  BY <1>4, <3>1
      <4> QED BY <1>3, <4>1
    <3>2. CASE r \in Rep(in.incompatible)
      <4>1. PICK s \in D : r \in Rep(in.incompatible \cap {s})  BY <1>5, <3>2
      <4> QED BY <1>3, <4>1
    <3>3. CASE r \in UNION {C(s) : s \in D}
      <4>1. PICK s \in D : r \in C(s)  BY <3>3
      <4> QED BY <1>3, <4>1
    <3> QED BY <1>2, <3>1, <3>2, <3>3
  <2>2. ASSUME NEW s \in D, NEW r \in SubjectRules(in, env, s) PROVE r \in All
    BY <1>2, <1>3, <1>4, <1>5
  <2>3. All = UNION {SubjectRules(in, env, s) : s \in D}  BY <2>1, <2>2
  <2> QED BY <2>3 DEF All, D

LEMMA EvaluatedRules ==
    ASSUME NEW in, in.incompatible \subseteq DOMAIN in.batch
    PROVE  evaluate(in).rules = UNION {SubjectRules(in, in.env, s) : s \in DOMAIN in.batch}
BY RulesBySubject DEF evaluate

LEMMA InputIs ==
    ASSUME NEW in \in Inputs
    PROVE  /\ in.incompatible \subseteq DOMAIN in.batch /\ DOMAIN in.batch # {} /\ in.env \in Envs
           /\ \A s \in DOMAIN in.batch :
                /\ in.batch[s].meta \in Meta /\ in.batch[s].schema \in Schema
                /\ in.current[s] \in Schema \cup {NoSchema}
           /\ DOMAIN in = {"env", "batch", "current", "incompatible", "policies", "override"}
BY InputsAssumption DEF SchemaSpec

LEMMA EvaluatedSound ==
    ASSUME NEW in, in.incompatible \subseteq DOMAIN in.batch,
           \A s \in DOMAIN in.batch : in.batch[s].meta \in Meta
    PROVE  Ruled(evaluate(in).rules) /\ \A r \in evaluate(in).rules : r.risk \in 1..4
<1>1. \A s \in DOMAIN in.batch : \A r \in SubjectRules(in, in.env, s) : Sound(r)
  BY SubjectRulesSound
<1>2. \A r \in evaluate(in).rules : Sound(r)  BY <1>1, EvaluatedRules
<1> QED BY <1>2 DEF Ruled, Sound

\* On the way to production no rule of a subject disappears without one that is
\* at least as weighty.
LEMMA SubjectStricter ==
    ASSUME NEW in, NEW d \in Envs, NEW e \in Envs, EnvRank(d) <= EnvRank(e), NEW s,
           in.batch[s].meta \in Meta, \A p \in in.policies : p.env = "total",
           NEW r \in SubjectRules(in, d, s)
    PROVE  \E q \in SubjectRules(in, e, s) : Weight(r) <= Weight(q)
<1>1. \/ d = e \/ d = "dev" \/ (d = "stg" /\ e = "prod")
  BY DEF Envs, EnvRank
<1>2. Weight(r) \in 0..3 /\ Weight(r) <= Weight(r)
  BY SubjectRulesSound, RankIs DEF Sound, Weight
<1>3. CASE \E v \in guardrail_check(s, in.batch[s].compat, d) : r = _rule_from_violation(v)
  <2>1. PICK v \in guardrail_check(s, in.batch[s].compat, d) : r = _rule_from_violation(v)  BY <1>3
  <2>2. d # "dev"  BY <2>1 DEF guardrail_check
  <2>3. CASE d = e  BY <1>2, <2>1, <2>3 DEF SubjectRules
  <2>4. CASE d = "stg" /\ e = "prod"
    <3>1. v.severity = "warning" /\ in.batch[s].compat = "NONE"
      BY <2>1, <2>4 DEF guardrail_check
    <3>2. Weight(r) = 1  BY <2>1, <3>1, RankIs DEF Weight, _rule_from_violation, _rule
    <3> DEFINE w == [subject |-> s, rule |-> "PROD_COMPAT_RESTRICTION", severity |-> "error"]
    <3>3. w \in guardrail_check(s, in.batch[s].compat, e)
      BY <2>4, <3>1 DEF guardrail_check
    <3>4. Weight(_rule_from_violation(w)) = 3
      BY RankIs DEF Weight, _rule_from_violation, _rule
    <3>5. _rule_from_violation(w) \in SubjectRules(in, e, s)  BY <3>3 DEF SubjectRules
    <3> QED BY <3>2, <3>4, <3>5
  <2> QED BY <1>1, <2>2, <2>3, <2>4
<1>4. CASE \E v \in dynamic_evaluate(in.policies, s, in.batch[s], d) : r = _rule_from_violation(v)
  <2>1. dynamic_evaluate(in.policies, s, in.batch[s], d) = dynamic_evaluate(in.policies, s, in.batch[s], e)
    <3>1. applicable(in.policies, d) = applicable(in.policies, e)
      BY DEF applicable
    <3> QED BY <3>1 DEF dynamic_evaluate
  <2>2. r \in SubjectRules(in, e, s)  BY <1>4, <2>1 DEF SubjectRules
  <2> QED BY <1>2, <2>2
<1>5. CASE r \in compat_none_rules(d, s, in.batch[s])
  <2>1. in.batch[s].compat = "NONE"  BY <1>5 DEF compat_none_rules
  <2>2. CASE e = "prod"
    <3> DEFINE q == _rule("schema.compatibility.none.forbidden", "REJECT", "error", 4, s)
    <3>1. q \in SubjectRules(in, e, s)  BY <2>1, <2>2 DEF SubjectRules, compat_none_rules
    <3>2. Weight(q) = 3  BY RankIs DEF Weight, _rule
    <3> QED BY <1>2, <3>1, <3>2
  <2>3. CASE e # "prod"
    <3>1. d # "prod"  BY <1>1, <2>3
    <3>2. r \in SubjectRules(in, e, s)  BY <1>5, <2>3, <3>1 DEF SubjectRules, compat_none_rules
    <3> QED BY <1>2, <3>2
  <2> QED BY <2>2, <2>3
<1>6. CASE r \in metadata_rules(d, s, in.batch[s])
  <2>1. in.batch[s].meta \in {"missing", "nodoc", "full"}  BY DEF Meta
  <2>2. in.batch[s].meta # "full"  BY <1>6 DEF metadata_rules
  <2>3. \A q \in metadata_rules(e, s, in.batch[s]) : q \in SubjectRules(in, e, s)
    BY DEF SubjectRules
  <2>4. CASE d = "dev"
    <3>1. Weight(r) = 1  BY <1>6, <2>1, <2>4, RankIs DEF metadata_rules, _rule, Weight
    <3>2. PICK q \in metadata_rules(e, s, in.batch[s]) : TRUE
      BY <2>1, <2>2 DEF metadata_rules
    <3>3. Weight(q) \in {1, 2}  BY <2>1, RankIs DEF metadata_rules, _rule, Weight
    <3> QED BY <2>3, <3>1, <3>3
  <2>5. CASE d # "dev"
    <3>1. Weight(r) = 2 /\ e # "dev"
      BY <1>1, <1>6, <2>1, <2>5, RankIs DEF metadata_rules, _rule, Weight, Envs
    <3>2. PICK q \in metadata_rules(e, s, in.batch[s]) : TRUE
      BY <2>1, <2>2 DEF metadata_rules
    <3>3. Weight(q) = 2  BY <2>1, <3>1, RankIs DEF metadata_rules, _rule, Weight, Envs
    <3> QED BY <2>3, <3>1, <3>3
  <2> QED BY <2>4, <2>5
<1>7. CASE r \in _rules_from_compatibility_reports(in.incompatible \cap {s})
             \cup structure_rules(s, in.batch[s], in.current[s])
  <2>1. r \in SubjectRules(in, e, s)  BY <1>7 DEF SubjectRules
  <2> QED BY <1>2, <2>1
<1> QED BY <1>3, <1>4, <1>5, <1>6, <1>7 DEF SubjectRules

------------------------------------------------------------------------------
(* The theorems about the verdict. *)

\* The same review asked for another environment.
Elsewhere(in, e) == [in EXCEPT !.env = e]

LEMMA ElsewhereIs ==
    ASSUME NEW in \in Inputs, NEW e
    PROVE  /\ evaluate(Elsewhere(in, e)).rules = UNION {SubjectRules(in, e, s) : s \in DOMAIN in.batch}
           /\ Ruled(evaluate(Elsewhere(in, e)).rules)
<1> PICK other : other = Elsewhere(in, e)  OBVIOUS
<1>1. /\ other.env = e /\ other.batch = in.batch /\ other.current = in.current
      /\ other.incompatible = in.incompatible /\ other.policies = in.policies
  BY InputIs DEF Elsewhere
<1>2. evaluate(other).rules = UNION {SubjectRules(other, e, s) : s \in DOMAIN in.batch}
  BY <1>1, InputIs, EvaluatedRules
<1>3. \A s : SubjectRules(other, e, s) = SubjectRules(in, e, s)
  BY <1>1 DEF SubjectRules
<1>4. Ruled(evaluate(other).rules)  BY <1>1, InputIs, EvaluatedSound
<1>5. evaluate(other).rules = UNION {SubjectRules(in, e, s) : s \in DOMAIN in.batch}
  BY <1>2, <1>3
<1> QED BY <1>4, <1>5

\* A change is judged no more leniently on its way to production, as long as no
\* active policy is bound to one environment.
THEOREM Stricter == Spec => []StricterTowardsProd
<1>1. VerdictIsEvaluation => StricterTowardsProd
  <2> SUFFICES ASSUME VerdictIsEvaluation, Reviewed,
                      \A p \in input.policies : p.env = "total",
                      NEW e \in Envs, EnvRank(e) <= EnvRank(input.env)
               PROVE  Rank(decision(evaluate([input EXCEPT !.env = e]).rules))
                        <= Rank(decision(verdict.rules))
    BY DEF StricterTowardsProd
  <2> PICK in \in Inputs : in = input  BY DEF VerdictIsEvaluation
  <2> PICK other : other = Elsewhere(in, e)  OBVIOUS
  <2>1. verdict.rules = evaluate(in).rules  BY DEF VerdictIsEvaluation
  <2>2. /\ in.incompatible \subseteq DOMAIN in.batch /\ in.env \in Envs
        /\ \A s \in DOMAIN in.batch : in.batch[s].meta \in Meta
    BY InputIs
  <2>5. Ruled(evaluate(in).rules) /\ Ruled(evaluate(other).rules)
    BY <2>2, EvaluatedSound, ElsewhereIs
  <2>6. ASSUME NEW r \in evaluate(other).rules
        PROVE  \E q \in evaluate(in).rules : Weight(r) <= Weight(q)
    <3>1. PICK s \in DOMAIN in.batch : r \in SubjectRules(in, e, s)  BY ElsewhereIs
    <3>2. PICK q \in SubjectRules(in, in.env, s) : Weight(r) <= Weight(q)
      BY <2>2, <3>1, SubjectStricter
    <3>3. q \in evaluate(in).rules  BY <2>2, EvaluatedRules
    <3> QED BY <3>2, <3>3
  <2>7. Rank(decision(evaluate(other).rules)) <= Rank(decision(evaluate(in).rules))
    BY <2>5, <2>6, DecisionGrows
  <2> QED BY <2>1, <2>7 DEF Elsewhere
<1> QED BY <1>1, VerdictInvariant, PTL

LEMMA OnlyIs ==
    ASSUME NEW in \in Inputs, NEW s \in DOMAIN in.batch
    PROVE  /\ evaluate(Only(in, s)).rules = SubjectRules(in, in.env, s)
           /\ Only(in, s).incompatible \subseteq DOMAIN Only(in, s).batch
           /\ \A t \in DOMAIN Only(in, s).batch : Only(in, s).batch[t].meta \in Meta
<1> PICK other : other = Only(in, s)  OBVIOUS
<1>1. /\ other.env = in.env /\ other.batch = [x \in {s} |-> in.batch[s]]
      /\ other.current = in.current /\ other.incompatible = in.incompatible \cap {s}
      /\ other.policies = in.policies
  BY InputIs DEF Only
<1>2. DOMAIN other.batch = {s} /\ other.batch[s] = in.batch[s]  BY <1>1
<1>3. evaluate(other).rules = UNION {SubjectRules(other, in.env, t) : t \in {s}}
  BY <1>1, <1>2, EvaluatedRules
<1>4. SubjectRules(other, in.env, s) = SubjectRules(in, in.env, s)
  <2>1. other.incompatible \cap {s} = in.incompatible \cap {s}  BY <1>1
  <2> QED BY <1>1, <1>2, <2>1 DEF SubjectRules
<1> QED BY <1>1, <1>2, <1>3, <1>4, InputIs

\* A batch is judged as its strictest subject, with the highest of the risks.
THEOREM AsStrictest == Spec => []StrictestSubject
<1>1. VerdictIsEvaluation => StrictestSubject
  <2> SUFFICES ASSUME VerdictIsEvaluation, Reviewed PROVE StrictestSubject
    BY DEF StrictestSubject
  <2> PICK in \in Inputs : in = input  BY DEF VerdictIsEvaluation
  <2> DEFINE D == DOMAIN in.batch
             Alone(s) == evaluate(Only(in, s)).rules
  <2> PICK R : R = verdict.rules  OBVIOUS
  <2>1. D # {} /\ R = UNION {SubjectRules(in, in.env, s) : s \in D}
    BY InputIs, EvaluatedRules DEF VerdictIsEvaluation
  <2>2. R = UNION {Alone(s) : s \in D}
    <3>1. \A s \in D : Alone(s) = SubjectRules(in, in.env, s)  BY OnlyIs
    <3> QED BY <2>1, <3>1
  <2>3. \A s \in D : Ruled(Alone(s)) /\ \A r \in Alone(s) : r.risk \in 1..4
    BY OnlyIs, EvaluatedSound
  <2> HIDE DEF D, Alone
  <2>4. Ruled(R) /\ \A r \in R : r.risk \in 1..4  BY <2>2, <2>3 DEF Ruled
  <2>5. \A s \in D : Alone(s) \subseteq R  BY <2>2
  <2>6. \A r \in R : \E s \in D : r \in Alone(s)  BY <2>2
  <2>7. ASSUME NEW s \in D PROVE Rank(decision(Alone(s))) <= Rank(decision(R))
    <3>1. \A r \in R : Weight(r) \in 0..3  BY <2>4, RankIs DEF Ruled, Weight
    <3>2. \A r \in Alone(s) : \E q \in R : Weight(r) <= Weight(q)  BY <2>5, <3>1
    <3> QED BY <2>3, <2>4, <3>2, DecisionGrows
  <2>8. ASSUME NEW s \in D PROVE risk_level(Alone(s)) <= risk_level(R)
    <3>1. risk_level(R) \in 0..4 /\ \A r \in R : r.risk <= risk_level(R)  BY <2>4, RiskIs
    <3>2. CASE Alone(s) = {}  BY <2>3, <3>1, <3>2, RiskIs
    <3>3. CASE Alone(s) # {}
      <4>1. PICK r \in Alone(s) : r.risk = risk_level(Alone(s))  BY <2>3, <3>3, RiskIs
      <4> QED BY <2>5, <3>1, <4>1
    <3> QED BY <3>2, <3>3
  <2>9. \E s \in D : decision(Alone(s)) = decision(R)
    <3>1. CASE R = {}
      <4>1. PICK s \in D : Alone(s) = {}  BY <2>1, <2>5, <3>1 DEF D
      <4> QED BY <2>3, <2>4, <3>1, <4>1, DecisionIs
    <3>2. CASE R # {}
      <4>1. decision(R) # "ALLOW" /\ decision(R) \in {"ALLOW", "WARN", "APPROVAL_REQUIRED", "REJECT"}
            /\ (Rank(decision(R)) = 0 \/ \E r \in R : r.decision = decision(R))
        BY <2>4, <3>2, DecisionIs
      <4>2. PICK r \in R : r.decision = decision(R)  BY <4>1, RankIs
      <4>3. PICK s \in D : r \in Alone(s)  BY <2>6
      <4>4. /\ Weight(r) <= Rank(decision(Alone(s))) /\ Weight(r) = Rank(decision(R))
            /\ Rank(decision(Alone(s))) \in 0..3 /\ Rank(decision(R)) \in 0..3
            /\ decision(Alone(s)) \in {"ALLOW", "WARN", "APPROVAL_REQUIRED", "REJECT"}
        BY <2>3, <2>4, <4>2, <4>3, DecisionIs DEF Weight
      <4>5. Rank(decision(Alone(s))) = Rank(decision(R))  BY <2>7, <4>4
      <4> QED BY <4>1, <4>4, <4>5, RankIs
    <3> QED BY <3>1, <3>2
  <2>10. \E s \in D : risk_level(Alone(s)) = risk_level(R)
    <3>1. CASE R = {}
      <4>1. PICK s \in D : Alone(s) = {}  BY <2>1, <2>5, <3>1 DEF D
      <4> QED BY <3>1, <4>1
    <3>2. CASE R # {}
      <4>1. PICK r \in R : r.risk = risk_level(R)  BY <2>4, <3>2, RiskIs
      <4>2. PICK s \in D : r \in Alone(s)  BY <2>6
      <4>3. r.risk <= risk_level(Alone(s))  BY <2>3, <4>2, RiskIs
      <4>4. risk_level(Alone(s)) \in 0..4 /\ risk_level(R) \in 0..4  BY <2>3, <2>4, RiskIs
      <4> QED BY <2>8, <4>1, <4>3, <4>4
    <3> QED BY <3>1, <3>2
  <2> QED BY <2>7, <2>8, <2>9, <2>10 DEF StrictestSubject, D, Alone
<1> QED BY <1>1, VerdictInvariant, PTL

\* Every unreadable value of an accepted update has one of the two causes, and no
\* symbol is ever lost to a field that keeps an enum.
THEOREM LossHasCause == Spec => []AcceptedLossHasCause
<1>1. VerdictIsEvaluation => AcceptedLossHasCause
  <2> SUFFICES ASSUME VerdictIsEvaluation, Reviewed, Rank(decision(verdict.rules)) < 2,
                      NEW s \in {t \in Updated : ~input.batch[t].inline},
                      NEW f \in FieldNames, input.batch[s].schema.fields[f] # NoField
               PROVE  LET old == input.current[s].fields
                          new == input.batch[s].schema.fields
                      IN  IF old[f] = NoField THEN new[f].default
                          ELSE /\ Lost(old[f].type, new[f].type) # {} =>
                                    Enums(old[f].type) # {} /\ Enums(new[f].type) # {}
                               /\ \A b \in Enums(old[f].type) : \A x \in b.syms : Keeps(new[f].type, x)
    BY Zenon DEF AcceptedLossHasCause
  <2> PICK in \in Inputs : in = input  BY DEF VerdictIsEvaluation
  <2> PICK old, new : old = in.current[s] /\ new = in.batch[s].schema  OBVIOUS
  <2>1. /\ s \in DOMAIN in.batch /\ {old, new} \cap {NoSchema, Opaque, NotObject} = {}
        /\ text(in.batch[s]) = new
    BY DEF Updated, text
  <2>3. verdict.rules = UNION {SubjectRules(in, in.env, t) : t \in DOMAIN in.batch}
        /\ Ruled(verdict.rules)
    BY InputIs, EvaluatedRules, EvaluatedSound DEF VerdictIsEvaluation
  <2>4. \A r \in verdict.rules : r.decision = "WARN"
    <3>1. \A r \in verdict.rules : Weight(r) <= Rank(decision(verdict.rules))
          /\ Rank(decision(verdict.rules)) \in 0..3
      BY <2>3, DecisionIs
    <3> QED BY <2>3, <3>1, RankIs DEF Ruled, Weight
  <2>5. structure_rules(s, in.batch[s], in.current[s]) = {}
    <3>1. structure_rules(s, in.batch[s], in.current[s]) \subseteq verdict.rules
      BY <2>1, <2>3 DEF SubjectRules
    <3>2. \A r \in structure_rules(s, in.batch[s], in.current[s]) : r.decision # "WARN"
      BY DEF structure_rules, _rule
    <3> QED BY <2>4, <3>1, <3>2
  <2>6. old = new \/ /\ _added_required_fields_without_default(old, new) = {}
                     /\ _changed_field_types(old, new) = {}
                     /\ _enum_narrowing_fields(old, new) = {}
    <3> SUFFICES ASSUME old # new
                 PROVE  /\ _added_required_fields_without_default(old, new) = {}
                        /\ _changed_field_types(old, new) = {}
                        /\ _enum_narrowing_fields(old, new) = {}
      OBVIOUS
    <3>1. _determine_plan_action(old, new) = "UPDATE"
      BY <2>1 DEF _determine_plan_action
    <3>2. {old, new} \cap {NoSchema, Opaque, NotObject} = {}  BY <2>1
    <3> QED BY <2>1, <2>5, <3>1, <3>2 DEF structure_rules
  <2>7. CASE old.fields[f] = NoField
    <3>1. f \in Present(new) \ Present(old) /\ old # new  BY <2>7 DEF Present
    <3>2. new.fields[f].default
      BY <2>6, <3>1 DEF _added_required_fields_without_default
    <3> QED BY <2>7, <3>2
  <2>8. CASE old.fields[f] # NoField
    <3> PICK t, u : t = old.fields[f].type /\ u = new.fields[f].type  OBVIOUS
    <3>1. f \in Present(old) \cap Present(new)  BY <2>8 DEF Present
    <3>2. CASE t = u
      <4>1. Lost(t, u) = {}  BY <3>2 DEF Lost
      <4>2. \A b \in Enums(t) : \A x \in b.syms : Keeps(u, x)  BY <3>2 DEF Enums, Keeps
      <4> QED BY <2>8, <4>1, <4>2
    <3>3. CASE t # u
      <4>1. old # new  BY <3>3
      <4>2. _same_enum_family(t, u)
        BY <2>6, <3>1, <3>3, <4>1 DEF _changed_field_types
      <4>3. _enum_symbols(t) \subseteq _enum_symbols(u)
        BY <2>6, <3>1, <4>1, <4>2 DEF _enum_narrowing_fields
      <4>4. Enums(t) # {} /\ Enums(u) # {}
        BY <4>2 DEF _same_enum_family, _enum_symbols, Enums
      <4>5. ASSUME NEW b \in Enums(t), NEW x \in b.syms PROVE Keeps(u, x)
        <5>1. x \in _enum_symbols(t)  BY DEF Enums, _enum_symbols
        <5> QED BY <4>3, <5>1 DEF _enum_symbols, Keeps
      <4> QED BY <2>8, <4>4, <4>5
    <3> QED BY <3>2, <3>3
  <2> QED BY <2>7, <2>8
<1> QED BY <1>1, VerdictInvariant, PTL

------------------------------------------------------------------------------
(* The approval requests and the audit views over them. *)

LEMMA TrailConstants == MaxLog \in Nat /\ Null \notin Actors \cup Approvers /\ Rulings \subseteq Decision
BY LogAssumption, NullAssumption, RulingsAssumption

LEMMA RowsAreRows ==
    /\ NoRow \notin Row
    /\ \A row \in Row, seen \in Row, x \in Decision : Written(row, seen, x) \in Row
<1>1. NoRow \notin Row
  <2>1. NoRow.by = Null  BY DEF NoRow
  <2>2. \A row \in Row : row.by \in Actors  BY DEF Row
  <2> QED BY <2>1, <2>2, TrailConstants
<1>2. ASSUME NEW row \in Row, NEW seen \in Row, NEW x \in Decision
      PROVE  Written(row, seen, x) \in Row
  <2>1. /\ Column(row.status, seen.status, x.status) \in Verdicts \cup {"pending"}
        /\ Column(row.approver, seen.approver, x.approver) \in Approvers \cup {Null}
        /\ Column(row.reason, seen.reason, x.reason) \in Reasons \cup {Null}
    BY DEF Column, Row, Decision
  <2> QED BY <2>1 DEF Written, Row
<1> QED BY <1>1, <1>2

\* A decision written over the row it has selected replaces the whole verdict.
LEMMA WrittenAlone ==
    ASSUME NEW row \in Row, NEW x \in Decision
    PROVE  LET new == Written(row, row, x)
           IN  new.status = x.status /\ new.approver = x.approver /\ new.reason = x.reason
BY DEF Written, Column, Row

LEMMA TrailInitially == TrailInit => TrailInv
<1> SUFFICES ASSUME TrailInit PROVE TrailInv
  OBVIOUS
<1>1. TrailTypeOK  BY TrailConstants DEF TrailInit, TrailTypeOK
<1>2. OneDecisionShown /\ DecidedExists /\ SeenIsStored
  BY DEF TrailInit, OneDecisionShown, DecidedExists, SeenIsStored, InFlight
<1> QED BY <1>1, <1>2 DEF TrailInv

LEMMA LogStep ==
    ASSUME TrailInv, NEW e \in Entries, NEW a \in Actors, NEW t \in Seconds, log_operation(e, a, t)
    PROVE  TrailInv'
<1> DEFINE x == [entry |-> e, actor |-> a, at |-> t]
<1>1. /\ Len(audits) < MaxLog /\ audits' = Append(audits, x) /\ UNCHANGED <<requests, pc, op, last, rivals>>
      /\ TrailTypeOK /\ OneDecisionShown /\ DecidedExists /\ SeenIsStored
  BY DEF log_operation, TrailInv
<1>2. x \in AuditRow  BY DEF AuditRow
<1> HIDE DEF x
<1>3. audits' \in Seq(AuditRow) /\ Len(audits') <= MaxLog
  BY <1>1, <1>2, TrailConstants DEF TrailTypeOK
<1>4. TrailTypeOK'  BY <1>1, <1>3 DEF TrailTypeOK
<1>5. OneDecisionShown' /\ DecidedExists' /\ SeenIsStored'
  BY <1>1 DEF OneDecisionShown, DecidedExists, SeenIsStored, InFlight
<1> QED BY <1>4, <1>5 DEF TrailInv

LEMMA CreateStep ==
    ASSUME TrailInv, NEW r \in RequestIds, NEW a \in Actors, NEW t \in Seconds,
           CreateApprovalRequest(r, a, t)
    PROVE  TrailInv'
<1> DEFINE row == [by |-> a, at |-> t, status |-> "pending", approver |-> Null, reason |-> Null]
<1>1. /\ UNCHANGED <<audits, pc, op, last, rivals>>
      /\ requests[r] = NoRow /\ requests' = [requests EXCEPT ![r] = row]
      /\ TrailTypeOK /\ OneDecisionShown /\ DecidedExists /\ SeenIsStored
  BY DEF CreateApprovalRequest, TrailInv
<1>3. row \in Row /\ row # NoRow  BY RowsAreRows DEF Row
<1> HIDE DEF row
<1>5. /\ requests' \in [RequestIds -> Row \cup {NoRow}]
      /\ requests'[r] = row /\ \A q \in RequestIds \ {r} : requests'[q] = requests[q]
  BY <1>1, <1>3 DEF TrailTypeOK
<1>6. TrailTypeOK'
  <2>1. \A d \in Deciders : pc[d] = "selected" => op[d] \in Op /\ requests'[op[d].id] # NoRow
    <3> SUFFICES ASSUME NEW d \in Deciders, pc[d] = "selected"
                 PROVE  op[d] \in Op /\ requests'[op[d].id] # NoRow
      OBVIOUS
    <3>1. op[d] \in Op /\ requests[op[d].id] # NoRow  BY <1>1 DEF TrailTypeOK
    <3>2. op[d].id \in RequestIds  BY <3>1 DEF Op
    <3> QED BY <1>3, <1>5, <3>1, <3>2
  <2> QED BY <1>1, <1>5, <2>1 DEF TrailTypeOK
<1>7. OneDecisionShown' /\ DecidedExists'
  <2>1. last[r] = NoRow  BY <1>1 DEF DecidedExists
  <2> QED BY <1>1, <1>5, <2>1 DEF OneDecisionShown, DecidedExists
<1>8. SeenIsStored'
  <2>1. \A q \in RequestIds : InFlight(q)' = InFlight(q)  BY <1>1 DEF InFlight
  <2>2. InFlight(r) = {}  BY <1>1 DEF InFlight, TrailTypeOK
  <2> QED BY <1>1, <1>5, <2>1, <2>2 DEF SeenIsStored
<1> QED BY <1>6, <1>7, <1>8 DEF TrailInv

LEMMA SelectStep ==
    ASSUME TrailInv, NEW d \in Deciders, NEW r \in RequestIds,
           NEW x \in Rulings, select_request(d, r, x)
    PROVE  TrailInv'
<1> DEFINE mine == [id |-> r, seen |-> requests[r], decision |-> x]
<1>1. /\ pc[d] = "idle" /\ requests[r] # NoRow
      /\ pc' = [pc EXCEPT ![d] = "selected"] /\ op' = [op EXCEPT ![d] = mine]
      /\ UNCHANGED <<requests, audits, last>>
      /\ rivals' = IF \E e \in Deciders \ {d} : pc[e] = "selected" /\ op[e].id = r
                   THEN rivals \cup {r} ELSE rivals
      /\ TrailTypeOK /\ OneDecisionShown /\ DecidedExists /\ SeenIsStored
  BY DEF select_request, TrailInv
<1>2. mine \in Op /\ mine.id = r /\ mine.seen = requests[r]
  <2>1. requests[r] \in Row /\ x \in Decision
    BY <1>1, TrailConstants DEF TrailTypeOK
  <2> QED BY <2>1 DEF Op
<1> HIDE DEF mine
<1>3. /\ pc' \in [Deciders -> {"idle", "selected"}] /\ op' \in [Deciders -> Op \cup {NoOp}]
      /\ pc'[d] = "selected" /\ op'[d] = mine
      /\ \A e \in Deciders \ {d} : pc'[e] = pc[e] /\ op'[e] = op[e]
  BY <1>1, <1>2 DEF TrailTypeOK
<1>4. rivals \subseteq rivals' /\ rivals' \subseteq RequestIds
  BY <1>1 DEF TrailTypeOK
<1>5. TrailTypeOK'
  <2>1. \A e \in Deciders : pc'[e] = "selected" =>
          op'[e] \in Op /\ requests[op'[e].id] # NoRow
    BY <1>1, <1>2, <1>3 DEF TrailTypeOK
  <2> QED BY <1>1, <1>3, <1>4, <2>1 DEF TrailTypeOK
<1>6. OneDecisionShown' /\ DecidedExists'
  BY <1>1, <1>4 DEF OneDecisionShown, DecidedExists
<1>7. SeenIsStored'
  <2> SUFFICES ASSUME NEW q \in RequestIds \ rivals', NEW e \in InFlight(q)'
               PROVE  InFlight(q)' = {e} /\ op'[e].seen = requests[q]
    BY <1>1 DEF SeenIsStored
  <2>1. CASE q = r
    <3>1. InFlight(r)' = {d}
      <4>1. \A f \in Deciders \ {d} : ~(pc[f] = "selected" /\ op[f].id = r)  BY <1>1, <2>1
      <4> QED BY <1>2, <1>3, <4>1 DEF InFlight
    <3> QED BY <1>2, <1>3, <2>1, <3>1
  <2>2. CASE q # r
    <3>1. InFlight(q)' = InFlight(q)
      BY <1>1, <1>2, <1>3, <2>2 DEF InFlight
    <3>2. q \in RequestIds \ rivals /\ e \in InFlight(q) /\ e # d
      BY <1>1, <1>4, <3>1 DEF InFlight
    <3>3. e \in Deciders \ {d}  BY <3>2 DEF InFlight
    <3>4. InFlight(q) = {e} /\ op[e].seen = requests[q]
      BY <1>1, <3>2 DEF SeenIsStored
    <3> QED BY <1>3, <3>1, <3>3, <3>4
  <2> QED BY <2>1, <2>2
<1> QED BY <1>5, <1>6, <1>7 DEF TrailInv

\* What ends a decision.
LEMMA EndLeaves ==
    ASSUME TrailTypeOK, NEW d \in Deciders, End(d)
    PROVE  /\ pc' \in [Deciders -> {"idle", "selected"}] /\ op' \in [Deciders -> Op \cup {NoOp}]
           /\ pc'[d] = "idle" /\ \A e \in Deciders \ {d} : pc'[e] = pc[e] /\ op'[e] = op[e]
           /\ \A q \in RequestIds : InFlight(q)' = InFlight(q) \ {d}
<1>1. /\ pc' \in [Deciders -> {"idle", "selected"}] /\ op' \in [Deciders -> Op \cup {NoOp}]
      /\ pc'[d] = "idle" /\ \A e \in Deciders \ {d} : pc'[e] = pc[e] /\ op'[e] = op[e]
  BY DEF End, TrailTypeOK
<1>2. \A q \in RequestIds : InFlight(q)' = InFlight(q) \ {d}
  BY <1>1 DEF InFlight
<1> QED BY <1>1, <1>2

LEMMA UpdateStep ==
    ASSUME TrailInv, NEW d \in Deciders, update_status(d)
    PROVE  TrailInv'
<1> DEFINE r == op[d].id
           x == op[d].decision
           new == Written(requests[r], op[d].seen, x)
<1>1. /\ pc[d] = "selected" /\ End(d) /\ UNCHANGED <<audits, rivals>>
      /\ TrailTypeOK /\ OneDecisionShown /\ DecidedExists /\ SeenIsStored
  BY DEF update_status, TrailInv
<1>2. /\ r \in RequestIds /\ requests[r] # NoRow /\ requests[r] \in Row
      /\ op[d].seen \in Row /\ x \in Decision
  BY <1>1 DEF TrailTypeOK, Op
<1>3. new \in Row /\ new # NoRow  BY <1>2, RowsAreRows
<1>4. requests' = [requests EXCEPT ![r] = new] /\ last' = [last EXCEPT ![r] = x]
  BY DEF update_status
<1>5. r \notin rivals => new.status = x.status /\ new.approver = x.approver /\ new.reason = x.reason
  <2> SUFFICES ASSUME r \notin rivals
               PROVE  new.status = x.status /\ new.approver = x.approver /\ new.reason = x.reason
    OBVIOUS
  <2>1. d \in InFlight(r)  BY <1>1 DEF InFlight
  <2>2. op[d].seen = requests[r]  BY <1>1, <1>2, <2>1 DEF SeenIsStored
  <2> QED BY <1>2, <2>2, WrittenAlone
<1> HIDE DEF r, x, new
<1>6. /\ requests' \in [RequestIds -> Row \cup {NoRow}]
      /\ last' \in [RequestIds -> Decision \cup {NoRow}]
      /\ requests'[r] = new /\ last'[r] = x
      /\ \A q \in RequestIds \ {r} : requests'[q] = requests[q] /\ last'[q] = last[q]
  BY <1>1, <1>2, <1>3, <1>4 DEF TrailTypeOK
<1>7. \A q \in RequestIds : requests'[q] # NoRow <=> requests[q] # NoRow
  BY <1>2, <1>3, <1>6
<1>8. TrailTypeOK'
  <2>1. \A e \in Deciders : pc'[e] = "selected" =>
          op'[e] \in Op /\ requests'[op'[e].id] # NoRow
    <3> SUFFICES ASSUME NEW e \in Deciders, pc'[e] = "selected"
                 PROVE  op'[e] \in Op /\ requests'[op'[e].id] # NoRow
      OBVIOUS
    <3>1. pc[e] = "selected" /\ op'[e] = op[e]  BY <1>1, EndLeaves
    <3>2. op[e] \in Op /\ requests[op[e].id] # NoRow /\ op[e].id \in RequestIds
      BY <1>1, <3>1 DEF TrailTypeOK, Op
    <3> QED BY <1>7, <3>1, <3>2
  <2> QED BY <1>1, <1>6, <2>1, EndLeaves DEF TrailTypeOK
<1>9. OneDecisionShown'  BY <1>1, <1>5, <1>6 DEF OneDecisionShown
<1>10. DecidedExists'  BY <1>1, <1>3, <1>6, <1>7 DEF DecidedExists
<1>11. SeenIsStored'
  <2> SUFFICES ASSUME NEW q \in RequestIds \ rivals, NEW e \in InFlight(q) \ {d}
               PROVE  InFlight(q) \ {d} = {e} /\ op'[e].seen = requests'[q]
    BY <1>1, EndLeaves DEF SeenIsStored
  <2>1. InFlight(q) = {e} /\ op[e].seen = requests[q]  BY <1>1 DEF SeenIsStored
  <2>2. q # r  BY <1>1, <2>1 DEF InFlight, r
  <2>3. e \in Deciders \ {d}  BY DEF InFlight
  <2>4. op'[e] = op[e]  BY <1>1, <2>3, EndLeaves
  <2> QED BY <1>6, <2>1, <2>2, <2>4
<1> QED BY <1>8, <1>9, <1>10, <1>11 DEF TrailInv

LEMMA FailStep ==
    ASSUME TrailInv, NEW d \in Deciders, update_fails(d)
    PROVE  TrailInv'
<1>1. /\ End(d) /\ UNCHANGED <<requests, audits, last, rivals>>
      /\ TrailTypeOK /\ OneDecisionShown /\ DecidedExists /\ SeenIsStored
  BY DEF update_fails, TrailInv
<1>2. TrailTypeOK'  BY <1>1, EndLeaves DEF TrailTypeOK
<1>3. OneDecisionShown' /\ DecidedExists'
  BY <1>1 DEF OneDecisionShown, DecidedExists
<1>4. SeenIsStored'
  <2> SUFFICES ASSUME NEW q \in RequestIds \ rivals, NEW e \in InFlight(q) \ {d}
               PROVE  InFlight(q) \ {d} = {e} /\ op'[e].seen = requests[q]
    BY <1>1, EndLeaves DEF SeenIsStored
  <2>1. InFlight(q) = {e} /\ op[e].seen = requests[q]  BY <1>1 DEF SeenIsStored
  <2>2. e \in Deciders \ {d}  BY DEF InFlight
  <2>3. op'[e] = op[e]  BY <1>1, <2>2, EndLeaves
  <2> QED BY <2>1, <2>3
<1> QED BY <1>2, <1>3, <1>4 DEF TrailInv

\* A request for approval shows one decision, the last one committed, unless two on
\* it have been in flight at once.
THEOREM TrailInvariance == TrailSpec => []TrailInv
<1>1. TrailInit => TrailInv  BY TrailInitially
<1>2. TrailInv /\ [TrailNext]_trailVars => TrailInv'
  <2> SUFFICES ASSUME TrailInv, [TrailNext]_trailVars PROVE TrailInv'
    OBVIOUS
  <2>1. CASE TrailNext
    BY <2>1, LogStep, CreateStep, SelectStep, UpdateStep, FailStep DEF TrailNext
  <2>2. CASE UNCHANGED trailVars
    <3>1. UNCHANGED <<requests, audits, pc, op, last, rivals>>  BY <2>2 DEF trailVars
    <3> QED BY <3>1 DEF TrailInv, TrailTypeOK, OneDecisionShown, DecidedExists,
                    SeenIsStored, InFlight
  <2> QED BY <2>1, <2>2
<1> QED BY <1>1, <1>2, PTL DEF TrailSpec

------------------------------------------------------------------------------
(* What the audit views show. *)

\* What a row of the two tables holds.
LEMMA RowIs ==
    ASSUME TrailTypeOK, NEW x \in AllRows
    PROVE  \/ /\ x[1] = "schema" /\ x[2] \in DOMAIN audits
              /\ audits[x[2]].entry[1] \in {"APPLY", "DRY_RUN", "REGISTER", "UPLOAD", "SYNC",
                                            "UPDATE", "DELETE", "DELETE_ANALYSIS"}
           \/ /\ x[1] = "approval" /\ x[2] \in RequestIds
              /\ requests[x[2]].status \in {"pending", "approved", "rejected"}
<1>1. CASE x \in AuditRows
  <2>1. x[1] = "schema" /\ x[2] \in DOMAIN audits  BY <1>1 DEF AuditRows
  <2>2. audits[x[2]] \in AuditRow  BY <2>1 DEF TrailTypeOK
  <2>3. audits[x[2]].entry \in Entries  BY <2>2 DEF AuditRow
  <2> QED BY <2>1, <2>3, EntriesAssumption
<1>2. CASE x \in RequestRows
  <2>1. x[1] = "approval" /\ x[2] \in RequestIds /\ requests[x[2]] # NoRow
    BY <1>2 DEF RequestRows
  <2>2. requests[x[2]] \in Row  BY <2>1 DEF TrailTypeOK
  <2> QED BY <2>1, <2>2 DEF Row, Verdicts
<1> QED BY <1>1, <1>2 DEF AllRows

\* The tables are finite.
LEMMA RowsFinite ==
    ASSUME TrailTypeOK
    PROVE  IsFiniteSet(AllRows)
<1> DEFINE f == [x \in AuditRows |-> x[2]]
           g == [x \in RequestRows |-> x[2]]
<1>1. IsFiniteSet(AuditRows)
  <2>1. DOMAIN audits = 1..Len(audits) /\ Len(audits) \in Nat  BY LenProperties DEF TrailTypeOK
  <2>2. IsFiniteSet(DOMAIN audits)  BY <2>1, FS_Interval
  <2>3. f \in [AuditRows -> DOMAIN audits]  BY DEF AuditRows
  <2>4. \A x, y \in AuditRows : f[x] = f[y] => x = y  BY DEF AuditRows
  <2>5. f \in Injection(AuditRows, DOMAIN audits)  BY <2>3, <2>4, Fun_IsInj
  <2> QED BY <2>2, <2>5, FS_Injection
<1>2. IsFiniteSet(RequestRows)
  <2>1. g \in [RequestRows -> RequestIds]  BY DEF RequestRows
  <2>2. \A x, y \in RequestRows : g[x] = g[y] => x = y  BY DEF RequestRows
  <2>3. g \in Injection(RequestRows, RequestIds)  BY <2>1, <2>2, Fun_IsInj
  <2> QED BY <2>3, IdsAssumption, FS_Injection
<1> QED BY <1>1, <1>2, FS_Union DEF AllRows

\* An answer holds rows that pass, and shows what else passes up to its limit.
LEMMA NewestIs ==
    ASSUME NEW P, IsFiniteSet(P), NEW n \in Nat, NEW page \in Newest(P, n)
    PROVE  page \subseteq P /\ \A x \in P : ShownIn(page, n, x)
<1>1. /\ page \subseteq P
      /\ Cardinality(page) = IF Cardinality(P) < n THEN Cardinality(P) ELSE n
      /\ \A x \in page, y \in P \ page : At(y) <= At(x)
  BY DEF Newest, Limited, kSubset
<1>2. Cardinality(P) \in Nat  BY FS_CardinalityType
<1>3. ASSUME NEW x \in P \ page PROVE ShownIn(page, n, x)
  <2>1. Cardinality(page) # Cardinality(P)  BY <1>1, <1>3, FS_Subset
  <2>2. Cardinality(page) = n  BY <1>1, <1>2, <2>1
  <2> QED BY <1>1, <1>3, <2>2 DEF ShownIn
<1> QED BY <1>1, <1>3 DEF ShownIn

LEMMA BoundedIs ==
    ASSUME NEW n \in Limits
    PROVE  n \in Nat /\ Bounded(n, 100) \in Nat /\ Bounded(n, 500) \in Nat
           /\ Bounded(Bounded(n, 100), 500) = Bounded(n, 100)
BY LogAssumption DEF Bounded

\* A page of recent activities.
LEMMA PageIs ==
    ASSUME TrailTypeOK, NEW n \in Limits, NEW page \in GetRecentActivities(n)
    PROVE  /\ page \subseteq {x \in AllRows : Visible(x)}
           /\ \A x \in AllRows : Visible(x) => ShownIn(page, Bounded(n, 100), x)
<1>1. IsFiniteSet({x \in AllRows : Visible(x)})  BY RowsFinite, FS_Subset
<1> QED BY <1>1, BoundedIs, NewestIs DEF GetRecentActivities, get_recent_activities

\* The history without filters gives the answers the list of recent activities may
\* give.
THEOREM ViewsAgree == TrailSpec => []HistoryExtendsRecent
<1>1. TrailInv => HistoryExtendsRecent
  <2> SUFFICES ASSUME TrailTypeOK, NEW n \in Limits
               PROVE  GetActivityHistory(Unfiltered(Bounded(n, 100))) = GetRecentActivities(n)
    BY DEF TrailInv, HistoryExtendsRecent
  <2> DEFINE k == Bounded(n, 100)
             q == [Unfiltered(k) EXCEPT !.limit = Bounded(@, 500)]
  <2>2. /\ q.limit = k /\ q.type = Null /\ q.action = Null /\ q.actor = Null
        /\ q.from = Null /\ q.to = Null
    BY BoundedIs DEF Unfiltered
  <2>3. GetActivityHistory(Unfiltered(k)) = Newest(_build_filtered_query(q), q.limit)
    BY DEF GetActivityHistory, get_activity_history
  <2> HIDE DEF q, k
  <2>4. \A x \in AllRows : x[1] \in {"schema", "approval"}  BY RowIs
  <2>5. _build_filtered_query(q) = {x \in AllRows : Visible(x)}
    BY <2>2, <2>4 DEF _build_filtered_query, _get_models_to_query, ActionPasses, Dated
  <2>6. GetRecentActivities(n) = Newest({x \in AllRows : Visible(x)}, k)
    BY DEF GetRecentActivities, get_recent_activities, k
  <2> QED BY <2>2, <2>3, <2>5, <2>6 DEF k
<1> QED BY <1>1, TrailInvariance, PTL

\* The history filtered by an action selects the visible rows shown with it.
LEMMA FilteredIs ==
    ASSUME TrailTypeOK, NEW a \in Shown, NEW n \in Limits
    PROVE  GetActivityHistory([Unfiltered(n) EXCEPT !.action = a])
             = Newest({x \in AllRows : Visible(x) /\ _normalize_action(x) = a}, Bounded(n, 500))
<1> DEFINE u == [Unfiltered(n) EXCEPT !.action = a]
           q == [u EXCEPT !.limit = Bounded(@, 500)]
<1>1. /\ q.type = Null /\ q.action = a /\ q.actor = Null /\ q.from = Null /\ q.to = Null
      /\ q.limit = Bounded(n, 500)
  BY DEF Unfiltered
<1>2. a # Null  BY NullAssumption DEF Shown
<1>3. ASSUME NEW x \in AllRows
      PROVE  ActionPasses(x, a) <=> _normalize_action(x) = a
  <2>1. CASE x[1] = "schema"
    BY <1>2, <2>1 DEF ActionPasses, _normalize_action
  <2>2. CASE x[1] = "approval"
    <3>1. requests[x[2]].status \in {"pending", "approved", "rejected"}  BY <2>2, RowIs
    <3>2. ActionPasses(x, a) <=> a = Upper[requests[x[2]].status]
      BY <1>2, <2>2 DEF ActionPasses
    <3>3. /\ Upper["pending"] = "PENDING" /\ Upper["approved"] = "APPROVED"
          /\ Upper["rejected"] = "REJECTED"
      BY DEF Upper
    <3>4. /\ requests[x[2]].status = "pending" => _normalize_action(x) = "REQUESTED"
          /\ requests[x[2]].status = "approved" => _normalize_action(x) = "APPROVED"
          /\ requests[x[2]].status = "rejected" => _normalize_action(x) = "REJECTED"
      BY <2>2 DEF _normalize_action
    <3>5. a # "PENDING" /\ a # "REQUESTED"  BY DEF Shown
    <3> QED BY <3>1, <3>2, <3>3, <3>4, <3>5
  <2> QED BY <2>1, <2>2, RowIs
<1>4. \A x \in AllRows : x[1] \in _get_models_to_query(Null)
  BY RowIs DEF _get_models_to_query
<1>5. GetActivityHistory(u) = Newest(_build_filtered_query(q), q.limit)
  BY DEF GetActivityHistory, get_activity_history
<1> HIDE DEF q
<1>6. _build_filtered_query(q) = {x \in AllRows : Visible(x) /\ _normalize_action(x) = a}
  BY <1>1, <1>3, <1>4 DEF _build_filtered_query, Dated
<1> QED BY <1>1, <1>5, <1>6

\* Filtering the history by an action finds the activities shown with that action,
\* whichever rows of one second the two answers cut off.
THEOREM FilterIsShown == TrailSpec => []FilteredAsShown
<1>1. TrailInv => FilteredAsShown
  <2> SUFFICES ASSUME TrailTypeOK, NEW n \in Limits, NEW page \in GetRecentActivities(n),
                      NEW a \in Shown, NEW m \in Limits,
                      NEW rows \in GetActivityHistory([Unfiltered(m) EXCEPT !.action = a])
               PROVE  /\ \A x \in page : _normalize_action(x) = a => ShownIn(rows, Bounded(m, 500), x)
                      /\ \A x \in rows : _normalize_action(x) = a /\ ShownIn(page, Bounded(n, 100), x)
    BY DEF TrailInv, FilteredAsShown
  <2> DEFINE A == {x \in AllRows : Visible(x) /\ _normalize_action(x) = a}
  <2>1. IsFiniteSet(A)  BY RowsFinite, FS_Subset
  <2>2. rows \in Newest(A, Bounded(m, 500))  BY FilteredIs
  <2>3. rows \subseteq A /\ \A x \in A : ShownIn(rows, Bounded(m, 500), x)
    <3> HIDE DEF A
    <3> QED BY <2>1, <2>2, BoundedIs, NewestIs
  <2> QED BY <2>3, PageIs
<1> QED BY <1>1, TrailInvariance, PTL

\* The pending requests of the list are the requests shown as REQUESTED, whichever
\* requests of one second the two answers cut off.
THEOREM PendingShown == TrailSpec => []PendingIsRequested
<1>1. TrailInv => PendingIsRequested
  <2> SUFFICES ASSUME TrailTypeOK, NEW n \in Limits, NEW page \in GetRecentActivities(n),
                      NEW m \in Limits, NEW waiting \in list_requests("pending", Null, m)
               PROVE  /\ \A x \in page : _normalize_action(x) = "REQUESTED" => ShownIn(waiting, m, x)
                      /\ \A x \in waiting :
                           _normalize_action(x) = "REQUESTED" /\ ShownIn(page, Bounded(n, 100), x)
    BY DEF TrailInv, PendingIsRequested
  <2> DEFINE W == Matching("pending", Null)
  <2>1. W = {x \in RequestRows : requests[x[2]].status = "pending"}
    BY NullAssumption DEF Matching
  <2>2. W \subseteq AllRows  BY <2>1 DEF AllRows
  <2>3. IsFiniteSet(W)  BY <2>2, RowsFinite, FS_Subset
  <2>4. \A x \in AllRows : x \in W <=> _normalize_action(x) = "REQUESTED"
    <3> SUFFICES ASSUME NEW x \in AllRows PROVE x \in W <=> _normalize_action(x) = "REQUESTED"
      OBVIOUS
    <3>1. CASE x[1] = "schema"
      <4>1. x \notin RequestRows  BY <3>1 DEF RequestRows
      <4>2. _normalize_action(x) # "REQUESTED"  BY <3>1, RowIs DEF _normalize_action
      <4> QED BY <2>1, <4>1, <4>2
    <3>2. CASE x[1] = "approval"
      <4>1. x \in RequestRows  BY <3>2 DEF AllRows, AuditRows
      <4>2. _normalize_action(x) = "REQUESTED" <=> requests[x[2]].status = "pending"
        BY <3>2, RowIs DEF _normalize_action
      <4> QED BY <2>1, <4>1, <4>2
    <3> QED BY <3>1, <3>2, RowIs
  <2>5. waiting \subseteq W /\ \A x \in W : ShownIn(waiting, m, x)
    <3> HIDE DEF W
    <3>1. waiting \in Newest(W, m)  BY DEF list_requests, W
    <3> QED BY <2>3, <3>1, BoundedIs, NewestIs
  <2>6. \A x \in W : Visible(x)  BY <2>1 DEF RequestRows, Visible
  <2> HIDE DEF W
  <2>7. page \subseteq AllRows  BY PageIs
  <2> QED BY <2>2, <2>4, <2>5, <2>6, <2>7, PageIs
<1> QED BY <1>1, TrailInvariance, PTL

------------------------------------------------------------------------------
(* The dashboard. *)

\* A listing has every subject once.
LEMMA ListingIs ==
    ASSUME NEW S, IsFiniteSet(S), NEW seq \in SetToSeqs(S)
    PROVE  seq \in Seq(S) /\ ToSet(seq) = S /\ Len(seq) = Cardinality(S)
<1> DEFINE n == Cardinality(S)
<1>1. n \in Nat  BY FS_CardinalityType
<1>2. seq \in [1..n -> S] /\ \A i, j \in 1..n : i # j => seq[i] # seq[j]
  BY DEF SetToSeqs
<1> HIDE DEF n
<1>3. seq \in Seq(S) /\ Len(seq) = n
  <2>1. seq \in Seq(S)  BY <1>1, <1>2, SeqDef
  <2>2. DOMAIN seq = 1..Len(seq) /\ Len(seq) \in Nat  BY <2>1, LenProperties
  <2> QED BY <1>1, <1>2, <2>1, <2>2
<1>4. seq \in Injection(1..n, S)
  <2>1. \A i, j \in 1..n : seq[i] = seq[j] => i = j  BY <1>2
  <2> QED BY <1>2, <2>1, Fun_IsInj
<1>5. IsFiniteSet(1..n) /\ Cardinality(1..n) = n  BY <1>1, FS_Interval
<1>6. seq \in Surjection(1..n, S)  BY <1>4, <1>5, FS_Injection DEF n
<1>7. \A s \in S : \E i \in 1..n : seq[i] = s  BY <1>6 DEF Surjection
<1>8. ToSet(seq) = S  BY <1>2, <1>7 DEF ToSet
<1> QED BY <1>3, <1>8 DEF n

\* The sample is taken from the listing.
LEMMA SampleIs ==
    ASSUME listed \in Seq(SubjectNames)
    PROVE  /\ target_subjects \subseteq ToSet(listed)
           /\ ToSet(listed) \subseteq SubjectNames
<1>1. Len(listed) \in Nat /\ DOMAIN listed = 1..Len(listed)
      /\ \A i \in 1..Len(listed) : listed[i] \in SubjectNames
  BY LenProperties, ElementOfSeq
<1>2. ToSet(listed) \subseteq SubjectNames  BY <1>1 DEF ToSet
<1>3. CASE Len(listed) <= Sample  BY <1>2, <1>3 DEF target_subjects
<1>4. CASE ~(Len(listed) <= Sample)
  <2> DEFINE some == SubSeq(listed, 1, Sample)
  <2>1. Sample \in Nat /\ \A i \in 1..Sample : listed[i] \in SubjectNames /\ i \in 1..Len(listed)
    BY <1>1, <1>4, StatsAssumption
  <2>2. some \in Seq(SubjectNames) /\ Len(some) = Sample /\ \A i \in 1..Sample : some[i] = listed[i]
    <3>1. /\ some \in Seq(SubjectNames)
          /\ Len(some) = IF 1 <= Sample THEN Sample - 1 + 1 ELSE 0
          /\ \A i \in 1..(Sample - 1 + 1) : some[i] = listed[1 + i - 1]
      BY <2>1, SubSeqProperties
    <3>2. Sample - 1 + 1 = Sample /\ \A i \in 1..Sample : 1 + i - 1 = i  BY <2>1
    <3>3. Len(some) = Sample  BY <2>1, <3>1
    <3> QED BY <3>1, <3>2, <3>3
  <2>3. DOMAIN some = 1..Sample  BY <2>2, LenProperties
  <2> HIDE DEF some
  <2>4. ToSet(some) \subseteq ToSet(listed)
    BY <1>1, <2>1, <2>2, <2>3 DEF ToSet
  <2>5. target_subjects = ToSet(some)
    BY <1>4 DEF target_subjects, some
  <2> QED BY <1>2, <2>4, <2>5
<1> QED BY <1>3, <1>4

\* What is shown is what was counted and what lies beyond the sample.
LEMMA OrphansShown ==
    ASSUME StatsTypeOK, NEW S,
           S \subseteq counted \cup (ToSet(listed) \ target_subjects)
    PROVE  Cardinality(S) <= orphan_subjects
<1> DEFINE L == ToSet(listed)
           T == target_subjects
           beyond == L \ T
<1>1. /\ listed \in Seq(SubjectNames) /\ Len(listed) = Cardinality(L) /\ counted \subseteq SubjectNames
      /\ T \subseteq L /\ L \subseteq SubjectNames
  BY SampleIs DEF StatsTypeOK
<1>2. orphan_subjects = Cardinality(counted) + (Len(listed) - Cardinality(T))
  BY DEF orphan_subjects
<1> HIDE DEF L, T
<1>3. IsFiniteSet(L) /\ IsFiniteSet(counted) /\ IsFiniteSet(beyond)
  BY <1>1, FS_Subset, StatsAssumption
<1>4. Cardinality(beyond) = Cardinality(L) - Cardinality(T)
  <2>1. L \cap T = T  BY <1>1
  <2> QED BY <1>3, <2>1, FS_Difference
<1>5. /\ IsFiniteSet(counted \cup beyond)
      /\ Cardinality(counted \cup beyond)
           = Cardinality(counted) + Cardinality(beyond) - Cardinality(counted \cap beyond)
  BY <1>3, FS_Union
<1>6. Cardinality(S) <= Cardinality(counted \cup beyond) /\ IsFiniteSet(S)
  BY <1>5, FS_Subset DEF L, T
<1>7. IsFiniteSet(counted \cap beyond)  BY <1>3, FS_Intersection
<1>8. /\ Cardinality(S) \in Nat /\ Cardinality(counted) \in Nat /\ Cardinality(beyond) \in Nat
      /\ Cardinality(counted \cap beyond) \in Nat /\ Cardinality(counted \cup beyond) \in Nat
  BY <1>3, <1>5, <1>6, <1>7, FS_CardinalityType
<1>9. Cardinality(S) <= Cardinality(counted) + Cardinality(beyond)
  BY <1>5, <1>6, <1>8
<1>10. Cardinality(S) <= orphan_subjects
  BY <1>1, <1>2, <1>4, <1>9
<1> QED BY <1>10

LEMMA StatsInitially == StatsInit => StatsInv
<1> SUFFICES ASSUME StatsInit PROVE StatsInv
  OBVIOUS
<1>1. ToSet(<<>>) = {} /\ Cardinality({}) = 0  BY FS_EmptySet DEF ToSet
<1>2. StatsTypeOK
  <2>1. listed = <<>> /\ meta_map = <<>> /\ changes = 0 /\ DOMAIN meta_map = {}
    BY DEF StatsInit
  <2>2. listed \in Seq(SubjectNames) /\ Len(listed) = Cardinality(ToSet(listed))
    <3>1. listed \in Seq(SubjectNames) /\ Len(listed) = 0  BY <2>1, EmptySeq
    <3>2. Cardinality(ToSet(listed)) = 0  BY <1>1, <2>1
    <3> QED BY <3>1, <3>2
  <2>3. changes \in 0..MaxChanges  BY <2>1, StatsAssumption
  <2> QED BY <2>1, <2>2, <2>3 DEF StatsInit, StatsTypeOK
<1>3. CountedHasCause /\ RequestKnows
  BY DEF StatsInit, CountedHasCause, RequestKnows, Asked
<1> QED BY <1>2, <1>3 DEF StatsInv

\* Other requests change the world, and the history follows.
Others(s) == register_schema(s) \/ save_schema_metadata(s) \/ delete_subject(s)

LEMMA OthersStep ==
    ASSUME StatsInv, NEW s \in SubjectNames, Others(s)
    PROVE  StatsInv'
<1>1. /\ StatsTypeOK /\ CountedHasCause /\ RequestKnows
      /\ Changed
  BY DEF StatsInv, Others, register_schema, save_schema_metadata,
         delete_subject
<1>2. /\ changes < MaxChanges /\ changes' = changes + 1
      /\ owned' = owned \cup {u \in SubjectNames : owner'[u] # None}
      /\ bare' = bare \cup {u \in SubjectNames : owner'[u] = None}
      /\ stayed' = stayed \cap sr'
      /\ UNCHANGED <<at, listed, meta_map, todo, counted, undescribed>>
  BY <1>1 DEF Changed, request
<1>3. sr' \subseteq SubjectNames /\ artifacts' \subseteq SubjectNames /\ owner' \in [SubjectNames -> Owners \cup {None}]
  BY <1>1 DEF Others, register_schema, save_schema_metadata,
              delete_subject, StatsTypeOK
<1>4. changes' \in 0..MaxChanges  BY <1>1, <1>2, StatsAssumption DEF StatsTypeOK
<1>5. ToSet(listed)' = ToSet(listed)
      /\ target_subjects' = target_subjects
      /\ Cardinality(ToSet(listed))' = Cardinality(ToSet(listed))
  BY <1>2 DEF ToSet, target_subjects
<1>6. StatsTypeOK'  BY <1>1, <1>2, <1>3, <1>4, <1>5 DEF StatsTypeOK
<1>7. owned \subseteq owned' /\ bare \subseteq bare' /\ stayed' \subseteq stayed
      /\ HasOwner' \subseteq owned' /\ (SubjectNames \ HasOwner') \subseteq bare'
  BY <1>2 DEF HasOwner
<1>8. CountedHasCause'  BY <1>1, <1>2, <1>7 DEF CountedHasCause
<1>9. RequestKnows'
  <2>1. at \in Asked => \A u \in DOMAIN meta_map :
          IF meta_map[u] = None THEN u \in bare' ELSE u \in owned'
    BY <1>1, <1>7 DEF RequestKnows
  <2> QED BY <1>1, <1>2, <1>5, <1>7, <2>1 DEF RequestKnows, Asked
<1> QED BY <1>6, <1>8, <1>9 DEF StatsInv

LEMMA ListStep ==
    ASSUME StatsInv, list_all_subjects
    PROVE  StatsInv'
<1>1. /\ StatsTypeOK /\ CountedHasCause /\ RequestKnows
      /\ at = "idle" /\ at' = "listed" /\ listed' \in SetToSeqs(sr)
      /\ owned' = HasOwner /\ bare' = SubjectNames \ HasOwner /\ stayed' = sr
      /\ UNCHANGED <<sr, artifacts, owner, changes, meta_map, todo, counted, undescribed>>
  BY DEF StatsInv, list_all_subjects
<1>2. sr \subseteq SubjectNames /\ IsFiniteSet(sr)
  BY <1>1, FS_Subset, StatsAssumption DEF StatsTypeOK
<1>3. listed' \in Seq(sr) /\ ToSet(listed') = sr /\ Len(listed') = Cardinality(sr)
  BY <1>1, <1>2, ListingIs
<1>4. listed' \in Seq(SubjectNames)  BY <1>2, <1>3, SeqMonotonic
<1>5. ToSet(listed)' = sr  BY <1>3 DEF ToSet
<1>6. Len(listed') = Cardinality(ToSet(listed'))
  BY <1>3
<1>7. StatsTypeOK'  BY <1>1, <1>4, <1>6 DEF StatsTypeOK
<1>8. CountedHasCause'  BY <1>1 DEF CountedHasCause
<1>9. RequestKnows'
  <2>1. HasOwner' = HasOwner  BY <1>1 DEF HasOwner
  <2>2. meta_map = <<>> /\ counted = {} /\ DOMAIN meta_map = {}  BY <1>1 DEF RequestKnows
  <2> QED BY <1>1, <1>5, <2>1, <2>2 DEF RequestKnows, Asked
<1> QED BY <1>7, <1>8, <1>9 DEF StatsInv

\* The other steps of the request leave the world and the listing alone.
LEMMA RequestStep ==
    ASSUME StatsInv,
           UNCHANGED <<sr, artifacts, owner, changes, owned, bare, stayed, listed>>,
           \/ list_artifacts \/ list_active_policies \/ answer
           \/ no_client \/ stats_fail
           \/ \E s \in SubjectNames : describe_subjects(s) \/ describe_skipped(s)
    PROVE  StatsInv'
<1>1. StatsTypeOK /\ CountedHasCause /\ RequestKnows
  BY DEF StatsInv
<1>2. /\ ToSet(listed)' = ToSet(listed)
      /\ target_subjects' = target_subjects
      /\ Cardinality(ToSet(listed))' = Cardinality(ToSet(listed))
      /\ HasOwner' = HasOwner
  BY DEF ToSet, target_subjects, HasOwner
<1>3. target_subjects \subseteq SubjectNames
      /\ ToSet(listed) \subseteq SubjectNames
  BY <1>1, SampleIs DEF StatsTypeOK
<1>4. ASSUME RequestKnows' PROVE CountedHasCause'
  BY <1>4 DEF RequestKnows, CountedHasCause, Asked
<1>5. ASSUME at' \in {"idle", "listed", "mapped", "describing", "answered", "error", "zeros"},
             DOMAIN meta_map' \subseteq SubjectNames, todo' \subseteq SubjectNames,
             counted' \subseteq SubjectNames, undescribed' \subseteq SubjectNames
      PROVE  StatsTypeOK'
  BY <1>1, <1>2, <1>5 DEF StatsTypeOK
<1>6. CASE list_artifacts
  <2>1. /\ at = "listed" /\ at' = "mapped" /\ UNCHANGED <<todo, counted, undescribed>>
        /\ meta_map' = [s \in artifacts \cap ToSet(listed) |-> owner[s]]
    BY <1>6 DEF list_artifacts
  <2>2. counted = {} /\ HasOwner \subseteq owned /\ SubjectNames \ HasOwner \subseteq bare
        /\ stayed \subseteq ToSet(listed)
    BY <1>1, <2>1 DEF RequestKnows, Asked
  <2>3. DOMAIN meta_map' \subseteq SubjectNames /\ \A s \in DOMAIN meta_map' : meta_map'[s] = owner[s]
    BY <1>3, <2>1
  <2>4. \A s \in DOMAIN meta_map' : IF meta_map'[s] = None THEN s \in bare ELSE s \in owned
    BY <2>2, <2>3 DEF HasOwner
  <2>5. RequestKnows'
    BY <1>2, <2>1, <2>2, <2>4 DEF RequestKnows, Asked
  <2>6. StatsTypeOK'  BY <1>1, <1>5, <2>1, <2>3 DEF StatsTypeOK
  <2> QED BY <1>4, <2>5, <2>6 DEF StatsInv
<1>7. CASE list_active_policies
  <2>1. /\ at = "mapped" /\ at' = "describing" /\ UNCHANGED <<meta_map, counted, undescribed>>
        /\ todo' = target_subjects
    BY <1>7 DEF list_active_policies
  <2>2. RequestKnows'
    BY <1>1, <1>2, <2>1 DEF RequestKnows, Asked
  <2>3. StatsTypeOK'  BY <1>1, <1>3, <1>5, <2>1 DEF StatsTypeOK
  <2> QED BY <1>4, <2>2, <2>3 DEF StatsInv
<1>8. CASE answer
  <2>1. /\ at = "describing" /\ at' = "answered" /\ todo = {}
        /\ UNCHANGED <<meta_map, todo, counted, undescribed>>
    BY <1>8 DEF answer
  <2>2. RequestKnows'
    BY <1>1, <1>2, <2>1 DEF RequestKnows, Asked
  <2>3. StatsTypeOK'  BY <1>1, <1>5, <2>1 DEF StatsTypeOK
  <2> QED BY <1>4, <2>2, <2>3 DEF StatsInv
<1>9. CASE no_client \/ stats_fail
  <2>1. at' \in {"zeros", "error"} /\ UNCHANGED <<meta_map, todo, counted, undescribed>>
    BY <1>9 DEF no_client, stats_fail
  <2>2. RequestKnows'  BY <2>1 DEF RequestKnows, Asked
  <2>3. StatsTypeOK'  BY <1>1, <1>5, <2>1 DEF StatsTypeOK
  <2> QED BY <1>4, <2>2, <2>3 DEF StatsInv
<1>10. ASSUME NEW s \in SubjectNames, describe_subjects(s)
       PROVE  StatsInv'
  <2>1. /\ at = "describing" /\ at' = at /\ todo' = todo \ {s} /\ UNCHANGED <<meta_map, undescribed>>
        /\ counted' = IF stat_owner(s) = None THEN counted \cup {s} ELSE counted
    BY <1>10 DEF describe_subjects
  <2>2. \/ counted' = counted \cup {s} /\ (s \in bare \/ s \notin DOMAIN meta_map)
        \/ counted' = counted /\ s \in owned
    <3>1. \A u \in DOMAIN meta_map : IF meta_map[u] = None THEN u \in bare ELSE u \in owned
      BY <1>1, <2>1 DEF RequestKnows, Asked
    <3> QED BY <2>1, <3>1 DEF stat_owner
  <2>3. RequestKnows'
    BY <1>1, <1>2, <2>1, <2>2 DEF RequestKnows, Asked
  <2>4. StatsTypeOK'  BY <1>1, <1>5, <2>1 DEF StatsTypeOK
  <2> QED BY <1>4, <2>3, <2>4 DEF StatsInv
<1>11. ASSUME NEW s \in SubjectNames, describe_skipped(s)
       PROVE  StatsInv'
  <2>1. /\ at = "describing" /\ at' = at /\ todo' = todo \ {s} /\ UNCHANGED <<meta_map, counted>>
        /\ undescribed' = undescribed \cup {s}
    BY <1>11 DEF describe_skipped
  <2>2. RequestKnows'
    BY <1>1, <1>2, <2>1 DEF RequestKnows, Asked
  <2>3. StatsTypeOK'  BY <1>1, <1>5, <2>1 DEF StatsTypeOK
  <2> QED BY <1>4, <2>2, <2>3 DEF StatsInv
<1> QED BY <1>6, <1>7, <1>8, <1>9, <1>10, <1>11

LEMMA RequestFrame ==
    ASSUME \/ list_artifacts \/ list_active_policies \/ answer
           \/ no_client \/ stats_fail
           \/ \E s \in SubjectNames : describe_subjects(s) \/ describe_skipped(s)
    PROVE  UNCHANGED <<sr, artifacts, owner, changes, owned, bare, stayed, listed>>
BY DEF list_artifacts, list_active_policies, answer, no_client,
       stats_fail, describe_subjects, describe_skipped, world

\* A subject is counted as an orphan only if it was without an owner at some moment
\* of the request or has no artifact, and every sampled subject is accounted for.
THEOREM StatsInvariance == StatsSpec => []StatsInv
<1>1. StatsInit => StatsInv  BY StatsInitially
<1>2. StatsInv /\ [StatsNext]_statsVars => StatsInv'
  <2> SUFFICES ASSUME StatsInv, [StatsNext]_statsVars
               PROVE  StatsInv'
    OBVIOUS
  <2>1. CASE StatsNext
    <3>1. \/ list_all_subjects \/ \E s \in SubjectNames : Others(s)
          \/ list_artifacts \/ list_active_policies \/ answer
          \/ no_client \/ stats_fail
          \/ \E s \in SubjectNames : describe_subjects(s) \/ describe_skipped(s)
      BY <2>1 DEF StatsNext, Others
    <3> QED BY <3>1, ListStep, OthersStep, RequestStep, RequestFrame
  <2>2. CASE UNCHANGED statsVars
    <3>1. UNCHANGED <<sr, artifacts, owner, at, listed, meta_map, todo, counted, undescribed,
                      changes, owned, bare, stayed>>
      BY <2>2 DEF statsVars
    <3>2. /\ ToSet(listed)' = ToSet(listed)
          /\ target_subjects' = target_subjects
          /\ Cardinality(ToSet(listed))' = Cardinality(ToSet(listed))
          /\ HasOwner' = HasOwner
      BY <3>1 DEF ToSet, target_subjects, HasOwner
    <3> QED BY <3>1, <3>2 DEF StatsInv, StatsTypeOK, CountedHasCause,
                              RequestKnows
  <2> QED BY <2>1, <2>2
<1> QED BY <1>1, <1>2, PTL DEF StatsSpec

\* The number of orphans shown is at least that of the subjects that were there
\* without an owner all the time and could be described.
THEOREM NoneHidden == StatsSpec => []NoOrphanHidden
<1>1. StatsInv => NoOrphanHidden
  <2> SUFFICES ASSUME StatsInv, at = "answered"
               PROVE  Cardinality((stayed \ owned) \ undescribed) <= orphan_subjects
    BY DEF NoOrphanHidden
  <2>1. /\ StatsTypeOK /\ stayed \subseteq ToSet(listed) /\ todo = {}
        /\ target_subjects \subseteq todo \cup counted \cup undescribed \cup owned
    BY DEF StatsInv, RequestKnows, Asked
  <2>2. (stayed \ owned) \ undescribed
          \subseteq counted \cup (ToSet(listed) \ target_subjects)
    BY <2>1
  <2> QED BY <2>1, <2>2, OrphansShown
<1> QED BY <1>1, StatsInvariance, PTL
==============================================================================
