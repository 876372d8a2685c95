--------------------------- MODULE SchemaApplyProofs ---------------------------
(***************************************************************************)
(* The invariants of SchemaApply for any number of requests, change ids,   *)
(* subjects, batches and initial registry contents.                        *)
(***************************************************************************)
EXTENDS SchemaApply, TLAPS

\* A form's subjects are subjects, its specs carry schemas.
LEMMA FormFacts ==
    ASSUME NEW f \in Forms
    PROVE  /\ DOMAIN f.specs \subseteq Subjects
           /\ \A s \in DOMAIN f.specs : f.specs[s].schema \in Schema
BY FormsAssumption DEF SchemaSpec

\* What the registry holds is only added to.
Grows == \A s \in Subjects : \A i \in DOMAIN sr[s] :
            i \in DOMAIN sr'[s] /\ sr'[s][i] = sr[s][i]

\* A registration adds at most one version, by the request, to one subject, and
\* leaves the schema in the registry.
LEMMA Registration ==
    ASSUME TypeOK, NEW q \in Requests, NEW s \in Batch(q), sr' = Registered(q, s)
    PROVE  /\ Grows
           /\ sr' \in [Subjects -> Seq(Version)]
           /\ \E i \in DOMAIN sr'[s] : sr'[s][i].schema = op[q].form.specs[s].schema
           /\ \A r \in Requests, t \in Subjects :
                 Wrote(r, t)' => Wrote(r, t) \/ (r = q /\ t = s)
<1> DEFINE new == op[q].form.specs[s].schema
           v   == [schema |-> new, by |-> q]
<1>0. s \in Subjects /\ new \in Schema /\ op[q].form \in Forms
  BY FormFacts DEF TypeOK, Op, Batch
<1>1. CASE \E i \in DOMAIN sr[s] : sr[s][i].schema = new
  <2>1. sr' = sr  BY <1>1 DEF Registered
  <2>2. Grows /\ sr' \in [Subjects -> Seq(Version)]  BY <2>1 DEF Grows, TypeOK
  <2>3. \A r \in Requests, t \in Subjects : Wrote(r, t)' => Wrote(r, t)
    BY <2>1 DEF Wrote
  <2>4. \E i \in DOMAIN sr'[s] : sr'[s][i].schema = new  BY <1>1, <2>1
  <2> QED BY <2>2, <2>3, <2>4
<1>2. CASE ~ \E i \in DOMAIN sr[s] : sr[s][i].schema = new
  <2>1. sr' = [sr EXCEPT ![s] = Append(@, v)]  BY <1>2 DEF Registered
  <2>2. v \in Version  BY <1>0 DEF Version
  <2>3. sr \in [Subjects -> Seq(Version)]  BY DEF TypeOK
  <2>4. sr'[s] = Append(sr[s], v) /\ \A t \in Subjects \ {s} : sr'[t] = sr[t]
    BY <2>1, <2>3, <1>0
  <2>5. /\ DOMAIN sr'[s] = 1 .. Len(sr[s]) + 1
        /\ DOMAIN sr[s] = 1 .. Len(sr[s])
        /\ Len(sr[s]) \in Nat
        /\ sr'[s][Len(sr[s]) + 1] = v
        /\ \A i \in 1 .. Len(sr[s]) : sr'[s][i] = sr[s][i]
    BY <2>2, <2>3, <2>4, <1>0
  <2>6. Grows  BY <2>4, <2>5 DEF Grows
  <2>7. sr' \in [Subjects -> Seq(Version)]  BY <2>1, <2>2, <2>3, <1>0
  <2>8. \E i \in DOMAIN sr'[s] : sr'[s][i].schema = new
    BY <2>5
  <2>9. ASSUME NEW r \in Requests, NEW t \in Subjects, Wrote(r, t)'
        PROVE  Wrote(r, t) \/ (r = q /\ t = s)
    <3>1. CASE t # s  BY <3>1, <2>4, <2>9 DEF Wrote
    <3>2. CASE t = s
      <4>1. PICK i \in DOMAIN sr'[s] : sr'[s][i].by = r  BY <2>9, <3>2 DEF Wrote
      <4>2. CASE i = Len(sr[s]) + 1  BY <4>1, <4>2, <2>5, <3>2
      <4>3. CASE i # Len(sr[s]) + 1
        <5>1. i \in 1 .. Len(sr[s])  BY <4>3, <2>5
        <5> QED BY <5>1, <4>1, <2>5, <3>2 DEF Wrote
      <4> QED BY <4>2, <4>3
    <3> QED BY <3>1, <3>2
  <2> QED BY <2>6, <2>7, <2>8, <2>9
<1> QED BY <1>1, <1>2

\* What the registry has, it keeps.
LEMMA HasStays ==
    ASSUME Grows, NEW s \in Subjects, NEW x, Has(s, x)
    PROVE  \E i \in DOMAIN sr'[s] : sr'[s][i].schema = x
BY DEF Grows, Has

\* A request that does not move keeps its invariant while the others only add
\* to the registry and to the tables.
LEMMA Frame ==
    ASSUME TypeOK, NEW r \in Requests, RequestInv(r),
           pc'[r] = pc[r], op'[r] = op[r], Grows,
           \A s \in Subjects : Wrote(r, s)' => Wrote(r, s),
           \A c \in ChangeIds : plans[c] # Nobody => plans'[c] # Nobody,
           \A c \in ChangeIds : results'[c] = r <=> results[c] = r,
           r \in approvals' => r \in approvals
    PROVE  RequestInv(r)'
<1>1. /\ Batch(r)' = Batch(r) /\ InHand(r)' = InHand(r) /\ Looping(r)' = Looping(r)
      /\ Writable(r)' = Writable(r)
      /\ Rules(r, op[r].bad)' = Rules(r, op[r].bad)
  BY DEF Batch, InHand, Looping, Writable, Rules, Violations
<1>2. Holder(r)' <=> Holder(r)  BY DEF Holder
<1>3. WroteSomething(r)' => WroteSomething(r)  BY DEF WroteSomething
<1>4. ClearedToWrite(r)'
  <2>1. ASSUME pc[r] # "idle", Cleared(r)
        PROVE  Cleared(r)'
    BY <2>1, <1>1 DEF Cleared, TypeOK
  <2>2. Looping(r) \/ WroteSomething(r) => pc[r] # "idle" /\ Cleared(r)
    BY DEF RequestInv, ClearedToWrite, Untouched, Looping
  <2>3. pc[r] \in {"idle", "describing"} => Untouched(r)'
    BY <1>3 DEF RequestInv, ClearedToWrite, Untouched
  <2> QED BY <1>1, <1>2, <1>3, <2>1, <2>2, <2>3 DEF RequestInv, ClearedToWrite
<1>5. Accounted(r)'
  BY <1>1, <1>2 DEF RequestInv, Accounted
<1>6. Held(r)'
  <2>1. \A s \in Subjects : \A x : Has(s, x) => Has(s, x)'
    BY HasStays DEF Has
  <2>2. op[r] \in Op /\ op[r].form \in Forms  BY DEF TypeOK, Op
  <2>3. \A s \in Subjects :
          op'[r].current[s] \notin {NoSchema, Unread} => Has(s, op[r].current[s])'
    BY <2>1 DEF RequestInv, Held
  <2>4. ASSUME Looping(r) \/ Holder(r)
        PROVE  \A s \in op[r].registered \cup (op[r].skipped \ op[r].form.dryOnly) \cup InHand(r) :
                  Has(s, op[r].form.specs[s].schema)'
    BY <2>1, <2>2, <2>4 DEF RequestInv, Held, Op, InHand
  <2>5. ASSUME pc[r] = "versioned"
        PROVE  /\ op[r].version \in DOMAIN sr'[op[r].item]
               /\ \E i \in 1 .. op[r].version :
                    sr'[op[r].item][i].schema = op[r].form.specs[op[r].item].schema
    <3>1. op[r].item \in Subjects /\ op[r].version \in DOMAIN sr[op[r].item]
      BY <2>2, <2>5 DEF Op, RequestInv, Held
    <3>2. DOMAIN sr[op[r].item] = 1 .. Len(sr[op[r].item]) /\ Len(sr[op[r].item]) \in Nat
      BY <3>1 DEF TypeOK
    <3>3. PICK i \in 1 .. op[r].version :
            sr[op[r].item][i].schema = op[r].form.specs[op[r].item].schema
      BY <2>5 DEF RequestInv, Held
    <3>4. i \in DOMAIN sr[op[r].item]  BY <3>1, <3>2, <3>3
    <3> QED BY <3>1, <3>3, <3>4 DEF Grows
  <2> QED BY <1>1, <1>2, <2>3, <2>4, <2>5 DEF Held, Has
<1>7. CompletingHolds(r)'
  BY DEF RequestInv, CompletingHolds, TypeOK
<1> QED BY <1>4, <1>5, <1>6, <1>7 DEF RequestInv

------------------------------------------------------------------------------
(* Types *)

\* The initial states are well typed.
LEMMA TypeInit == Init => TypeOK
<1> SUFFICES ASSUME Init PROVE TypeOK  OBVIOUS
<1>1. PICK h \in [Subjects -> Histories] :
        sr = [s \in Subjects |-> [i \in DOMAIN h[s] |-> [schema |-> h[s][i], by |-> Nobody]]]
  BY DEF Init
<1>2. ASSUME NEW s \in Subjects
      PROVE  sr[s] \in Seq(Version)
  <2>1. h[s] \in Seq(Schema)  BY HistoriesAssumption
  <2>2. DOMAIN h[s] = 1 .. Len(h[s]) /\ Len(h[s]) \in Nat  BY <2>1
  <2>3. \A i \in 1 .. Len(h[s]) : [schema |-> h[s][i], by |-> Nobody] \in Version
    BY <2>1 DEF Version
  <2> QED BY <1>1, <2>2, <2>3
<1>3. sr \in [Subjects -> Seq(Version)]  BY <1>1, <1>2
<1>4. (CHOOSE f \in Forms : TRUE) \in Forms /\ (CHOOSE s \in Subjects : TRUE) \in Subjects
  BY FormsAssumption, NamesAssumption
<1>5. NewOp("dry_run", Nobody, CHOOSE f \in Forms : TRUE, FALSE) \in Op
  BY <1>4 DEF NewOp, Op, Modes
<1> QED BY <1>3, <1>5 DEF Init, TypeOK, Pcs

\* The part of TypeOK that only depends on pc and op, when one request moves.
LEMMA TypeMove ==
    ASSUME TypeOK, NEW q \in Requests, NEW l \in Pcs, NEW o \in Op,
           pc' = [pc EXCEPT ![q] = l], op' = [op EXCEPT ![q] = o], o.change \in ChangeIds
    PROVE  /\ pc' \in [Requests -> Pcs]
           /\ op' \in [Requests -> Op]
           /\ \A r \in Requests : pc'[r] # "idle" => op'[r].change \in ChangeIds
BY DEF TypeOK

\* The arrival of a request keeps the types.
LEMMA TypeStart ==
    ASSUME TypeOK, NEW q \in Requests, NEW m \in Modes, NEW c \in ChangeIds, NEW f \in Forms,
           NEW o \in BOOLEAN, Start(q, m, c, f, o)
    PROVE  TypeOK'
<1>1. (CHOOSE s \in Subjects : TRUE) \in Subjects  BY NamesAssumption
<1>2. NewOp(m, c, f, o) \in Op /\ NewOp(m, c, f, o).change \in ChangeIds
  BY <1>1 DEF NewOp, Op
<1>3. audit' \subseteq Audit  BY DEF Start, log_operation, Audit, TypeOK
<1>4. "describing" \in Pcs  BY DEF Pcs
<1>5. pc' = [pc EXCEPT ![q] = "describing"] /\ op' = [op EXCEPT ![q] = NewOp(m, c, f, o)]
  BY DEF Start, Goto
<1> HIDE DEF NewOp
<1>6. /\ pc' \in [Requests -> Pcs]
      /\ op' \in [Requests -> Op]
      /\ \A r \in Requests : pc'[r] # "idle" => op'[r].change \in ChangeIds
  BY <1>2, <1>4, <1>5, TypeMove
<1> QED BY <1>3, <1>6 DEF Start, TypeOK

\* The types of op and pc when one request changes its record within its change.
LEMMA TypeChange ==
    ASSUME TypeOK, NEW q \in Requests, NEW o \in Op, o.change = op[q].change,
           op' = [op EXCEPT ![q] = o]
    PROVE  op' \in [Requests -> Op] /\ \A r \in Requests : op'[r].change = op[r].change
BY DEF TypeOK

\* Every step of a request keeps the types; the schema of the item in hand has
\* its type because the item is in the batch.
LEMMA TypeStep ==
    ASSUME TypeOK, NEW q \in Requests, RequestInv(q), Step(q)
    PROVE  TypeOK'
<1>0. /\ op[q] \in Op /\ op[q].form \in Forms
      /\ Batch(q) \subseteq Subjects /\ Skipped(q) \subseteq Subjects
  BY FormFacts DEF TypeOK, Op, Batch, Skipped
<1>1. ASSUME NEW s \in Subjects, describe_subject(q, s)
      PROVE  TypeOK'
  <2>1. Latest(s) \in Schema \cup {NoSchema}
    <3>1. sr[s] \in Seq(Version)  BY DEF TypeOK
    <3>2. CASE sr[s] # <<>>
      <4>1. sr[s][Len(sr[s])] \in Version  BY <3>1, <3>2
      <4> QED BY <4>1, <3>2 DEF Latest, Version
    <3> QED BY <3>2 DEF Latest
  <2>2. PICK found \in {Latest(s), NoSchema} :
          op' = [op EXCEPT ![q].current[s] = found, ![q].hurt = @ \/ found # Latest(s)]
    BY <1>1 DEF describe_subject
  <2> DEFINE now == [op[q].current EXCEPT ![s] = found]
             o   == [op[q] EXCEPT !.current = now, !.hurt = @ \/ found # Latest(s)]
  <2>4. op' = [op EXCEPT ![q] = o]  BY <2>2 DEF TypeOK
  <2>5. now \in [Subjects -> Schema \cup {NoSchema, Unread}]  BY <1>0, <2>1, <2>2 DEF Op
  <2> HIDE DEF now
  <2>6. o \in Op /\ o.change = op[q].change  BY <1>0, <2>5 DEF Op
  <2> HIDE DEF o
  <2>3. op' \in [Requests -> Op] /\ \A r \in Requests : op'[r].change = op[r].change
    BY <2>4, <2>6, TypeChange
  <2> QED BY <1>1, <2>3 DEF describe_subject, TypeOK
<1>2. ASSUME NEW bad \in SUBSET Batch(q), save_plan(q, bad)
      PROVE  TypeOK'
  <2>1. AfterPlan(q, bad) \in Pcs  BY DEF AfterPlan, Pcs
  <2>2. pc[q] # "idle" /\ op[q].change \in ChangeIds  BY <1>2 DEF save_plan, TypeOK
  <2> DEFINE o == [op[q] EXCEPT !.bad = bad, !.skipped = Skipped(q),
                               !.todo = Batch(q) \ Skipped(q)]
  <2>6. op' = [op EXCEPT ![q] = o]  BY <1>2 DEF save_plan, TypeOK
  <2>7. o \in Op /\ o.change = op[q].change  BY <1>0 DEF Op
  <2> HIDE DEF o
  <2>3. op' \in [Requests -> Op] /\ \A r \in Requests : op'[r].change = op[r].change
    BY <2>6, <2>7, TypeChange
  <2>4. pc' \in [Requests -> Pcs] /\ \A r \in Requests : pc'[r] # "idle" => pc[r] # "idle"
    BY <1>2, <2>1, <2>2 DEF save_plan, Goto, TypeOK
  <2>5. plans' \in [ChangeIds -> Requests \cup {Nobody}]
    BY <1>2, <2>2 DEF save_plan, TypeOK
  <2> QED BY <1>2, <2>3, <2>4, <2>5 DEF save_plan, TypeOK
<1>3. ASSUME NEW s \in Subjects, register(q, s)
      PROVE  TypeOK'
  <2>1. s \in Batch(q)
    BY <1>3 DEF register, RequestInv, Accounted, Looping, Writable
  <2>2. sr' \in [Subjects -> Seq(Version)]
    BY <1>3, <2>1, Registration DEF register
  <2> QED BY <1>0, <1>3, <2>2 DEF register, TypeOK, Op, Goto, Pcs
<1>11. ASSUME NEW s \in Subjects, register_fails(q, s)
      PROVE  TypeOK'
  <2>1. s \in Batch(q)
    BY <1>11 DEF register_fails, RequestInv, Accounted, Looping, Writable
  <2>2. sr' \in [Subjects -> Seq(Version)]
    <3>1. CASE sr' = sr  BY <3>1 DEF TypeOK
    <3>2. CASE sr' = Registered(q, s)  BY <2>1, <3>2, Registration
    <3> QED BY <3>1, <3>2, <1>11 DEF register_fails
  <2> DEFINE o == [op[q] EXCEPT !.failed = @ \cup {s}, !.todo = @ \ {s}, !.hurt = TRUE]
  <2>3. op' = [op EXCEPT ![q] = o]  BY <1>11 DEF register_fails, TypeOK
  <2>4. o \in Op /\ o.change = op[q].change  BY <1>0 DEF Op
  <2> HIDE DEF o
  <2>5. op' \in [Requests -> Op] /\ \A r \in Requests : op'[r].change = op[r].change
    BY <2>3, <2>4, TypeChange
  <2> QED BY <1>11, <2>2, <2>5 DEF register_fails, TypeOK
<1>4. CASE read_version(q)
  <2>1. Len(sr[op[q].item]) \in Nat  BY <1>0 DEF Op, TypeOK
  <2> DEFINE o == [op[q] EXCEPT !.version = Len(sr[op[q].item])]
  <2>2. op' = [op EXCEPT ![q] = o]  BY <1>4 DEF read_version, TypeOK
  <2>3. o \in Op /\ o.change = op[q].change  BY <1>0, <2>1 DEF Op
  <2> HIDE DEF o
  <2>4. op' \in [Requests -> Op] /\ \A r \in Requests : op'[r].change = op[r].change
    BY <2>2, <2>3, TypeChange
  <2>5. pc' = [pc EXCEPT ![q] = "versioned"] /\ pc[q] # "idle"
    BY <1>4 DEF read_version, Goto
  <2> QED BY <1>4, <2>4, <2>5 DEF read_version, TypeOK, Pcs
<1>5. CASE record_artifact(q)
  <2>1. op[q].item \in Batch(q)
    BY <1>5 DEF record_artifact, RequestInv, Accounted, Looping, Writable, InHand
  <2>2. op[q].form.specs[op[q].item].schema \in Schema
    BY <1>0, <2>1, FormFacts DEF Batch
  <2>3. op[q].change \in ChangeIds /\ op[q].version \in Nat /\ op[q].item \in Subjects
    BY <1>0, <1>5 DEF record_artifact, TypeOK, Op
  <2>4. artifacts' \subseteq Artifact
    BY <1>5, <2>2, <2>3 DEF record_artifact, Upserted, Artifact, TypeOK
  <2> DEFINE o == [op[q] EXCEPT !.registered = @ \cup {op[q].item}]
  <2>5. op' = [op EXCEPT ![q] = o]  BY <1>5 DEF record_artifact, TypeOK
  <2>6. o \in Op /\ o.change = op[q].change  BY <1>0 DEF Op
  <2> HIDE DEF o
  <2>7. op' \in [Requests -> Op] /\ \A r \in Requests : op'[r].change = op[r].change
    BY <2>5, <2>6, TypeChange
  <2>8. pc' = [pc EXCEPT ![q] = "applying"] /\ pc[q] # "idle"
    BY <1>5 DEF record_artifact, Goto
  <2> QED BY <1>5, <2>4, <2>7, <2>8 DEF record_artifact, TypeOK, Pcs
<1>6. CASE item_fails(q)
  BY <1>0, <1>6 DEF item_fails, TypeOK, Op, Goto, Pcs
<1>7. CASE save_apply_result(q)
  BY <1>0, <1>7 DEF save_apply_result, TypeOK, Goto, Pcs
<1>8. CASE audit_completed(q) \/ audit_failed(q)
  <2>1. op[q].change \in ChangeIds /\ op[q].mode \in Modes
    BY <1>0, <1>8 DEF audit_completed, audit_failed, TypeOK, Op
  <2>2. audit' \subseteq Audit
    BY <1>8, <2>1 DEF audit_completed, audit_failed, log_operation, TypeOK, Audit
  <2> QED BY <1>8, <2>2 DEF audit_completed, audit_failed, TypeOK, Goto, Pcs
<1>9. CASE _create_approval_request(q)
  BY <1>9 DEF _create_approval_request, TypeOK, Goto, Pcs
<1>10. CASE raises(q)
  BY <1>0, <1>10 DEF raises, TypeOK, Op, Goto, Pcs
<1>12. CASE abandoned(q)
  BY <1>0, <1>12 DEF abandoned, TypeOK, Op, Goto, Pcs
<1> QED BY <1>1, <1>2, <1>3, <1>4, <1>5, <1>6, <1>7, <1>8, <1>9, <1>10,
           <1>11, <1>12 DEF Step
------------------------------------------------------------------------------
(* The moving request *)

\* Nothing is running, written or recorded in an initial state.
LEMMA InvInit == Init => IInv
<1> SUFFICES ASSUME Init PROVE IInv  OBVIOUS
<1>1. TypeOK  BY TypeInit
<1>2. ArtifactCovered /\ AppliedOnce  BY DEF Init, ArtifactCovered, AppliedOnce
<1>3. ASSUME NEW r \in Requests PROVE RequestInv(r)
  <2>1. ~WroteSomething(r)
    <3>1. ASSUME NEW s \in Subjects, NEW i \in DOMAIN sr[s] PROVE sr[s][i].by = Nobody
      BY <3>1 DEF Init
    <3> QED BY <3>1, NamesAssumption DEF WroteSomething, Wrote
  <2>2. ~Holder(r)  BY NamesAssumption DEF Init, Holder
  <2>3. pc[r] = "idle" /\ r \notin approvals  BY DEF Init
  <2>4. /\ op[r].registered = {} /\ op[r].failed = {}
        /\ \A s \in Subjects : op[r].current[s] = Unread
    BY DEF Init, NewOp
  <2>5. ClearedToWrite(r)
    BY <2>1, <2>2, <2>3, <2>4 DEF ClearedToWrite, Looping, Untouched, WroteSomething
  <2>6. Accounted(r) /\ Held(r) /\ CompletingHolds(r)
    BY <2>2, <2>3, <2>4 DEF Accounted, Looping, Held, CompletingHolds
  <2> QED BY <2>5, <2>6 DEF RequestInv
<1> QED BY <1>1, <1>2, <1>3 DEF IInv

\* A request that starts has nothing behind it.
LEMMA InvStart ==
    ASSUME TypeOK, NEW q \in Requests, RequestInv(q), NEW m \in Modes, NEW c \in ChangeIds,
           NEW f \in Forms, NEW o \in BOOLEAN, Start(q, m, c, f, o)
    PROVE  RequestInv(q)'
<1>1. ~WroteSomething(q)' /\ ~Holder(q)'
  BY DEF Start, RequestInv, ClearedToWrite, Untouched, WroteSomething, Wrote, Holder
<1>2. pc'[q] = "describing" /\ q \notin approvals'
  BY DEF Start, Goto, TypeOK, RequestInv, ClearedToWrite, Untouched
<1>3. /\ op'[q].registered = {} /\ op'[q].failed = {}
      /\ \A s \in Subjects : op'[q].current[s] = Unread
  BY DEF Start, NewOp, TypeOK
<1>4. ClearedToWrite(q)'
  BY <1>1, <1>2, <1>3 DEF ClearedToWrite, Looping, Untouched, WroteSomething
<1>5. Accounted(q)' /\ Held(q)' /\ CompletingHolds(q)'
  BY <1>1, <1>2, <1>3 DEF Accounted, Looping, Held, CompletingHolds
<1> QED BY <1>4, <1>5 DEF RequestInv

\* The fields that the gates and the batch depend on.
Kept(q) ==
    /\ op'[q].mode = op[q].mode /\ op'[q].change = op[q].change
    /\ op'[q].form = op[q].form /\ op'[q].override = op[q].override
    /\ op'[q].current = op[q].current /\ op'[q].bad = op[q].bad

\* A request that keeps them has the same batch, and stays cleared.
LEMMA KeptCleared ==
    ASSUME NEW q \in Requests, Kept(q)
    PROVE  /\ Batch(q)' = Batch(q) /\ Writable(q)' = Writable(q)
           /\ Cleared(q) /\ UNCHANGED <<plans, approvals>> => Cleared(q)'
<1>1. Batch(q)' = Batch(q) /\ Rules(q, op[q].bad)' = Rules(q, op[q].bad)
  BY DEF Kept, Batch, Rules, Violations
<1>2. Writable(q)' = Writable(q)  BY <1>1 DEF Kept, Writable
<1> QED BY <1>1, <1>2 DEF Kept, Cleared

\* A request that closes or fails outside the loop's items keeps its invariant.
LEMMA InvClosing ==
    ASSUME TypeOK, NEW q \in Requests, RequestInv(q), Kept(q),
           pc'[q] \in {"failing", "done"}, UNCHANGED <<sr, plans, results>>,
           op'[q].todo = op[q].todo, op'[q].registered = op[q].registered,
           op'[q].skipped = op[q].skipped, op'[q].failed = op[q].failed,
           q \in approvals' => q \in approvals \/ ~WroteSomething(q)
    PROVE  RequestInv(q)'
<1>1. /\ Batch(q)' = Batch(q) /\ Writable(q)' = Writable(q)
      /\ Rules(q, op[q].bad)' = Rules(q, op[q].bad)
  BY DEF Kept, Batch, Writable, Rules, Violations
<1>2. /\ Holder(q)' = Holder(q) /\ WroteSomething(q)' = WroteSomething(q)
      /\ \A s \in Subjects : Wrote(q, s)' = Wrote(q, s)
      /\ \A s, x : Has(s, x)' = Has(s, x)
  BY DEF Holder, WroteSomething, Wrote, Has
<1>3. ~Looping(q)' /\ InHand(q)' = {}  BY DEF Looping, InHand
<1>4. ClearedToWrite(q)'
  <2>1. WroteSomething(q) => Cleared(q)'
    BY <1>1 DEF Kept, RequestInv, ClearedToWrite, Cleared
  <2> QED BY <1>1, <1>2, <1>3, <2>1 DEF RequestInv, ClearedToWrite
<1>5. Holder(q) => InHand(q) = {}
  BY DEF RequestInv, ClearedToWrite, InHand
<1>6. Accounted(q)'
  BY <1>1, <1>2, <1>3, <1>5 DEF RequestInv, Accounted
<1>7. Held(q)'
  BY <1>1, <1>2, <1>3, <1>5 DEF Kept, RequestInv, Held
<1>8. CompletingHolds(q)'  BY DEF CompletingHolds
<1> QED BY <1>4, <1>6, <1>7, <1>8 DEF RequestInv
\* One subject is read.
LEMMA InvDescribe ==
    ASSUME TypeOK, NEW q \in Requests, RequestInv(q), NEW s \in Subjects, describe_subject(q, s)
    PROVE  RequestInv(q)'
<1>1. PICK found \in {Latest(s), NoSchema} :
        op' = [op EXCEPT ![q].current[s] = found, ![q].hurt = @ \/ found # Latest(s)]
  BY DEF describe_subject
<1>2. /\ op'[q].registered = op[q].registered /\ op'[q].failed = op[q].failed
      /\ op'[q].current[s] = found
      /\ \A t \in Subjects \ {s} : op'[q].current[t] = op[q].current[t]
  BY <1>1 DEF TypeOK, Op
<1>3. pc'[q] = "describing" /\ pc[q] = "describing" /\ UNCHANGED <<sr, results, approvals>>
  BY DEF describe_subject
<1>4. ~WroteSomething(q)' /\ ~Holder(q)' /\ ~Looping(q)'
  BY <1>3 DEF RequestInv, ClearedToWrite, Untouched, WroteSomething, Wrote, Holder, Looping
<1>5. ClearedToWrite(q)'
  <2>1. Untouched(q)'  BY <1>2, <1>3, <1>4 DEF RequestInv, ClearedToWrite, Untouched
  <2> QED BY <1>3, <1>4, <2>1 DEF ClearedToWrite, WroteSomething
<1>6. Accounted(q)' /\ CompletingHolds(q)'  BY <1>3, <1>4 DEF Accounted, CompletingHolds
<1>7. Held(q)'
  <2>1. found # NoSchema => Has(s, found)
    <3>1. sr[s] \in Seq(Version)  BY DEF TypeOK
    <3>2. sr[s] # <<>> => Len(sr[s]) \in DOMAIN sr[s]  BY <3>1
    <3> QED BY <3>2 DEF Latest, Has
  <2>2. ASSUME NEW t \in Subjects, op'[q].current[t] \notin {NoSchema, Unread}
        PROVE  Has(t, op'[q].current[t])
    <3>1. CASE t = s  BY <3>1, <2>1, <2>2, <1>2
    <3>2. CASE t # s  BY <3>2, <2>2, <1>2 DEF RequestInv, Held
    <3> QED BY <3>1, <3>2
  <2> QED BY <1>3, <1>4, <2>2 DEF Held, Has
<1> QED BY <1>5, <1>6, <1>7 DEF RequestInv

\* The plan is evaluated: only a cleared apply starts the loop.
LEMMA InvPlan ==
    ASSUME TypeOK, NEW q \in Requests, RequestInv(q), NEW bad \in SUBSET Batch(q),
           save_plan(q, bad)
    PROVE  RequestInv(q)'
<1>0. op[q] \in Op /\ op[q].form \in Forms /\ op[q].change \in ChangeIds
  BY DEF save_plan, TypeOK, Op
<1>1. /\ op'[q].mode = op[q].mode /\ op'[q].change = op[q].change
      /\ op'[q].form = op[q].form /\ op'[q].override = op[q].override
      /\ op'[q].current = op[q].current /\ op'[q].bad = bad
      /\ op'[q].registered = op[q].registered /\ op'[q].failed = op[q].failed
      /\ op'[q].skipped = Skipped(q) /\ op'[q].todo = Batch(q) \ Skipped(q)
  BY <1>0 DEF save_plan, TypeOK, Op
<1>2. /\ pc[q] = "describing" /\ pc'[q] = AfterPlan(q, bad)
      /\ UNCHANGED <<sr, results, approvals>> /\ plans'[op[q].change] = q
  BY <1>0 DEF save_plan, Goto, TypeOK
<1>3. ~WroteSomething(q)' /\ ~Holder(q)' /\ q \notin approvals'
  BY <1>2 DEF RequestInv, ClearedToWrite, Untouched, WroteSomething, Wrote, Holder
<1>4. /\ AfterPlan(q, bad) \in {"completing", "approval", "failing", "applying"}
      /\ AfterPlan(q, bad) = "completing" => op[q].mode # "apply"
      /\ AfterPlan(q, bad) = "applying" =>
           /\ op[q].mode = "apply"
           /\ CanApply(q, bad)
           /\ ensure_approval(Rules(q, bad), op[q].override) = "pass"
  BY <1>0 DEF AfterPlan, Op, Modes
<1>5. Batch(q)' = Batch(q) /\ Writable(q)' = Writable(q) /\ Rules(q, bad)' = Rules(q, bad)
  BY <1>1 DEF Batch, Writable, Rules, Violations
<1>6. ClearedToWrite(q)'
  <2>1. ASSUME AfterPlan(q, bad) = "applying" PROVE Cleared(q)'
    <3>1. bad = {}  BY <1>4, <2>1 DEF CanApply, can_apply
    <3>2. approval_state(Rules(q, bad), op[q].override) \in {"approved", "not_required"}
      BY <1>4, <2>1 DEF ensure_approval, approval_state
    <3> QED BY <1>1, <1>2, <1>3, <1>4, <1>5, <2>1, <3>1, <3>2, NamesAssumption DEF Cleared
  <2> QED BY <1>2, <1>3, <1>4, <2>1 DEF ClearedToWrite, Looping, WroteSomething
<1>7. Accounted(q)'
  <2>1. InHand(q)' = {}  BY <1>2, <1>4 DEF InHand
  <2>2. op[q].registered = {} /\ op[q].failed = {}
    BY <1>2 DEF RequestInv, ClearedToWrite, Untouched
  <2>3. Skipped(q) \subseteq Batch(q) /\ Batch(q) \ Skipped(q) \subseteq Writable(q)
    BY DEF Skipped, Writable
  <2> QED BY <1>1, <1>3, <1>5, <2>1, <2>2, <2>3 DEF Accounted, WroteSomething
<1>8. Held(q)'
  <2>1. InHand(q)' = {} /\ op'[q].registered = {}
    BY <1>1, <1>2, <1>4 DEF InHand, RequestInv, ClearedToWrite, Untouched
  <2>2. ASSUME NEW s \in Skipped(q) \ op[q].form.dryOnly
        PROVE  Has(s, op[q].form.specs[s].schema)
    <3>1. s \in Batch(q) /\ s \in Subjects  BY <1>0, FormFacts DEF Skipped, Batch
    <3>2. op[q].current[s] = op[q].form.specs[s].schema /\ op[q].current[s] # NoSchema
      BY <2>2 DEF Skipped, _determine_plan_action, text
    <3>3. op[q].current[s] # Unread  BY <3>1 DEF save_plan
    <3> QED BY <3>1, <3>2, <3>3 DEF RequestInv, Held
  <2>3. \A s \in Subjects :
          op[q].current[s] \notin {NoSchema, Unread} => Has(s, op[q].current[s])
    BY DEF RequestInv, Held
  <2> QED BY <1>1, <1>2, <1>4, <2>1, <2>2, <2>3 DEF Held, Has
<1>9. CompletingHolds(q)'  BY <1>1, <1>2, <1>4 DEF CompletingHolds
<1> QED BY <1>6, <1>7, <1>8, <1>9 DEF RequestInv
\* What every step inside the loop has in common: it is left to show that the
\* lists still split the batch and that what they name is in the registry.
LEMMA InvLoop ==
    ASSUME TypeOK, NEW q \in Requests, RequestInv(q), Kept(q), Looping(q), Looping(q)', Grows,
           UNCHANGED <<plans, results, approvals>>, NEW W \in SUBSET Writable(q),
           \A t \in Subjects : Wrote(q, t)' => Wrote(q, t) \/ t \in W,
           Accounted(q)',
           \A s \in op'[q].registered \cup (op'[q].skipped \ op'[q].form.dryOnly) \cup InHand(q)' :
              Has(s, op[q].form.specs[s].schema)',
           pc'[q] = "versioned" =>
              /\ op'[q].version \in DOMAIN sr'[op'[q].item]
              /\ \E i \in 1 .. op'[q].version :
                    sr'[op'[q].item][i].schema = op[q].form.specs[op'[q].item].schema
    PROVE  RequestInv(q)'
<1>1. Cleared(q)' /\ Writable(q)' = Writable(q)
  BY KeptCleared DEF RequestInv, ClearedToWrite
<1>2. ~Holder(q)'  BY DEF RequestInv, ClearedToWrite, Looping, Holder
<1>3. ClearedToWrite(q)'
  BY <1>1, <1>2 DEF RequestInv, ClearedToWrite, Looping
<1>4. Held(q)'
  <2>1. \A s \in Subjects : \A x : Has(s, x) => Has(s, x)'  BY HasStays DEF Has
  <2>2. \A s \in Subjects :
          op'[q].current[s] \notin {NoSchema, Unread} => Has(s, op[q].current[s])'
    BY <2>1 DEF Kept, RequestInv, Held
  <2> QED BY <2>2 DEF Kept, Held, Has
<1>5. CompletingHolds(q)'  BY DEF CompletingHolds, Looping
<1> QED BY <1>3, <1>4, <1>5 DEF RequestInv

\* What the invariant says of a looping request, in the form the steps use it.
LEMMA LoopFacts ==
    ASSUME TypeOK, NEW q \in Requests, RequestInv(q), Looping(q)
    PROVE  /\ op[q] \in Op /\ op[q].form \in Forms /\ Batch(q) \subseteq Subjects
           /\ ~Holder(q)
           /\ op[q].todo \cup InHand(q) \subseteq Writable(q)
           /\ op[q].todo \cup InHand(q) \cup op[q].registered \cup op[q].skipped
                 \cup op[q].failed = Batch(q)
           /\ (op[q].todo \cup InHand(q) \cup op[q].registered \cup op[q].failed)
                 \cap op[q].skipped = {}
           /\ (op[q].todo \cup InHand(q) \cup op[q].registered) \cap op[q].failed = {}
           /\ op[q].todo \cap InHand(q) = {}
           /\ (op[q].todo \cup InHand(q)) \cap op[q].registered = {}
           /\ \A s \in Subjects :
                 Wrote(q, s) => s \in op[q].registered \cup op[q].failed \cup InHand(q)
           /\ \A s \in op[q].registered \cup (op[q].skipped \ op[q].form.dryOnly) \cup InHand(q) :
                 Has(s, op[q].form.specs[s].schema)
<1>1. op[q] \in Op /\ op[q].form \in Forms  BY DEF TypeOK, Op
<1>2. Batch(q) \subseteq Subjects  BY <1>1, FormFacts DEF Batch
<1>3. ~Holder(q)  BY DEF RequestInv, ClearedToWrite, Looping
<1> QED BY <1>1, <1>2, <1>3 DEF RequestInv, Accounted, Held

\* A registration puts the item in hand.
LEMMA InvRegister ==
    ASSUME TypeOK, NEW q \in Requests, RequestInv(q), NEW s \in Subjects, register(q, s)
    PROVE  RequestInv(q)' /\ s \in Batch(q)
<1>1. pc[q] = "applying" /\ pc'[q] = "registered" /\ s \in op[q].todo
  BY DEF register, Goto, TypeOK
<1>2. Looping(q) /\ Looping(q)' /\ InHand(q) = {}
  BY <1>1 DEF Looping, InHand
<1>3. /\ Kept(q) /\ op'[q].registered = op[q].registered /\ op'[q].failed = op[q].failed
      /\ op'[q].skipped = op[q].skipped /\ op'[q].item = s /\ op'[q].todo = op[q].todo \ {s}
  BY <1>2, LoopFacts DEF register, Kept, TypeOK, Op
<1>4. InHand(q)' = {s} /\ {s} \in SUBSET Writable(q) /\ s \in Batch(q)
  BY <1>1, <1>2, <1>3, LoopFacts DEF InHand, Writable
<1>5. /\ Grows
      /\ Has(s, op[q].form.specs[s].schema)'
      /\ \A t \in Subjects : Wrote(q, t)' => Wrote(q, t) \/ t \in {s}
  BY <1>3, <1>4, Registration DEF register, Has, Kept
<1>6. Batch(q)' = Batch(q) /\ Writable(q)' = Writable(q)  BY <1>3, KeptCleared
<1>7. UNCHANGED <<plans, results, approvals>> /\ ~Holder(q)'
  BY <1>2, LoopFacts DEF register, Holder
<1>8. Accounted(q)'
  <2>1. \A t \in Subjects : Wrote(q, t)' =>
           t \in op'[q].registered \cup op'[q].failed \cup InHand(q)'
    BY <1>2, <1>3, <1>4, <1>5, LoopFacts
  <2> QED BY <1>1, <1>2, <1>3, <1>4, <1>6, <1>7, <2>1, LoopFacts DEF Accounted
<1>9. ASSUME NEW t \in op'[q].registered \cup (op'[q].skipped \ op'[q].form.dryOnly) \cup InHand(q)'
      PROVE  Has(t, op[q].form.specs[t].schema)'
  <2>1. CASE t = s  BY <2>1, <1>5
  <2>2. CASE t # s
    <3>1. Has(t, op[q].form.specs[t].schema) /\ t \in Subjects
      BY <2>2, <1>2, <1>3, <1>4, LoopFacts DEF Kept
    <3>2. \A x : Has(t, x) => Has(t, x)'  BY <1>5, <3>1, HasStays DEF Has
    <3> QED BY <3>1, <3>2, <1>3 DEF Kept
  <2> QED BY <2>1, <2>2
<1> QED BY <1>1, <1>2, <1>3, <1>4, <1>5, <1>7, <1>8, <1>9, InvLoop

\* A registration that raises fails the item, whether or not it took effect.
LEMMA InvRegisterFails ==
    ASSUME TypeOK, NEW q \in Requests, RequestInv(q), NEW s \in Subjects, register_fails(q, s)
    PROVE  RequestInv(q)' /\ s \in Batch(q)
<1>1. pc[q] = "applying" /\ pc'[q] = "applying" /\ s \in op[q].todo
  BY DEF register_fails
<1>2. Looping(q) /\ Looping(q)' /\ InHand(q) = {} /\ InHand(q)' = {}
  BY <1>1 DEF Looping, InHand
<1>3. /\ Kept(q) /\ op'[q].registered = op[q].registered /\ op'[q].failed = op[q].failed \cup {s}
      /\ op'[q].skipped = op[q].skipped /\ op'[q].todo = op[q].todo \ {s}
  BY <1>2, LoopFacts DEF register_fails, Kept, TypeOK, Op
<1>4. {s} \in SUBSET Writable(q) /\ s \in Batch(q)
  BY <1>1, <1>2, LoopFacts DEF Writable
<1>5. Grows /\ \A t \in Subjects : Wrote(q, t)' => Wrote(q, t) \/ t \in {s}
  <2>1. CASE sr' = sr  BY <2>1 DEF Grows, Wrote
  <2>2. CASE sr' = Registered(q, s)  BY <2>2, <1>4, Registration
  <2> QED BY <2>1, <2>2 DEF register_fails
<1>6. Batch(q)' = Batch(q) /\ Writable(q)' = Writable(q)  BY <1>3, KeptCleared
<1>7. UNCHANGED <<plans, results, approvals>> /\ ~Holder(q)'
  BY <1>2, LoopFacts DEF register_fails, Holder
<1>8. Accounted(q)'
  <2>1. \A t \in Subjects : Wrote(q, t)' =>
           t \in op'[q].registered \cup op'[q].failed \cup InHand(q)'
    BY <1>2, <1>3, <1>5, LoopFacts
  <2> QED BY <1>1, <1>2, <1>3, <1>6, <1>7, <2>1, LoopFacts DEF Accounted
<1>9. ASSUME NEW t \in op'[q].registered \cup (op'[q].skipped \ op'[q].form.dryOnly) \cup InHand(q)'
      PROVE  Has(t, op[q].form.specs[t].schema)'
  <2>1. Has(t, op[q].form.specs[t].schema) /\ t \in Subjects
    BY <1>2, <1>3, LoopFacts DEF Kept
  <2>2. \A x : Has(t, x) => Has(t, x)'  BY <1>5, <2>1, HasStays DEF Has
  <2> QED BY <2>1, <2>2, <1>3 DEF Kept
<1> QED BY <1>1, <1>2, <1>3, <1>4, <1>5, <1>7, <1>8, <1>9, InvLoop
\* The version read back covers the schema, because the registry has it.
LEMMA InvVersion ==
    ASSUME TypeOK, NEW q \in Requests, RequestInv(q), read_version(q)
    PROVE  RequestInv(q)'
<1>1. pc[q] = "registered" /\ pc'[q] = "versioned" /\ sr' = sr
  BY DEF read_version, Goto, TypeOK
<1>2. Looping(q) /\ Looping(q)'  BY <1>1 DEF Looping
<1>3. /\ Kept(q) /\ op'[q].registered = op[q].registered /\ op'[q].failed = op[q].failed
      /\ op'[q].skipped = op[q].skipped /\ op'[q].item = op[q].item
      /\ op'[q].todo = op[q].todo /\ op'[q].version = Len(sr[op[q].item])
  BY <1>2, LoopFacts DEF read_version, Kept, TypeOK, Op
<1>4. InHand(q) = {op[q].item} /\ InHand(q)' = {op[q].item}
  BY <1>1, <1>3 DEF InHand
<1>5. Grows /\ \A t \in Subjects : Wrote(q, t)' => Wrote(q, t)
  BY <1>1 DEF Grows, Wrote
<1>6. Batch(q)' = Batch(q) /\ Writable(q)' = Writable(q)  BY <1>3, KeptCleared
<1>7. UNCHANGED <<plans, results, approvals>> /\ ~Holder(q)'
  BY <1>2, LoopFacts DEF read_version, Holder
<1>8. Accounted(q)'
  BY <1>2, <1>3, <1>4, <1>5, <1>6, <1>7, LoopFacts DEF Accounted
<1>9. \A t \in op'[q].registered \cup (op'[q].skipped \ op'[q].form.dryOnly) \cup InHand(q)' :
         Has(t, op[q].form.specs[t].schema)'
  BY <1>1, <1>2, <1>3, <1>4, LoopFacts DEF Kept, Has
<1>10. /\ op'[q].version \in DOMAIN sr'[op'[q].item]
       /\ \E i \in 1 .. op'[q].version :
             sr'[op'[q].item][i].schema = op[q].form.specs[op'[q].item].schema
  <2>1. op[q].item \in Subjects  BY <1>2, LoopFacts DEF Op
  <2>2. DOMAIN sr[op[q].item] = 1 .. Len(sr[op[q].item]) /\ Len(sr[op[q].item]) \in Nat
    BY <2>1 DEF TypeOK
  <2>3. PICK i \in DOMAIN sr[op[q].item] :
          sr[op[q].item][i].schema = op[q].form.specs[op[q].item].schema
    BY <1>2, <1>4, LoopFacts DEF Has
  <2>4. /\ op'[q].version = Len(sr[op[q].item]) /\ op'[q].item = op[q].item
        /\ i \in 1 .. Len(sr[op[q].item])
    BY <1>3, <2>2, <2>3
  <2>5. op'[q].version \in DOMAIN sr[op[q].item] /\ i \in 1 .. op'[q].version
    BY <2>2, <2>4
  <2> QED BY <1>1, <2>3, <2>4, <2>5
<1>11. {} \in SUBSET Writable(q) /\ \A t \in Subjects : Wrote(q, t)' => Wrote(q, t) \/ t \in {}
  BY <1>5
<1> QED BY <1>2, <1>3, <1>5, <1>7, <1>8, <1>9, <1>10, <1>11, InvLoop

\* The item in hand is recorded and listed as registered.
LEMMA InvRecord ==
    ASSUME TypeOK, NEW q \in Requests, RequestInv(q), record_artifact(q)
    PROVE  RequestInv(q)'
<1>1. pc[q] = "versioned" /\ pc'[q] = "applying" /\ sr' = sr
  BY DEF record_artifact, Goto, TypeOK
<1>2. Looping(q) /\ Looping(q)'  BY <1>1 DEF Looping
<1>3. /\ Kept(q) /\ op'[q].registered = op[q].registered \cup {op[q].item}
      /\ op'[q].failed = op[q].failed
      /\ op'[q].skipped = op[q].skipped /\ op'[q].todo = op[q].todo
  BY <1>2, LoopFacts DEF record_artifact, Kept, TypeOK, Op
<1>4. InHand(q) = {op[q].item} /\ InHand(q)' = {}  BY <1>1 DEF InHand
<1>5. Grows /\ \A t \in Subjects : Wrote(q, t)' => Wrote(q, t)
  BY <1>1 DEF Grows, Wrote
<1>6. Batch(q)' = Batch(q) /\ Writable(q)' = Writable(q)  BY <1>3, KeptCleared
<1>7. UNCHANGED <<plans, results, approvals>> /\ ~Holder(q)'
  BY <1>2, LoopFacts DEF record_artifact, Holder
<1>8. Accounted(q)'
  BY <1>2, <1>3, <1>4, <1>5, <1>6, <1>7, LoopFacts DEF Accounted
<1>9. \A t \in op'[q].registered \cup (op'[q].skipped \ op'[q].form.dryOnly) \cup InHand(q)' :
         Has(t, op[q].form.specs[t].schema)'
  BY <1>1, <1>2, <1>3, <1>4, LoopFacts DEF Kept, Has
<1>10. {} \in SUBSET Writable(q) /\ \A t \in Subjects : Wrote(q, t)' => Wrote(q, t) \/ t \in {}
  BY <1>5
<1> QED BY <1>1, <1>2, <1>3, <1>5, <1>7, <1>8, <1>9, <1>10, InvLoop

\* The item in hand fails although it may be in the registry.
LEMMA InvItemFails ==
    ASSUME TypeOK, NEW q \in Requests, RequestInv(q), item_fails(q)
    PROVE  RequestInv(q)'
<1>1. pc[q] \in {"registered", "versioned"} /\ pc'[q] = "applying" /\ sr' = sr
  BY DEF item_fails, Goto, TypeOK
<1>2. Looping(q) /\ Looping(q)'  BY <1>1 DEF Looping
<1>3. /\ Kept(q) /\ op'[q].registered = op[q].registered
      /\ op'[q].failed = op[q].failed \cup {op[q].item}
      /\ op'[q].skipped = op[q].skipped /\ op'[q].todo = op[q].todo
  BY <1>2, LoopFacts DEF item_fails, Kept, TypeOK, Op
<1>4. InHand(q) = {op[q].item} /\ InHand(q)' = {}  BY <1>1 DEF InHand
<1>5. Grows /\ \A t \in Subjects : Wrote(q, t)' => Wrote(q, t)
  BY <1>1 DEF Grows, Wrote
<1>6. Batch(q)' = Batch(q) /\ Writable(q)' = Writable(q)  BY <1>3, KeptCleared
<1>7. UNCHANGED <<plans, results, approvals>> /\ ~Holder(q)'
  BY <1>2, LoopFacts DEF item_fails, Holder
<1>8. Accounted(q)'
  BY <1>2, <1>3, <1>4, <1>5, <1>6, <1>7, LoopFacts DEF Accounted
<1>9. \A t \in op'[q].registered \cup (op'[q].skipped \ op'[q].form.dryOnly) \cup InHand(q)' :
         Has(t, op[q].form.specs[t].schema)'
  BY <1>1, <1>2, <1>3, <1>4, LoopFacts DEF Kept, Has
<1>10. {} \in SUBSET Writable(q) /\ \A t \in Subjects : Wrote(q, t)' => Wrote(q, t) \/ t \in {}
  BY <1>5
<1> QED BY <1>1, <1>2, <1>3, <1>5, <1>7, <1>8, <1>9, <1>10, InvLoop

\* The result row: it is inserted, or the request fails.
LEMMA InvSaveResult ==
    ASSUME TypeOK, NEW q \in Requests, RequestInv(q), save_apply_result(q)
    PROVE  RequestInv(q)'
<1>1. /\ pc[q] = "applying" /\ op[q].todo = {}
      /\ UNCHANGED <<sr, plans, artifacts, audit, approvals, op>>
      /\ pc'[q] \in {"completing", "failing"}
      /\ pc'[q] = "completing" => results' = [results EXCEPT ![op[q].change] = q]
  BY DEF save_apply_result, Goto, TypeOK
<1>2. Looping(q) /\ ~Looping(q)' /\ InHand(q) = {} /\ InHand(q)' = {} /\ Kept(q)
  BY <1>1 DEF Looping, InHand, Kept
<1>3. /\ WroteSomething(q)' = WroteSomething(q)
      /\ \A s \in Subjects : Wrote(q, s)' = Wrote(q, s)
      /\ \A s, x : Has(s, x)' = Has(s, x)
  BY <1>1 DEF WroteSomething, Wrote, Has
<1>4. Cleared(q)' /\ Batch(q)' = Batch(q) /\ Writable(q)' = Writable(q)
  BY <1>1, <1>2, KeptCleared DEF RequestInv, ClearedToWrite
<1>5. ClearedToWrite(q)'
  BY <1>1, <1>2, <1>3, <1>4 DEF RequestInv, ClearedToWrite
<1>6. Accounted(q)'
  BY <1>1, <1>2, <1>3, <1>4, LoopFacts DEF Accounted
<1>7. Held(q)'
  <2>1. \A s \in Subjects :
          op[q].current[s] \notin {NoSchema, Unread} => Has(s, op[q].current[s])
    BY DEF RequestInv, Held
  <2> QED BY <1>1, <1>2, <1>3, <2>1, LoopFacts DEF Held
<1>8. CompletingHolds(q)'
  BY <1>1 DEF CompletingHolds, TypeOK
<1> QED BY <1>5, <1>6, <1>7, <1>8 DEF RequestInv
------------------------------------------------------------------------------
(* The invariant *)

\* What request q may do to the others: nothing to their locals, and to the
\* shared state only additions in its own name.
OnlyAdds(q) ==
    /\ \A r \in Requests \ {q} : pc'[r] = pc[r] /\ op'[r] = op[r]
    /\ Grows
    /\ \A r \in Requests \ {q}, s \in Subjects : Wrote(r, s)' => Wrote(r, s)
    /\ \A c \in ChangeIds : plans[c] # Nobody => plans'[c] # Nobody
    /\ \A c \in ChangeIds : results'[c] # results[c] => results[c] = Nobody /\ results'[c] = q
    /\ approvals' \subseteq approvals \cup {q}

\* Every step of a request, its arrival included, only adds.
LEMMA StepAdds ==
    ASSUME TypeOK, NEW q \in Requests, RequestInv(q),
           \/ Step(q)
           \/ \E m \in Modes, c \in ChangeIds, f \in Forms, o \in BOOLEAN : Start(q, m, c, f, o)
    PROVE  OnlyAdds(q)
<1>1. sr' = sr => Grows /\ \A r \in Requests, s \in Subjects : Wrote(r, s)' => Wrote(r, s)
  BY DEF Grows, Wrote
<1>2. ASSUME NEW s \in Subjects, register(q, s) PROVE OnlyAdds(q)
  <2>1. s \in Batch(q) /\ sr' = Registered(q, s)  BY <1>2, InvRegister DEF register
  <2>2. Grows /\ \A r \in Requests \ {q}, t \in Subjects : Wrote(r, t)' => Wrote(r, t)
    BY <2>1, Registration
  <2> QED BY <1>2, <2>2 DEF OnlyAdds, register, Goto, TypeOK
<1>3. ASSUME NEW s \in Subjects, register_fails(q, s) PROVE OnlyAdds(q)
  <2>1. s \in Batch(q)  BY <1>3, InvRegisterFails
  <2>2. CASE sr' = sr  BY <1>1, <1>3, <2>2 DEF OnlyAdds, register_fails, TypeOK
  <2>3. CASE sr' = Registered(q, s)
    <3>1. Grows /\ \A r \in Requests \ {q}, t \in Subjects : Wrote(r, t)' => Wrote(r, t)
      BY <2>1, <2>3, Registration
    <3> QED BY <1>3, <3>1 DEF OnlyAdds, register_fails, TypeOK
  <2> QED BY <1>3, <2>2, <2>3 DEF register_fails
<1>4. ASSUME NEW s \in Subjects, describe_subject(q, s) PROVE OnlyAdds(q)
  BY <1>1, <1>4 DEF OnlyAdds, describe_subject, TypeOK
<1>5. ASSUME NEW bad \in SUBSET Batch(q), save_plan(q, bad) PROVE OnlyAdds(q)
  BY <1>1, <1>5, NamesAssumption DEF OnlyAdds, save_plan, Goto, TypeOK
<1>6. CASE read_version(q) \/ record_artifact(q) \/ item_fails(q)
  BY <1>1, <1>6 DEF OnlyAdds, read_version, record_artifact, item_fails, Goto, TypeOK
<1>7. CASE save_apply_result(q)
  BY <1>1, <1>7 DEF OnlyAdds, save_apply_result, Goto, TypeOK
<1>8. CASE audit_completed(q) \/ _create_approval_request(q) \/ audit_failed(q)
           \/ raises(q) \/ abandoned(q)
  BY <1>1, <1>8 DEF OnlyAdds, audit_completed, _create_approval_request, audit_failed,
                    raises, abandoned, Goto, TypeOK
<1>9. ASSUME NEW m \in Modes, NEW c \in ChangeIds, NEW f \in Forms, NEW o \in BOOLEAN,
             Start(q, m, c, f, o)
      PROVE  OnlyAdds(q)
  BY <1>1, <1>9 DEF OnlyAdds, Start, Goto, TypeOK
<1> QED BY <1>2, <1>3, <1>4, <1>5, <1>6, <1>7, <1>8, <1>9 DEF Step

\* Every step of a request keeps its own invariant.
LEMMA InvStep ==
    ASSUME TypeOK, NEW q \in Requests, RequestInv(q), Step(q)
    PROVE  RequestInv(q)'
<1>1. CASE audit_completed(q) \/ audit_failed(q)
  BY <1>1, InvClosing DEF audit_completed, audit_failed, Goto, Kept, TypeOK
<1>2. CASE _create_approval_request(q)
  <2>1. ~WroteSomething(q)
    BY <1>2 DEF _create_approval_request, RequestInv, ClearedToWrite
  <2> QED BY <1>2, <2>1, InvClosing DEF _create_approval_request, Goto, Kept, TypeOK
<1>3. CASE raises(q) \/ abandoned(q)
  <2>1. op[q] \in Op  BY DEF TypeOK
  <2>2. /\ Kept(q)
        /\ op'[q].todo = op[q].todo /\ op'[q].registered = op[q].registered
        /\ op'[q].skipped = op[q].skipped /\ op'[q].failed = op[q].failed
    BY <1>3, <2>1 DEF raises, abandoned, Kept, TypeOK, Op
  <2>3. pc'[q] \in {"failing", "done"} /\ UNCHANGED <<sr, plans, results, approvals>>
    BY <1>3 DEF raises, abandoned, Goto, TypeOK
  <2> QED BY <2>2, <2>3, InvClosing
<1> QED BY <1>1, <1>2, <1>3, InvDescribe, InvPlan, InvRegister, InvRegisterFails, InvVersion,
           InvRecord, InvItemFails, InvSaveResult DEF Step

\* The artifacts stay covered: a new one by what the request read, the others
\* because the registry only grows.
LEMMA CoveredStep ==
    ASSUME TypeOK, ArtifactCovered, NEW q \in Requests, RequestInv(q), Grows,
           artifacts' = artifacts \/ record_artifact(q)
    PROVE  ArtifactCovered'
<1>1. ASSUME NEW s \in Subjects, NEW v \in DOMAIN sr[s], NEW x,
             \E i \in 1 .. v : sr[s][i].schema = x
      PROVE  v \in DOMAIN sr'[s] /\ \E i \in 1 .. v : sr'[s][i].schema = x
  <2>1. DOMAIN sr[s] = 1 .. Len(sr[s]) /\ Len(sr[s]) \in Nat  BY DEF TypeOK
  <2>2. 1 .. v \subseteq DOMAIN sr[s]  BY <2>1
  <2> QED BY <1>1, <2>2 DEF Grows
<1>2. CASE artifacts' = artifacts
  <2>1. \A a \in artifacts : a.subject \in Subjects  BY DEF TypeOK, Artifact
  <2> QED BY <1>1, <1>2, <2>1 DEF ArtifactCovered
<1>3. CASE record_artifact(q)
  <2>1. /\ op[q].version \in DOMAIN sr[op[q].item]
        /\ \E i \in 1 .. op[q].version :
              sr[op[q].item][i].schema = op[q].form.specs[op[q].item].schema
    BY <1>3 DEF record_artifact, RequestInv, Held
  <2>2. op[q].item \in Subjects  BY <1>3, LoopFacts DEF record_artifact, Looping, Op
  <2>3. /\ op[q].version \in DOMAIN sr'[op[q].item]
        /\ \E i \in 1 .. op[q].version :
              sr'[op[q].item][i].schema = op[q].form.specs[op[q].item].schema
    BY <1>1, <2>1, <2>2
  <2>4. \A a \in artifacts' :
           \/ a \in artifacts
           \/ /\ a.subject = op[q].item /\ a.version = op[q].version
              /\ a.schema = op[q].form.specs[op[q].item].schema
    <3> DEFINE row == [subject |-> op[q].item, version |-> op[q].version,
                       schema |-> op[q].form.specs[op[q].item].schema,
                       change |-> op[q].change]
    <3>1. artifacts' = Upserted(row)  BY <1>3 DEF record_artifact
    <3>2. artifacts' \subseteq artifacts \cup {row}  BY <3>1 DEF Upserted
    <3> QED BY <3>2
  <2>5. \A a \in artifacts : a.subject \in Subjects  BY DEF TypeOK, Artifact
  <2>6. ASSUME NEW a \in artifacts
        PROVE  /\ a.version \in DOMAIN sr'[a.subject]
               /\ \E i \in 1 .. a.version : sr'[a.subject][i].schema = a.schema
    BY <1>1, <2>5, <2>6 DEF ArtifactCovered
  <2> QED BY <2>3, <2>4, <2>6 DEF ArtifactCovered
<1> QED BY <1>2, <1>3

\* Every step of a request keeps the invariant of the module.
LEMMA IInvStep ==
    ASSUME IInv, NEW q \in Requests,
           \/ Step(q)
           \/ \E m \in Modes, c \in ChangeIds, f \in Forms, o \in BOOLEAN : Start(q, m, c, f, o)
    PROVE  IInv'
<1>1. TypeOK /\ RequestInv(q) /\ ArtifactCovered /\ AppliedOnce  BY DEF IInv
<1>2. OnlyAdds(q)  BY <1>1, StepAdds
<1>3. TypeOK' /\ RequestInv(q)'
  BY <1>1, TypeStart, TypeStep, InvStart, InvStep
<1>4. ASSUME NEW r \in Requests \ {q} PROVE RequestInv(r)'
  <2>1. RequestInv(r)  BY DEF IInv
  <2>2. \A c \in ChangeIds : results'[c] = r <=> results[c] = r
    BY <1>2, NamesAssumption DEF OnlyAdds
  <2>3. /\ pc'[r] = pc[r] /\ op'[r] = op[r] /\ Grows
        /\ \A s \in Subjects : Wrote(r, s)' => Wrote(r, s)
        /\ \A c \in ChangeIds : plans[c] # Nobody => plans'[c] # Nobody
        /\ r \in approvals' => r \in approvals
    BY <1>2 DEF OnlyAdds
  <2> QED BY <1>1, <2>1, <2>2, <2>3, Frame
<1>5. ArtifactCovered'
  <2>1. artifacts' = artifacts \/ record_artifact(q)
    BY DEF Step, Start, describe_subject, register, register_fails, save_plan, read_version,
           item_fails, save_apply_result, audit_completed, _create_approval_request,
           audit_failed, raises, abandoned
  <2> QED BY <1>1, <1>2, <2>1, CoveredStep DEF OnlyAdds
<1>6. AppliedOnce'
  <2>1. ASSUME NEW a \in audit, a.mode = "apply" /\ a.status = "COMPLETED"
        PROVE  results'[a.change] = a.by
    <3>1. a.change \in ChangeIds /\ a.by # Nobody
      BY <1>1, NamesAssumption DEF TypeOK, Audit
    <3> QED BY <1>1, <1>2, <2>1, <3>1 DEF AppliedOnce, OnlyAdds
  <2>2. CASE audit_completed(q)
    <3>1. op[q].mode = "apply" => results[op[q].change] = q
      BY <1>1, <2>2 DEF audit_completed, RequestInv, CompletingHolds
    <3> QED BY <2>1, <2>2, <3>1 DEF AppliedOnce, audit_completed, log_operation
  <2>3. CASE ~audit_completed(q)
    <3>1. \A a \in audit' : a \in audit \/ a.status # "COMPLETED"
      <4>1. ASSUME NEW m \in Modes, NEW c \in ChangeIds, NEW f \in Forms, NEW o \in BOOLEAN,
                   Start(q, m, c, f, o)
            PROVE  \A a \in audit' : a \in audit \/ a.status # "COMPLETED"
        BY <4>1 DEF Start, log_operation
      <4>2. CASE audit_failed(q)  BY <4>2 DEF audit_failed, log_operation
      <4>3. CASE Step(q) /\ ~audit_failed(q)
        <5>1. audit' = audit
          BY <2>3, <4>3 DEF Step, describe_subject, register, register_fails, save_plan,
                 read_version, record_artifact, item_fails, save_apply_result,
                 _create_approval_request, raises, abandoned
        <5> QED BY <5>1
      <4> QED BY <4>1, <4>2, <4>3
    <3> QED BY <2>1, <3>1 DEF AppliedOnce
  <2> QED BY <2>2, <2>3
<1> QED BY <1>3, <1>4, <1>5, <1>6 DEF IInv

\* IInv is an invariant of the batch use cases, for any number of concurrent
\* requests, whatever fails and wherever they are cancelled.
THEOREM Invariance == Spec => []IInv
<1>1. IInv /\ [Next]_vars => IInv'
  <2> SUFFICES ASSUME IInv, [Next]_vars PROVE IInv'  OBVIOUS
  <2>1. CASE Next  BY <2>1, IInvStep DEF Next, Arrive
  <2>2. CASE UNCHANGED vars
    <3>1. TypeOK' /\ ArtifactCovered' /\ AppliedOnce'
      BY <2>2 DEF vars, IInv, TypeOK, ArtifactCovered, AppliedOnce
    <3>2. ASSUME NEW r \in Requests PROVE RequestInv(r)'
      <4>1. TypeOK /\ RequestInv(r)  BY DEF IInv
      <4>2. Grows /\ \A t \in Subjects : Wrote(r, t)' => Wrote(r, t)
        BY <2>2 DEF vars, Grows, Wrote
      <4>3. UNCHANGED <<pc, op, plans, results, approvals>>  BY <2>2 DEF vars
      <4> QED BY <4>1, <4>2, <4>3, Frame
    <3> QED BY <3>1, <3>2 DEF IInv
  <2> QED BY <2>1, <2>2
<1> QED BY <1>1, InvInit, PTL DEF Spec

\* No version reaches the registry past a gate, in any interleaving.
THEOREM Gated == Spec => []GatedWrites
<1>1. IInv => GatedWrites
  BY DEF IInv, RequestInv, ClearedToWrite, Cleared, Writable, WroteSomething, GatedWrites
<1> QED BY <1>1, Invariance, PTL

\* The result row of every apply tells the truth about the registry.
THEOREM Honest == Spec => []HonestResult
<1>1. ASSUME IInv, NEW c \in ChangeIds, results[c] # Nobody
      PROVE  LET o == op[results[c]] IN
             /\ o.registered \cup o.skipped \cup o.failed = DOMAIN o.form.specs
             /\ o.registered \cap o.failed = {}
             /\ o.skipped \cap (o.registered \cup o.failed) = {}
             /\ \A s \in o.registered \cup (o.skipped \ o.form.dryOnly) :
                   Has(s, o.form.specs[s].schema)
             /\ \A s \in Subjects : Wrote(results[c], s) => s \in o.registered \cup o.failed
  <2>1. PICK r \in Requests : results[c] = r  BY <1>1 DEF IInv, TypeOK
  <2>2. RequestInv(r) /\ Holder(r)  BY <1>1, <2>1 DEF IInv, Holder
  <2>3. InHand(r) = {} /\ op[r].todo = {}
    BY <2>2 DEF RequestInv, ClearedToWrite, Accounted, InHand
  <2> QED BY <2>1, <2>2, <2>3 DEF RequestInv, Accounted, Held, Batch
<1>2. IInv => HonestResult  BY <1>1 DEF HonestResult
<1> QED BY <1>2, Invariance, PTL

\* Every artifact names an existing version that is not older than its schema.
THEOREM Covered == Spec => []ArtifactCovered
BY Invariance, PTL DEF IInv

\* No two applies of one change id complete.
THEOREM Once == Spec => []AppliedOnce
BY Invariance, PTL DEF IInv

-------------------------------------------------------------------------------
(* The use cases implement ChangeControl: every step of SchemaApply maps to  *)
(* a step of ChangeControl or changes nothing there.                         *)

\* A closing row is the last thing a request does.
ClosedLast == \A a \in audit : a.status # "STARTED" => pc[a.by] = "done"

\* Only the closing steps write a closing row, and a request that is done does
\* not move again (dry_run.py and apply.py return or raise right after it).
THEOREM ClosingIsLast == Spec => []ClosedLast
<1>1. Init => ClosedLast  BY DEF Init, ClosedLast
<1>2. IInv /\ ClosedLast /\ [Next]_vars => ClosedLast'
  <2> SUFFICES ASSUME IInv, ClosedLast, [Next]_vars PROVE ClosedLast'  OBVIOUS
  <2>1. \A a \in audit : a.by \in Requests  BY DEF IInv, TypeOK, Audit
  <2>2. ASSUME NEW q \in Requests, pc[q] # "done", OnlyAdds(q),
               \A a \in audit' : a \in audit \/ a.status = "STARTED" \/ (a.by = q /\ pc'[q] = "done")
        PROVE  ClosedLast'
    BY <2>1, <2>2 DEF ClosedLast, OnlyAdds
  <2>3. ASSUME NEW q \in Requests, NEW m \in Modes, NEW c \in ChangeIds, NEW f \in Forms,
               NEW o \in BOOLEAN, Start(q, m, c, f, o)
        PROVE  ClosedLast'
    <3>1. OnlyAdds(q)  BY <2>3, StepAdds DEF IInv
    <3> QED BY <2>2, <2>3, <3>1 DEF Start, log_operation
  <2>4. ASSUME NEW q \in Requests, Step(q) PROVE ClosedLast'
    <3>1. OnlyAdds(q)  BY <2>4, StepAdds DEF IInv
    <3>2. pc[q] # "done"
      BY <2>4 DEF Step, describe_subject, register, register_fails, save_plan, read_version,
             record_artifact, item_fails, save_apply_result, audit_completed,
             _create_approval_request, audit_failed, raises, abandoned
    <3>3. CASE audit_completed(q) \/ audit_failed(q)
      <4>1. pc'[q] = "done"
        BY <3>3 DEF audit_completed, audit_failed, Goto, IInv, TypeOK
      <4> QED BY <2>2, <3>1, <3>2, <3>3, <4>1 DEF audit_completed, audit_failed, log_operation
    <3>4. CASE ~(audit_completed(q) \/ audit_failed(q))
      <4>1. audit' = audit
        BY <2>4, <3>4 DEF Step, describe_subject, register, register_fails, save_plan,
               read_version, record_artifact, item_fails, save_apply_result,
               _create_approval_request, raises, abandoned
      <4> QED BY <2>2, <3>1, <3>2, <4>1
    <3> QED BY <3>3, <3>4
  <2>5. CASE UNCHANGED vars  BY <2>5 DEF vars, ClosedLast
  <2> QED BY <2>3, <2>4, <2>5 DEF Next, Arrive
<1> QED BY <1>1, <1>2, Invariance, PTL DEF Spec

------------------------------------------------------------------------------
(* How the refinement mapping moves *)

\* The phases of the program counters.
LEMMA Phases ==
    /\ PhaseOf("idle") = "new"
    /\ PhaseOf("describing") = "open"
    /\ PhaseOf("applying") = "cleared"
    /\ PhaseOf("registered") = "cleared"
    /\ PhaseOf("versioned") = "cleared"
    /\ PhaseOf("completing") = "closing"
    /\ PhaseOf("approval") = "closing"
    /\ PhaseOf("failing") = "closing"
    /\ PhaseOf("done") = "closed"
BY DEF PhaseOf

\* Nothing is written when the registry does not change.
LEMMA WrittenStays == ASSUME sr' = sr PROVE written' = written
BY DEF written, Wrote

\* Nothing is closed when the audit log does not change.
LEMMA OutcomeStays == ASSUME audit' = audit PROVE outcome' = outcome
BY DEF outcome, Logged

\* A registration is a write of its subject, or nothing.
LEMMA WrittenMove ==
    ASSUME TypeOK, NEW q \in Requests, NEW s \in Batch(q), sr' = Registered(q, s)
    PROVE  written' = written \/ written' = [written EXCEPT ![q] = @ \cup {s}]
<1>1. /\ Grows
      /\ \A r \in Requests, t \in Subjects : Wrote(r, t)' => Wrote(r, t) \/ (r = q /\ t = s)
  BY Registration
<1>2. \A r \in Requests, t \in Subjects : Wrote(r, t) => Wrote(r, t)'
  BY <1>1 DEF Grows, Wrote
<1>3. s \in Subjects  BY FormFacts DEF Batch, TypeOK, Op
<1>4. \A r \in Requests \ {q} : written'[r] = written[r]
  BY <1>1, <1>2 DEF written
<1>5. written'[q] = written[q] \/ written'[q] = written[q] \cup {s}
  BY <1>1, <1>2, <1>3 DEF written
<1> QED BY <1>4, <1>5 DEF written

\* A closing row closes its request, which had none, and no other.
LEMMA OutcomeMove ==
    ASSUME ClosedLast, NEW q \in Requests, pc[q] # "done", NEW c, NEW m,
           NEW st \in {"COMPLETED", "FAILED"}, log_operation(q, c, m, st)
    PROVE  outcome' = [outcome EXCEPT ![q] = st]
<1>1. audit' = audit \cup {[by |-> q, change |-> c, mode |-> m, status |-> st]}
  BY DEF log_operation
<1>2. ~Logged(q, "COMPLETED") /\ ~Logged(q, "FAILED")
  BY DEF ClosedLast, Logged
<1>3. \A x \in {"COMPLETED", "FAILED"} : Logged(q, x)' <=> x = st
  <2> DEFINE row == [by |-> q, change |-> c, mode |-> m, status |-> st]
  <2>1. row \in audit' /\ row.by = q /\ row.status = st  BY <1>1
  <2>2. \A x : Logged(q, x)' => Logged(q, x) \/ x = st  BY <1>1 DEF Logged
  <2> HIDE DEF row
  <2>3. Logged(q, st)'  BY <2>1 DEF Logged
  <2> QED BY <1>2, <2>2, <2>3
<1>4. \A r \in Requests \ {q} : \A x : Logged(r, x)' <=> Logged(r, x)
  BY <1>1 DEF Logged
<1>5. outcome'[q] = st  BY <1>3 DEF outcome
<1>6. \A r \in Requests \ {q} : outcome'[r] = outcome[r]  BY <1>4 DEF outcome
<1> QED BY <1>5, <1>6 DEF outcome
------------------------------------------------------------------------------
(* Simulation *)

\* The initial states map to the initial state.
LEMMA InitMaps == Init => CC!Init
<1> SUFFICES ASSUME Init PROVE CC!Init  OBVIOUS
<1>1. phase = [q \in Requests |-> "new"]  BY Phases DEF Init, phase
<1>2. written = [q \in Requests |-> {}]
  <2>1. ASSUME NEW q \in Requests PROVE ~WroteSomething(q)
    BY InvInit DEF IInv, RequestInv, ClearedToWrite, Untouched, Init
  <2> QED BY <2>1 DEF written, WroteSomething
<1>3. outcome = [q \in Requests |-> "none"]  BY DEF Init, outcome, Logged
<1> QED BY <1>1, <1>2, <1>3 DEF CC!Init, Init

\* Every step of a request maps to a step of ChangeControl or a stutter.
LEMMA StepMaps ==
    ASSUME IInv, ClosedLast, NEW q \in Requests, Step(q)
    PROVE  CC!Next \/ UNCHANGED <<phase, written, outcome, results>>
<1>0. TypeOK /\ RequestInv(q) /\ pc \in [Requests -> Pcs]  BY DEF IInv, TypeOK
<1> DEFINE Stutter == UNCHANGED <<phase, written, outcome, results>>
<1>1. ASSUME NEW s \in Subjects, describe_subject(q, s) PROVE Stutter
  <2>1. phase' = phase  BY <1>1 DEF describe_subject, phase
  <2> QED BY <1>1, <2>1, WrittenStays, OutcomeStays DEF describe_subject
<1>2. ASSUME NEW bad \in SUBSET Batch(q), save_plan(q, bad) PROVE CC!Next
  <2>1. /\ phase[q] = "open"
        /\ \/ phase' = [phase EXCEPT ![q] = "cleared"]
           \/ phase' = [phase EXCEPT ![q] = "closing"]
    <3>1. pc[q] = "describing" /\ pc' = [pc EXCEPT ![q] = AfterPlan(q, bad)]
      BY <1>2 DEF save_plan, Goto
    <3>2. AfterPlan(q, bad) \in {"completing", "approval", "failing", "applying"}
      BY DEF AfterPlan
    <3> QED BY <1>0, <3>1, <3>2, Phases DEF phase
  <2>2. UNCHANGED <<written, outcome, results>>
    BY <1>2, WrittenStays, OutcomeStays DEF save_plan
  <2>3. CC!Clear(q) \/ CC!GiveUp(q)
    BY <2>1, <2>2 DEF CC!Clear, CC!GiveUp, CC!Move
  <2> QED BY <2>3 DEF CC!Next
<1>3. ASSUME NEW s \in Subjects, register(q, s) \/ register_fails(q, s)
      PROVE  CC!Next \/ Stutter
  <2>1. s \in Batch(q)  BY <1>0, <1>3, InvRegister, InvRegisterFails
  <2>2. phase[q] = "cleared" /\ phase' = phase
    <3>1. CASE register(q, s)
      <4>1. pc[q] = "applying" /\ pc' = [pc EXCEPT ![q] = "registered"]
        BY <3>1 DEF register, Goto
      <4> QED BY <1>0, <4>1, Phases DEF phase
    <3>2. CASE register_fails(q, s)
      BY <1>0, <3>2, Phases DEF register_fails, phase
    <3> QED BY <1>3, <3>1, <3>2
  <2>3. UNCHANGED <<outcome, results>>
    BY <1>3, OutcomeStays DEF register, register_fails
  <2>4. written' = written \/ written' = [written EXCEPT ![q] = @ \cup {s}]
    BY <1>0, <1>3, <2>1, WrittenMove, WrittenStays DEF register, register_fails
  <2>5. CASE written' = written  BY <2>2, <2>3, <2>5
  <2>6. CASE written' = [written EXCEPT ![q] = @ \cup {s}]
    <3>1. CC!Write(q, s)  BY <2>2, <2>3, <2>6 DEF CC!Write
    <3> QED BY <3>1 DEF CC!Next
  <2> QED BY <2>4, <2>5, <2>6
<1>4. CASE read_version(q) \/ record_artifact(q) \/ item_fails(q)
  <2>1. phase' = phase
    BY <1>0, <1>4, Phases DEF phase, read_version, record_artifact, item_fails, Goto
  <2>2. Stutter
    BY <1>4, <2>1, WrittenStays, OutcomeStays DEF read_version, record_artifact, item_fails
  <2> QED BY <2>2
<1>5. CASE save_apply_result(q)
  <2>1. UNCHANGED <<written, outcome>> /\ op[q].change \in ChangeIds
    BY <1>0, <1>5, WrittenStays, OutcomeStays DEF save_apply_result, TypeOK
  <2>2. CASE results[op[q].change] = Nobody
    <3>1. /\ phase[q] = "cleared" /\ phase' = [phase EXCEPT ![q] = "closing"]
          /\ results' = [results EXCEPT ![op[q].change] = q]
      BY <1>0, <1>5, <2>2, Phases DEF phase, save_apply_result, Goto
    <3>2. CC!Claim(q, op[q].change)  BY <2>1, <2>2, <3>1 DEF CC!Claim, CC!Move
    <3> QED BY <2>1, <3>2 DEF CC!Next
  <2>3. CASE results[op[q].change] # Nobody
    <3>1. /\ phase[q] = "cleared" /\ phase' = [phase EXCEPT ![q] = "closing"]
          /\ results' = results
      BY <1>0, <1>5, <2>3, Phases DEF phase, save_apply_result, Goto
    <3>2. CC!GiveUp(q)  BY <2>1, <3>1 DEF CC!GiveUp, CC!Move
    <3> QED BY <3>2 DEF CC!Next
  <2> QED BY <2>2, <2>3
<1>6. CASE audit_completed(q)
  <2>1. phase[q] = "closing" /\ phase' = [phase EXCEPT ![q] = "closed"]
    <3>1. pc[q] = "completing" /\ pc' = [pc EXCEPT ![q] = "done"]
      BY <1>6 DEF audit_completed, Goto
    <3> QED BY <1>0, <3>1, Phases DEF phase
  <2>2. outcome' = [outcome EXCEPT ![q] = "COMPLETED"]
    BY <1>6, OutcomeMove DEF audit_completed
  <2>3. UNCHANGED <<written, results>>
    BY <1>6, WrittenStays DEF audit_completed
  <2>4. written[q] = {} \/ \E c \in ChangeIds : results[c] = q
    <3>1. op[q].change \in ChangeIds  BY <1>0, <1>6 DEF audit_completed, TypeOK
    <3>2. CASE op[q].mode = "apply"
      BY <1>0, <1>6, <3>1, <3>2 DEF audit_completed, RequestInv, CompletingHolds
    <3>3. CASE op[q].mode # "apply"
      BY <1>0, <3>3 DEF RequestInv, ClearedToWrite, Cleared, WroteSomething, written
    <3> QED BY <3>2, <3>3
  <2>5. CC!Close(q, "COMPLETED")
    BY <2>1, <2>2, <2>3, <2>4 DEF CC!Close, CC!Move
  <2> QED BY <2>5 DEF CC!Next
<1>7. CASE audit_failed(q)
  <2>1. phase[q] = "closing" /\ phase' = [phase EXCEPT ![q] = "closed"]
    <3>1. pc[q] = "failing" /\ pc' = [pc EXCEPT ![q] = "done"]
      BY <1>7 DEF audit_failed, Goto
    <3> QED BY <1>0, <3>1, Phases DEF phase
  <2>2. outcome' = [outcome EXCEPT ![q] = "FAILED"]
    BY <1>7, OutcomeMove DEF audit_failed
  <2>3. UNCHANGED <<written, results>>
    BY <1>7, WrittenStays DEF audit_failed
  <2>4. CC!Close(q, "FAILED")
    BY <2>1, <2>2, <2>3 DEF CC!Close, CC!Move
  <2> QED BY <2>4 DEF CC!Next
<1>8. CASE _create_approval_request(q)
  <2>1. phase' = phase
    <3>1. pc[q] = "approval" /\ pc' = [pc EXCEPT ![q] = "failing"]
      BY <1>8 DEF _create_approval_request, Goto
    <3> QED BY <1>0, <3>1, Phases DEF phase
  <2>2. Stutter
    BY <1>8, <2>1, WrittenStays, OutcomeStays DEF _create_approval_request
  <2> QED BY <2>2
<1>9. CASE raises(q)
  <2>1. UNCHANGED <<written, outcome, results>> /\ pc' = [pc EXCEPT ![q] = "failing"]
    BY <1>9, WrittenStays, OutcomeStays DEF raises, Goto
  <2>2. CASE pc[q] = "completing"
    <3>1. phase' = phase
      BY <1>0, <2>1, <2>2, Phases DEF phase
    <3> QED BY <2>1, <3>1
  <2>3. CASE pc[q] \in {"describing", "applying"}
    <3>1. phase[q] \in {"open", "cleared"} /\ phase' = [phase EXCEPT ![q] = "closing"]
      BY <1>0, <2>1, <2>3, Phases DEF phase
    <3>2. CC!GiveUp(q)  BY <2>1, <3>1 DEF CC!GiveUp, CC!Move
    <3> QED BY <3>2 DEF CC!Next
  <2> QED BY <1>9, <2>2, <2>3 DEF raises
<1>10. CASE abandoned(q)
  <2>1. UNCHANGED <<written, outcome, results>> /\ pc' = [pc EXCEPT ![q] = "done"]
    BY <1>10, WrittenStays, OutcomeStays DEF abandoned, Goto
  <2>2. pc[q] \in Pcs \ {"idle", "done"}  BY <1>0, <1>10 DEF abandoned, TypeOK
  <2>3. /\ phase[q] \in {"open", "cleared", "closing"}
        /\ phase' = [phase EXCEPT ![q] = "closed"]
    BY <1>0, <2>1, <2>2, Phases DEF phase, Pcs
  <2>4. CC!Abandon(q)  BY <2>1, <2>3 DEF CC!Abandon, CC!Move
  <2> QED BY <2>4 DEF CC!Next
<1> QED BY <1>1, <1>2, <1>3, <1>4, <1>5, <1>6, <1>7, <1>8, <1>9, <1>10 DEF Step

\* dry_run.py and apply.py implement ChangeControl, for any number of requests.
THEOREM Refinement == Spec => ImplementsChangeControl
<1>1. IInv /\ ClosedLast /\ [Next]_vars => [CC!Next]_CC!vars
  <2> SUFFICES ASSUME IInv, ClosedLast, [Next]_vars
               PROVE  CC!Next \/ UNCHANGED <<phase, written, outcome, results>>
    BY DEF CC!vars
  <2>1. ASSUME NEW q \in Requests, NEW m \in Modes, NEW c \in ChangeIds, NEW f \in Forms,
               NEW o \in BOOLEAN, Start(q, m, c, f, o)
        PROVE  CC!Next
    <3>1. phase[q] = "new" /\ phase' = [phase EXCEPT ![q] = "open"]
      <4>1. pc \in [Requests -> Pcs] /\ pc[q] = "idle" /\ pc' = [pc EXCEPT ![q] = "describing"]
        BY <2>1 DEF IInv, TypeOK, Start, Goto
      <4> QED BY <4>1, Phases DEF phase
    <3>2. written' = written /\ results' = results  BY <2>1, WrittenStays DEF Start
    <3>3. outcome' = outcome
      <4>1. \A r \in Requests, x \in {"COMPLETED", "FAILED"} : Logged(r, x)' <=> Logged(r, x)
        BY <2>1 DEF Start, log_operation, Logged
      <4> QED BY <4>1 DEF outcome
    <3>4. CC!Open(q)  BY <3>1, <3>2, <3>3 DEF CC!Open, CC!Move
    <3> QED BY <3>4 DEF CC!Next
  <2>2. CASE UNCHANGED vars
    <3>1. phase' = phase /\ results' = results  BY <2>2 DEF vars, phase
    <3> QED BY <2>2, <3>1, WrittenStays, OutcomeStays DEF vars
  <2> QED BY <2>1, <2>2, StepMaps DEF Next, Arrive
<1> QED BY <1>1, InitMaps, Invariance, ClosingIsLast, PTL
       DEF Spec, ImplementsChangeControl, CC!Spec
=============================================================================
