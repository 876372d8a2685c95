-------------------------- MODULE VersionHistoryProofs --------------------------
(***************************************************************************)
(* What VersionHistory promises, for any writers, readers, change ids and  *)
(* versions.  HistoryInv is inductive: a writer is judged by the rows it   *)
(* leaves (RowsKnown) and by itself (Known), a view by itself (Sound); a   *)
(* step of a writer reaches the views only through Observe.                *)
(***************************************************************************)
EXTENDS VersionHistory, Extremes, TLAPS

\* WritersKnown, of one writer
Known(w) ==
    /\ pc[w] \in {"idle", "planning", "registering", "describing"} => ~op[w].new
    /\ pc[w] \in {"planning", "registering", "reading", "describing", "recording"} =>
         <<op[w].cid, w>> \in audit
    /\ op[w].new => op[w].made \in 1..top /\ maker[op[w].made] = w
    /\ pc[w] = "recording" => op[w].version \in 1..top

\* ViewsSound, of one view
Sound(r) ==
    /\ stayed[r] \subseteq sr
    /\ view[r].kind \in Kinds \/ (at[r] = "idle" /\ view[r] = NoView)
    /\ at[r] # "idle" => view[r].kind \in Kinds /\ Latest(sr) \in tops[r]
    /\ at[r] = "describing" => view[r].kind = "latest"
    /\ at[r] \in {"describing", "checking", "listing"} => view[r].got = {} /\ view[r].unread = {}
    /\ view[r].kind = "latest" /\ at[r] \in {"checking", "listing"} \cup Reading =>
         view[r].want # {} /\ view[r].want \subseteq tops[r]
    /\ at[r] \in Reading =>
         IF view[r].kind \in {"exact", "latest"}
         THEN view[r].got \cup view[r].todo = view[r].want
         ELSE stayed[r] \subseteq view[r].got \cup view[r].unread \cup view[r].todo
    /\ view[r].kind # "history" => view[r].unread = {}
    /\ at[r] = "answered" \/ (at[r] = "loading" /\ view[r].kind # "history") => view[r].todo = {}

LEMMA Parts == (WritersKnown <=> \A w \in Writers : Known(w)) /\ (ViewsSound <=> \A r \in Readers : Sound(r))
BY DEF WritersKnown, Known, ViewsSound, Sound

LEMMA PrimedParts ==
    /\ (\A w \in Writers : Known(w)') => WritersKnown'
    /\ (\A r \in Readers : Sound(r)') => ViewsSound'
BY DEF WritersKnown, Known, ViewsSound, Sound

\* The steps of a writer and of a reader.
Writes(w) ==
    \/ Begins(w) \/ save_plan(w) \/ register_schema(w) \/ read_version(w)
    \/ record_artifact(w) \/ rollback(w) \/ delete_version(w)
    \/ delete_artifacts_newer_than(w) \/ fails(w)
Reads(r) ==
    \/ execute_latest(r) \/ _ensure_subject_exists(r)
    \/ get_schema_versions(r) \/ gathered(r) \/ _load_context(r) \/ view_fails(r)
    \/ \E v \in Versions : get_schema_by_version(r, v) \/ version_unread(r, v)

LEMMA Steps ==
    ASSUME Next
    PROVE  \/ \E w \in Writers : Writes(w)
           \/ \E r \in Readers : open_view(r) \/ Reads(r)
BY DEF Next, Writes, Reads

-------------------------------------------------------------------------------
(* Versions *)

LEMMA LatestIs ==
    ASSUME NEW n \in Nat, NEW S \in SUBSET (1..n)
    PROVE  Latest(S) \in 0..n /\ (S # {} => Latest(S) \in S)
<1>1. CASE S = {}  BY <1>1 DEF Latest
<1>2. CASE S # {}
  <2>1. Latest(S) \in S  BY <1>2, MaxIsGreatest DEF Latest
  <2>2. \A v \in S : v \in 0..n  OBVIOUS
  <2> QED BY <1>2, <2>1, <2>2
<1> QED BY <1>1, <1>2

LEMMA Numbers ==
    ASSUME TypeOK
    PROVE  /\ MaxVersion \in Nat /\ top \in Nat /\ top <= MaxVersion
           /\ sr \subseteq Versions /\ Latest(sr) \in 0..MaxVersion
           /\ (sr # {} => Latest(sr) \in sr /\ Latest(sr) \in 1..top)
           /\ \A v \in 1..top : v \in Versions
<1>1. MaxVersion \in Nat  BY HistoryAssumption
<1>2. top \in 0..MaxVersion /\ sr \in SUBSET (1..top)  BY DEF TypeOK
<1>3. top \in Nat /\ top <= MaxVersion  BY <1>1, <1>2
<1>4. \A v \in 1..top : v \in 1..MaxVersion  BY <1>1, <1>3
<1>5. Latest(sr) \in 0..top /\ (sr # {} => Latest(sr) \in sr)  BY <1>2, <1>3, LatestIs
<1>6. \A v \in 0..top : v \in 0..MaxVersion  BY <1>1, <1>3
<1> QED BY <1>1, <1>2, <1>3, <1>4, <1>5, <1>6 DEF Versions

\* The registry as the readers under way see it change.
LEMMA Observed ==
    ASSUME TypeOK, TypeOK', NEW live, Observe(live), UNCHANGED readers,
           NEW r \in Readers, Sound(r)
    PROVE  Sound(r)'
<1>1. at'[r] = at[r] /\ view'[r] = view[r]  BY DEF readers
<1>2. sr' = live /\ stayed'[r] = stayed[r] \cap live
      /\ tops'[r] = IF view[r].kind = "none" THEN {} ELSE tops[r] \cup {Latest(live)}
  BY DEF Observe
<1>3. view[r].kind \in Kinds => tops'[r] = tops[r] \cup {Latest(live)}  BY <1>2 DEF Kinds
<1>4. Latest(sr') = Latest(live)  BY <1>2
<1>5. Latest(sr)' = Latest(sr')  BY DEF Latest
<1>6. stayed'[r] \subseteq sr' /\ stayed'[r] \subseteq stayed[r]  BY <1>2
<1>7. view[r].kind = "latest" => view[r].kind \in Kinds  BY DEF Kinds
<1> QED BY <1>1, <1>3, <1>4, <1>5, <1>6, <1>7 DEF Sound, Reading, Kinds, NoView

-------------------------------------------------------------------------------
(* The steps of a writer. *)

Ops == [cid : Ids \cup {None}, made : 0..MaxVersion, new : BOOLEAN,
        version : 0..MaxVersion, todo : SUBSET Versions]
Labels == {"idle", "planning", "registering", "reading", "describing",
           "recording", "stepping", "trimming", "done"}

LEMMA BeginsIs ==
    ASSUME NEW w \in Writers, Begins(w)
    PROVE  \E c \in Ids, label \in {"planning", "registering", "describing"} :
             log_started(w, label, c)
BY DEF Begins, Ids

LEMMA Moves ==
    ASSUME TypeOK, NEW w \in Writers, NEW from, NEW to \in Labels, Step(w, from, to)
    PROVE  /\ pc' \in [Writers -> Labels] /\ pc[w] = from /\ pc'[w] = to
           /\ \A u \in Writers \ {w} : pc'[u] = pc[u]
BY DEF TypeOK, Step, Labels

\* What a registration that creates a version leaves.
Created(w) ==
    /\ top < MaxVersion /\ top' = top + 1 /\ Observe(sr \cup {top + 1})
    /\ maker' = [maker EXCEPT ![top + 1] = w]
    /\ op' = [op EXCEPT ![w].made = top + 1, ![w].new = TRUE]
Held(w) == \E v \in sr : op' = [op EXCEPT ![w].made = v] /\ UNCHANGED registry

LEMMA RegisterIs ==
    ASSUME NEW w \in Writers, register_schema(w)
    PROVE  /\ Step(w, "registering", "reading") /\ UNCHANGED <<database, readers>>
           /\ Created(w) \/ Held(w)
BY DEF register_schema, Created, Held

\* The registry's view of the readers under way, typed.
LEMMA ObserveTyped ==
    ASSUME TypeOK, NEW live \in SUBSET Versions, Observe(live)
    PROVE  stayed' \in [Readers -> SUBSET Versions] /\ tops' \in [Readers -> SUBSET (0..MaxVersion)]
<1>1. MaxVersion \in Nat  BY HistoryAssumption
<1>2. Latest(live) \in 0..MaxVersion  BY <1>1, LatestIs DEF Versions
<1>3. \A r \in Readers : stayed[r] \cap live \in SUBSET Versions  BY DEF TypeOK
<1>4. \A r \in Readers : tops[r] \cup {Latest(live)} \in SUBSET (0..MaxVersion)
  BY <1>2 DEF TypeOK
<1>5. \A r \in Readers :
        (IF view[r].kind = "none" THEN {} ELSE tops[r] \cup {Latest(live)}) \in SUBSET (0..MaxVersion)
  BY <1>4
<1> QED BY <1>3, <1>5 DEF Observe

LEMMA CreatedTyped ==
    ASSUME TypeOK, NEW w \in Writers, Created(w)
    PROVE  /\ top' \in 0..MaxVersion /\ sr' \subseteq 1..top' /\ op' \in [Writers -> Ops]
           /\ maker' \in [Versions -> Writers \cup {System}]
           /\ stayed' \in [Readers -> SUBSET Versions] /\ tops' \in [Readers -> SUBSET (0..MaxVersion)]
<1>1. MaxVersion \in Nat /\ top \in Nat /\ top < MaxVersion /\ sr \subseteq 1..top
  BY Numbers DEF Created, TypeOK
<1>2. top + 1 \in 1..MaxVersion /\ top' = top + 1 /\ sr' = sr \cup {top + 1}
  BY <1>1 DEF Created, Observe
<1>3. \A v \in 1..top : v \in 1..(top + 1)  BY <1>1
<1>4. top' \in 0..MaxVersion /\ sr' \subseteq 1..top'  BY <1>1, <1>2, <1>3
<1>5. sr \cup {top + 1} \in SUBSET Versions  BY <1>2, Numbers DEF Versions
<1>6. op' \in [Writers -> Ops]
  <2>1. top + 1 \in 0..MaxVersion /\ op \in [Writers -> Ops]  BY <1>1 DEF TypeOK, Ops
  <2> QED BY <2>1 DEF Created, Ops
<1>7. maker' \in [Versions -> Writers \cup {System}]  BY DEF Created, TypeOK
<1> QED BY <1>4, <1>5, <1>6, <1>7, ObserveTyped DEF Created

LEMMA WriterTyped ==
    ASSUME TypeOK, NEW w \in Writers, Known(w), Writes(w)
    PROVE  TypeOK'
<1> USE DEF registry, database, readers
<1>0. op \in [Writers -> Ops] /\ pc \in [Writers -> Labels]  BY DEF TypeOK, Ops, Labels
<1>1. CASE Begins(w)
  <2>1. PICK c \in Ids, label \in {"planning", "registering", "describing"} :
          log_started(w, label, c)
    BY <1>1, BeginsIs
  <2>2. pc' \in [Writers -> Labels]  BY <2>1, Moves DEF log_started, Labels
  <2>3. op' \in [Writers -> Ops]  BY <1>0, <2>1 DEF log_started, Ops
  <2>4. audit' \subseteq Ids \X Writers  BY <2>1 DEF log_started, TypeOK
  <2> QED BY <2>1, <2>2, <2>3, <2>4 DEF log_started, TypeOK, Ops, Labels
<1>2. CASE save_plan(w)
  <2>1. pc' \in [Writers -> Labels]  BY <1>2, Moves DEF save_plan, Labels
  <2>2. plans' \in [Ids -> Writers \cup {None}]  BY <1>2 DEF save_plan, TypeOK
  <2> QED BY <1>2, <2>1, <2>2 DEF save_plan, TypeOK, Labels
<1>3. CASE register_schema(w)
  <2>1. Step(w, "registering", "reading") /\ UNCHANGED <<database, readers>>
        /\ (Created(w) \/ Held(w))
    BY <1>3, RegisterIs
  <2>2. pc' \in [Writers -> Labels]  BY <2>1, Moves DEF Labels
  <2>3. CASE Created(w)
    <3>1. /\ top' \in 0..MaxVersion /\ sr' \subseteq 1..top' /\ op' \in [Writers -> Ops]
          /\ maker' \in [Versions -> Writers \cup {System}]
          /\ stayed' \in [Readers -> SUBSET Versions] /\ tops' \in [Readers -> SUBSET (0..MaxVersion)]
      BY <2>3, CreatedTyped
    <3> QED BY <2>1, <2>2, <3>1 DEF TypeOK, Ops, Labels
  <2>4. CASE Held(w)
    <3>1. PICK v \in sr : op' = [op EXCEPT ![w].made = v] /\ UNCHANGED registry
      BY <2>4 DEF Held
    <3>2. v \in 0..MaxVersion  BY Numbers DEF Versions
    <3>3. op' \in [Writers -> Ops]  BY <1>0, <3>1, <3>2 DEF Ops
    <3> QED BY <2>1, <2>2, <3>1, <3>3 DEF TypeOK, Ops, Labels
  <2> QED BY <2>1, <2>3, <2>4
<1>4. CASE read_version(w)
  <2>1. pc' \in [Writers -> Labels]  BY <1>4, Moves DEF read_version, Labels
  <2>2. op' \in [Writers -> Ops]  BY <1>0, <1>4, Numbers DEF read_version, Ops
  <2> QED BY <1>4, <2>1, <2>2 DEF read_version, TypeOK, Ops, Labels
<1>5. CASE record_artifact(w)
  <2>1. pc' \in [Writers -> Labels] /\ pc[w] = "recording"
    BY <1>5, Moves DEF record_artifact, Labels
  <2>2. op[w].version \in Versions  BY <2>1, Numbers DEF Known
  <2>3. op[w].cid \in Ids \cup {None}  BY <1>0 DEF Ops
  <2>4. artifacts' \in [Versions -> Ids \cup {None}]
    BY <1>5, <2>3 DEF record_artifact, Record, TypeOK
  <2>5. borrowed' \subseteq Versions
    BY <1>5, <2>2 DEF record_artifact, Record, TypeOK
  <2> QED BY <1>5, <2>1, <2>4, <2>5 DEF record_artifact, TypeOK, Labels
<1>6. CASE rollback(w)
  <2>1. PICK v \in sr :
          /\ Step(w, "idle", IF {u \in sr : u > v} = {} THEN "done" ELSE "stepping")
          /\ op' = [op EXCEPT ![w].version = v, ![w].todo = {u \in sr : u > v}]
    BY <1>6 DEF rollback
  <2>2. pc' \in [Writers -> Labels]
    <3>1. (IF {u \in sr : u > v} = {} THEN "done" ELSE "stepping") \in Labels  BY DEF Labels
    <3> QED BY <2>1, <3>1, Moves
  <2>3. v \in 0..MaxVersion /\ {u \in sr : u > v} \in SUBSET Versions  BY Numbers DEF Versions
  <2>4. op' \in [Writers -> Ops]  BY <1>0, <2>1, <2>3 DEF Ops
  <2> QED BY <1>6, <2>2, <2>4 DEF rollback, TypeOK, Ops, Labels
<1>7. CASE delete_version(w)
  <2> DEFINE v == Max(op[w].todo)
  <2>1. /\ Step(w, "stepping", IF op[w].todo = {v} THEN "trimming" ELSE "stepping")
        /\ Observe(sr \ {v}) /\ op' = [op EXCEPT ![w].todo = @ \ {v}]
        /\ UNCHANGED <<top, maker, database, readers>>
    BY <1>7 DEF delete_version
  <2> HIDE DEF v
  <2>2. (IF op[w].todo = {v} THEN "trimming" ELSE "stepping") \in Labels  BY DEF Labels
  <2>3. pc' \in [Writers -> Labels]  BY <2>1, <2>2, Moves
  <2>4. op' \in [Writers -> Ops]
    <3>1. op[w].todo \ {v} \in SUBSET Versions  BY <1>0 DEF Ops
    <3> QED BY <1>0, <2>1, <3>1 DEF Ops
  <2>5. sr \ {v} \in SUBSET Versions /\ sr' = sr \ {v}  BY <2>1, Numbers DEF Observe
  <2>6. stayed' \in [Readers -> SUBSET Versions] /\ tops' \in [Readers -> SUBSET (0..MaxVersion)]
    BY <2>1, <2>5, ObserveTyped
  <2> QED BY <2>1, <2>3, <2>4, <2>5, <2>6 DEF TypeOK, Ops, Labels
<1>8. CASE delete_artifacts_newer_than(w)
  <2>1. pc' \in [Writers -> Labels]  BY <1>8, Moves DEF delete_artifacts_newer_than, Labels
  <2>2. artifacts' \in [Versions -> Ids \cup {None}]
    BY <1>8 DEF delete_artifacts_newer_than, TypeOK
  <2> QED BY <1>8, <2>1, <2>2 DEF delete_artifacts_newer_than, TypeOK, Labels
<1>9. CASE fails(w)
  <2>1. pc' \in [Writers -> Labels]  BY <1>9, Moves DEF fails, Labels
  <2> QED BY <1>9, <2>1 DEF fails, TypeOK, Labels
<1> QED BY <1>1, <1>2, <1>3, <1>4, <1>5, <1>6, <1>7, <1>8, <1>9 DEF Writes

\* A step of a writer leaves the audit rows, and the makers of the versions that
\* have been given out; only the writer's own operation changes.
LEMMA WriterFrame ==
    ASSUME TypeOK, NEW w \in Writers, Writes(w)
    PROVE  /\ audit \subseteq audit' /\ top <= top' /\ UNCHANGED readers
           /\ \A v \in 1..top : v \in 1..top' /\ maker'[v] = maker[v]
           /\ \A u \in Writers \ {w} : pc'[u] = pc[u] /\ op'[u] = op[u]
           /\ UNCHANGED <<sr, stayed, tops>> \/ \E live : Observe(live)
<1> USE DEF registry, database, readers
<1>0. top \in Nat /\ MaxVersion \in Nat /\ top <= top  BY Numbers
<1>1. CASE register_schema(w)
  <2>1. Step(w, "registering", "reading") /\ UNCHANGED <<database, readers>>
        /\ (Created(w) \/ Held(w))
    BY <1>1, RegisterIs
  <2>2. CASE Created(w)
    <3>1. top' = top + 1 /\ maker' = [maker EXCEPT ![top + 1] = w]
          /\ Observe(sr \cup {top + 1})
      BY <2>2 DEF Created
    <3>2. \A v \in 1..top : v # top + 1 /\ v \in 1..(top + 1) /\ v \in Versions
      BY <1>0, Numbers
    <3>3. \A v \in 1..top : maker'[v] = maker[v]  BY <3>1, <3>2 DEF TypeOK
    <3>4. \A u \in Writers \ {w} : op'[u] = op[u]  BY <2>2 DEF Created, TypeOK
    <3>5. top <= top'  BY <1>0, <3>1
    <3> QED BY <2>1, <3>1, <3>2, <3>3, <3>4, <3>5 DEF Step, TypeOK
  <2>3. CASE Held(w)
    <3>1. \A u \in Writers \ {w} : op'[u] = op[u]  BY <2>3 DEF Held, TypeOK
    <3> QED BY <1>0, <2>1, <2>3, <3>1 DEF Held, Step, TypeOK
  <2> QED BY <2>1, <2>2, <2>3
<1>2. CASE delete_version(w)
  <2>1. \A u \in Writers \ {w} : op'[u] = op[u] /\ pc'[u] = pc[u]
    BY <1>2 DEF delete_version, Step, TypeOK
  <2> QED BY <1>0, <1>2, <2>1 DEF delete_version
<1>3. CASE Begins(w)
  <2>1. PICK c \in Ids, label \in {"planning", "registering", "describing"} :
          log_started(w, label, c)
    BY <1>3, BeginsIs
  <2> QED BY <1>0, <2>1 DEF log_started, Step, TypeOK
<1>4. CASE save_plan(w)  BY <1>0, <1>4 DEF save_plan, Step, TypeOK
<1>5. CASE read_version(w)  BY <1>0, <1>5 DEF read_version, Step, TypeOK
<1>6. CASE record_artifact(w)  BY <1>0, <1>6 DEF record_artifact, Step, TypeOK
<1>7. CASE rollback(w)
  <2>1. \A u \in Writers \ {w} : op'[u] = op[u] /\ pc'[u] = pc[u]
    BY <1>7 DEF rollback, Step, TypeOK
  <2> QED BY <1>0, <1>7, <2>1 DEF rollback
<1>8. CASE delete_artifacts_newer_than(w)
  BY <1>0, <1>8 DEF delete_artifacts_newer_than, Step, TypeOK
<1>9. CASE fails(w)  BY <1>0, <1>9 DEF fails, Step, TypeOK
<1> QED BY <1>1, <1>2, <1>3, <1>4, <1>5, <1>6, <1>7, <1>8, <1>9 DEF Writes

LEMMA OthersKnown ==
    ASSUME TypeOK, NEW w \in Writers, Writes(w), NEW u \in Writers \ {w}, Known(u)
    PROVE  Known(u)'
<1>1. pc'[u] = pc[u] /\ op'[u] = op[u]  BY WriterFrame
<1>2. audit \subseteq audit'  BY WriterFrame
<1>3. \A v \in 1..top : v \in 1..top' /\ maker'[v] = maker[v]  BY WriterFrame
<1> QED BY <1>1, <1>2, <1>3 DEF Known

LEMMA WriterKnown ==
    ASSUME TypeOK, NEW w \in Writers, Known(w), Writes(w)
    PROVE  Known(w)'
<1> USE DEF registry, database, readers
<1>0. /\ op \in [Writers -> Ops] /\ pc \in [Writers -> Labels]
      /\ audit \subseteq audit' /\ \A v \in 1..top : v \in 1..top' /\ maker'[v] = maker[v]
  BY WriterFrame DEF TypeOK, Ops, Labels
<1>1. CASE Begins(w)
  <2>1. PICK c \in Ids, label \in {"planning", "registering", "describing"} :
          log_started(w, label, c)
    BY <1>1, BeginsIs
  <2>2. pc[w] = "idle" /\ pc'[w] = label  BY <2>1, Moves DEF log_started, Labels
  <2>3. op'[w].cid = c /\ op'[w].new = op[w].new /\ <<c, w>> \in audit'
    BY <1>0, <2>1 DEF log_started, Ops
  <2>4. ~op[w].new  BY <2>2 DEF Known
  <2> QED BY <2>2, <2>3, <2>4 DEF Known
<1>2. CASE save_plan(w)
  <2>1. pc[w] = "planning" /\ pc'[w] = "registering" /\ UNCHANGED <<op, audit>>
    BY <1>2, Moves DEF save_plan, Labels
  <2> QED BY <2>1 DEF Known
<1>3. CASE register_schema(w)
  <2>1. Step(w, "registering", "reading") /\ UNCHANGED audit /\ (Created(w) \/ Held(w))
    BY <1>3, RegisterIs
  <2>2. pc[w] = "registering" /\ pc'[w] = "reading"  BY <2>1, Moves DEF Labels
  <2>3. CASE Created(w)
    <3>1. top' = top + 1 /\ maker' = [maker EXCEPT ![top + 1] = w]
          /\ op' = [op EXCEPT ![w].made = top + 1, ![w].new = TRUE] /\ top < MaxVersion
      BY <2>3 DEF Created
    <3>2. op'[w].cid = op[w].cid /\ op'[w].made = top + 1  BY <1>0, <3>1 DEF Ops
    <3>3. top \in Nat /\ MaxVersion \in Nat  BY Numbers
    <3>4. top + 1 \in 1..top' /\ top + 1 \in Versions  BY <3>1, <3>3 DEF Versions
    <3>5. maker'[top + 1] = w  BY <3>1, <3>4 DEF TypeOK
    <3> QED BY <2>1, <2>2, <3>2, <3>4, <3>5 DEF Known
  <2>4. CASE Held(w)
    <3>1. op'[w].cid = op[w].cid /\ op'[w].new = op[w].new
      BY <1>0, <2>4 DEF Held, Ops
    <3>2. ~op[w].new  BY <2>2 DEF Known
    <3> QED BY <2>1, <2>2, <3>1, <3>2 DEF Known
  <2> QED BY <2>1, <2>3, <2>4
<1>4. CASE read_version(w)
  <2>1. /\ pc[w] \in {"reading", "describing"} /\ pc'[w] = "recording"
        /\ op' = [op EXCEPT ![w].version = Latest(sr)] /\ sr # {} /\ UNCHANGED <<top, maker, audit>>
    BY <1>4, Moves DEF read_version, Labels
  <2>2. Latest(sr) \in 1..top  BY <2>1, Numbers
  <2>3. op'[w].cid = op[w].cid /\ op'[w].new = op[w].new /\ op'[w].made = op[w].made
        /\ op'[w].version = Latest(sr)
    BY <1>0, <2>1 DEF Ops
  <2> QED BY <2>1, <2>2, <2>3 DEF Known
<1>5. CASE record_artifact(w)
  <2>1. pc'[w] = "done" /\ UNCHANGED <<op, audit>>
    BY <1>5, Moves DEF record_artifact, Labels
  <2> QED BY <1>0, <2>1 DEF Known
<1>6. CASE rollback(w)
  <2>1. PICK v \in sr :
          /\ Step(w, "idle", IF {u \in sr : u > v} = {} THEN "done" ELSE "stepping")
          /\ op' = [op EXCEPT ![w].version = v, ![w].todo = {u \in sr : u > v}]
    BY <1>6 DEF rollback
  <2>2. (IF {u \in sr : u > v} = {} THEN "done" ELSE "stepping") \in {"done", "stepping"}
    OBVIOUS
  <2>3. pc[w] = "idle" /\ pc'[w] \in {"done", "stepping"}
    BY <2>1, <2>2 DEF Step, TypeOK
  <2>4. op'[w].new = op[w].new  BY <1>0, <2>1 DEF Ops
  <2>5. ~op[w].new  BY <2>3 DEF Known
  <2> QED BY <2>3, <2>4, <2>5 DEF Known
<1>7. CASE delete_version(w)
  <2> DEFINE v == Max(op[w].todo)
  <2>1. /\ Step(w, "stepping", IF op[w].todo = {v} THEN "trimming" ELSE "stepping")
        /\ op' = [op EXCEPT ![w].todo = @ \ {v}]
    BY <1>7 DEF delete_version
  <2> HIDE DEF v
  <2>2. pc'[w] \in {"trimming", "stepping"}  BY <2>1 DEF Step, TypeOK
  <2>3. op'[w].new = op[w].new /\ op'[w].made = op[w].made  BY <1>0, <2>1 DEF Ops
  <2> QED BY <1>0, <2>2, <2>3 DEF Known
<1>8. CASE delete_artifacts_newer_than(w)
  <2>1. pc'[w] = "done" /\ UNCHANGED op
    BY <1>8, Moves DEF delete_artifacts_newer_than, Labels
  <2> QED BY <1>0, <2>1 DEF Known
<1>9. CASE fails(w)
  <2>1. pc'[w] = "done" /\ UNCHANGED op  BY <1>9, Moves DEF fails, Labels
  <2> QED BY <1>0, <2>1 DEF Known
<1> QED BY <1>1, <1>2, <1>3, <1>4, <1>5, <1>6, <1>7, <1>8, <1>9 DEF Writes

\* A version that is not among those given out has no row when it is created.
LEMMA WriterRows ==
    ASSUME TypeOK, RowsKnown, NEW w \in Writers, Known(w), Writes(w)
    PROVE  RowsKnown'
<1> USE DEF registry, database, readers
<1>0. /\ top \in Nat /\ MaxVersion \in Nat /\ None \notin ChangeIds
      /\ audit \subseteq audit' /\ top <= top' /\ op \in [Writers -> Ops]
      /\ \A v \in 1..top : maker'[v] = maker[v]
  BY WriterFrame, Numbers, HistoryAssumption DEF TypeOK, Ops
<1>1. ASSUME UNCHANGED <<artifacts, borrowed, plans>>, top' \in Nat PROVE RowsKnown'
  <2>1. \A v \in Versions : v \in 1..top \/ v > top  BY <1>0 DEF Versions
  <2>2. \A v \in Versions : artifacts[v] \in ChangeIds => v \in 1..top
    BY <1>0, <2>1 DEF RowsKnown
  <2>3. \A v \in Versions : v > top' => v > top  BY <1>0, <1>1 DEF Versions
  <2> QED BY <1>0, <1>1, <2>2, <2>3 DEF RowsKnown
<1>2. ASSUME UNCHANGED <<top, maker, audit, plans, artifacts, borrowed>> PROVE RowsKnown'
  BY <1>2 DEF RowsKnown
<1>3. CASE register_schema(w)
  <2>1. UNCHANGED <<artifacts, borrowed, plans>> /\ (Created(w) \/ Held(w))
    BY <1>3, RegisterIs
  <2>2. top' \in Nat  BY <1>0, <2>1 DEF Created, Held
  <2> QED BY <1>1, <2>1, <2>2
<1>4. CASE Begins(w)
  <2>1. PICK c \in Ids, label \in {"planning", "registering", "describing"} :
          log_started(w, label, c)
    BY <1>4, BeginsIs
  <2> QED BY <1>0, <1>1, <2>1 DEF log_started
<1>5. CASE save_plan(w)
  <2>1. pc[w] = "planning" /\ plans' = [plans EXCEPT ![op[w].cid] = w]
        /\ UNCHANGED <<top, maker, artifacts, audit, borrowed>>
    BY <1>5, Moves DEF save_plan, Labels
  <2>2. <<op[w].cid, w>> \in audit  BY <2>1 DEF Known
  <2>3. \A c \in Ids : plans'[c] = plans[c] \/ (c = op[w].cid /\ plans'[c] = w)
    BY <2>1 DEF TypeOK
  <2>4. \A c \in Ids : plans'[c] # None => <<c, plans'[c]>> \in audit
    BY <2>2, <2>3 DEF RowsKnown
  <2> QED BY <2>1, <2>4 DEF RowsKnown
<1>6. CASE record_artifact(w)
  <2> DEFINE n == op[w].version
  <2>1. /\ pc[w] = "recording" /\ Record(w, n)
        /\ UNCHANGED <<top, maker, audit, plans, op>>
    BY <1>6, Moves DEF record_artifact, Labels
  <2>2. n \in 1..top /\ n \in Versions  BY <2>1, Numbers DEF Known
  <2>3. artifacts' = [artifacts EXCEPT ![n] = op[w].cid]
        /\ borrowed' = IF op[w].new /\ op[w].made = n THEN borrowed \ {n} ELSE borrowed \cup {n}
    BY <2>1 DEF Record
  <2> HIDE DEF n
  <2>4. ASSUME NEW v \in Versions, artifacts'[v] \in ChangeIds, v \notin borrowed'
        PROVE  <<artifacts'[v], maker[v]>> \in audit
    <3>1. CASE v = n
      <4>1. op[w].new /\ op[w].made = n  BY <2>3, <2>4, <3>1
      <4>2. maker[n] = w /\ <<op[w].cid, w>> \in audit  BY <2>1, <4>1 DEF Known
      <4>3. artifacts'[v] = op[w].cid  BY <2>2, <2>3, <3>1 DEF TypeOK
      <4> QED BY <3>1, <4>2, <4>3
    <3>2. CASE v # n
      <4>1. artifacts'[v] = artifacts[v] /\ v \notin borrowed  BY <2>3, <2>4, <3>2 DEF TypeOK
      <4> QED BY <2>4, <4>1 DEF RowsKnown
    <3> QED BY <3>1, <3>2
  <2>5. ASSUME NEW v \in Versions, v > top PROVE artifacts'[v] = None
    <3>1. v # n  BY <1>0, <2>2, <2>5
    <3>2. artifacts'[v] = artifacts[v]  BY <2>3, <3>1 DEF TypeOK
    <3> QED BY <2>5, <3>2 DEF RowsKnown
  <2> QED BY <2>1, <2>4, <2>5 DEF RowsKnown
<1>7. CASE delete_artifacts_newer_than(w)
  <2>1. artifacts' = [v \in Versions |-> IF v > op[w].version THEN None ELSE artifacts[v]]
        /\ UNCHANGED <<top, maker, audit, plans, borrowed>>
    BY <1>7 DEF delete_artifacts_newer_than
  <2>2. \A v \in Versions : artifacts'[v] = None \/ artifacts'[v] = artifacts[v]  BY <2>1
  <2> QED BY <1>0, <2>1, <2>2 DEF RowsKnown
<1>8. CASE read_version(w)  BY <1>2, <1>8 DEF read_version
<1>9. CASE rollback(w)  BY <1>2, <1>9 DEF rollback
<1>10. CASE delete_version(w)  BY <1>2, <1>10 DEF delete_version
<1>11. CASE fails(w)  BY <1>2, <1>11 DEF fails
<1> QED BY <1>3, <1>4, <1>5, <1>6, <1>7, <1>8, <1>9, <1>10, <1>11 DEF Writes

LEMMA WriterViews ==
    ASSUME TypeOK, TypeOK', NEW w \in Writers, Writes(w), NEW r \in Readers, Sound(r)
    PROVE  Sound(r)'
<1>1. CASE \E live : Observe(live)
  <2>1. PICK live : Observe(live)  BY <1>1
  <2> QED BY <2>1, Observed, WriterFrame
<1>2. CASE UNCHANGED <<sr, stayed, tops>>
  <2>1. UNCHANGED <<sr, stayed, tops, at, view>>  BY <1>2, WriterFrame DEF readers
  <2> QED BY <2>1 DEF Sound, Latest
<1> QED BY <1>1, <1>2, WriterFrame

-------------------------------------------------------------------------------
(* The steps of a reader. *)

ViewSet == [kind : Kinds \cup {"none"}, want : SUBSET Versions,
            todo : SUBSET Versions, got : SUBSET Versions, unread : SUBSET Versions]
Stages  == {"idle", "describing", "checking", "listing", "fetching", "loading",
            "answered", "error"}

\* A reader's step leaves everything that is not its own.
LEMMA ReaderFrame ==
    ASSUME NEW r \in Readers, Reads(r)
    PROVE  UNCHANGED <<sr, top, maker, stayed, tops, artifacts, audit, plans, borrowed, pc, op>>
BY DEF Reads, execute_latest, _ensure_subject_exists, get_schema_versions, gathered,
       _load_context, view_fails, get_schema_by_version, version_unread, writers, database, registry

LEMMA OpenFrame ==
    ASSUME NEW r \in Readers, open_view(r)
    PROVE  UNCHANGED <<sr, top, maker, artifacts, audit, plans, borrowed, pc, op>>
BY DEF open_view, database

\* What opening a view of a kind, for the versions wanted, leaves.
Opened(r, kind, want) ==
    /\ view' = [view EXCEPT ![r] = Fresh(kind, want)]
    /\ at' = [at EXCEPT ![r] = First(kind)]
    /\ stayed' = [stayed EXCEPT ![r] = sr] /\ tops' = [tops EXCEPT ![r] = {Latest(sr)}]

LEMMA WantedIs ==
    ASSUME NEW kind \in Kinds, NEW want \in Wanted(kind)
    PROVE  want \in SUBSET Versions /\ (kind = "exact" <=> want # {})
<1>1. CASE kind = "exact"
  <2>1. PICK v \in Versions, u \in Versions : want = {v, u}  BY <1>1 DEF Wanted
  <2> QED BY <1>1, <2>1
<1>2. CASE kind # "exact"  BY <1>2 DEF Wanted
<1> QED BY <1>1, <1>2

LEMMA OpenIs ==
    ASSUME NEW r \in Readers, open_view(r)
    PROVE  \E kind \in Kinds, want \in SUBSET Versions :
             (kind = "exact" <=> want # {}) /\ Opened(r, kind, want)
<1>1. PICK kind \in Kinds : \E want \in Wanted(kind) :
        /\ view' = [view EXCEPT ![r] = Fresh(kind, want)]
        /\ at' = [at EXCEPT ![r] = First(kind)]
  BY DEF open_view
<1>2. PICK want \in Wanted(kind) :
        /\ view' = [view EXCEPT ![r] = Fresh(kind, want)]
        /\ at' = [at EXCEPT ![r] = First(kind)]
  BY <1>1
<1>3. want \in SUBSET Versions /\ (kind = "exact" <=> want # {})  BY WantedIs
<1>4. Opened(r, kind, want)  BY <1>2 DEF open_view, Opened
<1> QED BY <1>3, <1>4

LEMMA FreshIs ==
    ASSUME NEW kind \in Kinds, NEW want \in SUBSET Versions
    PROVE  /\ Fresh(kind, want) \in ViewSet
           /\ Fresh(kind, want).kind = kind /\ Fresh(kind, want).want = want
           /\ Fresh(kind, want).todo = {} /\ Fresh(kind, want).got = {}
           /\ Fresh(kind, want).unread = {}
BY DEF Fresh, NoView, ViewSet

LEMMA OpenTyped ==
    ASSUME TypeOK, NEW r \in Readers, open_view(r)
    PROVE  TypeOK'
<1>1. PICK kind \in Kinds, want \in SUBSET Versions : Opened(r, kind, want)  BY OpenIs
<1>2. view' \in [Readers -> ViewSet]  BY <1>1, FreshIs DEF Opened, TypeOK, ViewSet
<1>3. First(kind) \in Stages  BY DEF First, Stages
<1>4. at' \in [Readers -> Stages]  BY <1>1, <1>3 DEF Opened, TypeOK, Stages
<1>5. stayed' \in [Readers -> SUBSET Versions] /\ tops' \in [Readers -> SUBSET (0..MaxVersion)]
  BY <1>1, Numbers DEF Opened, TypeOK
<1> QED BY <1>2, <1>4, <1>5, OpenFrame DEF TypeOK, ViewSet, Stages

LEMMA OpenSound ==
    ASSUME TypeOK, NEW r \in Readers, open_view(r)
    PROVE  Sound(r)'
<1>1. PICK kind \in Kinds, want \in SUBSET Versions :
        (kind = "exact" <=> want # {}) /\ Opened(r, kind, want)
  BY OpenIs
<1>2. view'[r] = Fresh(kind, want) /\ at'[r] = First(kind)
      /\ stayed'[r] = sr /\ tops'[r] = {Latest(sr)}
  BY <1>1 DEF Opened, TypeOK
<1>3. /\ view'[r].kind = kind /\ view'[r].want = want
      /\ view'[r].todo = {} /\ view'[r].got = {} /\ view'[r].unread = {}
  BY <1>2, FreshIs
<1>4. sr' = sr  BY OpenFrame
<1>5. Latest(sr)' = Latest(sr)  BY <1>4 DEF Latest
<1>6. /\ First(kind) \in {"listing", "describing", "checking"}
      /\ First(kind) = "describing" => kind = "latest"
      /\ kind = "latest" => First(kind) = "describing"
  BY DEF First, Kinds
<1> QED BY <1>2, <1>3, <1>4, <1>5, <1>6 DEF Sound, Reading

\* What a step of a view leaves, if it leaves the view well typed.
LEMMA ReaderTyped ==
    ASSUME TypeOK, NEW r \in Readers, Reads(r)
    PROVE  TypeOK'
<1> SUFFICES at' \in [Readers -> Stages] /\ view' \in [Readers -> ViewSet]
  BY ReaderFrame DEF TypeOK, Stages, ViewSet
<1>0. at \in [Readers -> Stages] /\ view \in [Readers -> ViewSet] /\ view[r] \in ViewSet
  BY DEF TypeOK, Stages, ViewSet
<1>1. CASE execute_latest(r)
  <2>1. sr # {} /\ {Latest(sr)} \in SUBSET Versions  BY <1>1, Numbers DEF execute_latest
  <2>2. view' \in [Readers -> ViewSet]  BY <1>0, <1>1, <2>1 DEF execute_latest, ViewSet
  <2> QED BY <1>0, <1>1, <2>2 DEF execute_latest, Move, Stages
<1>2. CASE _ensure_subject_exists(r)  BY <1>0, <1>2 DEF _ensure_subject_exists, Move, Stages
<1>3. CASE get_schema_versions(r)
  <2> DEFINE all == IF view[r].kind \in {"history", "versions"} THEN sr ELSE view[r].want
  <2>1. all \in SUBSET Versions  BY <1>0, Numbers DEF ViewSet
  <2>2. view' = [view EXCEPT ![r].todo = all]  BY <1>3 DEF get_schema_versions
  <2>3. view' \in [Readers -> ViewSet]
    <3> HIDE DEF all
    <3> QED BY <1>0, <2>1, <2>2 DEF ViewSet
  <2>4. at' \in [Readers -> Stages]  BY <1>0, <1>3 DEF get_schema_versions, Move, Stages
  <2> QED BY <2>3, <2>4
<1>4. CASE gathered(r)  BY <1>0, <1>4 DEF gathered, Move, Stages
<1>5. CASE _load_context(r)  BY <1>0, <1>5 DEF _load_context, Move, Stages
<1>6. CASE view_fails(r)  BY <1>0, <1>6 DEF view_fails, Move, Stages
<1>7. ASSUME NEW v \in Versions, get_schema_by_version(r, v)
      PROVE  at' \in [Readers -> Stages] /\ view' \in [Readers -> ViewSet]
  <2>1. view' = [view EXCEPT ![r].todo = @ \ {v}, ![r].got = @ \cup {v}] /\ at' = at
    BY <1>7 DEF get_schema_by_version
  <2>2. view[r].todo \ {v} \in SUBSET Versions /\ view[r].got \cup {v} \in SUBSET Versions
    BY <1>0 DEF ViewSet
  <2> QED BY <1>0, <2>1, <2>2 DEF ViewSet
<1>8. ASSUME NEW v \in Versions, version_unread(r, v)
      PROVE  at' \in [Readers -> Stages] /\ view' \in [Readers -> ViewSet]
  <2>1. CASE view' = [view EXCEPT ![r].todo = @ \ {v}, ![r].unread = @ \cup {v}] /\ at' = at
    <3>1. view[r].todo \ {v} \in SUBSET Versions /\ view[r].unread \cup {v} \in SUBSET Versions
      BY <1>0 DEF ViewSet
    <3> QED BY <1>0, <2>1, <3>1 DEF ViewSet
  <2>2. CASE Move(r, "fetching", "error") /\ view' = view
    BY <1>0, <2>2 DEF Move, Stages
  <2> QED BY <1>8, <2>1, <2>2 DEF version_unread
<1> QED BY <1>1, <1>2, <1>3, <1>4, <1>5, <1>6, <1>7, <1>8 DEF Reads

\* The view of another reader, and what the registry shows of it, stays.
LEMMA OthersSound ==
    ASSUME TypeOK, NEW r \in Readers, open_view(r) \/ Reads(r), NEW q \in Readers \ {r}, Sound(q)
    PROVE  Sound(q)'
<1>1. at'[q] = at[q] /\ view'[q] = view[q] /\ stayed'[q] = stayed[q] /\ tops'[q] = tops[q] /\ sr' = sr
  <2>1. CASE open_view(r)
    <3>1. PICK kind \in Kinds, want \in SUBSET Versions : Opened(r, kind, want)
      BY <2>1, OpenIs
    <3> QED BY <2>1, <3>1, OpenFrame DEF Opened, TypeOK
  <2>2. CASE Reads(r)
    BY <2>2, ReaderFrame DEF TypeOK, Reads, execute_latest, _ensure_subject_exists,
       get_schema_versions, gathered, _load_context, view_fails, get_schema_by_version,
       version_unread, Move
  <2> QED BY <2>1, <2>2
<1> QED BY <1>1 DEF Sound, Latest

LEMMA ReaderSound ==
    ASSUME TypeOK, NEW r \in Readers, Reads(r), Sound(r)
    PROVE  Sound(r)'
<1>0. /\ at \in [Readers -> Stages] /\ view \in [Readers -> ViewSet] /\ view[r] \in ViewSet
      /\ sr' = sr /\ stayed'[r] = stayed[r] /\ tops'[r] = tops[r]
  BY ReaderFrame DEF TypeOK, Stages, ViewSet
<1>a. Latest(sr)' = Latest(sr)  BY <1>0 DEF Latest
<1>1. CASE execute_latest(r)
  <2>1. at[r] = "describing" /\ at'[r] = "checking"  BY <1>0, <1>1 DEF execute_latest, Move
  <2>2. /\ view'[r].want = {Latest(sr)} /\ view'[r].kind = view[r].kind
        /\ view'[r].got = view[r].got /\ view'[r].unread = view[r].unread
    BY <1>0, <1>1 DEF execute_latest, ViewSet
  <2> QED BY <1>0, <1>a, <2>1, <2>2 DEF Sound, Reading
<1>2. CASE _ensure_subject_exists(r)
  <2>1. at[r] = "checking" /\ at'[r] = "listing" /\ view' = view
    BY <1>0, <1>2 DEF _ensure_subject_exists, Move
  <2> QED BY <1>0, <1>a, <2>1 DEF Sound, Reading
<1>3. CASE get_schema_versions(r)
  <2> DEFINE all == IF view[r].kind \in {"history", "versions"} THEN sr ELSE view[r].want
  <2>1. at[r] = "listing" /\ at'[r] = IF view[r].kind = "history" THEN "loading" ELSE "fetching"
    BY <1>0, <1>3 DEF get_schema_versions, Move
  <2>2. view' = [view EXCEPT ![r].todo = all]  BY <1>3 DEF get_schema_versions
  <2> HIDE DEF all
  <2>3. /\ view'[r].want = view[r].want /\ view'[r].kind = view[r].kind
        /\ view'[r].got = view[r].got /\ view'[r].unread = view[r].unread
        /\ view'[r].todo = all
    BY <1>0, <2>2 DEF ViewSet
  <2>4. view[r].kind \in Kinds  BY <2>1 DEF Sound
  <2>5. IF view[r].kind \in {"exact", "latest"} THEN all = view[r].want ELSE all = sr
    BY <2>4 DEF all, Kinds
  <2> QED BY <1>0, <1>a, <2>1, <2>3, <2>5 DEF Sound, Reading
<1>4. CASE gathered(r)
  <2>1. at[r] = "fetching" /\ at'[r] = (IF view[r].kind = "history" THEN "answered" ELSE "loading")
        /\ view' = view /\ view[r].todo = {}
    BY <1>0, <1>4 DEF gathered, Move
  <2> QED BY <1>0, <1>a, <2>1 DEF Sound, Reading
<1>5. CASE _load_context(r)
  <2>1. at[r] = "loading" /\ at'[r] = (IF view[r].kind = "history" THEN "fetching" ELSE "answered")
        /\ view' = view
    BY <1>0, <1>5 DEF _load_context, Move
  <2> QED BY <1>0, <1>a, <2>1 DEF Sound, Reading
<1>6. CASE view_fails(r)
  <2>1. at[r] # "idle" /\ at'[r] = "error" /\ view' = view
    BY <1>0, <1>6 DEF view_fails, Move
  <2> QED BY <1>0, <1>a, <2>1 DEF Sound, Reading
<1>7. ASSUME NEW v \in Versions, get_schema_by_version(r, v) PROVE Sound(r)'
  <2>1. at[r] = "fetching" /\ at' = at /\ v \in view[r].todo
        /\ view' = [view EXCEPT ![r].todo = @ \ {v}, ![r].got = @ \cup {v}]
    BY <1>7 DEF get_schema_by_version
  <2>2. /\ view'[r].want = view[r].want /\ view'[r].kind = view[r].kind
        /\ view'[r].got = view[r].got \cup {v} /\ view'[r].unread = view[r].unread
        /\ view'[r].todo = view[r].todo \ {v}
    BY <1>0, <2>1 DEF ViewSet
  <2>3. /\ view'[r].got \cup view'[r].todo = view[r].got \cup view[r].todo
        /\ view[r].got \cup view[r].unread \cup view[r].todo
             \subseteq view'[r].got \cup view'[r].unread \cup view'[r].todo
    BY <2>1, <2>2
  <2> QED BY <1>0, <1>a, <2>1, <2>2, <2>3 DEF Sound, Reading
<1>8. ASSUME NEW v \in Versions, version_unread(r, v) PROVE Sound(r)'
  <2>1. at[r] = "fetching"  BY <1>8 DEF version_unread
  <2>2. CASE view[r].kind = "history"
    <3>1. at' = at /\ view' = [view EXCEPT ![r].todo = @ \ {v}, ![r].unread = @ \cup {v}]
      BY <1>8, <2>2 DEF version_unread
    <3>2. /\ view'[r].want = view[r].want /\ view'[r].kind = view[r].kind
          /\ view'[r].got = view[r].got /\ view'[r].unread = view[r].unread \cup {v}
          /\ view'[r].todo = view[r].todo \ {v}
      BY <1>0, <3>1 DEF ViewSet
    <3>3. view[r].got \cup view[r].unread \cup view[r].todo
            \subseteq view'[r].got \cup view'[r].unread \cup view'[r].todo
      BY <3>2
    <3> QED BY <1>0, <1>a, <2>1, <2>2, <3>1, <3>2, <3>3 DEF Sound, Reading
  <2>3. CASE view[r].kind # "history"
    <3>1. at'[r] = "error" /\ view' = view
      BY <1>0, <1>8, <2>3 DEF version_unread, Move
    <3> QED BY <1>0, <1>a, <2>1, <3>1 DEF Sound, Reading
  <2> QED BY <2>2, <2>3
<1> QED BY <1>1, <1>2, <1>3, <1>4, <1>5, <1>6, <1>7, <1>8 DEF Reads

-------------------------------------------------------------------------------
(* The properties. *)

\* The rows tell whom to credit.
LEMMA CreditFollows ==
    ASSUME TypeOK, RowsKnown
    PROVE  CreditHasCause
<1> SUFFICES ASSUME NEW v \in sr,
                    artifacts[v] \notin {None} \cup {sync_id(w) : w \in Writers},
                    ~Shared(artifacts[v]), v \notin borrowed
             PROVE  Author(v) = {maker[v]} /\ commit_message(v) \in {None, maker[v]}
  BY DEF CreditHasCause
<1> DEFINE c == artifacts[v]
           m == maker[v]
<1>1. v \in Versions /\ c \in ChangeIds /\ c \in Ids /\ c # None /\ m \in Writers \cup {System}
  BY Numbers DEF TypeOK, Ids
<1>2. <<c, m>> \in audit  BY <1>1 DEF RowsKnown
<1>3. m \in audit_logs(c)
  <2>1. m \in Writers  BY <1>2 DEF TypeOK
  <2> QED BY <1>2, <2>1 DEF audit_logs
<1>4. \A a \in audit_logs(c) : a = m  BY <1>3 DEF Shared
<1>5. audit_logs(c) = {m}  BY <1>3, <1>4
<1>6. Author(v) = {m}  BY <1>1, <1>5 DEF Author
<1>7. plans[c] \in {None, m}
  <2>1. CASE plans[c] # None
    <3>1. <<c, plans[c]>> \in audit  BY <1>1, <2>1 DEF RowsKnown
    <3>2. plans[c] \in audit_logs(c)  BY <3>1 DEF audit_logs, TypeOK
    <3> QED BY <1>4, <3>2
  <2> QED BY <2>1
<1>8. commit_message(v) = plans[c]  BY <1>1 DEF commit_message
<1> QED BY <1>6, <1>7, <1>8

LEMMA InitHolds == Init => HistoryInv
<1> SUFFICES ASSUME Init PROVE HistoryInv
  OBVIOUS
<1>1. MaxVersion \in Nat  BY HistoryAssumption
<1>2. TypeOK
  <2>1. NoOp \in Ops  BY <1>1 DEF NoOp, Ops
  <2>2. NoView \in ViewSet  BY DEF NoView, ViewSet
  <2> QED BY <1>1, <2>1, <2>2 DEF Init, TypeOK, Ops, ViewSet
<1>3. RowsKnown  BY HistoryAssumption DEF Init, RowsKnown
<1>4. \A w \in Writers : Known(w)  BY DEF Init, Known, NoOp
<1>5. \A r \in Readers : Sound(r)  BY DEF Init, Sound, NoView, Reading
<1> QED BY <1>2, <1>3, <1>4, <1>5, CreditFollows, Parts DEF HistoryInv

LEMMA StepHolds == HistoryInv /\ [Next]_vars => HistoryInv'
<1> SUFFICES ASSUME HistoryInv, [Next]_vars PROVE HistoryInv'
  OBVIOUS
<1>0. /\ TypeOK /\ RowsKnown
      /\ \A w \in Writers : Known(w)
      /\ \A r \in Readers : Sound(r)
  BY Parts DEF HistoryInv
<1>1. SUFFICES /\ TypeOK' /\ RowsKnown'
               /\ \A w \in Writers : Known(w)'
               /\ \A r \in Readers : Sound(r)'
  <2>1. WritersKnown' /\ ViewsSound'  BY <1>1, PrimedParts
  <2>2. CreditHasCause'  BY <1>1, CreditFollows, PTL
  <2> QED BY <1>1, <2>1, <2>2 DEF HistoryInv
<1>2. ASSUME NEW w \in Writers, Writes(w)
      PROVE  /\ TypeOK' /\ RowsKnown'
             /\ \A u \in Writers : Known(u)'
             /\ \A r \in Readers : Sound(r)'
  <2>1. TypeOK'  BY <1>0, <1>2, WriterTyped
  <2>2. RowsKnown'  BY <1>0, <1>2, WriterRows
  <2>3. Known(w)'  BY <1>0, <1>2, WriterKnown
  <2>4. \A u \in Writers \ {w} : Known(u)'  BY <1>0, <1>2, OthersKnown
  <2>5. \A r \in Readers : Sound(r)'  BY <1>0, <1>2, <2>1, WriterViews
  <2> QED BY <2>1, <2>2, <2>3, <2>4, <2>5
<1>3. ASSUME NEW r \in Readers, open_view(r) \/ Reads(r)
      PROVE  /\ TypeOK' /\ RowsKnown'
             /\ \A u \in Writers : Known(u)'
             /\ \A q \in Readers : Sound(q)'
  <2>1. UNCHANGED <<sr, top, maker, artifacts, audit, plans, borrowed, pc, op>>
    BY <1>3, ReaderFrame, OpenFrame
  <2>2. TypeOK'  BY <1>0, <1>3, ReaderTyped, OpenTyped
  <2>3. RowsKnown'  BY <1>0, <2>1 DEF RowsKnown
  <2>4. \A u \in Writers : Known(u)'  BY <1>0, <2>1 DEF Known
  <2>5. Sound(r)'  BY <1>0, <1>3, OpenSound, ReaderSound
  <2>6. \A q \in Readers \ {r} : Sound(q)'  BY <1>0, <1>3, OthersSound
  <2> QED BY <2>2, <2>3, <2>4, <2>5, <2>6
<1>4. CASE UNCHANGED vars
  <2>1. UNCHANGED <<sr, top, artifacts, audit, plans, pc, op, at, view, maker, borrowed, stayed, tops>>
    BY <1>4 DEF vars
  <2>2. TypeOK' /\ RowsKnown'  BY <1>0, <2>1 DEF TypeOK, RowsKnown
  <2>3. \A w \in Writers : Known(w)'  BY <1>0, <2>1 DEF Known
  <2>4. \A r \in Readers : Sound(r)'  BY <1>0, <2>1 DEF Sound, Latest
  <2> QED BY <2>2, <2>3, <2>4
<1> QED BY <1>2, <1>3, <1>4, Steps

\* The inductive invariant: every author and reason shown for a version is that of
\* the request that registered it or has one of the listed causes, and requests
\* and views under way agree with the rows and with the registry they have read.
THEOREM HistoryInvariance == Spec => []HistoryInv
BY InitHolds, StepHolds, PTL DEF Spec

\* An answered list leaves out no version that was live during the whole call,
\* whatever a rollback deletes meanwhile.
THEOREM ListingWhole == Spec => []ListingIsWhole
<1>1. HistoryInv => ListingIsWhole
  <2> SUFFICES ASSUME HistoryInv, NEW r \in Readers, at[r] = "answered"
               PROVE  CASE view[r].kind = "versions" -> stayed[r] \subseteq view[r].got
                        [] view[r].kind = "history"  -> stayed[r] \subseteq view[r].got \cup view[r].unread
                        [] OTHER                     -> view[r].got = view[r].want
    BY DEF ListingIsWhole
  <2>1. Sound(r)  BY Parts DEF HistoryInv
  <2>2. view[r].kind \in Kinds /\ view[r].todo = {}  BY <2>1 DEF Sound
  <2>3. IF view[r].kind \in {"exact", "latest"}
        THEN view[r].got = view[r].want
        ELSE stayed[r] \subseteq view[r].got \cup view[r].unread
    BY <2>1, <2>2 DEF Sound, Reading
  <2>4. view[r].kind # "history" => view[r].unread = {}  BY <2>1 DEF Sound
  <2> QED BY <2>2, <2>3, <2>4 DEF Kinds
<1> QED BY <1>1, HistoryInvariance, PTL

\* The export of the latest schema delivers a version that was the latest at some
\* moment of the call.
THEOREM ExportLatest == Spec => []ExportWasLatest
<1>1. HistoryInv => ExportWasLatest
  <2> SUFFICES ASSUME HistoryInv, NEW r \in Readers,
                      at[r] = "answered", view[r].kind = "latest"
               PROVE  view[r].got # {} /\ view[r].got \subseteq tops[r]
    BY DEF ExportWasLatest
  <2>1. Sound(r)  BY Parts DEF HistoryInv
  <2>2. view[r].todo = {} /\ view[r].got \cup view[r].todo = view[r].want
    BY <2>1 DEF Sound, Reading
  <2>3. view[r].want # {} /\ view[r].want \subseteq tops[r]  BY <2>1 DEF Sound, Reading
  <2> QED BY <2>2, <2>3
<1> QED BY <1>1, HistoryInvariance, PTL
==============================================================================
