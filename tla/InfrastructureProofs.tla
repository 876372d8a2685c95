-------------------------- MODULE InfrastructureProofs --------------------------
(***************************************************************************)
(* Proofs about what the rest of the system stands on: the cache of        *)
(* registry clients (ConnectionManager), for every set of registries,      *)
(* coroutines and settings, and the database migrations (Migrations), for  *)
(* every set of runners and any number of commands.                        *)
(***************************************************************************)
EXTENDS ConnectionManager, Migrations, SequenceTheorems, FiniteSetTheorems, TLAPS

-----------------------------------------------------------------------------
(* The client cache.                                                       *)

\* The steps that start a write or carry it on.
AdminStart(a, r) ==
    \/ \E u \in Urls, p \in Passwords \cup {NoPw} :
         \/ CreateSelects(a, r, u, p)
         \/ \E act \in BOOLEAN : UpdateSelects(a, r, u, p, act)
    \/ DeleteSelects(a, r)
    \/ ActivateReads(a, r)

\* The locals of an idle writer are a well-typed operation.
LEMMA IdleJobType == IdleJob \in Job
<1>1. AnyReg \in Registries
  BY NonEmptyAssumption DEF AnyReg
<1>2. AnyRow \in Row
  <2>1. (CHOOSE u \in Urls : TRUE) \in Urls
    BY NonEmptyAssumption
  <2> QED BY <2>1 DEF AnyRow, Row
<1> QED BY <1>1, <1>2 DEF IdleJob, Job, AdminKinds

\* Removing the head of a lock's queue leaves a queue.
LEMMA ReleaseType ==
  ASSUME TypeOK, NEW g \in Getters, lockq[lk[g]] # <<>>, Release(g)
  PROVE  lockq' \in [LockIds -> Seq(Getters)]
<1>1. lk[g] \in LockIds /\ lockq[lk[g]] \in Seq(Getters)
  BY DEF TypeOK
<1>2. Tail(lockq[lk[g]]) \in Seq(Getters)
  BY <1>1
<1> QED BY <1>1, <1>2 DEF Release, TypeOK

\* Every starting or continuing writer has a well-typed operation.
LEMMA BeginType ==
  ASSUME TypeOK, NEW a \in Admins, NEW r \in Registries,
         NEW kind \in AdminKinds, NEW intent \in Row, Begin(a, kind, r, intent)
  PROVE  TypeOK'
<1>1. [kind |-> kind, reg |-> r, intent |-> intent, loaded |-> rows[r]] \in Job
  BY DEF TypeOK, Job
<1>2. job' \in [Admins -> Job]
  BY <1>1 DEF Begin, TypeOK
<1> QED BY <1>2 DEF Begin, TypeOK, getterVars

\* A row merged from well-typed columns is well typed.
LEMMA WrittenType ==
  ASSUME TypeOK, NEW a \in Admins,
         ~(job[a].loaded = NoRow /\ rows[job[a].reg] # NoRow),
         job[a].loaded # NoRow => rows[job[a].reg] # NoRow
  PROVE  Written(job[a], rows[job[a].reg]) \in Row
<1> DEFINE j == job[a]
           cur == rows[job[a].reg]
<1>1. j \in Job /\ j.intent \in Row /\ j.loaded \in Row \cup {NoRow}
      /\ cur \in Row \cup {NoRow}
  BY DEF TypeOK, Job
<1>2. CASE j.loaded = NoRow
  BY <1>1, <1>2 DEF Written
<1>3. CASE j.loaded # NoRow /\ j.kind = "delete"
  <2>1. cur \in Row
    BY <1>1, <1>3
  <2>2. [cur EXCEPT !.active = IF j.loaded.active THEN FALSE ELSE @] \in Row
    BY <2>1, <1>1, <1>3 DEF Row
  <2> QED BY <1>3, <2>2 DEF Written
<1>4. CASE j.loaded # NoRow /\ j.kind # "delete"
  <2>1. Merged(j.intent, j.loaded, cur) \in Row
    BY <1>1, <1>4 DEF Merged, Row
  <2> QED BY <1>4, <2>1 DEF Written
<1> QED BY <1>2, <1>3, <1>4

\* A step keeps every variable in its type.
LEMMA TypeStep ==
  ASSUME TypeOK, LockDiscipline, RowsPersist, [Next]_vars PROVE TypeOK'
<1>1. ASSUME NEW g \in Getters, NEW r \in Registries, GetMiss(g, r) PROVE TypeOK'
  <2>1. PICK l \in LockIds :
           /\ _get_loop_scoped_lock(<<"schema", r>>, l)
           /\ lk' = [lk EXCEPT ![g] = l]
           /\ pc' = [pc EXCEPT ![g] = IF lockq[l] = <<>> THEN "reading" ELSE "waiting"]
           /\ lockq' = [lockq EXCEPT ![l] = Append(@, g)]
    BY <1>1 DEF GetMiss
  <2>2. locks' \in [LockKeys -> LockIds \cup {NoLock}]
    BY <2>1 DEF _get_loop_scoped_lock, TypeOK, LockKeys
  <2>3. lockq' \in [LockIds -> Seq(Getters)]
    BY <2>1 DEF TypeOK
  <2>4. pc' \in [Getters -> {"idle", "waiting", "reading", "fetched"}]
    BY <2>1 DEF TypeOK
  <2> QED BY <1>1, <2>1, <2>2, <2>3, <2>4 DEF GetMiss, TypeOK, adminVars
<1>2. ASSUME NEW g \in Getters, LockGranted(g) PROVE TypeOK'
  <2>1. lockq' \in [LockIds -> Seq(Getters)]
    BY <1>2, ReleaseType DEF LockGranted, TypeOK
  <2> QED BY <1>2, <2>1 DEF LockGranted, TypeOK, adminVars
<1>3. ASSUME NEW g \in Getters, RowRead(g) PROVE TypeOK'
  BY <1>3 DEF RowRead, TypeOK, adminVars
<1>4. ASSUME NEW g \in Getters, RowReadFails(g) PROVE TypeOK'
  <2>1. lockq' \in [LockIds -> Seq(Getters)]
    BY <1>4, ReleaseType DEF RowReadFails, LockDiscipline, InSection
  <2> QED BY <1>4, <2>1 DEF RowReadFails, TypeOK, adminVars
<1>5. ASSUME NEW g \in Getters, BuildClient(g) PROVE TypeOK'
  <2>1. lockq' \in [LockIds -> Seq(Getters)]
    BY <1>5, ReleaseType DEF BuildClient, LockDiscipline, InSection
  <2>2. Filled(g) \in Client \cup {NoClient}
    BY DEF Filled, TypeOK, Usable, to_client_config, Row, Client
  <2> QED BY <1>5, <2>1, <2>2 DEF BuildClient, TypeOK, adminVars
<1>6. ASSUME NEW a \in Admins, NEW r \in Registries, AdminStart(a, r) PROVE TypeOK'
  <2>1. ASSUME NEW u \in Urls, NEW p \in Passwords \cup {NoPw}, CreateSelects(a, r, u, p)
        PROVE TypeOK'
    BY <2>1, BeginType DEF CreateSelects, Row, AdminKinds
  <2>2. ASSUME NEW u \in Urls, NEW p \in Passwords \cup {NoPw}, NEW act \in BOOLEAN,
               UpdateSelects(a, r, u, p, act)
        PROVE TypeOK'
    BY <2>2, BeginType DEF UpdateSelects, Row, AdminKinds
  <2>3. CASE DeleteSelects(a, r)
    <3>1. [rows[r] EXCEPT !.active = FALSE] \in Row
      <4>1. rows[r] \in Row
        BY <2>3 DEF DeleteSelects, TypeOK
      <4> QED BY <4>1 DEF Row
    <3> QED BY <2>3, <3>1, BeginType DEF DeleteSelects, AdminKinds
  <2>4. CASE ActivateReads(a, r)
    <3>1. [rows[r] EXCEPT !.pw = NoPw, !.active = TRUE] \in Row
      <4>1. rows[r] \in Row
        BY <2>4 DEF ActivateReads, TypeOK
      <4> QED BY <4>1 DEF Row
    <3>2. job' \in [Admins -> Job]
      BY <2>4, <3>1 DEF ActivateReads, TypeOK, Job, AdminKinds
    <3> QED BY <2>4, <3>2 DEF ActivateReads, TypeOK, getterVars
  <2> QED BY <1>6, <2>1, <2>2, <2>3, <2>4 DEF AdminStart
<1>7. ASSUME NEW a \in Admins, AdminStep(a) PROVE TypeOK'
  <2>0. /\ job[a].reg \in Registries /\ job[a].intent \in Row
        /\ End(a) => job' \in [Admins -> Job]
                     /\ apc' \in [Admins -> {"idle", "activating", "loaded", "committed"}]
    <3>1. job[a] \in Job
      BY DEF TypeOK
    <3>2. job[a].reg \in Registries /\ job[a].intent \in Row
      BY <3>1 DEF Job
    <3>3. ASSUME End(a)
          PROVE  /\ job' \in [Admins -> Job]
                 /\ apc' \in [Admins -> {"idle", "activating", "loaded", "committed"}]
      BY <3>3, IdleJobType DEF TypeOK, End
    <3> QED BY <3>2, <3>3
  <2>1. CASE ActivateSelects(a)
    BY <2>0, <2>1, BeginType DEF ActivateSelects, AdminKinds
  <2>2. CASE Commit(a)
    <3>1. CASE job[a].loaded = NoRow /\ rows[job[a].reg] # NoRow
      BY <2>0, <2>2, <3>1 DEF Commit, TypeOK, getterVars
    <3>2. CASE ~(job[a].loaded = NoRow /\ rows[job[a].reg] # NoRow)
      <4>1. Written(job[a], rows[job[a].reg]) \in Row
        BY <2>2, <3>2, WrittenType DEF RowsPersist, Commit
      <4>2. rows' \in [Registries -> Row \cup {NoRow}]
        BY <2>0, <2>2, <3>2, <4>1 DEF Commit, TypeOK
      <4>3. everActive' \in [Registries -> SUBSET Client]
        <5>1. \A r \in Registries :
                Usable(rows'[r]) => to_client_config(rows'[r]) \in Client
          BY <4>2 DEF Usable, to_client_config, Row, Client
        <5> QED BY <2>2, <3>2, <5>1 DEF Commit, Remember, TypeOK
      <4> QED BY <2>2, <3>2, <4>2, <4>3 DEF Commit, TypeOK, getterVars
    <3> QED BY <3>1, <3>2
  <2>3. CASE FailBeforeCommit(a)
    BY <2>0, <2>3 DEF FailBeforeCommit, TypeOK, getterVars
  <2>4. ASSUME NEW cause \in Causes, EndWithout(a, cause) PROVE TypeOK'
    <3>1. leak' \in [Registries -> SUBSET Causes]
      BY <2>0, <2>4 DEF EndWithout, TypeOK
    <3> QED BY <2>0, <2>4, <3>1 DEF EndWithout, TypeOK, getterVars
  <2>5. CASE FailAfterCommit(a)
    BY <2>4, <2>5 DEF FailAfterCommit, Causes
  <2>6. CASE FinishCreate(a)
    BY <2>4, <2>6 DEF FinishCreate, Causes
  <2>7. CASE FinishWrite(a)
    <3>1. leak' \in [Registries -> SUBSET Causes]
      BY <2>0, <2>7 DEF FinishWrite, TypeOK, Causes
    <3>2. /\ clients' \in [Registries -> Client \cup {NoClient}]
          /\ locks' \in [LockKeys -> LockIds \cup {NoLock}]
      BY <2>0, <2>7 DEF FinishWrite, invalidate_cache, TypeOK, LockKeys
    <3> QED BY <2>0, <2>7, <3>1, <3>2 DEF FinishWrite, TypeOK, getterVars
  <2> QED BY <1>7, <2>1, <2>2, <2>3, <2>5, <2>6, <2>7 DEF AdminStep
<1>8. CASE UNCHANGED vars
  BY <1>8 DEF vars, TypeOK
<1> QED
  BY <1>1, <1>2, <1>3, <1>4, <1>5, <1>6, <1>7, <1>8
  DEF Next, GetHit, GetterStep, AdminStart

------------------------------------------------------------------------------

\* Writers leave the getters, their locks' queues and the lock objects stored
\* for the getters' keys alone: invalidate_cache removes a lock, but under the
\* key "schema_registry_<id>" which no getter uses.
LEMMA WritersLeaveLocks ==
  ASSUME TypeOK, NEW a \in Admins,
         (\E r \in Registries : AdminStart(a, r)) \/ AdminStep(a)
  PROVE  /\ UNCHANGED <<lockq, pc, req, lk, seen>>
         /\ \A r \in Registries : locks'[<<"schema", r>>] = locks[<<"schema", r>>]
<1>1. CASE FinishWrite(a)
  <2>1. job[a].reg \in Registries
    <3>1. job[a] \in Job
      BY DEF TypeOK
    <3> QED BY <3>1 DEF Job
  <2>2. ASSUME NEW r \in Registries
        PROVE  locks'[<<"schema", r>>] = locks[<<"schema", r>>]
    <3>1. <<"schema", r>> # <<"schema_registry", job[a].reg>>
      OBVIOUS
    <3>2. <<"schema", r>> \in LockKeys
      BY DEF LockKeys
    <3> QED BY <1>1, <3>1, <3>2 DEF FinishWrite, invalidate_cache, TypeOK
  <2> QED BY <1>1, <2>2 DEF FinishWrite, getterVars
<1>2. CASE AdminStep(a) /\ ~FinishWrite(a)
  BY <1>2 DEF AdminStep, ActivateSelects, Begin, Commit, FailBeforeCommit,
              FailAfterCommit, FinishCreate, EndWithout, getterVars
<1>3. CASE \E r \in Registries : AdminStart(a, r)
  BY <1>3 DEF AdminStart, CreateSelects, UpdateSelects, DeleteSelects,
              ActivateReads, Begin, getterVars
<1> QED BY <1>1, <1>2, <1>3

\* A getter that reaches the head of its queue, and leaves from it, keeps the
\* lock discipline of all getters.
LEMMA LockStep ==
  ASSUME TypeOK, LockDiscipline, [Next]_vars PROVE LockDiscipline'
<1>1. ASSUME NEW g \in Getters, NEW r \in Registries, GetMiss(g, r)
      PROVE  LockDiscipline'
  <2>1. PICK l \in LockIds :
           /\ _get_loop_scoped_lock(<<"schema", r>>, l)
           /\ lk' = [lk EXCEPT ![g] = l]
           /\ pc' = [pc EXCEPT ![g] = IF lockq[l] = <<>> THEN "reading" ELSE "waiting"]
           /\ lockq' = [lockq EXCEPT ![l] = Append(@, g)]
    BY <1>1 DEF GetMiss
  <2>2. lockq[l] \in Seq(Getters) /\ <<"schema", r>> \in LockKeys
    BY DEF TypeOK, LockKeys
  <2>3. req' = [req EXCEPT ![g] = r] /\ pc[g] = "idle"
    BY <1>1 DEF GetMiss
  <2>4. /\ lk'[g] = locks'[<<"schema", req'[g]>>]
        /\ pc'[g] = "reading" => lockq'[lk'[g]] # <<>> /\ Head(lockq'[lk'[g]]) = g
        /\ pc'[g] # "fetched"
    <3>1. lk'[g] = l /\ req'[g] = r
      BY <2>1, <2>3 DEF TypeOK
    <3>2. locks'[<<"schema", r>>] = l
      BY <2>1, <2>2 DEF _get_loop_scoped_lock, TypeOK
    <3>3. lockq'[l] = Append(lockq[l], g)
      BY <2>1 DEF TypeOK
    <3>4. pc'[g] = IF lockq[l] = <<>> THEN "reading" ELSE "waiting"
      BY <2>1 DEF TypeOK
    <3>5. lockq[l] = <<>> => Append(lockq[l], g) # <<>> /\ Head(Append(lockq[l], g)) = g
      BY <2>2
    <3> QED BY <3>1, <3>2, <3>3, <3>4, <3>5
  <2>5. ASSUME NEW h \in Getters, h # g
        PROVE  /\ pc'[h] # "idle" => lk'[h] = locks'[<<"schema", req'[h]>>]
               /\ pc'[h] \in {"reading", "fetched"}
                    => lockq'[lk'[h]] # <<>> /\ Head(lockq'[lk'[h]]) = h
    <3>1. pc'[h] = pc[h] /\ lk'[h] = lk[h] /\ req'[h] = req[h]
          /\ lk[h] \in LockIds /\ req[h] \in Registries
      BY <2>1, <2>3, <2>5 DEF TypeOK
    <3>2. ASSUME pc[h] # "idle"
          PROVE  lk[h] = locks'[<<"schema", req[h]>>]
      <4>1. lk[h] = locks[<<"schema", req[h]>>]
        BY <3>2 DEF LockDiscipline
      <4>2. CASE UNCHANGED locks
        BY <4>1, <4>2
      <4>3. CASE locks[<<"schema", r>>] = NoLock /\ locks' = [locks EXCEPT ![<<"schema", r>>] = l]
        <5>1. req[h] # r
          BY <4>1, <4>3, <3>1, NullsAssumption
        <5>2. <<"schema", req[h]>> # <<"schema", r>> /\ <<"schema", req[h]>> \in LockKeys
          BY <5>1, <3>1 DEF LockKeys
        <5> QED BY <4>1, <4>3, <5>2 DEF TypeOK
      <4> QED BY <2>1, <4>2, <4>3 DEF _get_loop_scoped_lock
    <3>3. ASSUME pc[h] \in {"reading", "fetched"}
          PROVE  lockq'[lk[h]] # <<>> /\ Head(lockq'[lk[h]]) = h
      <4>1. lockq[lk[h]] # <<>> /\ Head(lockq[lk[h]]) = h
        BY <3>3 DEF LockDiscipline, InSection
      <4>2. CASE lk[h] = l
        <5>1. lockq'[l] = Append(lockq[l], g)
          BY <2>1 DEF TypeOK
        <5>2. Append(lockq[l], g) # <<>> /\ Head(Append(lockq[l], g)) = Head(lockq[l])
          BY <2>2, <4>1, <4>2
        <5> QED BY <4>1, <4>2, <5>1, <5>2
      <4>3. CASE lk[h] # l
        BY <2>1, <4>1, <4>3, <3>1 DEF TypeOK
      <4> QED BY <4>2, <4>3
    <3> QED BY <3>1, <3>2, <3>3
  <2> QED BY <2>4, <2>5 DEF LockDiscipline, InSection
\* g stands first in its queue and leaves it, or stays there and goes on.
<1>2. ASSUME NEW g \in Getters, lockq[lk[g]] # <<>>, Head(lockq[lk[g]]) = g,
             UNCHANGED <<locks, req, lk>>,
             \/ Release(g) /\ pc' = [pc EXCEPT ![g] = "idle"]
             \/ UNCHANGED lockq /\ pc[g] # "idle" /\ \E s \in {"reading", "fetched"} : pc' = [pc EXCEPT ![g] = s]
      PROVE  LockDiscipline'
  <2>1. ASSUME NEW h \in Getters, h # g, InSection(h)
        PROVE  lk[h] # lk[g]
    BY <1>2, <2>1 DEF LockDiscipline
  <2>2. CASE Release(g) /\ pc' = [pc EXCEPT ![g] = "idle"]
    <3>1. ASSUME NEW h \in Getters, h # g, InSection(h)
          PROVE  lockq'[lk[h]] = lockq[lk[h]]
      BY <2>1, <2>2, <3>1 DEF Release, TypeOK
    <3> QED BY <1>2, <2>2, <3>1 DEF LockDiscipline, InSection, TypeOK
  <2>3. CASE UNCHANGED lockq /\ pc[g] # "idle" /\ \E s \in {"reading", "fetched"} : pc' = [pc EXCEPT ![g] = s]
    BY <1>2, <2>3 DEF LockDiscipline, InSection, TypeOK
  <2> QED BY <1>2, <2>2, <2>3
<1>3. ASSUME NEW g \in Getters, GetterStep(g) PROVE LockDiscipline'
  <2>1. CASE LockGranted(g)
    BY <1>2, <2>1 DEF LockGranted
  <2>2. ASSUME pc[g] \in {"reading", "fetched"}
        PROVE  lockq[lk[g]] # <<>> /\ Head(lockq[lk[g]]) = g
    BY <2>2 DEF LockDiscipline, InSection
  <2>3. CASE RowRead(g)
    BY <1>2, <2>2, <2>3 DEF RowRead
  <2>4. CASE RowReadFails(g)
    BY <1>2, <2>2, <2>4 DEF RowReadFails
  <2>5. CASE BuildClient(g)
    BY <1>2, <2>2, <2>5 DEF BuildClient
  <2> QED BY <1>3, <2>1, <2>3, <2>4, <2>5 DEF GetterStep
<1>4. ASSUME NEW a \in Admins,
             (\E r \in Registries : AdminStart(a, r)) \/ AdminStep(a)
      PROVE  LockDiscipline'
  BY <1>4, WritersLeaveLocks DEF LockDiscipline, InSection, TypeOK
<1>5. CASE UNCHANGED vars
  BY <1>5 DEF vars, LockDiscipline, InSection
<1> QED
  BY <1>1, <1>3, <1>4, <1>5 DEF Next, GetHit, AdminStart

\* Two builders of one registry would both be first in the queue of its lock.
LEMMA OneBuilderFromLocks ==
  ASSUME TypeOK, LockDiscipline PROVE OneBuilder
<1> SUFFICES ASSUME NEW g \in Getters, NEW h \in Getters,
                    g # h, InSection(g), InSection(h), req[g] = req[h]
             PROVE  FALSE
  BY DEF OneBuilder
<1>1. pc[g] # "idle" /\ pc[h] # "idle"
  BY DEF InSection
<1>2. lk[g] = lk[h]
  BY <1>1 DEF LockDiscipline
<1>3. Head(lockq[lk[g]]) = g /\ Head(lockq[lk[h]]) = h
  BY DEF LockDiscipline
<1> QED BY <1>2, <1>3

\* Only getters fill the cache, and no row is ever removed from the table.
LEMMA WritersFrame ==
  ASSUME TypeOK, RowsPersist, NEW a \in Admins,
         (\E r \in Registries : AdminStart(a, r)) \/ AdminStep(a)
  PROVE  /\ \A r \in Registries : clients'[r] \in {clients[r], NoClient}
         /\ \A r \in Registries : rows[r] # NoRow => rows'[r] # NoRow
         /\ \A b \in Admins : b # a => apc'[b] = apc[b] /\ job'[b] = job[b]
<1>0. job[a] \in Job /\ job[a].reg \in Registries
  <2>1. job[a] \in Job
    BY DEF TypeOK
  <2> QED BY <2>1 DEF Job
<1>1. CASE FinishWrite(a)
  BY <1>0, <1>1 DEF FinishWrite, invalidate_cache, End, TypeOK
<1>2. CASE Commit(a)
  <2>1. CASE job[a].loaded = NoRow /\ rows[job[a].reg] # NoRow
    BY <1>2, <2>1 DEF Commit, End, TypeOK
  <2>2. CASE ~(job[a].loaded = NoRow /\ rows[job[a].reg] # NoRow)
    <3>1. Written(job[a], rows[job[a].reg]) \in Row
      BY <1>2, <2>2, WrittenType DEF Commit, RowsPersist
    <3>2. Written(job[a], rows[job[a].reg]) # NoRow
      BY <3>1, NoRowAssumption
    <3> QED BY <1>0, <1>2, <2>2, <3>2 DEF Commit, TypeOK
  <2> QED BY <2>1, <2>2
<1>3. CASE AdminStep(a) /\ ~FinishWrite(a) /\ ~Commit(a)
  BY <1>3 DEF AdminStep, ActivateSelects, Begin, FailBeforeCommit, End,
              FailAfterCommit, FinishCreate, EndWithout, TypeOK
<1>4. CASE \E r \in Registries : AdminStart(a, r)
  BY <1>4 DEF AdminStart, CreateSelects, UpdateSelects, DeleteSelects,
              ActivateReads, Begin, TypeOK
<1> QED BY <1>1, <1>2, <1>3, <1>4

\* A getter's step leaves the table, the writers and the history alone.
LEMMA GettersFrame ==
  ASSUME NEW g \in Getters,
         (\E r \in Registries : GetMiss(g, r)) \/ GetterStep(g)
  PROVE  UNCHANGED <<rows, apc, job, everActive, leak>>
BY DEF GetMiss, GetterStep, LockGranted, RowRead, RowReadFails, BuildClient, adminVars

\* A writer's operation keeps pointing at rows that exist.
LEMMA PersistStep ==
  ASSUME TypeOK, RowsPersist, [Next]_vars PROVE RowsPersist'
<1>1. ASSUME NEW a \in Admins,
             (\E r \in Registries : AdminStart(a, r)) \/ AdminStep(a)
      PROVE  RowsPersist'
  <2>0. job[a] \in Job /\ job[a].reg \in Registries
    <3>1. job[a] \in Job
      BY DEF TypeOK
    <3> QED BY <3>1 DEF Job
  <2>1. ASSUME NEW b \in Admins, b # a
        PROVE  /\ apc'[b] = "activating" => rows'[job'[b].reg] # NoRow
               /\ apc'[b] = "loaded" /\ job'[b].kind # "create" => job'[b].loaded # NoRow
               /\ apc'[b] = "loaded" /\ job'[b].loaded # NoRow => rows'[job'[b].reg] # NoRow
    <3>1. job[b].reg \in Registries
      <4>1. job[b] \in Job
        BY DEF TypeOK
      <4> QED BY <4>1 DEF Job
    <3> QED BY <1>1, <2>1, <3>1, WritersFrame DEF RowsPersist
  <2>2. /\ apc'[a] = "activating" => rows'[job'[a].reg] # NoRow
        /\ apc'[a] = "loaded" /\ job'[a].kind # "create" => job'[a].loaded # NoRow
        /\ apc'[a] = "loaded" /\ job'[a].loaded # NoRow => rows'[job'[a].reg] # NoRow
    <3>1. ASSUME NEW r \in Registries, NEW kind, NEW intent, Begin(a, kind, r, intent),
                 kind # "create" => rows[r] # NoRow
          PROVE  <2>2!1 /\ <2>2!2 /\ <2>2!3
      <4>1. /\ apc'[a] = "loaded" /\ rows' = rows
            /\ job'[a] = [kind |-> kind, reg |-> r, intent |-> intent, loaded |-> rows[r]]
        BY <3>1 DEF Begin, TypeOK
      <4> QED BY <3>1, <4>1
    <3>2. CASE \E r \in Registries : AdminStart(a, r)
      <4>1. PICK r \in Registries : AdminStart(a, r)
        BY <3>2
      <4>2. CASE ActivateReads(a, r)
        BY <4>2 DEF ActivateReads, TypeOK
      <4> QED BY <3>1, <4>1, <4>2 DEF AdminStart, CreateSelects, UpdateSelects, DeleteSelects
    <3>3. CASE ActivateSelects(a)
      BY <2>0, <3>1, <3>3 DEF ActivateSelects, RowsPersist
    <3>4. CASE AdminStep(a) /\ ~ActivateSelects(a)
      <4>1. apc'[a] \in {"idle", "committed"}
        BY <3>4 DEF AdminStep, Commit, FailBeforeCommit, FailAfterCommit, FinishCreate,
                    FinishWrite, EndWithout, End, TypeOK
      <4> QED BY <4>1
    <3> QED BY <1>1, <3>2, <3>3, <3>4
  <2> QED BY <2>1, <2>2 DEF RowsPersist
<1>2. ASSUME NEW g \in Getters,
             (\E r \in Registries : GetMiss(g, r)) \/ GetterStep(g)
      PROVE  RowsPersist'
  BY <1>2, GettersFrame DEF RowsPersist
<1>3. CASE UNCHANGED vars
  BY <1>3 DEF vars, RowsPersist
<1> QED
  BY <1>1, <1>2, <1>3 DEF Next, GetHit, AdminStart

\* The second check under the lock stays true until the client is stored.
LEMMA EmptyStep ==
  ASSUME TypeOK, LockDiscipline, RowsPersist, BuilderFindsCacheEmpty, [Next]_vars
  PROVE  BuilderFindsCacheEmpty'
<1>1. ASSUME NEW g \in Getters, NEW r \in Registries, GetMiss(g, r)
      PROVE  BuilderFindsCacheEmpty'
  <2>1. ASSUME NEW h \in Getters, h # g
        PROVE  pc'[h] = pc[h] /\ req'[h] = req[h]
    BY <1>1, <2>1 DEF GetMiss, TypeOK
  <2>2. req'[g] = r /\ clients[r] = NoClient /\ clients' = clients
    BY <1>1 DEF GetMiss, TypeOK
  <2> QED BY <2>1, <2>2 DEF BuilderFindsCacheEmpty, InSection
<1>2. ASSUME NEW g \in Getters, LockGranted(g) \/ RowRead(g) \/ RowReadFails(g)
      PROVE  BuilderFindsCacheEmpty'
  BY <1>2 DEF LockGranted, RowRead, RowReadFails, BuilderFindsCacheEmpty, InSection, TypeOK
<1>3. ASSUME NEW g \in Getters, BuildClient(g)
      PROVE  BuilderFindsCacheEmpty'
  <2>1. ASSUME NEW h \in Getters, h # g, InSection(h)
        PROVE  req[h] # req[g]
    BY <1>3, <2>1, OneBuilderFromLocks DEF OneBuilder, InSection, BuildClient
  <2> QED BY <1>3, <2>1 DEF BuildClient, BuilderFindsCacheEmpty, InSection, TypeOK
<1>4. ASSUME NEW a \in Admins,
             (\E r \in Registries : AdminStart(a, r)) \/ AdminStep(a)
      PROVE  BuilderFindsCacheEmpty'
  BY <1>4, WritersFrame, WritersLeaveLocks DEF BuilderFindsCacheEmpty, InSection, TypeOK
<1>5. CASE UNCHANGED vars
  BY <1>5 DEF vars, BuilderFindsCacheEmpty, InSection
<1> QED
  BY <1>1, <1>2, <1>3, <1>4, <1>5 DEF Next, GetHit, AdminStart, GetterStep

------------------------------------------------------------------------------

\* The history variable never forgets, and after a commit it knows the new row.
LEMMA HistoryStep ==
  ASSUME TypeOK, HistoryKept, BuiltFromActiveRow, [Next]_vars
  PROVE  HistoryKept' /\ BuiltFromActiveRow'
<1>1. ASSUME NEW g \in Getters, NEW r \in Registries, GetMiss(g, r)
      PROVE  HistoryKept' /\ BuiltFromActiveRow'
  <2>1. UNCHANGED <<rows, clients, seen, everActive>>
    BY <1>1 DEF GetMiss
  <2>2. pc'[g] # "fetched"
    BY <1>1 DEF GetMiss, TypeOK
  <2>3. \A h \in Getters : h # g => pc'[h] = pc[h] /\ req'[h] = req[h]
    BY <1>1 DEF GetMiss, TypeOK
  <2> QED BY <2>1, <2>2, <2>3 DEF HistoryKept, BuiltFromActiveRow
<1>2. ASSUME NEW g \in Getters, LockGranted(g) \/ RowReadFails(g)
      PROVE  HistoryKept' /\ BuiltFromActiveRow'
  <2>1. UNCHANGED <<rows, clients, seen, req, everActive>> /\ pc'[g] # "fetched"
    BY <1>2 DEF LockGranted, RowReadFails, TypeOK
  <2>2. \A h \in Getters : h # g => pc'[h] = pc[h]
    BY <1>2 DEF LockGranted, RowReadFails, TypeOK
  <2> QED BY <2>1, <2>2 DEF HistoryKept, BuiltFromActiveRow
<1>3. ASSUME NEW g \in Getters, RowRead(g)
      PROVE  HistoryKept' /\ BuiltFromActiveRow'
  <2>1. UNCHANGED <<rows, clients, req, everActive>> /\ seen'[g] = rows[req[g]]
        /\ req[g] \in Registries
    BY <1>3 DEF RowRead, TypeOK
  <2>2. \A h \in Getters : h # g => pc'[h] = pc[h] /\ seen'[h] = seen[h]
    BY <1>3 DEF RowRead, TypeOK
  <2> QED BY <2>1, <2>2 DEF HistoryKept, BuiltFromActiveRow
<1>4. ASSUME NEW g \in Getters, BuildClient(g)
      PROVE  HistoryKept' /\ BuiltFromActiveRow'
  <2>1. UNCHANGED <<rows, req, everActive>> /\ pc'[g] # "fetched" /\ pc[g] = "fetched"
    BY <1>4 DEF BuildClient, TypeOK
  <2>2. \A h \in Getters : h # g => pc'[h] = pc[h] /\ seen'[h] = seen[h]
    BY <1>4 DEF BuildClient, TypeOK
  <2>3. \A r \in Registries :
          clients'[r] = IF r = req[g] THEN Filled(g) ELSE clients[r]
    BY <1>4 DEF BuildClient, TypeOK
  <2>4. HistoryKept'
    BY <2>1, <2>2 DEF HistoryKept
  <2>5. Filled(g) # NoClient => Filled(g) \in everActive[req[g]]
    <3>1. req[g] \in Registries
      BY DEF TypeOK
    <3> QED BY <2>1, <3>1 DEF Filled, HistoryKept, BuiltFromActiveRow
  <2> QED BY <2>1, <2>3, <2>4, <2>5 DEF BuiltFromActiveRow
<1>5. ASSUME NEW a \in Admins, Commit(a)
      PROVE  HistoryKept' /\ BuiltFromActiveRow'
  <2>1. UNCHANGED <<clients, pc, req, seen>>
    BY <1>5 DEF Commit, getterVars
  <2>2. CASE UNCHANGED <<rows, everActive>>
    BY <2>1, <2>2 DEF HistoryKept, BuiltFromActiveRow
  <2>3. CASE everActive' = Remember(rows')
    <3>1. \A r \in Registries : everActive[r] \subseteq everActive'[r]
      BY <2>3 DEF Remember
    <3>2. \A r \in Registries :
            Usable(rows'[r]) => to_client_config(rows'[r]) \in everActive'[r]
      BY <2>3 DEF Remember
    <3>3. \A g \in Getters : req[g] \in Registries
      BY DEF TypeOK
    <3> QED BY <2>1, <3>1, <3>2, <3>3 DEF HistoryKept, BuiltFromActiveRow
  <2> QED BY <1>5, <2>2, <2>3 DEF Commit
<1>6. ASSUME NEW a \in Admins, AdminStep(a) \/ \E r \in Registries : AdminStart(a, r),
             ~Commit(a)
      PROVE  HistoryKept' /\ BuiltFromActiveRow'
  <2>1. UNCHANGED <<rows, everActive, pc, req, seen>>
    BY <1>6 DEF AdminStep, ActivateSelects, Begin, FailBeforeCommit, FailAfterCommit,
                FinishCreate, FinishWrite, EndWithout, AdminStart, CreateSelects,
                UpdateSelects, DeleteSelects, ActivateReads, getterVars
  <2>2. \A r \in Registries : clients'[r] \in {clients[r], NoClient}
    BY <1>6 DEF AdminStep, ActivateSelects, Begin, FailBeforeCommit, FailAfterCommit,
                FinishCreate, FinishWrite, EndWithout, AdminStart, CreateSelects,
                UpdateSelects, DeleteSelects, ActivateReads, invalidate_cache, TypeOK
  <2> QED BY <2>1, <2>2 DEF HistoryKept, BuiltFromActiveRow
<1>7. CASE UNCHANGED vars
  BY <1>7 DEF vars, HistoryKept, BuiltFromActiveRow
<1> QED
  BY <1>1, <1>2, <1>3, <1>4, <1>5, <1>6, <1>7 DEF Next, GetHit, AdminStart, GetterStep

\* A step that neither commits nor ends a write cannot make a registry stale.
LEMMA GettersDoNotStale ==
  ASSUME TypeOK, NEW g \in Getters,
         (\E r \in Registries : GetMiss(g, r)) \/ GetterStep(g),
         NEW r \in Registries, Stale(r)'
  PROVE  Stale(r)
<1>0. rows' = rows /\ req[g] \in Registries
  BY GettersFrame DEF TypeOK
<1>1. CASE \E x \in Registries : GetMiss(g, x)
  <2>1. UNCHANGED <<clients, seen>> /\ pc'[g] # "fetched"
    BY <1>1 DEF GetMiss, TypeOK
  <2>2. \A h \in Getters : h # g => pc'[h] = pc[h] /\ req'[h] = req[h]
    BY <1>1 DEF GetMiss, TypeOK
  <2> QED BY <1>0, <2>1, <2>2 DEF Stale, StaleCache, StaleView
<1>2. CASE LockGranted(g) \/ RowReadFails(g)
  <2>1. UNCHANGED <<clients, seen, req>> /\ pc'[g] # "fetched"
    BY <1>2 DEF LockGranted, RowReadFails, TypeOK
  <2>2. \A h \in Getters : h # g => pc'[h] = pc[h]
    BY <1>2 DEF LockGranted, RowReadFails, TypeOK
  <2> QED BY <1>0, <2>1, <2>2 DEF Stale, StaleCache, StaleView
<1>3. CASE RowRead(g)
  <2>1. UNCHANGED <<clients, req>> /\ seen'[g] = rows[req[g]]
    BY <1>3 DEF RowRead, TypeOK
  <2>2. \A h \in Getters : h # g => pc'[h] = pc[h] /\ seen'[h] = seen[h]
    BY <1>3 DEF RowRead, TypeOK
  <2>3. ~StaleView(g)'
    BY <1>0, <2>1 DEF StaleView, Outdated
  <2> QED BY <1>0, <2>1, <2>2, <2>3 DEF Stale, StaleCache, StaleView
<1>4. CASE BuildClient(g)
  <2>1. req' = req /\ pc'[g] # "fetched" /\ pc[g] = "fetched"
    BY <1>4 DEF BuildClient, TypeOK
  <2>2. \A h \in Getters : h # g => pc'[h] = pc[h] /\ seen'[h] = seen[h]
    BY <1>4 DEF BuildClient, TypeOK
  <2>3. clients'[r] = IF r = req[g] THEN Filled(g) ELSE clients[r]
    BY <1>4 DEF BuildClient, TypeOK
  <2>4. StaleCache(r)' => StaleCache(r) \/ (req[g] = r /\ StaleView(g))
    BY <1>0, <2>1, <2>3 DEF StaleCache, StaleView, Filled
  <2> QED BY <1>0, <2>1, <2>2, <2>4 DEF Stale, StaleView
<1> QED BY <1>1, <1>2, <1>3, <1>4 DEF GetterStep

\* Staleness is always accounted for: a commit is pending until its use case
\* ends, and the end either invalidates or records why it could not help.
LEMMA StaleStep ==
  ASSUME TypeOK, RowsPersist, StaleHasCause, [Next]_vars PROVE StaleHasCause'
<1>1. ASSUME NEW g \in Getters,
             (\E r \in Registries : GetMiss(g, r)) \/ GetterStep(g)
      PROVE  StaleHasCause'
  BY <1>1, GettersDoNotStale, GettersFrame DEF StaleHasCause, Pending
<1>2. ASSUME NEW a \in Admins, AdminStep(a) \/ \E r \in Registries : AdminStart(a, r)
      PROVE  StaleHasCause'
  <2>0. job[a] \in Job /\ job[a].reg \in Registries
    <3>1. job[a] \in Job
      BY DEF TypeOK
    <3> QED BY <3>1 DEF Job
  <2> PICK q \in Registries : q = job[a].reg
    BY <2>0
  <2>1. \A b \in Admins : b # a => apc'[b] = apc[b] /\ job'[b] = job[b]
    BY <1>2, WritersFrame
  <2>2. UNCHANGED <<pc, req, seen>>
    BY <1>2, WritersLeaveLocks
  <2>3. CASE UNCHANGED <<rows, clients, leak>> /\ apc[a] # "committed"
    <3>1. \A r \in Registries : Stale(r)' => Stale(r)
      BY <2>2, <2>3 DEF Stale, StaleCache, StaleView
    <3>2. \A r \in Registries : Pending(r) => Pending(r)'
      BY <2>1, <2>3 DEF Pending
    <3> QED BY <2>3, <3>1, <3>2 DEF StaleHasCause
  <2>4. CASE Commit(a) /\ apc'[a] = "committed"
    <3>1. job'[a] = job[a] /\ leak' = leak /\ clients' = clients
      BY <2>4 DEF Commit, End, TypeOK
    <3>2. \A r \in Registries : r # q => rows'[r] = rows[r]
      BY <2>4 DEF Commit, End, TypeOK
    <3>3. Pending(q)'
      BY <2>4, <3>1 DEF Pending
    <3>4. \A r \in Registries : Pending(r) => Pending(r)'
      <4> SUFFICES ASSUME NEW r \in Registries, Pending(r) PROVE Pending(r)'
        OBVIOUS
      <4>1. PICK b \in Admins : apc[b] = "committed" /\ job[b].reg = r
        BY DEF Pending
      <4>2. b # a
        BY <2>4, <4>1 DEF Commit
      <4> QED BY <2>1, <4>1, <4>2 DEF Pending
    <3>5. \A r \in Registries : r # q /\ Stale(r)' => Stale(r)
      BY <2>2, <3>1, <3>2 DEF Stale, StaleCache, StaleView
    <3> QED BY <3>1, <3>3, <3>4, <3>5 DEF StaleHasCause
  <2>5. CASE FailAfterCommit(a) \/ FinishCreate(a)
    <3>1. PICK cause \in Causes : EndWithout(a, cause)
      BY <2>5 DEF FailAfterCommit, FinishCreate, Causes
    <3>2. rows' = rows /\ clients' = clients
      BY <3>1 DEF EndWithout
    <3>3. \A r \in Registries : Stale(r)' => Stale(r)
      BY <2>2, <3>2 DEF Stale, StaleCache, StaleView
    <3>4. \A r \in Registries : r # job[a].reg => leak'[r] = leak[r]
      BY <3>1 DEF EndWithout, TypeOK
    <3>5. Stale(job[a].reg) => leak'[job[a].reg] # {}
      BY <2>0, <3>1 DEF EndWithout, TypeOK
    <3>6. \A r \in Registries : r # job[a].reg /\ Pending(r) => Pending(r)'
      BY <2>1 DEF Pending
    <3> QED BY <3>3, <3>4, <3>5, <3>6 DEF StaleHasCause
  <2>6. CASE FinishWrite(a)
    <3>1. /\ rows' = rows /\ clients'[q] = NoClient
          /\ \A r \in Registries : r # q =>
                clients'[r] = clients[r] /\ leak'[r] = leak[r]
      BY <2>0, <2>6 DEF FinishWrite, invalidate_cache, TypeOK
    <3>2. (\E g \in Getters : req[g] = q /\ StaleView(g)) => leak'[q] # {}
      BY <2>0, <2>6 DEF FinishWrite, TypeOK
    <3>3. Stale(q)' => \E g \in Getters : req[g] = q /\ StaleView(g)
      BY <2>2, <3>1 DEF Stale, StaleCache, StaleView
    <3>4. \A r \in Registries : r # q /\ Stale(r)' => Stale(r)
      BY <2>2, <3>1 DEF Stale, StaleCache, StaleView
    <3>5. \A r \in Registries : r # q /\ Pending(r) => Pending(r)'
      BY <2>1 DEF Pending
    <3> QED BY <3>1, <3>2, <3>3, <3>4, <3>5 DEF StaleHasCause
  <2>7. ASSUME ~(Commit(a) /\ apc'[a] = "committed"), ~FailAfterCommit(a),
               ~FinishCreate(a), ~FinishWrite(a)
        PROVE  UNCHANGED <<rows, clients, leak>> /\ apc[a] # "committed"
    <3>1. CASE \E r \in Registries : AdminStart(a, r)
      BY <3>1 DEF AdminStart, CreateSelects, UpdateSelects, DeleteSelects, ActivateReads, Begin
    <3>2. CASE Commit(a)
      BY <2>7, <3>2 DEF Commit, TypeOK
    <3>3. CASE ActivateSelects(a) \/ FailBeforeCommit(a)
      BY <3>3 DEF ActivateSelects, Begin, FailBeforeCommit
    <3> QED BY <1>2, <2>7, <3>1, <3>2, <3>3 DEF AdminStep
  <2> QED BY <2>3, <2>4, <2>5, <2>6, <2>7
<1>3. CASE UNCHANGED vars
  BY <1>3 DEF vars, StaleHasCause, Stale, StaleCache, StaleView, Pending
<1> QED
  BY <1>1, <1>2, <1>3 DEF Next, GetHit, AdminStart

------------------------------------------------------------------------------

\* The invariant holds before any request.
LEMMA InitIInv == Init => IInv
<1> SUFFICES ASSUME Init PROVE IInv
  OBVIOUS
<1>1. TypeOK
  <2>1. AnyReg \in Registries /\ (CHOOSE l \in LockIds : TRUE) \in LockIds
    BY NonEmptyAssumption DEF AnyReg
  <2> QED BY <2>1, IdleJobType DEF Init, TypeOK
<1>2. LockDiscipline /\ BuilderFindsCacheEmpty
  BY DEF Init, LockDiscipline, BuilderFindsCacheEmpty, InSection
<1>3. RowsPersist
  BY DEF Init, RowsPersist
<1>4. HistoryKept /\ BuiltFromActiveRow
  BY DEF Init, HistoryKept, BuiltFromActiveRow, Usable
<1>5. StaleHasCause
  BY DEF Init, StaleHasCause, Stale, StaleCache, StaleView
<1> QED BY <1>1, <1>2, <1>3, <1>4, <1>5 DEF IInv

\* The invariant is inductive, for any number of registries and coroutines.
THEOREM Invariance == Spec => []IInv
<1>1. IInv /\ [Next]_vars => IInv'
  BY TypeStep, LockStep, PersistStep, EmptyStep, HistoryStep, StaleStep DEF IInv
<1> QED BY InitIInv, <1>1, PTL DEF Spec

\* Every reachable state is well typed.
THEOREM TypeCorrect == Spec => []TypeOK
<1>1. IInv => TypeOK
  BY DEF IInv
<1> QED BY Invariance, <1>1, PTL

\* At most one coroutine per registry is between the second cache check and the
\* store, whatever invalidations happen meanwhile.
THEOREM MutualExclusion == Spec => []OneBuilder
<1>1. IInv => OneBuilder
  BY OneBuilderFromLocks DEF IInv
<1> QED BY Invariance, <1>1, PTL

\* A client in the cache was built from a row that was active.
THEOREM ClientsFromActiveRows == Spec => []BuiltFromActiveRow
<1>1. IInv => BuiltFromActiveRow
  BY DEF IInv
<1> QED BY Invariance, <1>1, PTL

\* The listed causes are the only ways to a stale client.
THEOREM StaleCausesComplete == Spec => []StaleHasCause
<1>1. IInv => StaleHasCause
  BY DEF IInv
<1> QED BY Invariance, <1>1, PTL

\* A client handed out is not replaced behind its users' backs.
THEOREM ReplacedOnlyAfterInvalidation == Spec => NeverReplaced
<1>1. IInv /\ [Next]_vars =>
        [\A r \in Registries :
           clients[r] # NoClient => clients'[r] \in {clients[r], NoClient}]_vars
  <2> SUFFICES ASSUME IInv, Next
               PROVE  \A r \in Registries :
                        clients[r] # NoClient => clients'[r] \in {clients[r], NoClient}
    OBVIOUS
  <2>1. ASSUME NEW g \in Getters, BuildClient(g)
        PROVE  \A r \in Registries :
                 clients[r] # NoClient => clients'[r] \in {clients[r], NoClient}
    <3>1. clients[req[g]] = NoClient
      BY <2>1 DEF IInv, BuilderFindsCacheEmpty, InSection, BuildClient
    <3> QED BY <2>1, <3>1 DEF BuildClient, IInv, TypeOK
  <2>2. ASSUME NEW a \in Admins, AdminStep(a) \/ \E r \in Registries : AdminStart(a, r)
        PROVE  \A r \in Registries :
                 clients[r] # NoClient => clients'[r] \in {clients[r], NoClient}
    BY <2>2, WritersFrame DEF IInv
  <2>3. ASSUME NEW g \in Getters,
               \/ \E r \in Registries : GetMiss(g, r) \/ GetHit(g, r)
               \/ LockGranted(g) \/ RowRead(g) \/ RowReadFails(g)
        PROVE  clients' = clients
    BY <2>3 DEF GetMiss, GetHit, LockGranted, RowRead, RowReadFails, vars
  <2> QED BY <2>1, <2>2, <2>3 DEF Next, GetterStep, AdminStart
<1> QED BY Invariance, <1>1, PTL DEF Spec, NeverReplaced

-----------------------------------------------------------------------------
(* The migrations: the tables and the revisions.  A table's place is its   *)
(* number in the catalog; the place of an index is that of its table and,  *)
(* in it, its own, so that names are told apart by arithmetic.             *)

\* The place of a table in the catalog, and of the table of an index.
Place(n) ==
    CASE n = "audit_logs" -> 1
      [] n = "consumer_group_rebalance_delta" -> 2
      [] n = "consumer_group_rebalance_rollup" -> 3
      [] n = "consumer_group_snapshot" -> 4
      [] n = "consumer_member_snapshot" -> 5
      [] n = "consumer_partition_snapshot" -> 6
      [] n = "kafka_clusters" -> 7
      [] n = "metrics_snapshots" -> 8
      [] n = "observed_usage" -> 9
      [] n = "policies" -> 10
      [] n = "schema_apply_results" -> 11
      [] n = "schema_artifacts" -> 12
      [] n = "schema_audit_logs" -> 13
      [] n = "schema_metadata" -> 14
      [] n = "schema_plans" -> 15
      [] n = "schema_registries" -> 16
      [] n = "schema_subjects" -> 17
      [] n = "schema_upload_results" -> 18
      [] n = "schema_versions" -> 19
      [] n = "topic_apply_results" -> 20
      [] n = "topic_metadata" -> 21
      [] n = "topic_plans" -> 22
      [] n = "leader_distributions" -> 23
      [] n = "topic_partition_metrics" -> 24
      [] n = "schema_policies" -> 25
      [] n = "approval_requests" -> 26
PlaceOf(x) ==
    CASE x \in {"idx_consumer_rebalance_delta_cluster_group_ts", "ix_delta_cluster_id",
                "ix_delta_group_id", "ix_delta_ts"} -> 2
      [] x \in {"idx_consumer_rebalance_rollup_cluster_group_window",
                "ix_rollup_cluster_id", "ix_rollup_group_id"} -> 3
      [] x \in {"idx_consumer_group_snapshot_cluster_group_ts",
                "idx_consumer_group_snapshot_ts", "ix_group_cluster_id", "ix_group_group_id",
                "ix_group_ts"} -> 4
      [] x \in {"idx_consumer_member_snapshot_cluster_group_ts", "ix_member_cluster_id",
                "ix_member_group_id", "ix_member_ts"} -> 5
      [] x \in {"idx_consumer_partition_snapshot_cluster_group_ts",
                "idx_consumer_partition_snapshot_cluster_topic_ts", "ix_partition_cluster_id",
                "ix_partition_group_id", "ix_partition_topic", "ix_partition_ts"} -> 6
      [] x \in {"idx_cluster_collected", "idx_collected_at_desc",
                "ix_metrics_cluster_id", "ix_metrics_collected_at"} -> 8
      [] x \in {"idx_last_seen"} -> 9
      [] x \in {"idx_env_team", "idx_risk_score"} -> 17
      [] x \in {"idx_canonical_hash", "idx_schema_type", "idx_subject_version"} -> 19
      [] x \in {"idx_snapshot_broker", "ix_leader_snapshot_id"} -> 23
      [] x \in {"idx_snapshot_topic", "idx_topic_name", "ix_topic_snapshot_id",
                "ix_topic_topic_name"} -> 24
      [] x \in {"idx_approval_requests_status_requested_at",
                "idx_approval_requests_resource_type"} -> 26
IndexPlace(x) ==
    CASE x \in {"idx_consumer_rebalance_delta_cluster_group_ts",
                "idx_consumer_rebalance_rollup_cluster_group_window",
                "idx_consumer_group_snapshot_cluster_group_ts",
                "idx_consumer_member_snapshot_cluster_group_ts",
                "idx_consumer_partition_snapshot_cluster_group_ts", "idx_cluster_collected",
                "idx_last_seen", "idx_env_team", "idx_canonical_hash", "idx_snapshot_broker",
                "idx_snapshot_topic", "idx_approval_requests_status_requested_at"} -> 1
      [] x \in {"ix_delta_cluster_id", "ix_rollup_cluster_id",
                "idx_consumer_group_snapshot_ts", "ix_member_cluster_id",
                "idx_consumer_partition_snapshot_cluster_topic_ts", "idx_collected_at_desc",
                "idx_risk_score", "idx_schema_type", "ix_leader_snapshot_id", "idx_topic_name",
                "idx_approval_requests_resource_type"} -> 2
      [] x \in {"ix_delta_group_id", "ix_rollup_group_id", "ix_group_cluster_id",
                "ix_member_group_id", "ix_partition_cluster_id", "ix_metrics_cluster_id",
                "idx_subject_version", "ix_topic_snapshot_id"} -> 3
      [] x \in {"ix_delta_ts", "ix_group_group_id", "ix_member_ts",
                "ix_partition_group_id", "ix_metrics_collected_at", "ix_topic_topic_name"} -> 4
      [] x \in {"ix_group_ts", "ix_partition_topic"} -> 5
      [] x \in {"ix_partition_ts"} -> 6

\* What the tables are called, and where they stand.
LEMMA PlacesAre ==
    /\ audit_logs.name = "audit_logs"
    /\ Place("audit_logs") = 1
    /\ consumer_group_rebalance_delta.name = "consumer_group_rebalance_delta"
    /\ Place("consumer_group_rebalance_delta") = 2
    /\ consumer_group_rebalance_rollup.name = "consumer_group_rebalance_rollup"
    /\ Place("consumer_group_rebalance_rollup") = 3
    /\ consumer_group_snapshot.name = "consumer_group_snapshot"
    /\ Place("consumer_group_snapshot") = 4
    /\ consumer_member_snapshot.name = "consumer_member_snapshot"
    /\ Place("consumer_member_snapshot") = 5
    /\ consumer_partition_snapshot.name = "consumer_partition_snapshot"
    /\ Place("consumer_partition_snapshot") = 6
    /\ kafka_clusters.name = "kafka_clusters"
    /\ Place("kafka_clusters") = 7
    /\ metrics_snapshots.name = "metrics_snapshots"
    /\ Place("metrics_snapshots") = 8
    /\ observed_usage.name = "observed_usage"
    /\ Place("observed_usage") = 9
    /\ policies.name = "policies"
    /\ Place("policies") = 10
    /\ schema_apply_results.name = "schema_apply_results"
    /\ Place("schema_apply_results") = 11
    /\ schema_artifacts.name = "schema_artifacts"
    /\ Place("schema_artifacts") = 12
    /\ schema_audit_logs.name = "schema_audit_logs"
    /\ Place("schema_audit_logs") = 13
    /\ schema_metadata.name = "schema_metadata"
    /\ Place("schema_metadata") = 14
    /\ schema_plans.name = "schema_plans"
    /\ Place("schema_plans") = 15
    /\ schema_registries.name = "schema_registries"
    /\ Place("schema_registries") = 16
    /\ schema_subjects.name = "schema_subjects"
    /\ Place("schema_subjects") = 17
    /\ schema_upload_results.name = "schema_upload_results"
    /\ Place("schema_upload_results") = 18
    /\ schema_versions.name = "schema_versions"
    /\ Place("schema_versions") = 19
    /\ topic_apply_results.name = "topic_apply_results"
    /\ Place("topic_apply_results") = 20
    /\ topic_metadata.name = "topic_metadata"
    /\ Place("topic_metadata") = 21
    /\ topic_plans.name = "topic_plans"
    /\ Place("topic_plans") = 22
    /\ leader_distributions.name = "leader_distributions"
    /\ Place("leader_distributions") = 23
    /\ topic_partition_metrics.name = "topic_partition_metrics"
    /\ Place("topic_partition_metrics") = 24
    /\ schema_policies.name = "schema_policies"
    /\ Place("schema_policies") = 25
    /\ approval_requests.name = "approval_requests"
    /\ Place("approval_requests") = 26
BY DEF Place, Table, WithTypes, Referencing, audit_logs, consumer_group_rebalance_delta,
    consumer_group_rebalance_rollup, consumer_group_snapshot, consumer_member_snapshot,
    consumer_partition_snapshot, kafka_clusters, metrics_snapshots, observed_usage, policies,
    schema_apply_results, schema_artifacts, schema_audit_logs, schema_metadata, schema_plans,
    schema_registries, schema_subjects, schema_upload_results, schema_versions,
    topic_apply_results, topic_metadata, topic_plans, leader_distributions,
    topic_partition_metrics, schema_policies, approval_requests

\* All the tables there ever are.
LEMMA TablesAre ==
    AllTables = {audit_logs, consumer_group_rebalance_delta, consumer_group_rebalance_rollup,
        consumer_group_snapshot, consumer_member_snapshot, consumer_partition_snapshot,
        kafka_clusters, metrics_snapshots, observed_usage, policies, schema_apply_results,
        schema_artifacts, schema_audit_logs, schema_metadata, schema_plans, schema_registries,
        schema_subjects, schema_upload_results, schema_versions, topic_apply_results,
        topic_metadata, topic_plans, leader_distributions, topic_partition_metrics,
        schema_policies, approval_requests}
<1>1. CatalogTables \in [1..24 -> Range(CatalogTables)] /\ Len(CatalogTables) = 24
  BY DEF CatalogTables, Range
<1>2. Range(CatalogTables) = {audit_logs, consumer_group_rebalance_delta,
        consumer_group_rebalance_rollup, consumer_group_snapshot, consumer_member_snapshot,
        consumer_partition_snapshot, kafka_clusters, metrics_snapshots, observed_usage,
        policies, schema_apply_results, schema_artifacts, schema_audit_logs, schema_metadata,
        schema_plans, schema_registries, schema_subjects, schema_upload_results,
        schema_versions, topic_apply_results, topic_metadata, topic_plans, leader_distributions,
        topic_partition_metrics}
  BY DEF CatalogTables, Range
<1> QED BY <1>2 DEF AllTables

\* The indexes of a table are its own, each once.
IndexesOwn(t) ==
    /\ Len(t.indexes) \in Nat /\ DOMAIN t.indexes = 1..Len(t.indexes)
    /\ \A l \in 1..Len(t.indexes) :
         PlaceOf(t.indexes[l]) = Place(t.name) /\ IndexPlace(t.indexes[l]) = l

\* The indexes of every table of the catalog are its own.
LEMMA IndexesAre == \A t \in AllTables : IndexesOwn(t)
<1>2. IndexesOwn(consumer_group_rebalance_delta)
  <2>1. /\ consumer_group_rebalance_delta.name = "consumer_group_rebalance_delta"
        /\ consumer_group_rebalance_delta.indexes =
             <<"idx_consumer_rebalance_delta_cluster_group_ts", "ix_delta_cluster_id", "ix_delta_group_id",
               "ix_delta_ts">>
        /\ Len(consumer_group_rebalance_delta.indexes) = 4
        /\ DOMAIN consumer_group_rebalance_delta.indexes = 1..4
    BY DEF Table, consumer_group_rebalance_delta
  <2>2. Place("consumer_group_rebalance_delta") = 2  BY DEF Place
  <2>3. /\ PlaceOf("idx_consumer_rebalance_delta_cluster_group_ts") = 2
        /\ IndexPlace("idx_consumer_rebalance_delta_cluster_group_ts") = 1
        /\ PlaceOf("ix_delta_cluster_id") = 2
        /\ IndexPlace("ix_delta_cluster_id") = 2
        /\ PlaceOf("ix_delta_group_id") = 2
        /\ IndexPlace("ix_delta_group_id") = 3
        /\ PlaceOf("ix_delta_ts") = 2
        /\ IndexPlace("ix_delta_ts") = 4
    BY DEF PlaceOf, IndexPlace
  <2>4. \A l \in 1..4 : l = 1 \/ l = 2 \/ l = 3 \/ l = 4  OBVIOUS
  <2> QED BY <2>1, <2>2, <2>3, <2>4 DEF IndexesOwn
<1>3. IndexesOwn(consumer_group_rebalance_rollup)
  <2>1. /\ consumer_group_rebalance_rollup.name = "consumer_group_rebalance_rollup"
        /\ consumer_group_rebalance_rollup.indexes =
             <<"idx_consumer_rebalance_rollup_cluster_group_window", "ix_rollup_cluster_id",
               "ix_rollup_group_id">>
        /\ Len(consumer_group_rebalance_rollup.indexes) = 3
        /\ DOMAIN consumer_group_rebalance_rollup.indexes = 1..3
    BY DEF Table, WithTypes, consumer_group_rebalance_rollup
  <2>2. Place("consumer_group_rebalance_rollup") = 3  BY DEF Place
  <2>3. /\ PlaceOf("idx_consumer_rebalance_rollup_cluster_group_window") = 3
        /\ IndexPlace("idx_consumer_rebalance_rollup_cluster_group_window") = 1
        /\ PlaceOf("ix_rollup_cluster_id") = 3
        /\ IndexPlace("ix_rollup_cluster_id") = 2
        /\ PlaceOf("ix_rollup_group_id") = 3
        /\ IndexPlace("ix_rollup_group_id") = 3
    BY DEF PlaceOf, IndexPlace
  <2>4. \A l \in 1..3 : l = 1 \/ l = 2 \/ l = 3  OBVIOUS
  <2> QED BY <2>1, <2>2, <2>3, <2>4 DEF IndexesOwn
<1>4. IndexesOwn(consumer_group_snapshot)
  <2>1. /\ consumer_group_snapshot.name = "consumer_group_snapshot"
        /\ consumer_group_snapshot.indexes =
             <<"idx_consumer_group_snapshot_cluster_group_ts", "idx_consumer_group_snapshot_ts",
               "ix_group_cluster_id", "ix_group_group_id", "ix_group_ts">>
        /\ Len(consumer_group_snapshot.indexes) = 5
        /\ DOMAIN consumer_group_snapshot.indexes = 1..5
    BY DEF Table, consumer_group_snapshot
  <2>2. Place("consumer_group_snapshot") = 4  BY DEF Place
  <2>3. /\ PlaceOf("idx_consumer_group_snapshot_cluster_group_ts") = 4
        /\ IndexPlace("idx_consumer_group_snapshot_cluster_group_ts") = 1
        /\ PlaceOf("idx_consumer_group_snapshot_ts") = 4
        /\ IndexPlace("idx_consumer_group_snapshot_ts") = 2
        /\ PlaceOf("ix_group_cluster_id") = 4
        /\ IndexPlace("ix_group_cluster_id") = 3
        /\ PlaceOf("ix_group_group_id") = 4
        /\ IndexPlace("ix_group_group_id") = 4
        /\ PlaceOf("ix_group_ts") = 4
        /\ IndexPlace("ix_group_ts") = 5
    BY DEF PlaceOf, IndexPlace
  <2>4. \A l \in 1..5 : l = 1 \/ l = 2 \/ l = 3 \/ l = 4 \/ l = 5  OBVIOUS
  <2> QED BY <2>1, <2>2, <2>3, <2>4 DEF IndexesOwn
<1>5. IndexesOwn(consumer_member_snapshot)
  <2>1. /\ consumer_member_snapshot.name = "consumer_member_snapshot"
        /\ consumer_member_snapshot.indexes =
             <<"idx_consumer_member_snapshot_cluster_group_ts", "ix_member_cluster_id", "ix_member_group_id",
               "ix_member_ts">>
        /\ Len(consumer_member_snapshot.indexes) = 4
        /\ DOMAIN consumer_member_snapshot.indexes = 1..4
    BY DEF Table, consumer_member_snapshot
  <2>2. Place("consumer_member_snapshot") = 5  BY DEF Place
  <2>3. /\ PlaceOf("idx_consumer_member_snapshot_cluster_group_ts") = 5
        /\ IndexPlace("idx_consumer_member_snapshot_cluster_group_ts") = 1
        /\ PlaceOf("ix_member_cluster_id") = 5
        /\ IndexPlace("ix_member_cluster_id") = 2
        /\ PlaceOf("ix_member_group_id") = 5
        /\ IndexPlace("ix_member_group_id") = 3
        /\ PlaceOf("ix_member_ts") = 5
        /\ IndexPlace("ix_member_ts") = 4
    BY DEF PlaceOf, IndexPlace
  <2>4. \A l \in 1..4 : l = 1 \/ l = 2 \/ l = 3 \/ l = 4  OBVIOUS
  <2> QED BY <2>1, <2>2, <2>3, <2>4 DEF IndexesOwn
<1>6. IndexesOwn(consumer_partition_snapshot)
  <2>1. /\ consumer_partition_snapshot.name = "consumer_partition_snapshot"
        /\ consumer_partition_snapshot.indexes =
             <<"idx_consumer_partition_snapshot_cluster_group_ts",
               "idx_consumer_partition_snapshot_cluster_topic_ts", "ix_partition_cluster_id",
               "ix_partition_group_id", "ix_partition_topic", "ix_partition_ts">>
        /\ Len(consumer_partition_snapshot.indexes) = 6
        /\ DOMAIN consumer_partition_snapshot.indexes = 1..6
    BY DEF Table, consumer_partition_snapshot
  <2>2. Place("consumer_partition_snapshot") = 6  BY DEF Place
  <2>3. /\ PlaceOf("idx_consumer_partition_snapshot_cluster_group_ts") = 6
        /\ IndexPlace("idx_consumer_partition_snapshot_cluster_group_ts") = 1
        /\ PlaceOf("idx_consumer_partition_snapshot_cluster_topic_ts") = 6
        /\ IndexPlace("idx_consumer_partition_snapshot_cluster_topic_ts") = 2
        /\ PlaceOf("ix_partition_cluster_id") = 6
        /\ IndexPlace("ix_partition_cluster_id") = 3
        /\ PlaceOf("ix_partition_group_id") = 6
        /\ IndexPlace("ix_partition_group_id") = 4
        /\ PlaceOf("ix_partition_topic") = 6
        /\ IndexPlace("ix_partition_topic") = 5
        /\ PlaceOf("ix_partition_ts") = 6
        /\ IndexPlace("ix_partition_ts") = 6
    BY DEF PlaceOf, IndexPlace
  <2>4. \A l \in 1..6 : l = 1 \/ l = 2 \/ l = 3 \/ l = 4 \/ l = 5 \/ l = 6  OBVIOUS
  <2> QED BY <2>1, <2>2, <2>3, <2>4 DEF IndexesOwn
<1>8. IndexesOwn(metrics_snapshots)
  <2>1. /\ metrics_snapshots.name = "metrics_snapshots"
        /\ metrics_snapshots.indexes =
             <<"idx_cluster_collected", "idx_collected_at_desc", "ix_metrics_cluster_id",
               "ix_metrics_collected_at">>
        /\ Len(metrics_snapshots.indexes) = 4
        /\ DOMAIN metrics_snapshots.indexes = 1..4
    BY DEF Table, metrics_snapshots
  <2>2. Place("metrics_snapshots") = 8  BY DEF Place
  <2>3. /\ PlaceOf("idx_cluster_collected") = 8
        /\ IndexPlace("idx_cluster_collected") = 1
        /\ PlaceOf("idx_collected_at_desc") = 8
        /\ IndexPlace("idx_collected_at_desc") = 2
        /\ PlaceOf("ix_metrics_cluster_id") = 8
        /\ IndexPlace("ix_metrics_cluster_id") = 3
        /\ PlaceOf("ix_metrics_collected_at") = 8
        /\ IndexPlace("ix_metrics_collected_at") = 4
    BY DEF PlaceOf, IndexPlace
  <2>4. \A l \in 1..4 : l = 1 \/ l = 2 \/ l = 3 \/ l = 4  OBVIOUS
  <2> QED BY <2>1, <2>2, <2>3, <2>4 DEF IndexesOwn
<1>9. IndexesOwn(observed_usage)
  <2>1. /\ observed_usage.name = "observed_usage"
        /\ observed_usage.indexes =
             <<"idx_last_seen">>
        /\ Len(observed_usage.indexes) = 1
        /\ DOMAIN observed_usage.indexes = 1..1
    BY DEF Table, observed_usage
  <2>2. Place("observed_usage") = 9  BY DEF Place
  <2>3. /\ PlaceOf("idx_last_seen") = 9
        /\ IndexPlace("idx_last_seen") = 1
    BY DEF PlaceOf, IndexPlace
  <2>4. \A l \in 1..1 : l = 1  OBVIOUS
  <2> QED BY <2>1, <2>2, <2>3, <2>4 DEF IndexesOwn
<1>17. IndexesOwn(schema_subjects)
  <2>1. /\ schema_subjects.name = "schema_subjects"
        /\ schema_subjects.indexes =
             <<"idx_env_team", "idx_risk_score">>
        /\ Len(schema_subjects.indexes) = 2
        /\ DOMAIN schema_subjects.indexes = 1..2
    BY DEF Table, schema_subjects
  <2>2. Place("schema_subjects") = 17  BY DEF Place
  <2>3. /\ PlaceOf("idx_env_team") = 17
        /\ IndexPlace("idx_env_team") = 1
        /\ PlaceOf("idx_risk_score") = 17
        /\ IndexPlace("idx_risk_score") = 2
    BY DEF PlaceOf, IndexPlace
  <2>4. \A l \in 1..2 : l = 1 \/ l = 2  OBVIOUS
  <2> QED BY <2>1, <2>2, <2>3, <2>4 DEF IndexesOwn
<1>19. IndexesOwn(schema_versions)
  <2>1. /\ schema_versions.name = "schema_versions"
        /\ schema_versions.indexes =
             <<"idx_canonical_hash", "idx_schema_type", "idx_subject_version">>
        /\ Len(schema_versions.indexes) = 3
        /\ DOMAIN schema_versions.indexes = 1..3
    BY DEF Table, schema_versions
  <2>2. Place("schema_versions") = 19  BY DEF Place
  <2>3. /\ PlaceOf("idx_canonical_hash") = 19
        /\ IndexPlace("idx_canonical_hash") = 1
        /\ PlaceOf("idx_schema_type") = 19
        /\ IndexPlace("idx_schema_type") = 2
        /\ PlaceOf("idx_subject_version") = 19
        /\ IndexPlace("idx_subject_version") = 3
    BY DEF PlaceOf, IndexPlace
  <2>4. \A l \in 1..3 : l = 1 \/ l = 2 \/ l = 3  OBVIOUS
  <2> QED BY <2>1, <2>2, <2>3, <2>4 DEF IndexesOwn
<1>23. IndexesOwn(leader_distributions)
  <2>1. /\ leader_distributions.name = "leader_distributions"
        /\ leader_distributions.indexes =
             <<"idx_snapshot_broker", "ix_leader_snapshot_id">>
        /\ Len(leader_distributions.indexes) = 2
        /\ DOMAIN leader_distributions.indexes = 1..2
    BY DEF Table, Referencing, leader_distributions
  <2>2. Place("leader_distributions") = 23  BY DEF Place
  <2>3. /\ PlaceOf("idx_snapshot_broker") = 23
        /\ IndexPlace("idx_snapshot_broker") = 1
        /\ PlaceOf("ix_leader_snapshot_id") = 23
        /\ IndexPlace("ix_leader_snapshot_id") = 2
    BY DEF PlaceOf, IndexPlace
  <2>4. \A l \in 1..2 : l = 1 \/ l = 2  OBVIOUS
  <2> QED BY <2>1, <2>2, <2>3, <2>4 DEF IndexesOwn
<1>24. IndexesOwn(topic_partition_metrics)
  <2>1. /\ topic_partition_metrics.name = "topic_partition_metrics"
        /\ topic_partition_metrics.indexes =
             <<"idx_snapshot_topic", "idx_topic_name", "ix_topic_snapshot_id", "ix_topic_topic_name">>
        /\ Len(topic_partition_metrics.indexes) = 4
        /\ DOMAIN topic_partition_metrics.indexes = 1..4
    BY DEF Table, Referencing, topic_partition_metrics
  <2>2. Place("topic_partition_metrics") = 24  BY DEF Place
  <2>3. /\ PlaceOf("idx_snapshot_topic") = 24
        /\ IndexPlace("idx_snapshot_topic") = 1
        /\ PlaceOf("idx_topic_name") = 24
        /\ IndexPlace("idx_topic_name") = 2
        /\ PlaceOf("ix_topic_snapshot_id") = 24
        /\ IndexPlace("ix_topic_snapshot_id") = 3
        /\ PlaceOf("ix_topic_topic_name") = 24
        /\ IndexPlace("ix_topic_topic_name") = 4
    BY DEF PlaceOf, IndexPlace
  <2>4. \A l \in 1..4 : l = 1 \/ l = 2 \/ l = 3 \/ l = 4  OBVIOUS
  <2> QED BY <2>1, <2>2, <2>3, <2>4 DEF IndexesOwn
<1>26. IndexesOwn(approval_requests)
  <2>1. /\ approval_requests.name = "approval_requests"
        /\ approval_requests.indexes =
             <<"idx_approval_requests_status_requested_at", "idx_approval_requests_resource_type">>
        /\ Len(approval_requests.indexes) = 2
        /\ DOMAIN approval_requests.indexes = 1..2
    BY DEF Table, approval_requests
  <2>2. Place("approval_requests") = 26  BY DEF Place
  <2>3. /\ PlaceOf("idx_approval_requests_status_requested_at") = 26
        /\ IndexPlace("idx_approval_requests_status_requested_at") = 1
        /\ PlaceOf("idx_approval_requests_resource_type") = 26
        /\ IndexPlace("idx_approval_requests_resource_type") = 2
    BY DEF PlaceOf, IndexPlace
  <2>4. \A l \in 1..2 : l = 1 \/ l = 2  OBVIOUS
  <2> QED BY <2>1, <2>2, <2>3, <2>4 DEF IndexesOwn
<1>30. /\ audit_logs.indexes = <<>>
       /\ kafka_clusters.indexes = <<>>
       /\ policies.indexes = <<>>
       /\ schema_apply_results.indexes = <<>>
       /\ schema_artifacts.indexes = <<>>
       /\ schema_audit_logs.indexes = <<>>
       /\ schema_metadata.indexes = <<>>
       /\ schema_plans.indexes = <<>>
       /\ schema_registries.indexes = <<>>
       /\ schema_upload_results.indexes = <<>>
       /\ topic_apply_results.indexes = <<>>
       /\ topic_metadata.indexes = <<>>
       /\ topic_plans.indexes = <<>>
       /\ schema_policies.indexes = <<>>
  BY DEF Table, WithTypes, audit_logs, kafka_clusters, policies, schema_apply_results,
         schema_artifacts, schema_audit_logs, schema_metadata, schema_plans, schema_registries,
         schema_upload_results, topic_apply_results, topic_metadata, topic_plans,
         schema_policies
<1>31. \A t : t.indexes = <<>> => IndexesOwn(t)  BY DEF IndexesOwn
<1> QED BY <1>2, <1>3, <1>4, <1>5, <1>6, <1>8, <1>9, <1>17, <1>19, <1>23, <1>24, <1>26, <1>30,
        <1>31, TablesAre

\* A table is known by its name, and its index by its own.
TableAt(p) == (CatalogTables \o <<schema_policies, approval_requests>>)[p]

\* A name, of a table or of an index, tells the table.
LEMMA NamesOwn ==
    /\ \A a, b \in AllTables : a.name = b.name => a = b
    /\ \A a, b \in AllTables : \A x \in Range(a.indexes) : x \in Range(b.indexes) => a = b
    /\ \A i \in 1..24 : CatalogTables[i] \in AllTables /\ Place(CatalogTables[i].name) = i
    /\ Len(CatalogTables) = 24 /\ DOMAIN CatalogTables = 1..24
<1>1. /\ Len(CatalogTables) = 24 /\ DOMAIN CatalogTables = 1..24
      /\ \A i \in 1..24 : CatalogTables[i] \in AllTables
  BY DEF CatalogTables, AllTables, Range
<1>2. \A i \in 1..24 : Place(CatalogTables[i].name) = i
  <2> SUFFICES ASSUME NEW i \in 1..24 PROVE Place(CatalogTables[i].name) = i
    OBVIOUS
  <2>1. \/ i = 1 \/ i = 2 \/ i = 3 \/ i = 4 \/ i = 5 \/ i = 6 \/ i = 7 \/ i = 8 \/ i = 9 \/ i = 10 \/ i = 11 \/ i = 12
        \/ i = 13 \/ i = 14 \/ i = 15 \/ i = 16 \/ i = 17 \/ i = 18 \/ i = 19 \/ i = 20 \/ i = 21 \/ i = 22 \/ i = 23 \/ i = 24
    OBVIOUS
  <2> QED BY <2>1, PlacesAre DEF CatalogTables
<1>3. \A t \in AllTables : Place(t.name) \in Nat /\
         (t \in {schema_policies, approval_requests} \/ (Place(t.name) \in 1..24 /\ CatalogTables[Place(t.name)] = t))
  BY <1>1, <1>2, PlacesAre DEF AllTables, Range
<1>4. \A a, b \in AllTables : Place(a.name) = Place(b.name) => a = b
  <2>1. Place(schema_policies.name) = 25 /\ Place(approval_requests.name) = 26  BY PlacesAre
  <2> QED BY <1>3, <2>1
<1>5. \A a \in AllTables : \A x \in Range(a.indexes) : PlaceOf(x) = Place(a.name)
  BY IndexesAre DEF IndexesOwn, Range
<1> QED BY <1>1, <1>2, <1>4, <1>5

\* Which tables refer to another, keep an index for it, have types, lose an index.
Kind(t) ==
    /\ t.references = IF t.name \in {"leader_distributions", "topic_partition_metrics"}
                      THEN {"metrics_snapshots"} ELSE {}
    /\ t.cover # {} => t.name \in {"leader_distributions", "topic_partition_metrics"}
    /\ t.types = IF t.name = "consumer_group_rebalance_rollup" THEN {"rollup_window_enum"}
                 ELSE IF t.name = "policies" THEN {"policy_type_enum", "policy_status_enum"} ELSE {}

\* The references, the indexes kept for them and the types, table by table.
LEMMA TableKinds ==
    \A t \in AllTables : Kind(t) /\ (Forgotten \in Range(t.indexes) => t.name = "metrics_snapshots")
<1>1. \A t \in AllTables : Kind(t)
  <2>1. /\ Kind(audit_logs) /\ Kind(consumer_group_rebalance_delta) /\ Kind(consumer_group_snapshot)
      /\ Kind(consumer_member_snapshot) /\ Kind(consumer_partition_snapshot) /\ Kind(kafka_clusters)
      /\ Kind(metrics_snapshots) /\ Kind(observed_usage) /\ Kind(schema_apply_results)
      /\ Kind(schema_artifacts) /\ Kind(schema_audit_logs) /\ Kind(schema_metadata)
      /\ Kind(schema_plans) /\ Kind(schema_registries) /\ Kind(schema_subjects)
      /\ Kind(schema_upload_results) /\ Kind(schema_versions) /\ Kind(topic_apply_results)
      /\ Kind(topic_metadata) /\ Kind(topic_plans) /\ Kind(schema_policies)
      /\ Kind(approval_requests)
    BY PlacesAre
       DEF Kind, Table, audit_logs, consumer_group_rebalance_delta, consumer_group_snapshot,
           consumer_member_snapshot,
            consumer_partition_snapshot, kafka_clusters, metrics_snapshots, observed_usage,
            schema_apply_results, schema_artifacts, schema_audit_logs, schema_metadata,
            schema_plans, schema_registries, schema_subjects, schema_upload_results,
            schema_versions, topic_apply_results, topic_metadata, topic_plans, schema_policies,
            approval_requests
  <2>2. Kind(leader_distributions) /\ Kind(topic_partition_metrics)
    BY DEF Kind, Table, Referencing, leader_distributions, topic_partition_metrics
  <2>3. Kind(policies) /\ Kind(consumer_group_rebalance_rollup)
    BY DEF Kind, Table, WithTypes, policies, consumer_group_rebalance_rollup
  <2> QED BY <2>1, <2>2, <2>3, TablesAre
<1>2. \A t \in AllTables : Forgotten \in Range(t.indexes) => t.name = "metrics_snapshots"
  <2>1. PlaceOf(Forgotten) = 8  BY DEF Forgotten, PlaceOf
  <2>2. \A t \in AllTables : \A x \in Range(t.indexes) : PlaceOf(x) = Place(t.name)
    BY IndexesAre DEF IndexesOwn, Range
  <2>3. metrics_snapshots \in AllTables /\ Place(metrics_snapshots.name) = 8 /\ metrics_snapshots.name = "metrics_snapshots"
    BY TablesAre, PlacesAre
  <2>4. \A t \in AllTables : Place(t.name) = 8 => t.name = "metrics_snapshots"
    BY TablesAre, PlacesAre
  <2> QED BY <2>1, <2>2, <2>4
<1> QED BY <1>1, <1>2

\* What a script lists: tables of the catalog with their own indexes, each table
\* once, a table that refers to another created after it and dropped before it.
Matches(t) ==
    /\ Len(t.indexes) \in Nat /\ DOMAIN t.indexes = 1..Len(t.indexes)
    /\ \A k, l \in 1..Len(t.indexes) : t.indexes[k] = t.indexes[l] => k = l
    /\ \E a \in AllTables :
         /\ a.name = t.name /\ a.references = t.references /\ a.cover = t.cover /\ a.types = t.types
         /\ \A x \in Range(t.indexes) : x \in Range(a.indexes)
         /\ \A x \in Range(a.indexes) \ {Forgotten} : x \in Range(t.indexes)
Ordered(ts) ==
    /\ Len(ts) \in Nat \ {0} /\ DOMAIN ts = 1..Len(ts)
    /\ \A i \in 1..Len(ts) : Matches(ts[i])
    /\ \A i, j \in 1..Len(ts) : ts[i].name = ts[j].name => i = j
WellFormed(script) ==
    LET ts == script.tables IN
    /\ script.op \in {"create", "drop"}
    /\ Ordered(ts)
    /\ \A a \in AllTables : \A m \in a.references : \A i \in 1..Len(ts) :
         IF script.op = "create"
         THEN /\ ts[i].name = a.name => \E k \in 1..Len(ts) : k < i /\ ts[k].name = m
              /\ ts[i].name = m => \E k \in 1..Len(ts) : i < k /\ ts[k].name = a.name
         ELSE /\ ts[i].name = m => \E k \in 1..Len(ts) : k < i /\ ts[k].name = a.name
              /\ ts[i].name = a.name => \E k \in 1..Len(ts) : i < k /\ ts[k].name = m

\* A table of the catalog may stand in a script as it is.
LEMMA OwnMatches == \A t \in AllTables : Matches(t)
BY IndexesAre DEF Matches, IndexesOwn

\* So may metrics_snapshots without the index that 6f5f0c8f6c1f forgets.
LEMMA AgainMatches == Matches(metrics_snapshots_again)
<1> DEFINE a == metrics_snapshots
           t == metrics_snapshots_again
<1>1. /\ a \in AllTables /\ t.name = a.name /\ t.references = a.references
      /\ t.cover = a.cover /\ t.types = a.types
  BY TablesAre DEF metrics_snapshots, metrics_snapshots_again, Table
<1>2. /\ Len(t.indexes) = 3 /\ DOMAIN t.indexes = 1..3
      /\ t.indexes[1] = "idx_cluster_collected" /\ t.indexes[2] = "ix_metrics_cluster_id"
      /\ t.indexes[3] = "ix_metrics_collected_at"
  BY DEF metrics_snapshots_again, Table
<1>3. /\ Len(a.indexes) = 4 /\ DOMAIN a.indexes = 1..4
      /\ a.indexes[1] = "idx_cluster_collected" /\ a.indexes[2] = Forgotten
      /\ a.indexes[3] = "ix_metrics_cluster_id" /\ a.indexes[4] = "ix_metrics_collected_at"
  BY DEF metrics_snapshots, Table, Forgotten
<1>4. \A l : (l \in 1..3 => l = 1 \/ l = 2 \/ l = 3) /\ (l \in 1..4 => l = 1 \/ l = 2 \/ l = 3 \/ l = 4)
  OBVIOUS
<1> HIDE DEF a, t
<1>5. \A x \in Range(t.indexes) : x \in Range(a.indexes)
  BY <1>2, <1>3, <1>4 DEF Range
<1>6. \A x \in Range(a.indexes) \ {Forgotten} : x \in Range(t.indexes)
  BY <1>2, <1>3, <1>4 DEF Range
<1>7. Len(t.indexes) \in Nat /\ \A k, l \in 1..Len(t.indexes) : t.indexes[k] = t.indexes[l] => k = l
  BY <1>2, <1>4
<1> QED BY <1>1, <1>2, <1>5, <1>6, <1>7 DEF Matches, t

\* References go from two tables to one.
LEMMA ReferencesAre ==
    \A a \in AllTables : \A m \in a.references :
      m = "metrics_snapshots" /\ a.name \in {"leader_distributions", "topic_partition_metrics"}
BY TableKinds DEF Kind

\* The scripts are well formed, and whose tables they are.
LEMMA FirstUpgrade == WellFormed(upgrade_df9847a07952)
<1> DEFINE ts == CatalogTables
<1>1. upgrade_df9847a07952.op = "create" /\ upgrade_df9847a07952.tables = ts
  BY DEF upgrade_df9847a07952, Creating
<1>2. /\ Len(ts) = 24 /\ DOMAIN ts = 1..24
      /\ \A i \in 1..24 : ts[i] \in AllTables /\ Place(ts[i].name) = i
  BY NamesOwn
<1>3. ts[8].name = "metrics_snapshots" /\ ts[23].name = "leader_distributions" /\ ts[24].name = "topic_partition_metrics"
  BY PlacesAre DEF CatalogTables
<1> HIDE DEF ts
<1>4. Ordered(ts)  BY <1>2, OwnMatches DEF Ordered
<1>5. ASSUME NEW a \in AllTables, NEW m \in a.references, NEW i \in 1..Len(ts)
      PROVE  /\ ts[i].name = a.name => \E k \in 1..Len(ts) : k < i /\ ts[k].name = m
             /\ ts[i].name = m => \E k \in 1..Len(ts) : i < k /\ ts[k].name = a.name
  <2>1. m = "metrics_snapshots" /\ a.name \in {"leader_distributions", "topic_partition_metrics"}
    BY ReferencesAre
  <2>2. /\ ts[i].name = "metrics_snapshots" => i = 8
        /\ ts[i].name = "leader_distributions" => i = 23
        /\ ts[i].name = "topic_partition_metrics" => i = 24
    BY <1>2, PlacesAre
  <2>3. 8 \in 1..Len(ts) /\ 23 \in 1..Len(ts) /\ 24 \in 1..Len(ts) /\ 8 < 23 /\ 8 < 24  BY <1>2
  <2> QED BY <1>3, <2>1, <2>2, <2>3
<1> QED BY <1>1, <1>4, <1>5 DEF WellFormed

\* The reverse of the first upgrade.
LEMMA FirstDowngrade ==
    WellFormed(downgrade_df9847a07952) /\ TablesOf(downgrade_df9847a07952) = TablesOf(upgrade_df9847a07952)
<1> DEFINE ts == CatalogTables
           rs == Reverse(ts)
<1>1. /\ downgrade_df9847a07952.op = "drop" /\ downgrade_df9847a07952.tables = rs
      /\ upgrade_df9847a07952.tables = ts
  BY DEF downgrade_df9847a07952, Dropping, upgrade_df9847a07952, Creating
<1>2. /\ Len(ts) = 24 /\ DOMAIN ts = 1..24
      /\ \A i \in 1..24 : ts[i] \in AllTables /\ Place(ts[i].name) = i
  BY NamesOwn
<1>3. ts[8].name = "metrics_snapshots" /\ ts[23].name = "leader_distributions" /\ ts[24].name = "topic_partition_metrics"
  BY PlacesAre DEF CatalogTables
<1>4. rs = [i \in 1..24 |-> ts[24 - i + 1]]  BY <1>2 DEF Reverse
<1> HIDE DEF ts, rs
<1>5. \A i \in 1..24 : 24 - i + 1 \in 1..24 /\ 24 - (24 - i + 1) + 1 = i  OBVIOUS
<1>6. Len(rs) = 24 /\ DOMAIN rs = 1..24
  <2>1. rs \in [1..24 -> AllTables]  BY <1>2, <1>4, <1>5
  <2>2. rs \in Seq(AllTables)  BY <2>1, SeqDef
  <2> QED BY <2>1, <2>2, LenProperties
<1>7. \A i \in 1..24 : rs[i] \in AllTables /\ Place(rs[i].name) = 24 - i + 1
  BY <1>2, <1>4, <1>5
<1>8. Ordered(rs)
  <2>2. \A i, j \in 1..24 : 24 - i + 1 = 24 - j + 1 => i = j  OBVIOUS
  <2>1. \A i, j \in 1..24 : rs[i].name = rs[j].name => i = j  BY <1>7, <2>2
  <2>3. \A i \in 1..24 : Matches(rs[i])
    <3>1. \A i \in 1..24 : rs[i] \in AllTables  BY <1>7
    <3> QED BY <3>1, OwnMatches
  <2>4. Len(rs) \in Nat \ {0} /\ DOMAIN rs = 1..Len(rs) /\ 1..Len(rs) = 1..24  BY <1>6
  <2>5. \A i \in 1..Len(rs) : Matches(rs[i])  BY <2>3, <2>4
  <2>6. \A i, j \in 1..Len(rs) : rs[i].name = rs[j].name => i = j  BY <2>1, <2>4
  <2> QED BY <2>4, <2>5, <2>6 DEF Ordered
<1>9. ASSUME NEW a \in AllTables, NEW m \in a.references, NEW i \in 1..Len(rs)
      PROVE  /\ rs[i].name = m => \E k \in 1..Len(rs) : k < i /\ rs[k].name = a.name
             /\ rs[i].name = a.name => \E k \in 1..Len(rs) : i < k /\ rs[k].name = m
  <2>1. m = "metrics_snapshots" /\ a.name \in {"leader_distributions", "topic_partition_metrics"}
    BY ReferencesAre
  <2>2. /\ rs[i].name = "metrics_snapshots" => i = 17
        /\ rs[i].name = "leader_distributions" => i = 2
        /\ rs[i].name = "topic_partition_metrics" => i = 1
    BY <1>6, <1>7, PlacesAre
  <2>3. rs[17] = ts[8] /\ rs[2] = ts[23] /\ rs[1] = ts[24]  BY <1>4
  <2>4. 17 \in 1..Len(rs) /\ 2 \in 1..Len(rs) /\ 1 \in 1..Len(rs) /\ 1 < 17 /\ 2 < 17  BY <1>6
  <2> QED BY <1>3, <2>1, <2>2, <2>3, <2>4
<1>10. {rs[i].name : i \in 1..24} = {ts[i].name : i \in 1..24}  BY <1>4, <1>5
<1>11. TablesOf(downgrade_df9847a07952) = TablesOf(upgrade_df9847a07952)
  BY <1>1, <1>2, <1>6, <1>10 DEF TablesOf
<1>12. WellFormed(downgrade_df9847a07952)  BY <1>1, <1>8, <1>9 DEF WellFormed
<1> QED BY <1>11, <1>12

\* The two revisions of one table.
LEMMA SingleTable ==
    ASSUME NEW t \in {schema_policies, approval_requests}
    PROVE  /\ WellFormed(Creating(<<t>>)) /\ WellFormed(Dropping(<<t>>))
           /\ TablesOf(Creating(<<t>>)) = {t.name} /\ TablesOf(Dropping(<<t>>)) = {t.name}
<1>1. t \in AllTables /\ t.name \notin {"metrics_snapshots", "leader_distributions", "topic_partition_metrics"}
  BY TablesAre, PlacesAre
<1>2. /\ Creating(<<t>>).op = "create" /\ Creating(<<t>>).tables = <<t>>
      /\ Dropping(<<t>>).op = "drop" /\ Dropping(<<t>>).tables = <<t>>
  BY DEF Creating, Dropping
<1>3. Len(<<t>>) = 1 /\ DOMAIN <<t>> = 1..1 /\ <<t>>[1] = t /\ \A i \in 1..1 : i = 1  OBVIOUS
<1>4. Matches(t)  BY <1>1, OwnMatches
<1>5. Ordered(<<t>>)  BY <1>3, <1>4 DEF Ordered
<1>6. \A a \in AllTables : \A m \in a.references : t.name # a.name /\ t.name # m
  BY <1>1, ReferencesAre
<1> QED BY <1>2, <1>3, <1>5, <1>6 DEF WellFormed, TablesOf

\* The index that 6f5f0c8f6c1f does not know.
LEMMA AgainForgets == Forgotten \notin Range(metrics_snapshots_again.indexes)
<1>1. /\ DOMAIN metrics_snapshots_again.indexes = 1..3
      /\ metrics_snapshots_again.indexes[1] = "idx_cluster_collected"
      /\ metrics_snapshots_again.indexes[2] = "ix_metrics_cluster_id"
      /\ metrics_snapshots_again.indexes[3] = "ix_metrics_collected_at"
  BY DEF metrics_snapshots_again, Table
<1>2. \A l \in 1..3 : l = 1 \/ l = 2 \/ l = 3  OBVIOUS
<1> QED BY <1>1, <1>2 DEF Range, Forgotten

\* The tables of the topic module, which the last upgrade drops.
TopicTables ==
    {"audit_logs", "policies", "topic_metadata", "topic_plans", "topic_apply_results",
     "metrics_snapshots", "leader_distributions", "topic_partition_metrics"}

\* The last upgrade drops the tables of the topic module.
LEMMA LastUpgrade ==
    /\ WellFormed(upgrade_6f5f0c8f6c1f) /\ TablesOf(upgrade_6f5f0c8f6c1f) = TopicTables
    /\ upgrade_6f5f0c8f6c1f.op = "drop"
    /\ \A i \in DOMAIN upgrade_6f5f0c8f6c1f.tables :
         upgrade_6f5f0c8f6c1f.tables[i].name = "metrics_snapshots" =>
           Forgotten \notin Range(upgrade_6f5f0c8f6c1f.tables[i].indexes)
<1> DEFINE ts == upgrade_6f5f0c8f6c1f.tables
<1>1. /\ upgrade_6f5f0c8f6c1f.op = "drop"
      /\ Len(ts) = 8 /\ DOMAIN ts = 1..8
      /\ ts[1] = topic_partition_metrics /\ ts[2] = leader_distributions /\ ts[3] = metrics_snapshots_again
      /\ ts[4] = topic_apply_results /\ ts[5] = topic_plans /\ ts[6] = topic_metadata
      /\ ts[7] = policies /\ ts[8] = audit_logs
  BY DEF upgrade_6f5f0c8f6c1f, Dropping
<1>2. metrics_snapshots_again.name = "metrics_snapshots"  BY DEF metrics_snapshots_again, Table
<1> HIDE DEF ts
<1>3. /\ ts[1].name = "topic_partition_metrics" /\ ts[2].name = "leader_distributions"
      /\ ts[3].name = "metrics_snapshots" /\ ts[4].name = "topic_apply_results"
      /\ ts[5].name = "topic_plans" /\ ts[6].name = "topic_metadata"
      /\ ts[7].name = "policies" /\ ts[8].name = "audit_logs"
  BY <1>1, <1>2, PlacesAre
<1>4. \A i \in 1..8 : i = 1 \/ i = 2 \/ i = 3 \/ i = 4 \/ i = 5 \/ i = 6 \/ i = 7 \/ i = 8  OBVIOUS
<1>5. Ordered(ts)
  <2>1. \A i \in 1..8 : Matches(ts[i])  BY <1>1, <1>4, AgainMatches, OwnMatches, TablesAre
  <2>2. \A i, j \in 1..8 : ts[i].name = ts[j].name => i = j  BY <1>3, <1>4
  <2> QED BY <1>1, <2>1, <2>2 DEF Ordered
<1>6. ASSUME NEW a \in AllTables, NEW m \in a.references, NEW i \in 1..Len(ts)
      PROVE  /\ ts[i].name = m => \E k \in 1..Len(ts) : k < i /\ ts[k].name = a.name
             /\ ts[i].name = a.name => \E k \in 1..Len(ts) : i < k /\ ts[k].name = m
  <2>1. m = "metrics_snapshots" /\ a.name \in {"leader_distributions", "topic_partition_metrics"}
    BY ReferencesAre
  <2>2. /\ ts[i].name = "metrics_snapshots" => i = 3
        /\ ts[i].name \in {"leader_distributions", "topic_partition_metrics"} => i = 1 \/ i = 2
    BY <1>1, <1>3, <1>4
  <2>3. 1 \in 1..Len(ts) /\ 2 \in 1..Len(ts) /\ 3 \in 1..Len(ts) /\ 1 < 3 /\ 2 < 3  BY <1>1
  <2> QED BY <1>3, <2>1, <2>2, <2>3
<1>7. TablesOf(upgrade_6f5f0c8f6c1f) = TopicTables
  BY <1>1, <1>3, <1>4 DEF TablesOf, TopicTables, ts
<1>8. \A i \in 1..8 : ts[i].name = "metrics_snapshots" => Forgotten \notin Range(ts[i].indexes)
  BY <1>1, <1>3, <1>4, AgainForgets
<1> QED BY <1>1, <1>5, <1>6, <1>7, <1>8 DEF WellFormed, ts

\* The last downgrade creates them again, audit_logs and policies first.
LEMMA LastDowngrade ==
    /\ WellFormed(downgrade_6f5f0c8f6c1f) /\ TablesOf(downgrade_6f5f0c8f6c1f) = TopicTables
    /\ downgrade_6f5f0c8f6c1f.op = "create"
    /\ downgrade_6f5f0c8f6c1f.tables[1].indexes = <<>> /\ downgrade_6f5f0c8f6c1f.tables[2] = policies
    /\ \A i \in DOMAIN downgrade_6f5f0c8f6c1f.tables :
         Forgotten \notin Range(downgrade_6f5f0c8f6c1f.tables[i].indexes)
<1> DEFINE ts == downgrade_6f5f0c8f6c1f.tables
<1>1. /\ downgrade_6f5f0c8f6c1f.op = "create"
      /\ Len(ts) = 8 /\ DOMAIN ts = 1..8
      /\ ts[1] = audit_logs /\ ts[2] = policies /\ ts[3] = topic_metadata /\ ts[4] = topic_plans
      /\ ts[5] = topic_apply_results /\ ts[6] = metrics_snapshots_again
      /\ ts[7] = leader_distributions /\ ts[8] = topic_partition_metrics
  BY DEF downgrade_6f5f0c8f6c1f, Creating
<1>2. metrics_snapshots_again.name = "metrics_snapshots"  BY DEF metrics_snapshots_again, Table
<1> HIDE DEF ts
<1>3. /\ ts[1].name = "audit_logs" /\ ts[2].name = "policies" /\ ts[3].name = "topic_metadata"
      /\ ts[4].name = "topic_plans" /\ ts[5].name = "topic_apply_results"
      /\ ts[6].name = "metrics_snapshots" /\ ts[7].name = "leader_distributions"
      /\ ts[8].name = "topic_partition_metrics"
  BY <1>1, <1>2, PlacesAre
<1>4. \A i \in 1..8 : i = 1 \/ i = 2 \/ i = 3 \/ i = 4 \/ i = 5 \/ i = 6 \/ i = 7 \/ i = 8  OBVIOUS
<1>5. Ordered(ts)
  <2>1. \A i \in 1..8 : Matches(ts[i])  BY <1>1, <1>4, AgainMatches, OwnMatches, TablesAre
  <2>2. \A i, j \in 1..8 : ts[i].name = ts[j].name => i = j  BY <1>3, <1>4
  <2> QED BY <1>1, <2>1, <2>2 DEF Ordered
<1>6. ASSUME NEW a \in AllTables, NEW m \in a.references, NEW i \in 1..Len(ts)
      PROVE  /\ ts[i].name = a.name => \E k \in 1..Len(ts) : k < i /\ ts[k].name = m
             /\ ts[i].name = m => \E k \in 1..Len(ts) : i < k /\ ts[k].name = a.name
  <2>1. m = "metrics_snapshots" /\ a.name \in {"leader_distributions", "topic_partition_metrics"}
    BY ReferencesAre
  <2>2. /\ ts[i].name = "metrics_snapshots" => i = 6
        /\ ts[i].name \in {"leader_distributions", "topic_partition_metrics"} => i = 7 \/ i = 8
    BY <1>1, <1>3, <1>4
  <2>3. 6 \in 1..Len(ts) /\ 7 \in 1..Len(ts) /\ 8 \in 1..Len(ts) /\ 6 < 7 /\ 6 < 8  BY <1>1
  <2> QED BY <1>3, <2>1, <2>2, <2>3
<1>7. TablesOf(downgrade_6f5f0c8f6c1f) = TopicTables
  BY <1>1, <1>3, <1>4 DEF TablesOf, TopicTables, ts
<1>8. \A i \in 1..8 : Forgotten \notin Range(ts[i].indexes)
  <2>1. Forgotten \notin Range(metrics_snapshots_again.indexes)  BY AgainForgets
  <2>2. \A t \in AllTables : t.name # "metrics_snapshots" => Forgotten \notin Range(t.indexes)
    BY TableKinds
  <2> QED BY <1>1, <1>3, <1>4, <2>1, <2>2, TablesAre
<1>9. ts[1].indexes = <<>>  BY <1>1 DEF audit_logs, Table
<1>10. WellFormed(downgrade_6f5f0c8f6c1f)
  <2>1. downgrade_6f5f0c8f6c1f.op = "create" /\ downgrade_6f5f0c8f6c1f.tables = ts  BY <1>1 DEF ts
  <2> QED BY <1>5, <1>6, <2>1 DEF WellFormed
<1> QED BY <1>1, <1>7, <1>8, <1>9, <1>10 DEF ts

\* The tables at each revision.
CatalogNames == TablesOf(upgrade_df9847a07952)

\* Computed from the chain of down_revision.
LEMMA RevisionsAre ==
    /\ HEAD = 4
    /\ TablesAt(0) = {} /\ TablesAt(1) = CatalogNames
    /\ TablesAt(2) = CatalogNames \cup {"schema_policies"}
    /\ TablesAt(3) = CatalogNames \cup {"schema_policies", "approval_requests"}
    /\ TablesAt(4) = (CatalogNames \cup {"schema_policies", "approval_requests"}) \ TopicTables
    /\ TopicTables \subseteq CatalogNames
    /\ "schema_policies" \notin CatalogNames /\ "approval_requests" \notin CatalogNames
    /\ TableNames = CatalogNames \cup {"schema_policies", "approval_requests"}
<1>1. /\ HEAD = 4
      /\ upgrade[1] = upgrade_df9847a07952 /\ upgrade[2] = upgrade_feeb4168b5fc
      /\ upgrade[3] = upgrade_a6f4f39b9c12 /\ upgrade[4] = upgrade_6f5f0c8f6c1f
  BY DEF upgrade, HEAD
<1>2. /\ upgrade[1].op = "create" /\ upgrade[2].op = "create"
      /\ upgrade[3].op = "create" /\ upgrade[4].op = "drop"
  BY <1>1, LastUpgrade DEF upgrade_df9847a07952, upgrade_feeb4168b5fc, upgrade_a6f4f39b9c12, Creating
<1>3. /\ TablesOf(upgrade[1]) = CatalogNames /\ TablesOf(upgrade[2]) = {"schema_policies"}
      /\ TablesOf(upgrade[3]) = {"approval_requests"} /\ TablesOf(upgrade[4]) = TopicTables
  BY <1>1, LastUpgrade, SingleTable, PlacesAre
     DEF CatalogNames, upgrade_feeb4168b5fc, upgrade_a6f4f39b9c12
<1>4. ASSUME NEW n \in 0..4
      PROVE  /\ {w \in 1..n : upgrade[w].op = "create"} = {w \in {1, 2, 3} : w <= n}
             /\ {w \in 1..n : upgrade[w].op = "drop"} = {w \in {4} : w <= n}
  <2>1. \A w \in 1..n : w \in {1, 2, 3, 4} /\ w <= n  OBVIOUS
  <2>2. \A w \in {1, 2, 3, 4} : w <= n => w \in 1..n  OBVIOUS
  <2> QED BY <1>2, <2>1, <2>2
<1>0. ASSUME NEW n \in 0..4
      PROVE  TablesAt(n) =
               (UNION {TablesOf(upgrade[v]) : v \in {w \in 1..n : upgrade[w].op = "create"}})
                 \ (UNION {TablesOf(upgrade[v]) : v \in {w \in 1..n : upgrade[w].op = "drop"}})
  BY <1>1 DEF TablesAt, TablesAfter
<1>5. /\ TablesAt(0) = {} /\ TablesAt(1) = CatalogNames
      /\ TablesAt(2) = CatalogNames \cup {"schema_policies"}
      /\ TablesAt(3) = CatalogNames \cup {"schema_policies", "approval_requests"}
      /\ TablesAt(4) = (CatalogNames \cup {"schema_policies", "approval_requests"}) \ TopicTables
  <2>1. TablesAt(0) = {}
    <3>1. 0 \in 0..4 /\ {w \in {1, 2, 3} : w <= 0} = {} /\ {w \in {4} : w <= 0} = {}  OBVIOUS
    <3> QED BY <1>0, <1>4, <3>1
  <2>2. TablesAt(1) = CatalogNames
    <3>1. 1 \in 0..4 /\ {w \in {1, 2, 3} : w <= 1} = {1} /\ {w \in {4} : w <= 1} = {}  OBVIOUS
    <3> QED BY <1>0, <1>3, <1>4, <3>1
  <2>3. TablesAt(2) = CatalogNames \cup {"schema_policies"}
    <3>1. 2 \in 0..4 /\ {w \in {1, 2, 3} : w <= 2} = {1, 2} /\ {w \in {4} : w <= 2} = {}  OBVIOUS
    <3> QED BY <1>0, <1>3, <1>4, <3>1
  <2>4. TablesAt(3) = CatalogNames \cup {"schema_policies", "approval_requests"}
    <3>1. 3 \in 0..4 /\ {w \in {1, 2, 3} : w <= 3} = {1, 2, 3} /\ {w \in {4} : w <= 3} = {}  OBVIOUS
    <3> QED BY <1>0, <1>3, <1>4, <3>1
  <2>5. TablesAt(4) = (CatalogNames \cup {"schema_policies", "approval_requests"}) \ TopicTables
    <3>1. 4 \in 0..4 /\ {w \in {1, 2, 3} : w <= 4} = {1, 2, 3} /\ {w \in {4} : w <= 4} = {4}  OBVIOUS
    <3> QED BY <1>0, <1>3, <1>4, <3>1
  <2> QED BY <2>1, <2>2, <2>3, <2>4, <2>5
<1>6. CatalogNames = {t.name : t \in Range(CatalogTables)}
  BY NamesOwn DEF CatalogNames, TablesOf, upgrade_df9847a07952, Creating, Range
<1>7. /\ {topic_partition_metrics, leader_distributions, metrics_snapshots, topic_apply_results,
          topic_plans, topic_metadata, policies, audit_logs} \subseteq Range(CatalogTables)
      /\ \A t \in Range(CatalogTables) : t.name # "schema_policies" /\ t.name # "approval_requests"
  <2>1. \A t \in Range(CatalogTables) : Place(t.name) \in 1..24  BY NamesOwn DEF Range
  <2>2. {topic_partition_metrics, leader_distributions, metrics_snapshots, topic_apply_results,
          topic_plans, topic_metadata, policies, audit_logs} \subseteq Range(CatalogTables)
    BY DEF CatalogTables, Range
  <2> QED BY <2>1, <2>2, PlacesAre
<1>8. TopicTables \subseteq CatalogNames
  BY <1>6, <1>7, PlacesAre DEF TopicTables
<1>9. TableNames = CatalogNames \cup {"schema_policies", "approval_requests"}
  BY <1>6, PlacesAre DEF TableNames, AllTables
<1>10. "schema_policies" \notin CatalogNames /\ "approval_requests" \notin CatalogNames
  BY <1>6, <1>7
<1> QED BY <1>1, <1>5, <1>8, <1>9, <1>10

-----------------------------------------------------------------------------
(* The scripts.                                                            *)

\* What a script does to the tables of the revision before it.
Turns(script, v, w) ==
    /\ WellFormed(script)
    /\ script.op = "create" =>
         TablesOf(script) \cap TablesAt(v) = {} /\ TablesAt(w) = TablesAt(v) \cup TablesOf(script)
    /\ script.op = "drop" =>
         TablesOf(script) \subseteq TablesAt(v) /\ TablesAt(w) = TablesAt(v) \ TablesOf(script)
    /\ TablesOf(script) \subseteq TableNames

\* Every upgrade leads from its revision to the next, and its downgrade back.
LEMMA UpgradesTurn ==
    \A v \in 1..4 : /\ Turns(upgrade[v], v - 1, v)
                    /\ upgrade[v].op = "create" <=> v # 4
<1>1. /\ Turns(upgrade[1], 0, 1) /\ upgrade[1].op = "create"
      /\ Turns(upgrade[2], 1, 2) /\ upgrade[2].op = "create"
      /\ Turns(upgrade[3], 2, 3) /\ upgrade[3].op = "create"
      /\ Turns(upgrade[4], 3, 4) /\ upgrade[4].op = "drop"
  <2>1. /\ upgrade[1] = upgrade_df9847a07952 /\ upgrade[2] = Creating(<<schema_policies>>)
        /\ upgrade[3] = Creating(<<approval_requests>>) /\ upgrade[4] = upgrade_6f5f0c8f6c1f
    BY DEF upgrade, upgrade_feeb4168b5fc, upgrade_a6f4f39b9c12
  <2>2. upgrade_df9847a07952.op = "create" /\ \A ts : Creating(ts).op = "create"
    BY DEF upgrade_df9847a07952, Creating
  <2>3. /\ schema_policies.name = "schema_policies" /\ approval_requests.name = "approval_requests"
    BY PlacesAre
  <2>4. Turns(upgrade[1], 0, 1)
    BY <2>1, <2>2, FirstUpgrade, RevisionsAre DEF Turns, CatalogNames
  <2>5. Turns(upgrade[2], 1, 2)
    BY <2>1, <2>2, <2>3, SingleTable, RevisionsAre DEF Turns
  <2>6. Turns(upgrade[3], 2, 3)
    BY <2>1, <2>2, <2>3, SingleTable, RevisionsAre DEF Turns
  <2>7. Turns(upgrade[4], 3, 4)
    BY <2>1, LastUpgrade, RevisionsAre DEF Turns
  <2> QED BY <2>1, <2>2, <2>4, <2>5, <2>6, <2>7, LastUpgrade
<1>2. \A v \in 1..4 : v = 1 \/ v = 2 \/ v = 3 \/ v = 4  OBVIOUS
<1> QED BY <1>1, <1>2

\* Each downgrade() turns them back.
LEMMA DowngradesTurn ==
    \A v \in 1..4 : /\ Turns(downgrade[v], v, v - 1)
                    /\ downgrade[v].op = "create" <=> v = 4
<1>1. /\ Turns(downgrade[1], 1, 0) /\ downgrade[1].op = "drop"
      /\ Turns(downgrade[2], 2, 1) /\ downgrade[2].op = "drop"
      /\ Turns(downgrade[3], 3, 2) /\ downgrade[3].op = "drop"
      /\ Turns(downgrade[4], 4, 3) /\ downgrade[4].op = "create"
  <2>1. /\ downgrade[1] = downgrade_df9847a07952 /\ downgrade[2] = Dropping(<<schema_policies>>)
        /\ downgrade[3] = Dropping(<<approval_requests>>) /\ downgrade[4] = downgrade_6f5f0c8f6c1f
    BY DEF downgrade, downgrade_feeb4168b5fc, downgrade_a6f4f39b9c12
  <2>2. downgrade_df9847a07952.op = "drop" /\ \A ts : Dropping(ts).op = "drop"
    BY DEF downgrade_df9847a07952, Dropping
  <2>3. /\ schema_policies.name = "schema_policies" /\ approval_requests.name = "approval_requests"
    BY PlacesAre
  <2>4. Turns(downgrade[1], 1, 0)
    BY <2>1, <2>2, FirstDowngrade, RevisionsAre DEF Turns, CatalogNames
  <2>5. Turns(downgrade[2], 2, 1)
    BY <2>1, <2>2, <2>3, SingleTable, RevisionsAre DEF Turns
  <2>6. Turns(downgrade[3], 3, 2)
    BY <2>1, <2>2, <2>3, SingleTable, RevisionsAre DEF Turns
  <2>7. Turns(downgrade[4], 4, 3)
    BY <2>1, LastDowngrade, RevisionsAre DEF Turns
  <2> QED BY <2>1, <2>2, <2>4, <2>5, <2>6, <2>7, LastDowngrade
<1>2. \A v \in 1..4 : v = 1 \/ v = 2 \/ v = 3 \/ v = 4  OBVIOUS
<1> QED BY <1>1, <1>2

\* A session at work, at a place its script has.
Working(s) == s \in Session /\ Active(s) /\ Placed(s)

\* The script of a session turns the revision it is at into the one it reaches.
LEMMA SessionScript ==
    ASSUME NEW s \in Session, Active(s)
    PROVE  /\ Revision(s) \in 1..4 /\ Reached(s) \in 0..HEAD
           /\ Turns(Script(s), s.from, Reached(s))
           /\ Up(s) => (Creates(s) <=> Revision(s) # 4)
           /\ ~Up(s) => (Creates(s) <=> Revision(s) = 4)
<1>1. s.from \in 0..4 /\ s.to \in 0..4 /\ s.from # s.to /\ HEAD = 4
  BY RevisionsAre DEF Session, Active
<1>2. CASE Up(s)
  <2>1. s.from + 1 \in 1..4 /\ (s.from + 1) - 1 = s.from  BY <1>1, <1>2 DEF Up
  <2> HIDE DEF Turns
  <2> QED BY <1>1, <1>2, <2>1, UpgradesTurn DEF Revision, Reached, Script, Creates
<1>3. CASE ~Up(s)
  <2>1. s.from \in 1..4 /\ s.from - 1 \in 0..4  BY <1>1, <1>3 DEF Up
  <2> QED BY <1>1, <1>3, <2>1, DowngradesTurn DEF Revision, Reached, Script, Creates
<1> QED BY <1>2, <1>3

-----------------------------------------------------------------------------
(* A session in its script.                                                *)

\* The table a session is at.
LEMMA HereIs ==
    ASSUME NEW s, Working(s), ~Complete(s)
    PROVE  /\ s.table \in 1..Len(Script(s).tables) /\ DOMAIN Script(s).tables = 1..Len(Script(s).tables)
           /\ Len(Script(s).tables) \in Nat
           /\ Here(s) = Script(s).tables[s.table] /\ Matches(Here(s))
           /\ Here(s).name \in TablesOf(Script(s)) /\ Here(s).name \in TableNames
           /\ s.step \in 0..Len(Here(s).indexes)
<1>1. Turns(Script(s), s.from, Reached(s)) /\ s \in Session  BY SessionScript DEF Working
<1>2. Ordered(Script(s).tables) /\ TablesOf(Script(s)) \subseteq TableNames  BY <1>1 DEF Turns, WellFormed
<1>3. s.table \in 1..(Len(Script(s).tables) + 1) /\ s.step \in 0..Len(Here(s).indexes)
  BY DEF Working, Placed
<1>4. Len(Script(s).tables) \in Nat /\ DOMAIN Script(s).tables = 1..Len(Script(s).tables)
  BY <1>2 DEF Ordered
<1>5. s.table \in 1..Len(Script(s).tables)  BY <1>3, <1>4 DEF Complete
<1>6. Here(s) = Script(s).tables[s.table]  BY DEF Here
<1>7. Matches(Here(s))  BY <1>2, <1>5, <1>6 DEF Ordered
<1>8. Here(s).name \in TablesOf(Script(s))  BY <1>4, <1>5, <1>6 DEF TablesOf
<1> QED BY <1>2, <1>3, <1>4, <1>5, <1>6, <1>7, <1>8

\* The same command, at another place of the script or seen by others.
Same(a, b) ==
    /\ Active(a) <=> Active(b)
    /\ a.from = b.from /\ a.to = b.to

\* The same command executes the same script.
LEMMA SameScript ==
    ASSUME NEW a, NEW b, Same(a, b)
    PROVE  /\ Up(a) = Up(b) /\ Direction(a) = Direction(b) /\ Revision(a) = Revision(b)
           /\ Reached(a) = Reached(b) /\ Script(a) = Script(b) /\ Creates(a) = Creates(b)
<1>1. Up(a) = Up(b)  BY DEF Same, Up
<1>2. Revision(a) = Revision(b) /\ Reached(a) = Reached(b) /\ Direction(a) = Direction(b)
  BY <1>1 DEF Same, Revision, Reached, Direction
<1>3. Script(a) = Script(b)  BY <1>1, <1>2 DEF Script
<1> QED BY <1>1, <1>2, <1>3 DEF Creates

\* One statement further.
LEMMA AdvancedIs ==
    ASSUME NEW s, Working(s), ~Complete(s)
    PROVE  /\ Advanced(s) \in Session /\ Working(Advanced(s)) /\ Same(Advanced(s), s)
           /\ Advanced(s).open = s.open /\ Advanced(s).before = s.before /\ Advanced(s).alone = s.alone
           /\ s.step < Len(Here(s).indexes) => Advanced(s).table = s.table /\ Advanced(s).step = s.step + 1
           /\ s.step = Len(Here(s).indexes) => Advanced(s).table = s.table + 1 /\ Advanced(s).step = 0
<1> DEFINE n == Advanced(s)
<1>1. s \in Session /\ Active(s)  BY DEF Working
<1>2. /\ s.table \in 1..Len(Script(s).tables) /\ Len(Script(s).tables) \in Nat
      /\ s.step \in 0..Len(Here(s).indexes) /\ Len(Here(s).indexes) \in Nat
  BY HereIs DEF Matches
<1>3. s.table \in Nat /\ s.step \in Nat  BY <1>1 DEF Session
<1>4. CASE s.step < Len(Here(s).indexes)
  <2>1. n = [s EXCEPT !.step = @ + 1]  BY <1>4 DEF Advanced
  <2>2. /\ n \in Session /\ n.from = s.from /\ n.to = s.to /\ n.table = s.table /\ n.step = s.step + 1
        /\ n.open = s.open /\ n.before = s.before /\ n.alone = s.alone
    BY <1>1, <1>3, <2>1 DEF Session
  <2>3. Same(n, s) /\ Active(n)  BY <1>1, <2>2 DEF Same, Active
  <2>4. Script(n) = Script(s) /\ Here(n) = Here(s)  BY <2>2, <2>3, SameScript DEF Here
  <2>5. ~Complete(n)  BY <2>2, <2>4 DEF Complete
  <2>6. n.step \in 0..Len(Here(n).indexes)  BY <1>2, <1>4, <2>2, <2>4
  <2>7. Working(n)  BY <1>2, <2>2, <2>3, <2>4, <2>5, <2>6 DEF Working, Placed
  <2> QED BY <1>2, <1>4, <2>2, <2>3, <2>7
<1>5. CASE s.step = Len(Here(s).indexes)
  <2>1. n = [s EXCEPT !.table = @ + 1, !.step = 0]  BY <1>2, <1>5 DEF Advanced
  <2>2. /\ n \in Session /\ n.from = s.from /\ n.to = s.to /\ n.table = s.table + 1 /\ n.step = 0
        /\ n.open = s.open /\ n.before = s.before /\ n.alone = s.alone
    <3> DEFINE m == [s EXCEPT !.table = @ + 1]
    <3>1. /\ m \in Session /\ m.from = s.from /\ m.to = s.to /\ m.table = s.table + 1
          /\ m.open = s.open /\ m.before = s.before /\ m.alone = s.alone
      BY <1>1, <1>3 DEF Session
    <3>2. n = [m EXCEPT !.step = 0]  BY <2>1
    <3> HIDE DEF m, n
    <3> QED BY <3>1, <3>2 DEF Session
  <2>3. Same(n, s) /\ Active(n)  BY <1>1, <2>2 DEF Same, Active
  <2>4. Script(n) = Script(s)  BY <2>3, SameScript
  <2>5. n.step \in 0..(IF Complete(n) THEN 0 ELSE Len(Here(n).indexes))
    <3>1. CASE Complete(n)  BY <3>1, <2>2
    <3>2. CASE ~Complete(n)
      <4>1. n.table \in 1..Len(Script(n).tables)  BY <1>2, <2>2, <2>4, <3>2 DEF Complete
      <4>2. Ordered(Script(n).tables)  BY <1>1, <2>4, SessionScript DEF Turns, WellFormed
      <4>3. Len(Here(n).indexes) \in Nat  BY <4>1, <4>2 DEF Ordered, Here, Matches
      <4> QED BY <2>2, <4>3, <3>2
    <3> QED BY <3>1, <3>2
  <2>6. Working(n)  BY <1>2, <2>2, <2>3, <2>4, <2>5 DEF Working, Placed
  <2> QED BY <1>2, <1>5, <2>2, <2>3, <2>6
<1> QED BY <1>2, <1>4, <1>5

\* What a session has done, in terms of where it is.
LEMMA DoneIs ==
    ASSUME NEW s, Working(s)
    PROVE  /\ \A x : x \in Done(s) <=> \E i \in 1..Len(Script(s).tables) :
                x = Script(s).tables[i].name /\ (i < s.table \/ (i = s.table /\ Creates(s) /\ s.step > 0))
           /\ Done(s) \subseteq TablesOf(Script(s))
           /\ Complete(s) => Done(s) = TablesOf(Script(s))
           /\ ~Begun(s) => Done(s) = {}
<1>1. Ordered(Script(s).tables)  BY SessionScript DEF Turns, WellFormed, Working
<1>2. DOMAIN Script(s).tables = 1..Len(Script(s).tables) /\ Len(Script(s).tables) \in Nat
  BY <1>1 DEF Ordered
<1>3. s.table \in Nat /\ s.step \in Nat /\ s.table >= 1  BY DEF Working, Placed, Session
<1>4. \A x : x \in Done(s) <=> \E i \in 1..Len(Script(s).tables) :
                x = Script(s).tables[i].name /\ (i < s.table \/ (i = s.table /\ Creates(s) /\ s.step > 0))
  BY <1>2 DEF Done
<1>5. Done(s) \subseteq TablesOf(Script(s))  BY <1>2, <1>4 DEF TablesOf
<1>6. ASSUME Complete(s) PROVE Done(s) = TablesOf(Script(s))
  <2>1. \A i \in 1..Len(Script(s).tables) : i < s.table  BY <1>2, <1>3, <1>6 DEF Complete
  <2> QED BY <1>2, <1>4, <1>5, <2>1 DEF TablesOf
<1>7. ASSUME ~Begun(s) PROVE Done(s) = {}
  <2>1. s.table = 1 /\ s.step = 0  BY <1>3, <1>7 DEF Begun
  <2> QED BY <1>2, <1>4, <2>1
<1> QED BY <1>4, <1>5, <1>6, <1>7

\* At the beginning and at the end of a script nothing is half made.
LEMMA AtBounds ==
    ASSUME NEW s, Working(s), Complete(s) \/ ~Begun(s)
    PROVE  /\ \A n, x : ~HasPart(s, n, x)
           /\ \A a \in AllTables : \A m \in a.references : ~HasReferred(s, m, a.name)
<1>1. WellFormed(Script(s))  BY SessionScript DEF Turns, Working
<1>2. /\ Done(s) \subseteq TablesOf(Script(s)) /\ (Complete(s) => Done(s) = TablesOf(Script(s)))
      /\ (~Begun(s) => Done(s) = {})
  BY DoneIs
<1>3. ASSUME ~Begun(s), ~Complete(s), NEW n, NEW x, HasPart(s, n, x) PROVE FALSE
  <2>1. s.step = 0  BY <1>3 DEF Begun, Working, Session
  <2>2. PICK l \in DOMAIN Here(s).indexes :
          IF Creates(s) THEN 0 < s.step /\ s.step <= l ELSE Len(Here(s).indexes) - s.step < l
    BY <1>3 DEF HasPart
  <2>3. Len(Here(s).indexes) \in Nat /\ DOMAIN Here(s).indexes = 1..Len(Here(s).indexes)
    BY <1>3, HereIs DEF Matches
  <2> QED BY <2>1, <2>2, <2>3
<1>4. ASSUME NEW a \in AllTables, NEW m \in a.references, HasReferred(s, m, a.name), Complete(s)
      PROVE  FALSE
  <2>1. CASE Creates(s)  BY <1>2, <1>4, <2>1 DEF HasReferred
  <2>2. CASE ~Creates(s)
    <3>1. a.name \in TablesOf(Script(s)) /\ m \notin TablesOf(Script(s))  BY <1>2, <1>4, <2>2 DEF HasReferred
    <3>2. Script(s).op # "create"  BY <2>2 DEF Creates
    <3>3. DOMAIN Script(s).tables = 1..Len(Script(s).tables)  BY <1>1 DEF WellFormed, Ordered
    <3>4. PICK i \in 1..Len(Script(s).tables) : Script(s).tables[i].name = a.name  BY <3>1, <3>3 DEF TablesOf
    <3>5. \E k \in 1..Len(Script(s).tables) : Script(s).tables[k].name = m  BY <1>1, <3>2, <3>4 DEF WellFormed
    <3> QED BY <3>1, <3>3, <3>5 DEF TablesOf
  <2> QED BY <2>1, <2>2
<1>5. ASSUME NEW a \in AllTables, NEW m \in a.references, HasReferred(s, m, a.name), ~Begun(s)
      PROVE  FALSE
  BY <1>2, <1>5 DEF HasReferred
<1>6. \A n, x : Complete(s) => ~HasPart(s, n, x)  BY DEF HasPart
<1> QED BY <1>3, <1>4, <1>5, <1>6

\* The four statements: what a session has done and is between afterwards.
LEMMA CreateTable ==
    ASSUME NEW s, Working(s), ~Complete(s), Creates(s), s.step = 0
    PROVE  LET t == Here(s)
               n == Advanced(s) IN
           /\ Current(s) = Statement("create_table", t, NoIndex)
           /\ t.name \notin Done(s) /\ Done(n) = Done(s) \cup {t.name}
           /\ \A b, x : ~HasPart(s, b, x)
           /\ \A b, x : HasPart(n, b, x) <=> b = t.name /\ x \in Range(t.indexes)
<1> DEFINE t == Here(s)
           n == Advanced(s)
           ts == Script(s).tables
<1>1. /\ s.table \in 1..Len(ts) /\ DOMAIN ts = 1..Len(ts) /\ Len(ts) \in Nat
      /\ t = ts[s.table] /\ Matches(t)
  BY HereIs
<1>2. Len(t.indexes) \in Nat /\ DOMAIN t.indexes = 1..Len(t.indexes)  BY <1>1 DEF Matches
<1>3. /\ Working(n) /\ Same(n, s)
      /\ s.step < Len(t.indexes) => n.table = s.table /\ n.step = s.step + 1
      /\ s.step = Len(t.indexes) => n.table = s.table + 1 /\ n.step = 0
  BY AdvancedIs
<1>4. Script(n) = Script(s) /\ Creates(n)  BY <1>3, SameScript
<1>5. \A i, j \in 1..Len(ts) : ts[i].name = ts[j].name => i = j
  BY SessionScript DEF Turns, WellFormed, Ordered, Working
<1>6. \A x : x \in Done(s) <=> \E i \in 1..Len(ts) : x = ts[i].name /\ i < s.table
  BY DoneIs
<1>7. \A x : x \in Done(n) <=> \E i \in 1..Len(ts) :
                x = ts[i].name /\ (i < n.table \/ (i = n.table /\ n.step > 0))
  BY <1>3, <1>4, DoneIs
<1>8. Current(s) = Statement("create_table", t, NoIndex)  BY DEF Current
<1> HIDE DEF t, n, ts
<1>9. \A i \in 1..Len(ts) : (i < n.table \/ (i = n.table /\ n.step > 0)) <=> (i < s.table \/ i = s.table)
  BY <1>1, <1>2, <1>3
<1>10. Done(n) = Done(s) \cup {t.name}  BY <1>1, <1>6, <1>7, <1>9
<1>11. t.name \notin Done(s)  BY <1>1, <1>5, <1>6
<1>12. \A b, x : ~HasPart(s, b, x)  BY DEF HasPart
<1>13. ASSUME NEW b, NEW x PROVE HasPart(n, b, x) <=> b = t.name /\ x \in Range(t.indexes)
  <2>1. CASE s.step < Len(t.indexes)
    <3>1. n.table = s.table /\ n.step = 1  BY <1>3, <2>1
    <3>2. Here(n) = t /\ ~Complete(n)  BY <1>1, <1>4, <3>1 DEF Here, Complete, ts, t
    <3>3. HasPart(n, b, x) <=> b = t.name /\ \E l \in 1..Len(t.indexes) : t.indexes[l] = x /\ 1 <= l
      BY <1>2, <1>3, <1>4, <3>1, <3>2 DEF HasPart, Working
    <3> QED BY <1>2, <3>3 DEF Range
  <2>2. CASE s.step = Len(t.indexes)
    <3>1. n.step = 0  BY <1>3, <2>2
    <3>2. ~HasPart(n, b, x)  BY <1>4, <3>1 DEF HasPart
    <3>3. DOMAIN t.indexes = {}  BY <1>2, <2>2
    <3> QED BY <3>2, <3>3 DEF Range
  <2> QED BY <1>2, <2>1, <2>2
<1> QED BY <1>8, <1>10, <1>11, <1>12, <1>13 DEF t, n

\* An index is created last first of those missing.
LEMMA CreateIndex ==
    ASSUME NEW s, Working(s), ~Complete(s), Creates(s), s.step # 0
    PROVE  LET t == Here(s)
               n == Advanced(s)
               i == t.indexes[s.step] IN
           /\ Current(s) = Statement("create_index", t, i)
           /\ s.step \in 1..Len(t.indexes)
           /\ t.name \in Done(s) /\ Done(n) = Done(s)
           /\ HasPart(s, t.name, i)
           /\ \A b, x : HasPart(n, b, x) <=> HasPart(s, b, x) /\ x # i
<1> DEFINE t == Here(s)
           n == Advanced(s)
           ts == Script(s).tables
           i == t.indexes[s.step]
<1>1. /\ s.table \in 1..Len(ts) /\ DOMAIN ts = 1..Len(ts) /\ Len(ts) \in Nat
      /\ t = ts[s.table] /\ Matches(t) /\ s.step \in 0..Len(t.indexes)
  BY HereIs
<1>2. /\ Len(t.indexes) \in Nat /\ DOMAIN t.indexes = 1..Len(t.indexes)
      /\ \A k, l \in 1..Len(t.indexes) : t.indexes[k] = t.indexes[l] => k = l
  BY <1>1 DEF Matches
<1>3. /\ Working(n) /\ Same(n, s)
      /\ s.step < Len(t.indexes) => n.table = s.table /\ n.step = s.step + 1
      /\ s.step = Len(t.indexes) => n.table = s.table + 1 /\ n.step = 0
  BY AdvancedIs
<1>4. Script(n) = Script(s) /\ Creates(n)  BY <1>3, SameScript
<1>5. s.step \in 1..Len(t.indexes)  BY <1>1, <1>2
<1>6. \A x : x \in Done(s) <=> \E j \in 1..Len(ts) : x = ts[j].name /\ (j < s.table \/ (j = s.table /\ s.step > 0))
  BY DoneIs
<1>7. \A x : x \in Done(n) <=> \E j \in 1..Len(ts) :
                x = ts[j].name /\ (j < n.table \/ (j = n.table /\ n.step > 0))
  BY <1>3, <1>4, DoneIs
<1>8. Current(s) = Statement("create_index", t, i)  BY DEF Current
<1> HIDE DEF t, n, ts
<1>9. \A j \in 1..Len(ts) : (j < n.table \/ (j = n.table /\ n.step > 0)) <=> (j < s.table \/ (j = s.table /\ s.step > 0))
  BY <1>1, <1>2, <1>3, <1>5
<1>10. Done(n) = Done(s)  BY <1>6, <1>7, <1>9
<1>11. t.name \in Done(s)  BY <1>1, <1>5, <1>6
<1>12. \A b, x : HasPart(s, b, x) <=> b = t.name /\ \E l \in 1..Len(t.indexes) : t.indexes[l] = x /\ s.step <= l
  BY <1>2, <1>5 DEF HasPart, Working, t
<1>13. HasPart(s, t.name, i)  BY <1>5, <1>12
<1>14. ASSUME NEW b, NEW x PROVE HasPart(n, b, x) <=> HasPart(s, b, x) /\ x # i
  <2>1. CASE s.step < Len(t.indexes)
    <3>1. n.table = s.table /\ n.step = s.step + 1  BY <1>3, <2>1
    <3>2. Here(n) = t /\ ~Complete(n)  BY <1>1, <1>4, <3>1 DEF Here, Complete, ts, t
    <3>3. HasPart(n, b, x) <=> b = t.name /\ \E l \in 1..Len(t.indexes) : t.indexes[l] = x /\ s.step + 1 <= l
      BY <1>2, <1>3, <1>4, <1>5, <3>1, <3>2 DEF HasPart, Working
    <3>4. \A l \in 1..Len(t.indexes) : s.step + 1 <= l <=> s.step <= l /\ l # s.step  BY <1>5
    <3>5. \A l \in 1..Len(t.indexes) : t.indexes[l] # i <=> l # s.step  BY <1>2, <1>5
    <3> HIDE DEF i
    <3> QED BY <1>12, <3>3, <3>4, <3>5
  <2>2. CASE s.step = Len(t.indexes)
    <3>1. n.step = 0  BY <1>3, <2>2
    <3>2. ~HasPart(n, b, x)  BY <1>4, <3>1 DEF HasPart
    <3>3. \A l \in 1..Len(t.indexes) : s.step <= l => l = s.step  BY <1>2, <2>2
    <3> QED BY <1>12, <3>2, <3>3
  <2> QED BY <1>2, <1>5, <2>1, <2>2
<1> QED BY <1>5, <1>8, <1>10, <1>11, <1>13, <1>14 DEF t, n

\* An index is dropped before its table.
LEMMA DropIndex ==
    ASSUME NEW s, Working(s), ~Complete(s), ~Creates(s), s.step < Len(Here(s).indexes)
    PROVE  LET t == Here(s)
               n == Advanced(s)
               i == t.indexes[Len(t.indexes) - s.step] IN
           /\ Current(s) = Statement("drop_index", t, i)
           /\ Len(t.indexes) - s.step \in 1..Len(t.indexes)
           /\ t.name \notin Done(s) /\ Done(n) = Done(s)
           /\ ~HasPart(s, t.name, i)
           /\ \A b, x : HasPart(n, b, x) <=> HasPart(s, b, x) \/ (b = t.name /\ x = i)
<1> DEFINE t == Here(s)
           n == Advanced(s)
           ts == Script(s).tables
           last == Len(t.indexes) - s.step
<1>1. /\ s.table \in 1..Len(ts) /\ DOMAIN ts = 1..Len(ts) /\ Len(ts) \in Nat
      /\ t = ts[s.table] /\ Matches(t) /\ s.step \in 0..Len(t.indexes)
  BY HereIs
<1>2. /\ Len(t.indexes) \in Nat /\ DOMAIN t.indexes = 1..Len(t.indexes)
      /\ \A k, l \in 1..Len(t.indexes) : t.indexes[k] = t.indexes[l] => k = l
  BY <1>1 DEF Matches
<1>3. Working(n) /\ Same(n, s) /\ n.table = s.table /\ n.step = s.step + 1
  BY AdvancedIs
<1>4. Script(n) = Script(s) /\ ~Creates(n)  BY <1>3, SameScript
<1>5. last \in 1..Len(t.indexes)  BY <1>1, <1>2
<1>6. \A x : x \in Done(s) <=> \E j \in 1..Len(ts) : x = ts[j].name /\ j < s.table
  BY DoneIs
<1>7. \A x : x \in Done(n) <=> \E j \in 1..Len(ts) : x = ts[j].name /\ j < n.table
  BY <1>3, <1>4, DoneIs
<1>8. Current(s) = Statement("drop_index", t, t.indexes[last])  BY DEF Current
<1>9. \A i, j \in 1..Len(ts) : ts[i].name = ts[j].name => i = j
  BY SessionScript DEF Turns, WellFormed, Ordered, Working
<1> HIDE DEF t, n, ts
<1>10. Done(n) = Done(s)  BY <1>3, <1>6, <1>7
<1>11. t.name \notin Done(s)  BY <1>1, <1>6, <1>9
<1>12. Here(n) = t /\ ~Complete(n)  BY <1>1, <1>3, <1>4 DEF Here, Complete, ts, t
<1>13. \A b, x : HasPart(s, b, x) <=> b = t.name /\ \E l \in 1..Len(t.indexes) : t.indexes[l] = x /\ last < l
  BY <1>2 DEF HasPart, Working, t
<1>14. \A b, x : HasPart(n, b, x) <=> b = t.name /\ \E l \in 1..Len(t.indexes) : t.indexes[l] = x /\ Len(t.indexes) - n.step < l
  BY <1>2, <1>3, <1>4, <1>12 DEF HasPart, Working
<1>15. \A l \in 1..Len(t.indexes) : (Len(t.indexes) - n.step < l) <=> (last < l \/ l = last)
  <2>1. \A e, b, l \in Int : e - (b + 1) < l <=> (e - b < l \/ l = e - b)  OBVIOUS
  <2>2. Len(t.indexes) \in Int /\ s.step \in Int  BY <1>1, <1>2
  <2> QED BY <1>3, <2>1, <2>2
<1>16. \A l \in 1..Len(t.indexes) : t.indexes[l] = t.indexes[last] => ~(last < l)
  BY <1>2, <1>5
<1> HIDE DEF last
<1>17. \A b, x : HasPart(n, b, x) <=> HasPart(s, b, x) \/ (b = t.name /\ x = t.indexes[last])
  BY <1>5, <1>13, <1>14, <1>15
<1>18. ~HasPart(s, t.name, t.indexes[last])  BY <1>13, <1>16
<1> QED BY <1>5, <1>8, <1>10, <1>11, <1>17, <1>18 DEF t, n, last

\* A table is dropped after its indexes.
LEMMA DropTable ==
    ASSUME NEW s, Working(s), ~Complete(s), ~Creates(s), ~(s.step < Len(Here(s).indexes))
    PROVE  LET t == Here(s)
               n == Advanced(s) IN
           /\ Current(s) = Statement("drop_table", t, NoIndex)
           /\ t.name \notin Done(s) /\ Done(n) = Done(s) \cup {t.name}
           /\ \A b, x : HasPart(s, b, x) <=> b = t.name /\ x \in Range(t.indexes)
           /\ \A b, x : ~HasPart(n, b, x)
<1> DEFINE t == Here(s)
           n == Advanced(s)
           ts == Script(s).tables
<1>1. /\ s.table \in 1..Len(ts) /\ DOMAIN ts = 1..Len(ts) /\ Len(ts) \in Nat
      /\ t = ts[s.table] /\ Matches(t) /\ s.step \in 0..Len(t.indexes)
  BY HereIs
<1>2. Len(t.indexes) \in Nat /\ DOMAIN t.indexes = 1..Len(t.indexes)  BY <1>1 DEF Matches
<1>3. s.step = Len(t.indexes)  BY <1>1, <1>2
<1>4. Working(n) /\ Same(n, s) /\ n.table = s.table + 1 /\ n.step = 0
  BY <1>3, AdvancedIs
<1>5. Script(n) = Script(s) /\ ~Creates(n)  BY <1>4, SameScript
<1>6. \A x : x \in Done(s) <=> \E j \in 1..Len(ts) : x = ts[j].name /\ j < s.table
  BY DoneIs
<1>7. \A x : x \in Done(n) <=> \E j \in 1..Len(ts) : x = ts[j].name /\ j < n.table
  BY <1>4, <1>5, DoneIs
<1>8. Current(s) = Statement("drop_table", t, NoIndex)  BY DEF Current
<1>9. \A i, j \in 1..Len(ts) : ts[i].name = ts[j].name => i = j
  BY SessionScript DEF Turns, WellFormed, Ordered, Working
<1> HIDE DEF t, n, ts
<1>10. \A j \in 1..Len(ts) : j < n.table <=> (j < s.table \/ j = s.table)  BY <1>1, <1>4
<1>11. Done(n) = Done(s) \cup {t.name}  BY <1>1, <1>6, <1>7, <1>10
<1>12. t.name \notin Done(s)  BY <1>1, <1>6, <1>9
<1>13. \A l \in 1..Len(t.indexes) : Len(t.indexes) - s.step < l  BY <1>2, <1>3
<1>14. \A b, x : HasPart(s, b, x) <=> b = t.name /\ x \in Range(t.indexes)
  BY <1>2, <1>13 DEF HasPart, Working, Range, t
<1>15. ASSUME NEW b, NEW x, HasPart(n, b, x) PROVE FALSE
  <2>1. ~Complete(n)  BY <1>15 DEF HasPart
  <2>2. Len(Here(n).indexes) \in Nat /\ DOMAIN Here(n).indexes = 1..Len(Here(n).indexes)
    BY <1>4, <2>1, HereIs DEF Matches
  <2>3. PICK l \in DOMAIN Here(n).indexes : Len(Here(n).indexes) - n.step < l
    BY <1>5, <1>15 DEF HasPart
  <2> QED BY <1>4, <2>2, <2>3
<1> QED BY <1>8, <1>11, <1>12, <1>14, <1>15 DEF t, n

\* A session about to create or drop a table is between it and the table it
\* refers to, or that refers to it.
LEMMA OrderKept ==
    ASSUME NEW s, Working(s), ~Complete(s), NEW a \in AllTables, NEW m \in a.references,
           Here(s).name \notin Done(s)
    PROVE  /\ Creates(s) /\ Here(s).name = a.name => HasReferred(s, m, a.name)
           /\ Creates(s) /\ Here(s).name = m => a.name \notin Done(s) /\ a.name \in TablesOf(Script(s))
           /\ ~Creates(s) /\ Here(s).name = m => HasReferred(s, m, a.name)
           /\ ~Creates(s) /\ Here(s).name = a.name => m \notin Done(s)
<1> DEFINE ts == Script(s).tables
<1>1. /\ s.table \in 1..Len(ts) /\ DOMAIN ts = 1..Len(ts) /\ Len(ts) \in Nat
      /\ Here(s) = ts[s.table] /\ Here(s).name \in TablesOf(Script(s))
  BY HereIs
<1>2. WellFormed(Script(s))  BY SessionScript DEF Turns, Working
<1>3. \A i, j \in 1..Len(ts) : ts[i].name = ts[j].name => i = j  BY <1>2 DEF WellFormed, Ordered
<1>4. /\ \A x : x \in Done(s) <=> \E i \in 1..Len(ts) :
                x = ts[i].name /\ (i < s.table \/ (i = s.table /\ Creates(s) /\ s.step > 0))
      /\ Active(s)
  BY DoneIs DEF Working
<1>5. ~(Creates(s) /\ s.step > 0)  BY <1>1, <1>4
<1>6. \A x : x \in TablesOf(Script(s)) <=> \E i \in 1..Len(ts) : x = ts[i].name
  BY <1>1 DEF TablesOf
<1>7. Creates(s) <=> Script(s).op = "create"  BY DEF Creates
<1>8. ASSUME Creates(s), Here(s).name = a.name PROVE HasReferred(s, m, a.name)
  <2>1. PICK k \in 1..Len(ts) : k < s.table /\ ts[k].name = m
    BY <1>1, <1>2, <1>7, <1>8 DEF WellFormed
  <2>2. m \in Done(s)  BY <1>4, <2>1
  <2> QED BY <1>1, <1>4, <1>8, <2>2 DEF HasReferred
<1>9. ASSUME Creates(s), Here(s).name = m PROVE a.name \notin Done(s) /\ a.name \in TablesOf(Script(s))
  <2>1. PICK k \in 1..Len(ts) : s.table < k /\ ts[k].name = a.name
    BY <1>1, <1>2, <1>7, <1>9 DEF WellFormed
  <2>2. \A i \in 1..Len(ts) : i < s.table => i # k  BY <1>1, <2>1
  <2> QED BY <1>3, <1>4, <1>5, <1>6, <2>1, <2>2
<1>10. ASSUME ~Creates(s), Here(s).name = m PROVE HasReferred(s, m, a.name)
  <2>1. PICK k \in 1..Len(ts) : k < s.table /\ ts[k].name = a.name
    BY <1>1, <1>2, <1>7, <1>10 DEF WellFormed
  <2>2. a.name \in Done(s)  BY <1>4, <2>1
  <2> QED BY <1>4, <1>10, <2>2 DEF HasReferred
<1>11. ASSUME ~Creates(s), Here(s).name = a.name PROVE m \notin Done(s)
  <2>1. PICK k \in 1..Len(ts) : s.table < k /\ ts[k].name = m
    BY <1>1, <1>2, <1>7, <1>11 DEF WellFormed
  <2>2. \A i \in 1..Len(ts) : i < s.table => i # k  BY <1>1, <2>1
  <2> QED BY <1>3, <1>4, <1>5, <2>1, <2>2
<1> QED BY <1>8, <1>9, <1>10, <1>11

-----------------------------------------------------------------------------
(* What one runner does to the account of a table.                         *)

\* The same place of the same command.
At(a, b) == a.from = b.from /\ a.to = b.to /\ a.table = b.table /\ a.step = b.step

\* What a session knows depends on its place only.
LEMMA AtSame ==
    ASSUME NEW a, NEW b, At(a, b)
    PROVE  /\ Active(a) = Active(b) /\ Up(a) = Up(b) /\ Direction(a) = Direction(b)
           /\ Revision(a) = Revision(b) /\ Reached(a) = Reached(b)
           /\ Script(a) = Script(b) /\ Creates(a) = Creates(b)
           /\ Complete(a) = Complete(b) /\ Begun(a) = Begun(b) /\ Here(a) = Here(b)
           /\ Done(a) = Done(b) /\ Current(a) = Current(b)
           /\ \A n, x : HasPart(a, n, x) = HasPart(b, n, x)
           /\ \A m, n : HasReferred(a, m, n) = HasReferred(b, m, n)
<1>1. Active(a) = Active(b) /\ Same(a, b)  BY DEF At, Active, Same
<1>2. /\ Up(a) = Up(b) /\ Direction(a) = Direction(b) /\ Revision(a) = Revision(b)
      /\ Reached(a) = Reached(b) /\ Script(a) = Script(b) /\ Creates(a) = Creates(b)
  BY <1>1, SameScript
<1>3. Complete(a) = Complete(b) /\ Begun(a) = Begun(b) /\ Here(a) = Here(b)
  BY <1>2 DEF At, Complete, Begun, Here
<1>4. Done(a) = Done(b)  BY <1>2 DEF At, Done
<1>5. Current(a) = Current(b)  BY <1>2, <1>3 DEF At, Current
<1>6. ASSUME NEW n, NEW x PROVE HasPart(a, n, x) = HasPart(b, n, x)
  BY <1>1, <1>2, <1>3 DEF At, HasPart
<1>7. ASSUME NEW m, NEW n PROVE HasReferred(a, m, n) = HasReferred(b, m, n)
  BY <1>1, <1>2, <1>4 DEF HasReferred
<1> QED BY <1>1, <1>2, <1>3, <1>4, <1>5, <1>6, <1>7

\* A place is one of the script, whoever is there.
LEMMA AtPlaced ==
    ASSUME NEW a, NEW b, At(a, b), Working(b), a \in Session
    PROVE  Working(a)
BY AtSame DEF At, Working, Placed

\* Everybody but one stays where it is.
OthersStay(r) ==
    /\ session' \in [Runners -> Session]
    /\ \A q \in Runners \ {r} :
         /\ At(session'[q], session[q])
         /\ session'[q].open = session[q].open /\ session'[q].before = session[q].before
         /\ session'[q].alone => session[q].alone

Made(s, x)   == Active(s) /\ Creates(s) /\ x \in Done(s)
Unmade(s, x) == Active(s) /\ ~Creates(s) /\ x \in Done(s)

\* The others have in hand what they had.
LEMMA OthersKeep ==
    ASSUME MigrationTypeOK, NEW r \in Runners, OthersStay(r)
    PROVE  /\ \A x : Creators(x)' \ {r} = Creators(x) \ {r} /\ Droppers(x)' \ {r} = Droppers(x) \ {r}
           /\ \A n, x : BetweenIndex(n, x)' \ {r} = BetweenIndex(n, x) \ {r}
           /\ \A m, n : BetweenTables(m, n)' \ {r} = BetweenTables(m, n) \ {r}
<1> DEFINE old(q) == session[q]
           new(q) == session'[q]
<1>1. \A q \in Runners \ {r} :
        /\ Active(new(q)) = Active(old(q)) /\ Creates(new(q)) = Creates(old(q)) /\ Done(new(q)) = Done(old(q))
        /\ \A n, x : HasPart(new(q), n, x) = HasPart(old(q), n, x)
        /\ \A m, n : HasReferred(new(q), m, n) = HasReferred(old(q), m, n)
  BY AtSame DEF OthersStay
<1> HIDE DEF old, new
<1>2. ASSUME NEW x
      PROVE  Creators(x)' \ {r} = Creators(x) \ {r} /\ Droppers(x)' \ {r} = Droppers(x) \ {r}
  <2>1. /\ Creators(x) = {q \in Runners : Active(old(q)) /\ Creates(old(q)) /\ x \in Done(old(q))}
        /\ Creators(x)' = {q \in Runners : Active(new(q)) /\ Creates(new(q)) /\ x \in Done(new(q))}
        /\ Droppers(x) = {q \in Runners : Active(old(q)) /\ ~Creates(old(q)) /\ x \in Done(old(q))}
        /\ Droppers(x)' = {q \in Runners : Active(new(q)) /\ ~Creates(new(q)) /\ x \in Done(new(q))}
    BY DEF Creators, Droppers, Running, old, new
  <2> QED BY <1>1, <2>1
<1>3. ASSUME NEW n, NEW x PROVE BetweenIndex(n, x)' \ {r} = BetweenIndex(n, x) \ {r}
  <2>1. /\ BetweenIndex(n, x) = {q \in Runners : HasPart(old(q), n, x)}
        /\ BetweenIndex(n, x)' = {q \in Runners : HasPart(new(q), n, x)}
    BY DEF BetweenIndex, old, new
  <2> QED BY <1>1, <2>1
<1>4. ASSUME NEW m, NEW n PROVE BetweenTables(m, n)' \ {r} = BetweenTables(m, n) \ {r}
  <2>1. /\ BetweenTables(m, n) = {q \in Runners : HasReferred(old(q), m, n)}
        /\ BetweenTables(m, n)' = {q \in Runners : HasReferred(new(q), m, n)}
    BY DEF BetweenTables, old, new
  <2> QED BY <1>1, <2>1
<1> QED BY <1>2, <1>3, <1>4

\* The same others are counted, and perhaps one.
LEMMA CountOne ==
    ASSUME NEW A, NEW B, IsFiniteSet(A), IsFiniteSet(B), NEW r, A \ {r} = B \ {r}
    PROVE  /\ Cardinality(A) \in Nat /\ Cardinality(B) \in Nat
           /\ Cardinality(A) + One(r \in B) = Cardinality(B) + One(r \in A)
<1>1. Cardinality(A) \in Nat /\ Cardinality(B) \in Nat  BY FS_CardinalityType
<1>2. /\ Cardinality(A \ {r}) = IF r \in A THEN Cardinality(A) - 1 ELSE Cardinality(A)
      /\ Cardinality(B \ {r}) = IF r \in B THEN Cardinality(B) - 1 ELSE Cardinality(B)
  BY FS_RemoveElement
<1> QED BY <1>1, <1>2 DEF One

\* What one runner does to a table's account.
Staid(x) ==
    Cardinality(Creators(x)) + One(x \in TablesAt(db.stamp)) <= Cardinality(Droppers(x)) + One(x \in db.tables)
Even(r, x) ==
    One(Unmade(session'[r], x)) + One(x \in db'.tables) + One(Made(session[r],
        x)) + One(x \in TablesAt(db.stamp))
      = One(Unmade(session[r], x)) + One(x \in db.tables) + One(Made(session'[r],
          x)) + One(x \in TablesAt(db'.stamp))
Lean(r, x) ==
    One(Unmade(session'[r], x)) + One(x \in db'.tables) + One(Made(session[r],
        x)) + One(x \in TablesAt(db.stamp))
      >= One(Unmade(session[r], x)) + One(x \in db.tables) + One(Made(session'[r],
          x)) + One(x \in TablesAt(db'.stamp))

\* A step of one runner that is even keeps an account even, one that leans keeps it leaning.
LEMMA Balance ==
    ASSUME MigrationTypeOK, NEW r \in Runners, OthersStay(r), NEW x
    PROVE  /\ Even(r, x) /\ Accounted(x) => Accounted(x)'
           /\ Even(r, x) \/ Lean(r, x) => (Staid(x) => Staid(x)')
<1> DEFINE C == Creators(x)
           D == Droppers(x)
           V == One(x \in TablesAt(db.stamp))
           W == One(x \in TablesAt(db'.stamp))
           T == One(x \in db.tables)
           U == One(x \in db'.tables)
<1>1. /\ IsFiniteSet(C) /\ IsFiniteSet(C') /\ IsFiniteSet(D) /\ IsFiniteSet(D')
  <2>1. /\ C \in SUBSET Runners /\ C' \in SUBSET Runners /\ D \in SUBSET Runners /\ D' \in SUBSET Runners
    BY DEF Creators, Droppers
  <2> QED BY <2>1, FS_Subset, RunnersAssumption
<1>2. /\ r \in C <=> Made(session[r], x)
      /\ r \in C' <=> Made(session'[r], x)
      /\ r \in D <=> Unmade(session[r], x)
      /\ r \in D' <=> Unmade(session'[r], x)
  BY DEF Creators, Droppers, Made, Unmade, Running
<1>3. C' \ {r} = C \ {r} /\ D' \ {r} = D \ {r}  BY OthersKeep
<1>4. /\ Cardinality(C) \in Nat /\ Cardinality(C') \in Nat
      /\ Cardinality(C) + One(Made(session'[r], x)) = Cardinality(C') + One(Made(session[r], x))
  <2>1. /\ Cardinality(C) \in Nat /\ Cardinality(C') \in Nat
        /\ Cardinality(C) + One(r \in C') = Cardinality(C') + One(r \in C)
    BY <1>1, <1>3, CountOne
  <2> QED BY <1>2, <2>1 DEF One
<1>5. /\ Cardinality(D) \in Nat /\ Cardinality(D') \in Nat
      /\ Cardinality(D) + One(Unmade(session'[r], x)) = Cardinality(D') + One(Unmade(session[r], x))
  <2>1. /\ Cardinality(D) \in Nat /\ Cardinality(D') \in Nat
        /\ Cardinality(D) + One(r \in D') = Cardinality(D') + One(r \in D)
    BY <1>1, <1>3, CountOne
  <2> QED BY <1>2, <2>1 DEF One
<1>6. /\ Accounted(x) <=> Cardinality(D) + T = Cardinality(C) + V
      /\ Accounted(x)' <=> Cardinality(D') + U = Cardinality(C') + W
      /\ Staid(x) <=> Cardinality(C) + V <= Cardinality(D) + T
      /\ Staid(x)' <=> Cardinality(C') + W <= Cardinality(D') + U
  BY DEF Accounted, Staid
<1>7. \A p : One(p) \in Nat  BY DEF One
<1>8. /\ Even(r, x) => One(Unmade(session'[r], x)) + U + One(Made(session[r], x)) + V
                         = One(Unmade(session[r], x)) + T + One(Made(session'[r], x)) + W
      /\ Lean(r, x) => One(Unmade(session'[r], x)) + U + One(Made(session[r], x)) + V
                         >= One(Unmade(session[r], x)) + T + One(Made(session'[r], x)) + W
  BY DEF Even, Lean
<1> HIDE DEF C, D, V, W, T, U
<1>9. /\ One(Unmade(session'[r], x)) \in Nat /\ One(Unmade(session[r], x)) \in Nat
      /\ One(Made(session'[r], x)) \in Nat /\ One(Made(session[r], x)) \in Nat
      /\ U \in Nat /\ T \in Nat /\ V \in Nat /\ W \in Nat
  BY <1>7 DEF U, T, V, W
<1> QED BY <1>4, <1>5, <1>6, <1>8, <1>9

-----------------------------------------------------------------------------
(* The actions, one by one.                                                *)

\* The fields of a database.
LEMMA DatabaseFields ==
    ASSUME NEW d \in Database
    PROVE  /\ d.tables \subseteq TableNames /\ d.indexes \subseteq UNION {IndexesOf(n) : n \in TableNames}
           /\ d.types \subseteq UNION {t.types : t \in AllTables} /\ d.stamp \in 0..HEAD
BY DEF Database

\* The empty database.
LEMMA EmptyIs == Empty \in Database /\ Empty.tables = {} /\ Empty.indexes = {} /\ Empty.types = {} /\ Empty.stamp = 0
<1>1. HEAD = 4 /\ 0 \in 0..4  BY RevisionsAre
<1> QED BY <1>1 DEF Empty, Database

\* An idle session.
LEMMA IdleIs ==
    /\ Idle \in Session /\ ~Active(Idle) /\ Placed(Idle) /\ ~Begun(Idle)
    /\ ~Idle.open /\ ~Idle.alone
<1>1. HEAD = 4 /\ 0 \in 0..4  BY RevisionsAre
<1> QED BY <1>1, EmptyIs DEF Idle, Session, Active, Placed, Begun

\* A session at the beginning of a revision.
LEMMA BeginIs ==
    ASSUME NEW s \in Session, Active(s), s.table = 1, s.step = 0
    PROVE  /\ Working(s) /\ ~Begun(s) /\ Done(s) = {} /\ ~Complete(s)
           /\ \A n, x : ~HasPart(s, n, x)
           /\ \A a \in AllTables : \A m \in a.references : ~HasReferred(s, m, a.name)
<1>1. Ordered(Script(s).tables)  BY SessionScript DEF Turns, WellFormed
<1>2. Len(Script(s).tables) \in Nat \ {0} /\ Matches(Here(s))  BY <1>1 DEF Ordered, Here
<1>3. Len(Here(s).indexes) \in Nat  BY <1>2 DEF Matches
<1>4. ~Complete(s) /\ ~Begun(s)  BY <1>2 DEF Complete, Begun
<1>5. Working(s)  BY <1>2, <1>3, <1>4 DEF Working, Placed
<1> QED BY <1>4, <1>5, DoneIs, AtBounds

\* Nothing is done by who is idle or at the beginning.
LEMMA NothingMade ==
    ASSUME NEW s, s = Idle \/ (Working(s) /\ ~Begun(s))
    PROVE  /\ \A x : ~Made(s, x) /\ ~Unmade(s, x)
           /\ \A n, x : ~HasPart(s, n, x)
           /\ \A a \in AllTables : \A m \in a.references : ~HasReferred(s, m, a.name)
<1>1. CASE s = Idle  BY <1>1, IdleIs DEF Made, Unmade, HasPart, HasReferred
<1>2. CASE Working(s) /\ ~Begun(s)  BY <1>2, DoneIs, AtBounds DEF Made, Unmade
<1> QED BY <1>1, <1>2

\* What others read: the database, or what the open transaction found.
LEMMA CommittedIs ==
    ASSUME MigrationTypeOK
    PROVE  /\ Committed \in Database
           /\ (\A r \in Runners : ~Open(r)) => Committed = db
           /\ \A r \in Runners : Open(r) /\ (\A q \in Runners : Open(q) => q = r) => Committed = session[r].before
<1>1. \A r \in Runners : session[r] \in Session /\ session[r].before \in Database
  BY DEF MigrationTypeOK, Session
<1>2. (\A r \in Runners : ~Open(r)) => Committed = db  BY DEF Committed
<1>3. ASSUME NEW r \in Runners, Open(r), \A q \in Runners : Open(q) => q = r
      PROVE Committed = session[r].before
  <2>1. (CHOOSE q \in Runners : Open(q)) = r  BY <1>3
  <2> QED BY <1>3, <2>1 DEF Committed
<1>4. Committed \in Database
  <2>1. CASE \A r \in Runners : ~Open(r)  BY <1>2, <2>1 DEF MigrationTypeOK
  <2>2. CASE \E r \in Runners : Open(r)
    <3>1. (CHOOSE q \in Runners : Open(q)) \in Runners  BY <2>2
    <3> QED BY <1>1, <2>2, <3>1 DEF Committed
  <2> QED BY <2>1, <2>2
<1> QED BY <1>2, <1>3, <1>4

\* A session that is no longer alone is otherwise as it was.
LEMMA Unalone ==
    ASSUME NEW s \in Session
    PROVE  LET n == [s EXCEPT !.alone = FALSE] IN
           /\ n \in Session /\ At(n, s) /\ n.open = s.open /\ n.before = s.before /\ ~n.alone
<1> DEFINE n == [s EXCEPT !.alone = FALSE]
<1>1. n \in Session  BY DEF Session
<1>2. n.from = s.from /\ n.to = s.to /\ n.table = s.table /\ n.step = s.step  BY DEF Session
<1>3. n.open = s.open /\ n.before = s.before  BY DEF Session
<1>4. ~n.alone  BY DEF Session
<1> QED BY <1>1, <1>2, <1>3, <1>4 DEF At

\* A command begins at the revision that is committed.
LEMMA StartIs ==
    ASSUME MigrationTypeOK, NEW r \in Runners, NEW to \in 0..HEAD, Start(r, to)
    PROVE  LET n == session'[r] IN
           /\ MigrationTypeOK' /\ OthersStay(r) /\ db' = db /\ backend' = backend /\ broken' = broken /\ refusals' = refusals
           /\ Working(n) /\ ~Begun(n) /\ n.from = Committed.stamp /\ n.to = to /\ n.step = 0 /\ ~n.open
           /\ session[r] = Idle
           /\ n.alone => \A q \in Runners : ~Running(q)
           /\ \A q \in Runners \ {r} : ~session'[q].alone
<1> DEFINE n == session'[r]
<1>1. session \in [Runners -> Session] /\ \A q \in Runners : Placed(session[q])  BY DEF MigrationTypeOK
<1>2. Committed.stamp \in 0..HEAD  BY CommittedIs, DatabaseFields
<1>3. n = [Idle EXCEPT !.from = Committed.stamp, !.to = to, !.alone = \A o \in Runners : ~Running(o)]
  BY DEF Start
<1>4. /\ n.from = Committed.stamp /\ n.to = to /\ n.table = 1 /\ n.step = 0 /\ n.open = FALSE
      /\ n.before = Empty /\ n.alone = (\A o \in Runners : ~Running(o))
  BY <1>3 DEF Idle
<1>5. n \in Session
  <2> DEFINE v == Committed.stamp
             lone == \A o \in Runners : ~Running(o)
             i == [Idle EXCEPT !.from = v]
             j == [i EXCEPT !.to = to]
  <2>1. lone \in BOOLEAN /\ v \in 0..HEAD  BY <1>2
  <2>2. n = [j EXCEPT !.alone = lone]  BY <1>3
  <2> HIDE DEF n, v, lone
  <2>3. i \in Session  BY <2>1, IdleIs DEF Session
  <2> HIDE DEF i
  <2>4. j \in Session  BY <2>3 DEF Session
  <2> HIDE DEF j
  <2> QED BY <2>1, <2>2, <2>4 DEF Session
<1>6. \A q \in Runners \ {r} : session'[q] = [session[q] EXCEPT !.alone = FALSE]  BY DEF Start
<1>7. \A q \in Runners \ {r} :
        /\ session'[q] \in Session /\ At(session'[q], session[q])
        /\ session'[q].open = session[q].open /\ session'[q].before = session[q].before /\ ~session'[q].alone
  BY <1>1, <1>6, Unalone
<1>8. session' \in [Runners -> Session]
  <2>1. DOMAIN session' = Runners /\ session' = [q \in Runners |-> session'[q]]  BY DEF Start
  <2>2. \A q \in Runners : session'[q] \in Session  BY <1>5, <1>7
  <2> QED BY <2>1, <2>2
<1> HIDE DEF n
<1>9. OthersStay(r)  BY <1>7, <1>8 DEF OthersStay
<1>10. Active(n)  BY <1>4 DEF Active, Start
<1>11. Working(n) /\ ~Begun(n)  BY <1>4, <1>5, <1>10, BeginIs
<1>12. session[r] = Idle  BY <1>1 DEF Start, Running, Placed
<1>13. \A q \in Runners \ {r} : Placed(session'[q])
  <2> SUFFICES ASSUME NEW q \in Runners \ {r} PROVE Placed(session'[q])  OBVIOUS
  <2>1. CASE Active(session[q])
    <3>1. Working(session[q])  BY <1>1, <2>1 DEF Working
    <3> QED BY <1>7, <3>1, AtPlaced DEF Working
  <2>2. CASE ~Active(session[q])
    <3>1. session[q] = Idle  BY <1>1, <2>2 DEF Placed
    <3>2. session'[q] = Idle  BY <1>6, <3>1 DEF Idle
    <3> QED BY <3>2, IdleIs
  <2> QED BY <2>1, <2>2
<1>14. MigrationTypeOK'
  <2>1. \A q \in Runners : Placed(session'[q])  BY <1>11, <1>13 DEF n, Working
  <2>2. commands' \in 0..MaxCommands
    <3>1. commands \in 0..MaxCommands /\ MaxCommands \in Nat  BY MigrationsAssumption DEF MigrationTypeOK
    <3>2. commands < MaxCommands /\ commands' = commands + 1  BY DEF Start
    <3> QED BY <3>1, <3>2
  <2> QED BY <1>8, <2>1, <2>2 DEF MigrationTypeOK, Start
<1>15. db' = db /\ backend' = backend /\ broken' = broken /\ refusals' = refusals  BY DEF Start
<1> QED BY <1>4, <1>7, <1>9, <1>11, <1>12, <1>14, <1>15 DEF n

\* A table of a script, in the catalog.
LEMMA HereListed ==
    ASSUME NEW s, Working(s), ~Complete(s)
    PROVE  \E a \in AllTables :
             /\ a.name = Here(s).name /\ a.references = Here(s).references
             /\ a.cover = Here(s).cover /\ a.types = Here(s).types
             /\ \A x \in Range(Here(s).indexes) : x \in Range(a.indexes)
             /\ \A x \in Range(a.indexes) \ {Forgotten} : x \in Range(Here(s).indexes)
             /\ IndexesOf(Here(s).name) = Range(a.indexes)
<1>1. PICK a \in AllTables :
             /\ a.name = Here(s).name /\ a.references = Here(s).references
             /\ a.cover = Here(s).cover /\ a.types = Here(s).types
             /\ \A x \in Range(Here(s).indexes) : x \in Range(a.indexes)
             /\ \A x \in Range(a.indexes) \ {Forgotten} : x \in Range(Here(s).indexes)
  BY HereIs DEF Matches
<1>2. {o \in AllTables : o.name = Here(s).name} = {a}  BY <1>1, NamesOwn
<1>3. IndexesOf(Here(s).name) = Range(a.indexes)  BY <1>2 DEF IndexesOf
<1> QED BY <1>1, <1>3

\* The parts of a statement.
LEMMA StatementIs ==
    \A op, t, i : Statement(op, t, i).op = op /\ Statement(op, t, i).table = t /\ Statement(op, t, i).index = i
BY DEF Statement

\* The statements on a database.
LEMMA CreateTableOn ==
    ASSUME db \in Database, NEW s, Working(s), ~Complete(s), Current(s) = Statement("create_table",
        Here(s), NoIndex)
    PROVE  LET t == Here(s)
               d == Result(Current(s)) IN
           /\ Accepts(Current(s)) <=>
                /\ t.name \notin db.tables
                /\ backend # "sqlite" => t.references \subseteq db.tables
                /\ backend = "postgresql" => t.types \cap db.types = {}
           /\ d \in Database /\ d.tables = db.tables \cup {t.name} /\ d.indexes = db.indexes /\ d.stamp = db.stamp
           /\ d.types = IF backend = "postgresql" THEN db.types \cup t.types ELSE db.types
<1> DEFINE t == Here(s)
           c == Current(s)
           y == IF backend = "postgresql" THEN db.types \cup t.types ELSE db.types
<1>1. c.op = "create_table" /\ c.table = t  BY StatementIs
<1>2. t.name \in TableNames /\ y \subseteq UNION {o.types : o \in AllTables}
  BY HereIs, HereListed, DatabaseFields
<1>3. Result(c) = [db EXCEPT !.tables = @ \cup {t.name}, !.types = y]
  BY <1>1 DEF Result
<1> HIDE DEF t, c, y
<1>4. /\ Result(c) \in Database /\ Result(c).tables = db.tables \cup {t.name} /\ Result(c).types = y
      /\ Result(c).indexes = db.indexes /\ Result(c).stamp = db.stamp
  <2> DEFINE e == [db EXCEPT !.tables = @ \cup {t.name}]
  <2>1. /\ e \in Database /\ e.tables = db.tables \cup {t.name} /\ e.types = db.types
        /\ e.indexes = db.indexes /\ e.stamp = db.stamp
    BY <1>2 DEF Database
  <2>2. Result(c) = [e EXCEPT !.types = y]  BY <1>3
  <2> HIDE DEF e
  <2> QED BY <1>2, <2>1, <2>2 DEF Database
<1>5. Accepts(c) <=>
                /\ t.name \notin db.tables
                /\ backend # "sqlite" => t.references \subseteq db.tables
                /\ backend = "postgresql" => t.types \cap db.types = {}
  BY <1>1 DEF Accepts
<1> QED BY <1>4, <1>5 DEF t, c, y

\* CREATE INDEX.
LEMMA CreateIndexOn ==
    ASSUME db \in Database, NEW s, Working(s), ~Complete(s), NEW i,
        Current(s) = Statement("create_index", Here(s), i),
           i \in Range(Here(s).indexes)
    PROVE  LET t == Here(s)
               d == Result(Current(s)) IN
           /\ Accepts(Current(s)) <=> t.name \in db.tables /\ i \notin db.indexes
           /\ d \in Database /\ d.tables = db.tables /\ d.indexes = db.indexes \cup {i} /\ d.stamp = db.stamp
           /\ d.types = db.types
<1> DEFINE t == Here(s)
           c == Current(s)
<1>1. c.op = "create_index" /\ c.table = t /\ c.index = i  BY StatementIs
<1>2. t.name \in TableNames /\ i \in IndexesOf(t.name)  BY HereIs, HereListed
<1>3. Result(c) = [db EXCEPT !.indexes = @ \cup {i}]  BY <1>1 DEF Result
<1>4. Accepts(c) <=> t.name \in db.tables /\ i \notin db.indexes  BY <1>1 DEF Accepts
<1> HIDE DEF t, c
<1>5. /\ Result(c) \in Database /\ Result(c).tables = db.tables /\ Result(c).indexes = db.indexes \cup {i}
      /\ Result(c).types = db.types /\ Result(c).stamp = db.stamp
  <2>1. i \in UNION {IndexesOf(n) : n \in TableNames}  BY <1>2
  <2> HIDE DEF Result
  <2> QED BY <1>3, <2>1 DEF Database
<1> QED BY <1>4, <1>5 DEF t, c

\* DROP INDEX.
LEMMA DropIndexOn ==
    ASSUME db \in Database, NEW s, NEW i, Current(s) = Statement("drop_index", Here(s), i)
    PROVE  LET t == Here(s)
               d == Result(Current(s)) IN
           /\ Accepts(Current(s)) <=>
                i \in db.indexes /\ (backend = "mysql" /\ i \in t.cover => (t.cover \cap db.indexes) # {i})
           /\ d \in Database /\ d.tables = db.tables /\ d.indexes = db.indexes \ {i} /\ d.stamp = db.stamp
           /\ d.types = db.types
<1> DEFINE t == Here(s)
           c == Current(s)
<1>1. c.op = "drop_index" /\ c.table = t /\ c.index = i  BY StatementIs
<1>3. Result(c) = [db EXCEPT !.indexes = @ \ {i}]  BY <1>1 DEF Result
<1>4. Accepts(c) <=>
        i \in db.indexes /\ (backend = "mysql" /\ i \in t.cover => (t.cover \cap db.indexes) # {i})
  BY <1>1 DEF Accepts
<1> HIDE DEF t, c
<1>5. /\ Result(c) \in Database /\ Result(c).tables = db.tables /\ Result(c).indexes = db.indexes \ {i}
      /\ Result(c).types = db.types /\ Result(c).stamp = db.stamp
  BY <1>3 DEF Database
<1> QED BY <1>4, <1>5 DEF t, c

\* DROP TABLE, and its indexes with it.
LEMMA DropTableOn ==
    ASSUME db \in Database, NEW s, Current(s) = Statement("drop_table", Here(s), NoIndex)
    PROVE  LET t == Here(s)
               d == Result(Current(s)) IN
           /\ Accepts(Current(s)) <=>
                /\ t.name \in db.tables
                /\ backend = "sqlite" \/ \A o \in AllTables : o.name \in db.tables => t.name \notin o.references
           /\ d \in Database /\ d.tables = db.tables \ {t.name} /\ d.indexes = db.indexes \ IndexesOf(t.name)
           /\ d.stamp = db.stamp /\ d.types = db.types
<1> DEFINE t == Here(s)
           c == Current(s)
<1>1. c.op = "drop_table" /\ c.table = t  BY StatementIs
<1>3. Result(c) = [db EXCEPT !.tables = @ \ {t.name}, !.indexes = @ \ IndexesOf(t.name)]  BY <1>1 DEF Result
<1>4. Accepts(c) <=>
        /\ t.name \in db.tables
        /\ backend = "sqlite" \/ \A o \in AllTables : o.name \in db.tables => t.name \notin o.references
  BY <1>1 DEF Accepts
<1> HIDE DEF t, c
<1>5. /\ Result(c) \in Database /\ Result(c).tables = db.tables \ {t.name}
      /\ Result(c).indexes = db.indexes \ IndexesOf(t.name)
      /\ Result(c).types = db.types /\ Result(c).stamp = db.stamp
  <2> DEFINE e == [db EXCEPT !.tables = @ \ {t.name}]
  <2>1. /\ e \in Database /\ e.tables = db.tables \ {t.name} /\ e.types = db.types
        /\ e.indexes = db.indexes /\ e.stamp = db.stamp
    BY DEF Database
  <2>2. Result(c) = [e EXCEPT !.indexes = @ \ IndexesOf(t.name)]  BY <1>3
  <2> HIDE DEF e
  <2> QED BY <2>1, <2>2 DEF Database
<1> QED BY <1>4, <1>5 DEF t, c

\* Which of the four a session is at.
LEMMA ExecuteIs ==
    ASSUME MigrationTypeOK, NEW r \in Runners, execute(r)
    PROVE  LET s == session[r]
               n == session'[r] IN
           /\ MigrationTypeOK' /\ OthersStay(r) /\ backend' = backend /\ broken' = broken /\ refusals' = refusals
           /\ Working(s) /\ ~Complete(s) /\ Accepts(Current(s)) /\ db' = Result(Current(s))
           /\ Working(n) /\ At(n, Advanced(s)) /\ n.alone = s.alone /\ (n.open <=> Transactional)
           /\ n.before = IF Transactional /\ ~s.open THEN db ELSE s.before
           /\ ~Blocked(r) /\ \A q \in Runners \ {r} : session'[q] = session[q]
<1> DEFINE s == session[r]
           n == session'[r]
           a == Advanced(s)
           o == Transactional
           b == IF Transactional /\ ~s.open THEN db ELSE s.before
<1>1. session \in [Runners -> Session] /\ db \in Database /\ \A q \in Runners : Placed(session[q])
  BY DEF MigrationTypeOK
<1>2. Working(s) /\ ~Complete(s)  BY <1>1 DEF execute, Running, Working
<1>3. a \in Session /\ Working(a) /\ a.open = s.open /\ a.before = s.before /\ a.alone = s.alone
  BY <1>2, AdvancedIs
<1>4. n = [a EXCEPT !.open = o, !.before = b]
  BY <1>1, <1>3 DEF execute
<1>5. o \in BOOLEAN /\ b \in Database  BY <1>1 DEF Transactional, Session
<1>6. \A q \in Runners \ {r} : session'[q] = session[q]  BY <1>1 DEF execute
<1>7. Accepts(Current(s)) /\ db' = Result(Current(s))  BY DEF execute
<1> HIDE DEF s, n, a, o, b
<1>8. n \in Session /\ At(n, a) /\ n.alone = a.alone /\ (n.open <=> o) /\ n.before = b
  <2> DEFINE e == [a EXCEPT !.open = o]
  <2>1. e \in Session  BY <1>3, <1>5 DEF Session
  <2>2. e.from = a.from /\ e.to = a.to /\ e.table = a.table /\ e.step = a.step /\ e.alone = a.alone
    BY <1>3 DEF Session
  <2>3. e.open <=> o  BY <1>3 DEF Session
  <2>4. n = [e EXCEPT !.before = b]  BY <1>4
  <2> HIDE DEF e
  <2>5. n \in Session  BY <1>5, <2>1, <2>4 DEF Session
  <2>6. n.from = e.from /\ n.to = e.to /\ n.table = e.table /\ n.step = e.step /\ n.alone = e.alone
    BY <2>1, <2>4 DEF Session
  <2>7. n.open = e.open /\ n.before = b  BY <2>1, <2>4 DEF Session
  <2> QED BY <2>2, <2>3, <2>5, <2>6, <2>7 DEF At
<1>9. Working(n)  BY <1>3, <1>8, AtPlaced
<1>10. session' \in [Runners -> Session]
  <2>1. session' = [session EXCEPT ![r] = n]  BY <1>1 DEF execute, n
  <2> QED BY <1>1, <1>8, <2>1
<1>11. OthersStay(r)  BY <1>6, <1>10 DEF OthersStay, At
<1>12. db' \in Database
  <2>1. Working(s) /\ ~Complete(s) /\ db' = Result(Current(s)) /\ db \in Database  BY <1>1, <1>2, <1>7
  <2>2. CASE Creates(s) /\ s.step = 0
    BY <2>1, <2>2, CreateTable, CreateTableOn
  <2>3. CASE Creates(s) /\ s.step # 0
    <3>1. Here(s).indexes[s.step] \in Range(Here(s).indexes)
      BY <2>1, <2>3, CreateIndex, HereIs DEF Matches, Range
    <3> QED BY <2>1, <2>3, <3>1, CreateIndex, CreateIndexOn
  <2>4. CASE ~Creates(s) /\ s.step < Len(Here(s).indexes)
    BY <2>1, <2>4, DropIndex, DropIndexOn
  <2>5. CASE ~Creates(s) /\ ~(s.step < Len(Here(s).indexes))
    BY <2>1, <2>5, DropTable, DropTableOn
  <2> QED BY <2>2, <2>3, <2>4, <2>5
<1>13. MigrationTypeOK'
  <2>1. \A q \in Runners : Placed(session'[q])  BY <1>1, <1>6, <1>9 DEF n, Working
  <2>2. UNCHANGED <<backend, commands, broken, refusals>>  BY DEF execute
  <2> QED BY <1>10, <1>12, <2>1, <2>2 DEF MigrationTypeOK
<1>14. ~Blocked(r) /\ backend' = backend /\ broken' = broken /\ refusals' = refusals  BY DEF execute
<1>15. n.before = IF Transactional /\ ~session[r].open THEN db ELSE session[r].before  BY <1>8 DEF b, s
<1> QED BY <1>2, <1>3, <1>6, <1>7, <1>8, <1>9, <1>11, <1>13, <1>14, <1>15 DEF s, n, a, o

\* The stamp moves at the end of a script.
LEMMA RunIs ==
    ASSUME MigrationTypeOK, NEW r \in Runners, run_migrations(r)
    PROVE  LET s == session[r]
               n == session'[r] IN
           /\ MigrationTypeOK' /\ OthersStay(r) /\ backend' = backend /\ broken' = broken /\ refusals' = refusals
           /\ Working(s) /\ Complete(s) /\ db.stamp = s.from
           /\ db'.tables = db.tables /\ db'.indexes = db.indexes /\ db'.types = db.types /\ db'.stamp = Reached(s)
           /\ \/ n = Idle /\ s.to = Reached(s)
              \/ /\ Working(n) /\ ~Begun(n) /\ n.step = 0 /\ n.from = Reached(s) /\ n.to = s.to /\ s.to # Reached(s)
                 /\ n.open = s.open /\ n.before = s.before /\ n.alone = s.alone /\ (Up(n) <=> Up(s))
           /\ \A q \in Runners \ {r} : session'[q] = session[q]
<1> DEFINE s == session[r]
           n == session'[r]
           v == Reached(s)
<1>1. session \in [Runners -> Session] /\ db \in Database /\ \A q \in Runners : Placed(session[q])
  BY DEF MigrationTypeOK
<1>2. Working(s) /\ Complete(s) /\ db.stamp = s.from /\ s \in Session
  BY <1>1 DEF run_migrations, Running, Working
<1>3. v \in 0..HEAD /\ s.from \in 0..HEAD /\ s.to \in 0..HEAD /\ HEAD = 4 /\ s.to # s.from
  BY <1>2, SessionScript, RevisionsAre DEF Working, Session, Active
<1>4. db' = [db EXCEPT !.stamp = v]  BY DEF run_migrations
<1>5. /\ db' \in Database /\ db'.tables = db.tables /\ db'.indexes = db.indexes /\ db'.types = db.types
      /\ db'.stamp = v
  <2> HIDE DEF v
  <2> QED BY <1>1, <1>3, <1>4 DEF Database
<1>6. /\ session' = [session EXCEPT ![r] = n]
      /\ n = IF v = s.to THEN Idle ELSE [s EXCEPT !.from = v, !.table = 1, !.step = 0]
      /\ UNCHANGED <<backend, commands, broken, refusals>>
  BY <1>1 DEF run_migrations
<1>7. \A q \in Runners \ {r} : session'[q] = session[q]  BY <1>1, <1>6
<1>8. \/ n = Idle /\ s.to = v
      \/ /\ Working(n) /\ ~Begun(n) /\ n.step = 0 /\ n.from = v /\ n.to = s.to /\ s.to # v
         /\ n.open = s.open /\ n.before = s.before /\ n.alone = s.alone /\ (Up(n) <=> Up(s))
  <2>1. CASE v = s.to  BY <1>6, <2>1
  <2>2. CASE v # s.to
    <3> DEFINE i == [s EXCEPT !.from = v]
               j == [i EXCEPT !.table = 1]
    <3>1. n = [j EXCEPT !.step = 0]  BY <1>6, <2>2
    <3>9. Up(s) <=> s.to > s.from  BY DEF Up
    <3>10. v = IF Up(s) THEN s.from + 1 ELSE s.from - 1  BY DEF Reached
    <3> HIDE DEF s, n, v
    <3>2. /\ i \in Session /\ i.from = v /\ i.to = s.to
          /\ i.open = s.open /\ i.before = s.before /\ i.alone = s.alone
      BY <1>2, <1>3 DEF Session
    <3> HIDE DEF i
    <3>3. /\ j \in Session /\ j.from = v /\ j.to = s.to /\ j.table = 1
          /\ j.open = s.open /\ j.before = s.before /\ j.alone = s.alone
      BY <3>2 DEF Session
    <3> HIDE DEF j
    <3>4. /\ n \in Session /\ n.from = v /\ n.to = s.to /\ n.table = 1 /\ n.step = 0
          /\ n.open = s.open /\ n.before = s.before /\ n.alone = s.alone
      BY <3>1, <3>3 DEF Session
    <3>5. Active(n)  BY <2>2, <3>4 DEF Active
    <3>6. Working(n) /\ ~Begun(n)  BY <3>4, <3>5, BeginIs
    <3>7. Up(n) <=> n.to > n.from  BY DEF Up
    <3>8. Up(n) <=> Up(s)  BY <1>3, <2>2, <3>4, <3>7, <3>9, <3>10
    <3> QED BY <2>2, <3>4, <3>6, <3>8
  <2> QED BY <2>1, <2>2
<1>9. Placed(n) /\ n \in Session  BY <1>8, IdleIs DEF Working
<1>10. session' \in [Runners -> Session]  BY <1>1, <1>6, <1>9
<1>11. OthersStay(r)  BY <1>7, <1>10 DEF OthersStay, At
<1>12. MigrationTypeOK'
  <2>1. \A q \in Runners : Placed(session'[q])  BY <1>1, <1>7, <1>9
  <2> QED BY <1>5, <1>6, <1>10, <2>1 DEF MigrationTypeOK
<1> QED BY <1>2, <1>5, <1>6, <1>7, <1>8, <1>11, <1>12

\* A command is refused or killed.
LEMMA StopIs ==
    ASSUME MigrationTypeOK, NEW r \in Runners, refused(r) \/ killed(r)
    PROVE  LET s == session[r]
               n == session'[r] IN
           /\ MigrationTypeOK' /\ OthersStay(r) /\ backend' = backend
           /\ Working(s) /\ n = Idle
           /\ db' = IF Open(r) THEN s.before ELSE db
           /\ broken' = IF ~Transactional /\ Begun(s) THEN broken \cup {Direction(s)} ELSE broken
           /\ \A q \in Runners \ {r} : session'[q] = session[q]
<1> DEFINE s == session[r]
           n == session'[r]
<1>1. session \in [Runners -> Session] /\ db \in Database /\ \A q \in Runners : Placed(session[q])
  BY DEF MigrationTypeOK
<1>2. Running(r) /\ Stop(r) /\ UNCHANGED <<backend, commands>>  BY DEF refused, killed
<1>3. Working(s) /\ s \in Session  BY <1>1, <1>2 DEF Running, Working
<1>4. /\ session' = [session EXCEPT ![r] = Idle]
      /\ db' = IF Open(r) THEN s.before ELSE db
      /\ broken' = IF ~Transactional /\ Begun(s) THEN broken \cup {Direction(s)} ELSE broken
  BY <1>2 DEF Stop
<1>5. n = Idle /\ \A q \in Runners \ {r} : session'[q] = session[q]  BY <1>1, <1>4
<1>6. session' \in [Runners -> Session]  BY <1>1, <1>4, IdleIs
<1>7. db' \in Database  BY <1>1, <1>3, <1>4 DEF Session
<1>8. broken' \subseteq {"up", "down"}  BY <1>4 DEF MigrationTypeOK, Direction
<1>9. refusals' \subseteq [direction : {"up", "down"}, revision : 1..HEAD, clean : BOOLEAN]
  <2>1. CASE killed(r)  BY <2>1 DEF killed, MigrationTypeOK
  <2>2. CASE refused(r)
    <3> DEFINE c == s.alone /\ broken = {}
    <3>1. refusals' = refusals \cup {[direction |-> Direction(s), revision |-> Revision(s), clean |-> c]}
      BY <2>2 DEF refused
    <3>2. Direction(s) \in {"up", "down"} /\ Revision(s) \in 1..HEAD /\ c \in BOOLEAN
      BY <1>3, SessionScript, RevisionsAre DEF Direction, Working, Session
    <3> HIDE DEF s, c
    <3> QED BY <3>1, <3>2 DEF MigrationTypeOK
  <2> QED BY <1>2, <2>1, <2>2
<1>10. MigrationTypeOK'
  <2>1. \A q \in Runners : Placed(session'[q])  BY <1>1, <1>5, IdleIs
  <2> QED BY <1>2, <1>6, <1>7, <1>8, <1>9, <2>1 DEF MigrationTypeOK
<1>11. OthersStay(r)  BY <1>5, <1>6 DEF OthersStay, At
<1> QED BY <1>2, <1>3, <1>4, <1>5, <1>10, <1>11

-----------------------------------------------------------------------------
(* The accounts.                                                           *)

\* Where everybody is idle or at the beginning, nobody has anything in hand.
Fresh(s) == s = Idle \/ (Working(s) /\ ~Begun(s))

\* Fresh sessions have nothing in hand.
LEMMA NobodyMade ==
    ASSUME \A q \in Runners : Fresh(session'[q])
    PROVE  /\ \A x : Creators(x)' = {} /\ Droppers(x)' = {}
           /\ \A n, x : BetweenIndex(n, x)' = {}
           /\ \A a \in AllTables : \A m \in a.references : BetweenTables(m, a.name)' = {}
<1>1. \A q \in Runners :
        /\ \A x : ~Made(session'[q], x) /\ ~Unmade(session'[q], x)
        /\ \A n, x : ~HasPart(session'[q], n, x)
        /\ \A a \in AllTables : \A m \in a.references : ~HasReferred(session'[q], m, a.name)
  BY NothingMade DEF Fresh
<1>2. \A x : Creators(x)' = {} /\ Droppers(x)' = {}
  BY <1>1 DEF Creators, Droppers, Running, Made, Unmade
<1>3. \A n, x : BetweenIndex(n, x)' = {}  BY <1>1 DEF BetweenIndex
<1>4. \A a \in AllTables : \A m \in a.references : BetweenTables(m, a.name)' = {}
  BY <1>1 DEF BetweenTables
<1> QED BY <1>2, <1>3, <1>4

\* A rollback: everybody else is fresh, and the database is as committed.
LEMMA RollbackIs ==
    ASSUME MigrationTypeOK, TransactionsIsolated, NEW r \in Runners, refused(r) \/ killed(r), Open(r)
    PROVE  /\ Transactional /\ db' = session[r].before /\ Sound(db') /\ broken' = broken
           /\ \A q \in Runners : Fresh(session'[q])
<1>1. /\ session'[r] = Idle /\ db' = session[r].before
      /\ broken' = IF ~Transactional /\ Begun(session[r]) THEN broken \cup {Direction(session[r])} ELSE broken
      /\ \A q \in Runners \ {r} : session'[q] = session[q]
  BY StopIs
<1>2. Transactional  BY DEF TransactionsIsolated
<1>3. /\ \A q \in Runners \ {r} : ~Open(q)
      /\ \A q \in Runners : ~Open(q) => ~Begun(session[q])
      /\ Sound(session[r].before)
  BY <1>2 DEF TransactionsIsolated
<1>4. \A q \in Runners : session[q] = Idle \/ Working(session[q])
  BY DEF MigrationTypeOK, Placed, Working
<1> QED BY <1>1, <1>2, <1>3, <1>4 DEF Fresh

\* A command that is stopped without a transaction, or before its first statement.
LEMMA StopEven ==
    ASSUME MigrationTypeOK, TransactionsIsolated, NEW r \in Runners, refused(r) \/ killed(r), ~Open(r)
    PROVE  /\ db' = db /\ broken \subseteq broken'
           /\ \A q \in Runners : session[q] = Idle \/ Working(session[q])
           /\ ~Begun(session[r]) => \A x : Even(r, x)
           /\ broken' = {} => ~Begun(session[r])
           /\ "down" \notin broken' => ~Begun(session[r]) \/ Up(session[r])
<1>1. /\ session'[r] = Idle /\ db' = db /\ Working(session[r])
      /\ broken' = IF ~Transactional /\ Begun(session[r]) THEN broken \cup {Direction(session[r])} ELSE broken
  BY StopIs
<1>2. Transactional => ~Begun(session[r])  BY DEF TransactionsIsolated
<1>3. \A q \in Runners : session[q] = Idle \/ Working(session[q])
  BY DEF MigrationTypeOK, Placed, Working
<1>4. ASSUME ~Begun(session[r]), NEW x PROVE Even(r, x)
  <2>1. ~Made(session[r], x) /\ ~Unmade(session[r], x) /\ ~Made(session'[r], x) /\ ~Unmade(session'[r], x)
    BY <1>1, <1>4, NothingMade
  <2> QED BY <1>1, <2>1 DEF Even, One
<1>5. broken' = {} => ~Begun(session[r])  BY <1>1, <1>2
<1>6. "down" \notin broken' => ~Begun(session[r]) \/ Up(session[r])  BY <1>1, <1>2 DEF Direction
<1> QED BY <1>1, <1>3, <1>4, <1>5, <1>6

\* A statement is even: what the table gains, the runner has in hand.
LEMMA ExecuteEven ==
    ASSUME MigrationTypeOK, NEW r \in Runners, execute(r), NEW x
    PROVE  Even(r, x)
<1> DEFINE s == session[r]
           n == session'[r]
           t == Here(s)
<1>1. /\ Working(s) /\ ~Complete(s) /\ Accepts(Current(s)) /\ db' = Result(Current(s))
      /\ At(n, Advanced(s)) /\ db \in Database
  BY ExecuteIs DEF MigrationTypeOK
<1>2. /\ Active(n) = Active(Advanced(s)) /\ Creates(n) = Creates(Advanced(s)) /\ Done(n) = Done(Advanced(s))
      /\ Active(s) /\ Active(Advanced(s)) /\ Creates(Advanced(s)) = Creates(s)
  BY <1>1, AtSame, AdvancedIs, SameScript DEF Working
<1> HIDE DEF s, n
<1>3. CASE Creates(s) /\ s.step = 0
  <2>1. t.name \notin Done(s) /\ Done(n) = Done(s) \cup {t.name}  BY <1>1, <1>2, <1>3, CreateTable
  <2>2. t.name \notin db.tables /\ db'.tables = db.tables \cup {t.name} /\ db'.stamp = db.stamp
    BY <1>1, <1>3, CreateTable, CreateTableOn
  <2> QED BY <1>2, <1>3, <2>1, <2>2 DEF Even, Made, Unmade, One, s, n
<1>4. CASE Creates(s) /\ s.step # 0
  <2>1. Done(n) = Done(s)  BY <1>1, <1>2, <1>4, CreateIndex
  <2>2. db'.tables = db.tables /\ db'.stamp = db.stamp
    <3>1. t.indexes[s.step] \in Range(t.indexes)  BY <1>1, <1>4, CreateIndex, HereIs DEF Matches, Range
    <3> QED BY <1>1, <1>4, <3>1, CreateIndex, CreateIndexOn
  <2> QED BY <1>2, <2>1, <2>2 DEF Even, Made, Unmade, One, s, n
<1>5. CASE ~Creates(s) /\ s.step < Len(Here(s).indexes)
  <2>1. Done(n) = Done(s)  BY <1>1, <1>2, <1>5, DropIndex
  <2>2. db'.tables = db.tables /\ db'.stamp = db.stamp
    BY <1>1, <1>5, DropIndex, DropIndexOn
  <2> QED BY <1>2, <2>1, <2>2 DEF Even, Made, Unmade, One, s, n
<1>6. CASE ~Creates(s) /\ ~(s.step < Len(Here(s).indexes))
  <2>1. t.name \notin Done(s) /\ Done(n) = Done(s) \cup {t.name}  BY <1>1, <1>2, <1>6, DropTable
  <2>2. t.name \in db.tables /\ db'.tables = db.tables \ {t.name} /\ db'.stamp = db.stamp
    BY <1>1, <1>6, DropTable, DropTableOn
  <2> QED BY <1>2, <1>6, <2>1, <2>2 DEF Even, Made, Unmade, One, s, n
<1> QED BY <1>3, <1>4, <1>5, <1>6

\* So is the stamp: what it says of the script is what the runner had in hand.
LEMMA RunEven ==
    ASSUME MigrationTypeOK, NEW r \in Runners, run_migrations(r), NEW x
    PROVE  Even(r, x)
<1> DEFINE s == session[r]
           n == session'[r]
<1>1. /\ Working(s) /\ Complete(s) /\ db.stamp = s.from /\ db'.tables = db.tables /\ db'.stamp = Reached(s)
      /\ n = Idle \/ (Working(n) /\ ~Begun(n))
  BY RunIs
<1>2. ~Made(n, x) /\ ~Unmade(n, x)  BY <1>1, NothingMade
<1>3. Active(s) /\ Done(s) = TablesOf(Script(s))  BY <1>1, DoneIs DEF Working
<1>4. Turns(Script(s), s.from, Reached(s))  BY <1>1, SessionScript DEF Working
<1>5. Script(s).op \in {"create", "drop"}  BY <1>4 DEF Turns, WellFormed
<1> HIDE DEF s, n
<1>6. CASE Creates(s)
  <2>1. /\ TablesOf(Script(s)) \cap TablesAt(db.stamp) = {}
        /\ TablesAt(db'.stamp) = TablesAt(db.stamp) \cup TablesOf(Script(s))
    BY <1>1, <1>4, <1>6 DEF Turns, Creates
  <2> QED BY <1>1, <1>2, <1>3, <1>6, <2>1 DEF Even, Made, Unmade, One, s, n
<1>7. CASE ~Creates(s)
  <2>1. /\ TablesOf(Script(s)) \subseteq TablesAt(db.stamp)
        /\ TablesAt(db'.stamp) = TablesAt(db.stamp) \ TablesOf(Script(s))
    BY <1>1, <1>4, <1>5, <1>7 DEF Turns, Creates
  <2> QED BY <1>1, <1>2, <1>3, <1>7, <2>1 DEF Even, Made, Unmade, One, s, n
<1> QED BY <1>6, <1>7

\* So is a beginning.
LEMMA StartEven ==
    ASSUME MigrationTypeOK, NEW r \in Runners, NEW to \in 0..HEAD, Start(r, to), NEW x
    PROVE  Even(r, x)
<1>1. /\ session[r] = Idle /\ Working(session'[r]) /\ ~Begun(session'[r]) /\ db' = db
  BY StartIs
<1>2. ~Made(session[r], x) /\ ~Unmade(session[r], x) /\ ~Made(session'[r], x) /\ ~Unmade(session'[r], x)
  BY <1>1, NothingMade
<1> QED BY <1>1, <1>2 DEF Even, One

\* What can happen.
LEMMA Actions ==
    ASSUME [MigrationNext]_migrationVars
    PROVE  \/ \E r \in Runners, to \in 0..HEAD : Start(r, to) /\ (to = HEAD \/ to < Committed.stamp)
           \/ \E r \in Runners : execute(r)
           \/ \E r \in Runners : run_migrations(r)
           \/ \E r \in Runners : refused(r) \/ killed(r)
           \/ UNCHANGED migrationVars
<1>1. HEAD = 4 /\ HEAD \in 0..HEAD /\ \A n \in 0..(HEAD - 1) : n \in 0..HEAD
  <2>1. HEAD = 4  BY RevisionsAre
  <2> QED BY <2>1
<1>2. CASE \E r \in Runners : upgrade_head(r)  BY <1>1, <1>2 DEF upgrade_head
<1>3. CASE \E r \in Runners : \E n \in 0..(HEAD - 1) : downgrade_to(r, n)
  BY <1>1, <1>3 DEF downgrade_to
<1>4. CASE Finished  BY <1>4 DEF Finished
<1> QED BY <1>2, <1>3, <1>4 DEF MigrationNext

\* The accounts of every table, whatever a runner does.
LEMMA AccountsKept ==
    ASSUME MigrationTypeOK, TransactionsIsolated, TablesAccounted, StayingAccounted,
           [MigrationNext]_migrationVars
    PROVE  TablesAccounted' /\ StayingAccounted'
<1> USE DEF TablesAccounted
<1>0. StayingAccounted <=> ("down" \notin broken => \A x \in Staying : Staid(x))
  BY DEF StayingAccounted, Staid
<1>01. StayingAccounted' <=> ("down" \notin broken' => \A x \in Staying : Staid(x)')
  BY DEF StayingAccounted, Staid
<1>1. ASSUME NEW r \in Runners, OthersStay(r), broken' = broken, \A x : Even(r, x)
      PROVE  TablesAccounted' /\ StayingAccounted'
  BY <1>0, <1>01, <1>1, Balance
<1>2. ASSUME NEW r \in Runners, NEW to \in 0..HEAD, Start(r, to)
      PROVE  TablesAccounted' /\ StayingAccounted'
  BY <1>1, <1>2, StartIs, StartEven
<1>3. ASSUME NEW r \in Runners, execute(r)
      PROVE  TablesAccounted' /\ StayingAccounted'
  BY <1>1, <1>3, ExecuteIs, ExecuteEven
<1>4. ASSUME NEW r \in Runners, run_migrations(r)
      PROVE  TablesAccounted' /\ StayingAccounted'
  BY <1>1, <1>4, RunIs, RunEven
<1>5. ASSUME NEW r \in Runners, refused(r) \/ killed(r)
      PROVE  TablesAccounted' /\ StayingAccounted'
  <2>1. CASE Open(r)
    <3>1. Sound(db') /\ \A q \in Runners : Fresh(session'[q])  BY <1>5, <2>1, RollbackIs
    <3>2. \A x : Creators(x)' = {} /\ Droppers(x)' = {}  BY <3>1, NobodyMade
    <3>3. db'.tables = TablesAt(db'.stamp)  BY <3>1 DEF Sound
    <3>4. \A x : Cardinality(Creators(x)') = 0 /\ Cardinality(Droppers(x)') = 0
      BY <3>2, FS_EmptySet
    <3>5. \A p : One(p) \in Nat  BY DEF One
    <3>6. \A x : Accounted(x)' /\ Staid(x)'  BY <3>3, <3>4, <3>5 DEF Accounted, Staid
    <3> QED BY <1>01, <3>6
  <2>2. CASE ~Open(r)
    <3>1. /\ db' = db /\ broken \subseteq broken'
          /\ ~Begun(session[r]) => \A x : Even(r, x)
          /\ broken' = {} => ~Begun(session[r])
          /\ "down" \notin broken' => ~Begun(session[r]) \/ Up(session[r])
      BY <1>5, <2>2, StopEven
    <3>2. OthersStay(r) /\ session'[r] = Idle /\ Working(session[r])  BY <1>5, StopIs
    <3>3. TablesAccounted'
      <4>1. SUFFICES ASSUME broken' = {}, NEW x \in TableNames PROVE Accounted(x)'  OBVIOUS
      <4>2. broken = {} /\ Even(r, x)  BY <3>1, <4>1
      <4> QED BY <3>2, <4>2, Balance
    <3>4. StayingAccounted'
      <4>1. SUFFICES ASSUME "down" \notin broken', NEW x \in Staying PROVE Staid(x)'
        BY <1>01
      <4>2. Staid(x)  BY <1>0, <3>1, <4>1
      <4>3. CASE ~Begun(session[r])  BY <3>1, <3>2, <4>2, <4>3, Balance
      <4>4. CASE Up(session[r])
        <5>1. ~Unmade(session[r], x)
          <6>1. Active(session[r]) /\ session[r] \in Session  BY <3>2 DEF Working
          <6>2. SUFFICES ASSUME ~Creates(session[r]), x \in Done(session[r]) PROVE FALSE  BY DEF Unmade
          <6>3. Revision(session[r]) = HEAD  BY <4>4, <6>1, <6>2, SessionScript, RevisionsAre
          <6>4. Script(session[r]) = upgrade[HEAD]  BY <4>4, <6>3 DEF Script
          <6> QED BY <3>2, <6>2, <6>4, DoneIs DEF Staying
        <5>2. ~Made(session'[r], x) /\ ~Unmade(session'[r], x)  BY <3>2, NothingMade
        <5>3. Lean(r, x)  BY <3>1, <5>1, <5>2 DEF Lean, One
        <5> QED BY <3>2, <4>2, <5>3, Balance
      <4> QED BY <3>1, <4>1, <4>3, <4>4
    <3> QED BY <3>3, <3>4
  <2> QED BY <2>1, <2>2
<1>6. CASE UNCHANGED migrationVars
  <2>1. \A x : Creators(x)' = Creators(x) /\ Droppers(x)' = Droppers(x)
    BY <1>6 DEF migrationVars, Creators, Droppers, Running
  <2>2. \A x : (Accounted(x)' <=> Accounted(x)) /\ (Staid(x)' <=> Staid(x))
    BY <1>6, <2>1 DEF migrationVars, Accounted, Staid
  <2> QED BY <1>0, <1>01, <1>6, <2>2 DEF migrationVars
<1> QED BY <1>2, <1>3, <1>4, <1>5, <1>6, Actions

\* Nobody at work, the account is the table itself.
LEMMA QuietStamp == MigrationTypeOK /\ TablesAccounted => StampTellsTables
<1> SUFFICES ASSUME MigrationTypeOK, TablesAccounted, Quiet, broken = {}
             PROVE  db.tables = TablesAt(db.stamp)
  BY DEF StampTellsTables
<1>1. \A x : Creators(x) = {} /\ Droppers(x) = {}  BY DEF Quiet, Creators, Droppers
<1>2. \A x \in TableNames : x \in db.tables <=> x \in TablesAt(db.stamp)
  <2>1. Cardinality({}) = 0  BY FS_EmptySet
  <2> QED BY <1>1, <2>1 DEF TablesAccounted, Accounted, One
<1>3. db.tables \subseteq TableNames /\ db.stamp \in 0..4  BY DatabaseFields, RevisionsAre DEF MigrationTypeOK
<1>4. TablesAt(db.stamp) \subseteq TableNames
  <2>1. \A v \in 0..4 : v = 0 \/ v = 1 \/ v = 2 \/ v = 3 \/ v = 4  OBVIOUS
  <2> QED BY <1>3, <2>1, RevisionsAre
<1> QED BY <1>2, <1>3, <1>4

-----------------------------------------------------------------------------
(* The guarded pairs.                                                      *)

\* Who is in a place that only one can be in, and only while the place is open.
Guarded(B, open) == (B # {} => open) /\ \A r, q \in B : r = q

\* One runner enters or leaves a guarded place.
LEMMA GuardMoves ==
    ASSUME NEW B, NEW C, NEW r, C \ {r} = B \ {r}, NEW open \in BOOLEAN, NEW after \in BOOLEAN,
        Guarded(B, open)
    PROVE  /\ (r \in C <=> r \in B) /\ (open => after) => C = B /\ Guarded(C, after)
           /\ r \in B /\ r \notin C => C = {} /\ Guarded(C, after)
           /\ r \notin C /\ (open => after) => Guarded(C, after)
BY DEF Guarded

ReferenceOpen(d, m, a) == m \in d.tables /\ a.name \notin d.tables

\* A statement keeps the references resolved and guarded.
LEMMA ReferencesExecute ==
    ASSUME MigrationTypeOK, ReferencesResolve, ReferencesGuarded, NEW r \in Runners, execute(r)
    PROVE  ReferencesResolve' /\ ReferencesGuarded'
<1> DEFINE s == session[r]
           n == session'[r]
           e == Advanced(s)
           t == Here(s)
<1>1. /\ Working(s) /\ ~Complete(s) /\ Accepts(Current(s)) /\ db' = Result(Current(s))
      /\ At(n, e) /\ db \in Database /\ OthersStay(r)
  BY ExecuteIs DEF MigrationTypeOK
<1>2. /\ Working(e) /\ Active(s) /\ Creates(e) = Creates(s) /\ TablesOf(Script(e)) = TablesOf(Script(s))
      /\ Active(e)
  BY <1>1, AdvancedIs, SameScript DEF Working
<1>3. \A a \in AllTables : \A m \in a.references :
        Guarded(BetweenTables(m, a.name), ReferenceOpen(db, m, a)) /\ a.name # m
  BY ReferencesAre DEF ReferencesGuarded, Guarded, ReferenceOpen
<1>4. \A a \in AllTables : \A m \in a.references :
        /\ BetweenTables(m, a.name)' \ {r} = BetweenTables(m, a.name) \ {r}
        /\ r \in BetweenTables(m, a.name) <=> HasReferred(s, m, a.name)
        /\ r \in BetweenTables(m, a.name)' <=> HasReferred(e, m, a.name)
  <2>1. \A m, b : HasReferred(n, m, b) = HasReferred(e, m, b)  BY <1>1, AtSame
  <2> QED BY <1>1, <2>1, OthersKeep DEF BetweenTables
<1>5. \A a \in AllTables : \A m \in a.references : a.name \in db.tables => m \in db.tables
  BY DEF ReferencesResolve, Resolves
<1>6. ASSUME \A a \in AllTables : \A m \in a.references :
               /\ Guarded(BetweenTables(m, a.name)', ReferenceOpen(db', m, a))
               /\ a.name \in db'.tables => m \in db'.tables
      PROVE  ReferencesResolve' /\ ReferencesGuarded'
  BY <1>6 DEF ReferencesResolve, Resolves, ReferencesGuarded, Guarded, ReferenceOpen
<1> SUFFICES ASSUME NEW a \in AllTables, NEW m \in a.references
             PROVE  /\ Guarded(BetweenTables(m, a.name)', ReferenceOpen(db', m, a))
                    /\ a.name \in db'.tables => m \in db'.tables
  BY <1>6
<1> DEFINE B == BetweenTables(m, a.name)
           p == ReferenceOpen(db, m, a)
           q == ReferenceOpen(db', m, a)
<1>7. /\ p \in BOOLEAN /\ q \in BOOLEAN /\ Guarded(B, p) /\ B' \ {r} = B \ {r}
      /\ (r \in B <=> HasReferred(s, m, a.name)) /\ (r \in B' <=> HasReferred(e, m, a.name))
  BY <1>3, <1>4 DEF ReferenceOpen
<1>8. /\ p <=> m \in db.tables /\ a.name \notin db.tables
      /\ q <=> m \in db'.tables /\ a.name \notin db'.tables
  BY DEF ReferenceOpen
<1>11. p = (HasReferred(s, m, a.name) \/ p)
  BY <1>7 DEF Guarded
<1> HIDE DEF s, n, e, p, q, B
<1>9. CASE Creates(s) /\ s.step = 0
  <2>1. t.name \notin Done(s) /\ Done(e) = Done(s) \cup {t.name}  BY <1>1, <1>9, CreateTable DEF e
  <2>2. t.name \notin db.tables /\ db'.tables = db.tables \cup {t.name}
    BY <1>1, <1>9, CreateTable, CreateTableOn
  <2>3. HasReferred(s, m, a.name) <=> m \in Done(s) /\ a.name \notin Done(s) /\ a.name \in TablesOf(Script(s))
    BY <1>2, <1>9 DEF HasReferred
  <2>4. HasReferred(e, m, a.name) <=> m \in Done(e) /\ a.name \notin Done(e) /\ a.name \in TablesOf(Script(s))
    BY <1>2, <1>9 DEF HasReferred
  <2>5. CASE t.name = a.name
    <3>1. HasReferred(s, m, a.name)  BY <1>1, <1>9, <2>1, <2>5, OrderKept DEF t
    <3>2. r \in B /\ r \notin B'  BY <1>7, <2>1, <2>4, <2>5, <3>1
    <3>3. m \in db'.tables  BY <1>8, <1>11, <2>2, <3>1
    <3> QED BY <1>7, <3>2, <3>3, GuardMoves DEF B, q
  <2>6. CASE t.name = m
    <3>1. a.name \notin Done(s) /\ a.name \in TablesOf(Script(s))
      BY <1>1, <1>9, <2>1, <2>6, OrderKept DEF t
    <3>2. ~p /\ q  BY <1>3, <1>5, <1>8, <2>2, <2>6
    <3>3. r \in B'  BY <1>3, <1>7, <2>1, <2>4, <2>6, <3>1
    <3>4. B = {}  BY <1>7, <3>2 DEF Guarded
    <3>5. B' = {r}  BY <1>7, <3>3, <3>4
    <3>6. Guarded(B', q)  BY <3>2, <3>5 DEF Guarded
    <3> QED BY <1>8, <3>2, <3>6 DEF B, q
  <2>7. CASE t.name # a.name /\ t.name # m
    <3>1. (r \in B' <=> r \in B) /\ (p => q)  BY <1>7, <1>8, <2>1, <2>2, <2>3, <2>4, <2>7
    <3> QED BY <1>5, <1>7, <2>2, <2>7, <3>1, GuardMoves DEF B, q
  <2> QED BY <2>5, <2>6, <2>7
<1>10. CASE ~Creates(s) /\ ~(s.step < Len(Here(s).indexes))
  <2>1. t.name \notin Done(s) /\ Done(e) = Done(s) \cup {t.name}  BY <1>1, <1>10, DropTable DEF e
  <2>2. t.name \in db.tables /\ db'.tables = db.tables \ {t.name}
    BY <1>1, <1>10, DropTable, DropTableOn
  <2>3. HasReferred(s, m, a.name) <=> a.name \in Done(s) /\ m \notin Done(s)
    BY <1>2, <1>10 DEF HasReferred
  <2>4. HasReferred(e, m, a.name) <=> a.name \in Done(e) /\ m \notin Done(e)
    BY <1>2, <1>10 DEF HasReferred
  <2>5. CASE t.name = m
    <3>1. HasReferred(s, m, a.name)  BY <1>1, <1>10, <2>1, <2>5, OrderKept DEF t
    <3>2. r \in B /\ r \notin B'  BY <1>7, <2>1, <2>4, <2>5, <3>1
    <3>3. a.name \notin db'.tables  BY <1>8, <1>11, <2>2, <3>1
    <3> QED BY <1>7, <3>2, <3>3, GuardMoves DEF B, q
  <2>6. CASE t.name = a.name
    <3>1. m \notin Done(s)  BY <1>1, <1>10, <2>1, <2>6, OrderKept DEF t
    <3>2. ~p /\ q  BY <1>3, <1>5, <1>8, <2>2, <2>6
    <3>3. r \in B'  BY <1>3, <1>7, <2>1, <2>4, <2>6, <3>1
    <3>4. B = {}  BY <1>7, <3>2 DEF Guarded
    <3>5. B' = {r}  BY <1>7, <3>3, <3>4
    <3>6. Guarded(B', q)  BY <3>2, <3>5 DEF Guarded
    <3> QED BY <1>8, <3>2, <3>6 DEF B, q
  <2>7. CASE t.name # a.name /\ t.name # m
    <3>1. (r \in B' <=> r \in B) /\ (p => q)  BY <1>7, <1>8, <2>1, <2>2, <2>3, <2>4, <2>7
    <3> QED BY <1>5, <1>7, <2>2, <2>7, <3>1, GuardMoves DEF B, q
  <2> QED BY <2>5, <2>6, <2>7
<1>12. CASE (Creates(s) /\ s.step # 0) \/ (~Creates(s) /\ s.step < Len(Here(s).indexes))
  <2>1. Done(e) = Done(s) /\ db'.tables = db.tables
    <3>1. CASE Creates(s) /\ s.step # 0
      <4>1. t.indexes[s.step] \in Range(t.indexes)  BY <1>1, <3>1, CreateIndex, HereIs DEF Matches, Range
      <4> QED BY <1>1, <3>1, <4>1, CreateIndex, CreateIndexOn DEF e
    <3>2. CASE ~Creates(s) /\ s.step < Len(Here(s).indexes)
      BY <1>1, <3>2, DropIndex, DropIndexOn DEF e
    <3> QED BY <1>12, <3>1, <3>2
  <2>2. HasReferred(s, m, a.name) <=> HasReferred(e, m, a.name)
    BY <1>2, <2>1 DEF HasReferred
  <2>3. (r \in B' <=> r \in B) /\ (p => q)  BY <1>7, <1>8, <2>1, <2>2
  <2> QED BY <1>5, <1>7, <2>1, <2>3, GuardMoves DEF B, q
<1> QED BY <1>9, <1>10, <1>12

IndexOpen(d, a, x) == a.name \in d.tables /\ x \notin d.indexes
IndexGuard(B, whole, open) == Guarded(B, open) /\ (whole /\ open => B # {})

\* A statement keeps the indexes guarded.
LEMMA IndexesExecute ==
    ASSUME MigrationTypeOK, IndexesHaveTables(db), IndexesGuarded, NEW r \in Runners, execute(r)
    PROVE  IndexesHaveTables(db') /\ IndexesGuarded'
<1> DEFINE s == session[r]
           n == session'[r]
           e == Advanced(s)
           t == Here(s)
           w == broken = {}
<1>1. /\ Working(s) /\ ~Complete(s) /\ Accepts(Current(s)) /\ db' = Result(Current(s))
      /\ At(n, e) /\ db \in Database /\ OthersStay(r) /\ broken' = broken
  BY ExecuteIs DEF MigrationTypeOK
<1>2. PICK o \in AllTables :
        /\ o.name = t.name
        /\ \A x \in Range(t.indexes) : x \in Range(o.indexes)
        /\ \A x \in Range(o.indexes) \ {Forgotten} : x \in Range(t.indexes)
        /\ IndexesOf(t.name) = Range(o.indexes)
  BY <1>1, HereListed
<1>3. \A a \in AllTables : \A x \in Range(a.indexes) \ {Forgotten} :
        IndexGuard(BetweenIndex(a.name, x), w, IndexOpen(db, a, x))
  BY DEF IndexesGuarded, IndexGuard, Guarded, IndexOpen
<1>4. \A b, x :
        /\ BetweenIndex(b, x)' \ {r} = BetweenIndex(b, x) \ {r}
        /\ r \in BetweenIndex(b, x) <=> HasPart(s, b, x)
        /\ r \in BetweenIndex(b, x)' <=> HasPart(e, b, x)
  <2>1. \A b, x : HasPart(n, b, x) = HasPart(e, b, x)  BY <1>1, AtSame
  <2> QED BY <1>1, <2>1, OthersKeep DEF BetweenIndex
<1>5. \A a \in AllTables : \A x \in Range(a.indexes) : x \in db.indexes => a.name \in db.tables
  BY DEF IndexesHaveTables
<1>6. ASSUME \A a \in AllTables : \A x \in Range(a.indexes) :
               /\ x # Forgotten => IndexGuard(BetweenIndex(a.name, x)', w, IndexOpen(db', a, x))
               /\ x \in db'.indexes => a.name \in db'.tables
      PROVE  IndexesHaveTables(db') /\ IndexesGuarded'
  BY <1>1, <1>6 DEF IndexesHaveTables, IndexesGuarded, IndexGuard, Guarded, IndexOpen
<1>7. \A a \in AllTables : /\ a.name = t.name <=> a = o
                           /\ \A x \in Range(a.indexes) : x \in Range(o.indexes) => a = o
  BY <1>2, NamesOwn
<1> SUFFICES ASSUME NEW a \in AllTables, NEW x \in Range(a.indexes)
             PROVE  /\ x # Forgotten => IndexGuard(BetweenIndex(a.name, x)', w, IndexOpen(db', a, x))
                    /\ x \in db'.indexes => a.name \in db'.tables
  BY <1>6
<1> DEFINE B == BetweenIndex(a.name, x)
           p == IndexOpen(db, a, x)
           q == IndexOpen(db', a, x)
<1>8. /\ p \in BOOLEAN /\ q \in BOOLEAN /\ B' \ {r} = B \ {r}
      /\ x # Forgotten => Guarded(B, p) /\ (w /\ p => B # {})
      /\ (r \in B <=> HasPart(s, a.name, x)) /\ (r \in B' <=> HasPart(e, a.name, x))
  BY <1>3, <1>4 DEF IndexOpen, IndexGuard
<1>9. /\ p <=> a.name \in db.tables /\ x \notin db.indexes
      /\ q <=> a.name \in db'.tables /\ x \notin db'.indexes
  BY DEF IndexOpen
<1>10. a.name = t.name <=> a = o  BY <1>7
<1>11. x \in Range(o.indexes) => a = o  BY <1>7
<1>12. x \in db.indexes => a.name \in db.tables  BY <1>5
<1> SUFFICES /\ x # Forgotten => Guarded(B', q) /\ (w /\ q => B' # {})
             /\ x \in db'.indexes => a.name \in db'.tables
  BY DEF IndexGuard
<1> HIDE DEF s, n, e, p, q, B, w
<1>13. CASE Creates(s) /\ s.step = 0
  <2>1. /\ \A b, y : ~HasPart(s, b, y)
        /\ \A b, y : HasPart(e, b, y) <=> b = t.name /\ y \in Range(t.indexes)
    BY <1>1, <1>13, CreateTable DEF e
  <2>2. t.name \notin db.tables /\ db'.tables = db.tables \cup {t.name} /\ db'.indexes = db.indexes
    BY <1>1, <1>13, CreateTable, CreateTableOn
  <2>3. CASE a.name = t.name
    <3>1. ~p /\ q  BY <1>9, <1>12, <2>2, <2>3
    <3>2. x # Forgotten => r \in B'  BY <1>2, <1>8, <1>10, <2>1, <2>3
    <3>3. x # Forgotten => B = {}  BY <1>8, <3>1 DEF Guarded
    <3>4. x # Forgotten => B' = {r}  BY <1>8, <3>2, <3>3
    <3> QED BY <1>12, <2>2, <3>1, <3>4 DEF Guarded
  <2>4. CASE a.name # t.name
    <3>1. r \notin B /\ r \notin B'  BY <1>8, <2>1, <2>4
    <3>2. (p <=> q)  BY <1>9, <2>2, <2>4
    <3>3. B' = B  BY <1>8, <3>1
    <3> QED BY <1>8, <1>12, <2>2, <3>2, <3>3 DEF Guarded
  <2> QED BY <2>3, <2>4
<1>14. CASE Creates(s) /\ s.step # 0
  <2> DEFINE i == t.indexes[s.step]
  <2>0. i \in Range(t.indexes)  BY <1>1, <1>14, CreateIndex, HereIs DEF Matches, Range
  <2>1. HasPart(s, t.name, i) /\ \A b, y : HasPart(e, b, y) <=> HasPart(s, b, y) /\ y # i
    BY <1>1, <1>14, CreateIndex DEF e
  <2>2. /\ t.name \in db.tables /\ i \notin db.indexes
        /\ db'.tables = db.tables /\ db'.indexes = db.indexes \cup {i}
    BY <1>1, <1>14, <2>0, CreateIndex, CreateIndexOn
  <2> HIDE DEF i
  <2>3. CASE x = i
    <3>1. a.name = t.name  BY <1>2, <1>10, <1>11, <2>0, <2>3
    <3>2. r \in B /\ r \notin B'  BY <1>8, <2>1, <2>3, <3>1
    <3>3. x # Forgotten => B' = {}  BY <1>8, <3>2 DEF Guarded
    <3>4. ~q  BY <1>9, <2>2, <2>3
    <3> QED BY <2>2, <3>1, <3>3, <3>4 DEF Guarded
  <2>4. CASE x # i
    <3>1. r \in B <=> r \in B'  BY <1>8, <2>1, <2>4
    <3>2. p <=> q  BY <1>9, <2>2, <2>4
    <3>3. B' = B  BY <1>8, <3>1
    <3> QED BY <1>8, <1>12, <2>2, <2>4, <3>2, <3>3 DEF Guarded
  <2> QED BY <2>3, <2>4
<1>15. CASE ~Creates(s) /\ s.step < Len(Here(s).indexes)
  <2> DEFINE i == t.indexes[Len(t.indexes) - s.step]
  <2>0. i \in Range(t.indexes)  BY <1>1, <1>15, DropIndex, HereIs DEF Matches, Range
  <2>1. \A b, y : HasPart(e, b, y) <=> HasPart(s, b, y) \/ (b = t.name /\ y = i)
    BY <1>1, <1>15, DropIndex DEF e
  <2>2. i \in db.indexes /\ db'.tables = db.tables /\ db'.indexes = db.indexes \ {i}
    BY <1>1, <1>15, DropIndex, DropIndexOn
  <2> HIDE DEF i
  <2>3. CASE x = i
    <3>1. a.name = t.name  BY <1>2, <1>10, <1>11, <2>0, <2>3
    <3>2. ~p /\ q  BY <1>9, <1>12, <2>2, <2>3
    <3>3. r \in B'  BY <1>8, <2>1, <2>3, <3>1
    <3>4. x # Forgotten => B = {}  BY <1>8, <3>2 DEF Guarded
    <3>5. x # Forgotten => B' = {r}  BY <1>8, <3>3, <3>4
    <3> QED BY <1>12, <2>2, <3>2, <3>5 DEF Guarded
  <2>4. CASE x # i
    <3>1. r \in B <=> r \in B'  BY <1>8, <2>1, <2>4
    <3>2. p <=> q  BY <1>9, <2>2, <2>4
    <3>3. B' = B  BY <1>8, <3>1
    <3> QED BY <1>8, <1>12, <2>2, <2>4, <3>2, <3>3 DEF Guarded
  <2> QED BY <2>3, <2>4
<1>16. CASE ~Creates(s) /\ ~(s.step < Len(Here(s).indexes))
  <2>1. /\ \A b, y : HasPart(s, b, y) <=> b = t.name /\ y \in Range(t.indexes)
        /\ \A b, y : ~HasPart(e, b, y)
    BY <1>1, <1>16, DropTable DEF e
  <2>2. db'.tables = db.tables \ {t.name} /\ db'.indexes = db.indexes \ Range(o.indexes)
    BY <1>1, <1>2, <1>16, DropTable, DropTableOn
  <2>3. CASE a.name = t.name
    <3>1. x # Forgotten => r \in B /\ r \notin B'  BY <1>2, <1>8, <1>10, <2>1, <2>3
    <3>2. x # Forgotten => B' = {}  BY <1>8, <3>1 DEF Guarded
    <3>3. ~q /\ x \notin db'.indexes  BY <1>9, <1>10, <2>2, <2>3
    <3> QED BY <3>2, <3>3 DEF Guarded
  <2>4. CASE a.name # t.name
    <3>1. r \notin B /\ r \notin B'  BY <1>8, <2>1, <2>4
    <3>2. x \notin Range(o.indexes)  BY <1>10, <1>11, <2>4
    <3>3. (p <=> q)  BY <1>9, <2>2, <2>4, <3>2
    <3>4. B' = B  BY <1>8, <3>1
    <3> QED BY <1>8, <1>12, <2>2, <2>4, <3>3, <3>4 DEF Guarded
  <2> QED BY <2>3, <2>4
<1> QED BY <1>13, <1>14, <1>15, <1>16

\* What the other actions do: the database stays, somebody with nothing in hand
\* begins, moves on or stops.
LEMMA GuardsStay ==
    ASSUME MigrationTypeOK, ReferencesGuarded, IndexesGuarded, NEW r \in Runners, OthersStay(r),
           db'.tables = db.tables, db'.indexes = db.indexes,
           \A n, x : ~HasPart(session'[r], n, x),
           \A a \in AllTables : \A m \in a.references : ~HasReferred(session'[r], m, a.name),
           broken' = {} => broken = {} /\ \A n, x : ~HasPart(session[r], n, x)
    PROVE  ReferencesGuarded' /\ IndexesGuarded'
<1>1. \A a \in AllTables : \A m \in a.references : BetweenTables(m,
    a.name)' \subseteq BetweenTables(m, a.name)
  <2>1. \A a \in AllTables : \A m \in a.references : r \notin BetweenTables(m, a.name)'
    BY DEF BetweenTables
  <2> QED BY <2>1, OthersKeep
<1>2. \A n, x : BetweenIndex(n, x)' \subseteq BetweenIndex(n, x)
  <2>1. \A n, x : r \notin BetweenIndex(n, x)'  BY DEF BetweenIndex
  <2> QED BY <2>1, OthersKeep
<1>3. broken' = {} => \A n, x : BetweenIndex(n, x)' = BetweenIndex(n, x)
  <2>1. broken' = {} => \A n, x : r \notin BetweenIndex(n, x)  BY DEF BetweenIndex
  <2> QED BY <1>2, <2>1, OthersKeep
<1>4. ReferencesGuarded'  BY <1>1 DEF ReferencesGuarded
<1>5. IndexesGuarded'  BY <1>2, <1>3 DEF IndexesGuarded
<1> QED BY <1>4, <1>5

\* Every step does.
LEMMA GuardsKept ==
    ASSUME MigrationTypeOK, TransactionsIsolated, ReferencesResolve, ReferencesGuarded,
           IndexesHaveTables(db), IndexesGuarded, [MigrationNext]_migrationVars
    PROVE  ReferencesResolve' /\ ReferencesGuarded' /\ IndexesHaveTables(db') /\ IndexesGuarded'
<1>1. ASSUME db'.tables = db.tables, db'.indexes = db.indexes
      PROVE  ReferencesResolve' /\ IndexesHaveTables(db')
  BY <1>1 DEF ReferencesResolve, Resolves, IndexesHaveTables
<1>2. ASSUME NEW r \in Runners, NEW to \in 0..HEAD, Start(r, to)
      PROVE  ReferencesResolve' /\ ReferencesGuarded' /\ IndexesHaveTables(db') /\ IndexesGuarded'
  <2>1. /\ OthersStay(r) /\ db' = db /\ broken' = broken /\ session[r] = Idle
        /\ Working(session'[r]) /\ ~Begun(session'[r])
    BY <1>2, StartIs
  <2>2. /\ \A n, x : ~HasPart(session'[r], n, x) /\ ~HasPart(session[r], n, x)
        /\ \A a \in AllTables : \A m \in a.references : ~HasReferred(session'[r], m, a.name)
    BY <2>1, NothingMade
  <2> QED BY <1>1, <2>1, <2>2, GuardsStay
<1>3. ASSUME NEW r \in Runners, execute(r)
      PROVE  ReferencesResolve' /\ ReferencesGuarded' /\ IndexesHaveTables(db') /\ IndexesGuarded'
  BY <1>3, ReferencesExecute, IndexesExecute
<1>4. ASSUME NEW r \in Runners, run_migrations(r)
      PROVE  ReferencesResolve' /\ ReferencesGuarded' /\ IndexesHaveTables(db') /\ IndexesGuarded'
  <2>1. /\ OthersStay(r) /\ db'.tables = db.tables /\ db'.indexes = db.indexes /\ broken' = broken
        /\ Working(session[r]) /\ Complete(session[r])
        /\ session'[r] = Idle \/ (Working(session'[r]) /\ ~Begun(session'[r]))
    BY <1>4, RunIs
  <2>2. /\ \A n, x : ~HasPart(session'[r], n, x) /\ ~HasPart(session[r], n, x)
        /\ \A a \in AllTables : \A m \in a.references : ~HasReferred(session'[r], m, a.name)
    BY <2>1, NothingMade, AtBounds
  <2> QED BY <1>1, <2>1, <2>2, GuardsStay
<1>5. ASSUME NEW r \in Runners, refused(r) \/ killed(r)
      PROVE  ReferencesResolve' /\ ReferencesGuarded' /\ IndexesHaveTables(db') /\ IndexesGuarded'
  <2>1. CASE Open(r)
    <3>1. Sound(db') /\ \A q \in Runners : Fresh(session'[q])  BY <1>5, <2>1, RollbackIs
    <3>2. /\ \A n, x : BetweenIndex(n, x)' = {}
          /\ \A a \in AllTables : \A m \in a.references : BetweenTables(m, a.name)' = {}
      BY <3>1, NobodyMade
    <3>3. Resolves(db') /\ IndexesHaveTables(db') /\ TablesHaveIndexes(db')  BY <3>1 DEF Sound
    <3>4. ReferencesGuarded'  BY <3>2 DEF ReferencesGuarded
    <3>5. IndexesGuarded'  BY <3>2, <3>3 DEF IndexesGuarded, TablesHaveIndexes
    <3> QED BY <3>3, <3>4, <3>5 DEF ReferencesResolve
  <2>2. CASE ~Open(r)
    <3>1. /\ db' = db /\ broken \subseteq broken' /\ (broken' = {} => ~Begun(session[r]))
      BY <1>5, <2>2, StopEven
    <3>2. OthersStay(r) /\ session'[r] = Idle /\ Working(session[r])  BY <1>5, StopIs
    <3>3. /\ \A n, x : ~HasPart(session'[r], n, x)
          /\ \A a \in AllTables : \A m \in a.references : ~HasReferred(session'[r], m, a.name)
      BY <3>2, NothingMade
    <3>4. broken' = {} => broken = {} /\ \A n, x : ~HasPart(session[r], n, x)
      BY <3>1, <3>2, NothingMade
    <3> QED BY <1>1, <3>1, <3>2, <3>3, <3>4, GuardsStay
  <2> QED BY <2>1, <2>2
<1>6. CASE UNCHANGED migrationVars
  <2>1. \A n, x : BetweenIndex(n, x)' = BetweenIndex(n, x) /\ BetweenTables(n, x)' = BetweenTables(n, x)
    BY <1>6 DEF migrationVars, BetweenIndex, BetweenTables
  <2>2. db' = db /\ broken' = broken  BY <1>6 DEF migrationVars
  <2>3. ReferencesGuarded'  BY <2>1, <2>2 DEF ReferencesGuarded
  <2>4. IndexesGuarded'  BY <2>1, <2>2 DEF IndexesGuarded
  <2> QED BY <1>1, <2>2, <2>3, <2>4
<1> QED BY <1>2, <1>3, <1>4, <1>5, <1>6, Actions

\* A command that runs alone.
LEMMA LoneKept ==
    ASSUME MigrationTypeOK, TransactionsIsolated, IndexesHaveTables(db), LoneKnows,
        [MigrationNext]_migrationVars
    PROVE  LoneKnows'
<1> DEFINE Clear(s, d) ==
             ~Complete(s) /\ Creates(s) /\ s.step > 0 =>
               \A l \in s.step..Len(Here(s).indexes) : Here(s).indexes[l] \notin d.indexes
           Knows(r) == /\ \A q \in Runners \ {r} : ~Active(session'[q])
                       /\ session'[r].from = db'.stamp
                       /\ Clear(session'[r], db')
<1>1. ASSUME \A r \in Runners : Active(session'[r]) /\ session'[r].alone => Knows(r) PROVE LoneKnows'
  BY <1>1 DEF LoneKnows, Lone, Running
<1>2. \A r \in Runners : Active(session[r]) /\ session[r].alone =>
        /\ \A q \in Runners \ {r} : ~Active(session[q])
        /\ session[r].from = db.stamp
        /\ Clear(session[r], db)
  BY DEF LoneKnows, Lone, Running
<1>3. ASSUME NEW r \in Runners, NEW to \in 0..HEAD, Start(r, to), NEW p \in Runners,
             Active(session'[p]), session'[p].alone
      PROVE  Knows(p)
  <2>1. /\ OthersStay(r) /\ db' = db /\ session'[r].from = Committed.stamp /\ session'[r].step = 0
        /\ session'[r].alone => \A q \in Runners : ~Running(q)
        /\ \A q \in Runners \ {r} : ~session'[q].alone
    BY <1>3, StartIs
  <2>2. p = r /\ \A q \in Runners : ~Active(session[q])  BY <1>3, <2>1 DEF Running
  <2>3. \A q \in Runners \ {r} : ~Active(session'[q])  BY <2>1, <2>2, AtSame DEF OthersStay
  <2>4. \A q \in Runners : session[q] = Idle  BY <2>2 DEF MigrationTypeOK, Placed
  <2>5. Committed = db  BY <2>4, CommittedIs, IdleIs DEF Open
  <2>6. Clear(session'[r], db')  BY <2>1
  <2> QED BY <2>1, <2>2, <2>3, <2>5, <2>6
<1>4. ASSUME NEW r \in Runners, \A q \in Runners \ {r} : session'[q] = session[q],
             Active(session[r]), NEW p \in Runners, Active(session'[p]), session'[p].alone
      PROVE  p = r
  BY <1>2, <1>4
<1>5. ASSUME NEW r \in Runners, execute(r), NEW p \in Runners, Active(session'[p]), session'[p].alone
      PROVE  Knows(p)
  <2> DEFINE s == session[r]
             e == Advanced(s)
             n == session'[r]
             t == Here(s)
  <2>1. /\ Working(s) /\ ~Complete(s) /\ Accepts(Current(s)) /\ db' = Result(Current(s)) /\ db \in Database
        /\ At(n, e) /\ n.alone = s.alone /\ \A q \in Runners \ {r} : session'[q] = session[q]
    BY <1>5, ExecuteIs DEF MigrationTypeOK
  <2>2. p = r /\ Active(s) /\ s.alone  BY <1>4, <1>5, <2>1 DEF Working
  <2>3. \A q \in Runners \ {r} : ~Active(session'[q])  BY <1>2, <2>1, <2>2
  <2>4. s.from = db.stamp /\ Clear(s, db)  BY <1>2, <2>2
  <2>5. /\ Working(e) /\ e.from = s.from /\ Creates(e) = Creates(s)
        /\ s.step < Len(t.indexes) => e.table = s.table /\ e.step = s.step + 1
        /\ s.step = Len(t.indexes) => e.table = s.table + 1 /\ e.step = 0
        /\ Script(e) = Script(s)
    BY <2>1, AdvancedIs, SameScript DEF Same
  <2>6. /\ n.from = e.from /\ n.step = e.step /\ Complete(n) = Complete(e) /\ Creates(n) = Creates(e) /\ Here(n) = Here(e)
    BY <2>1, AtSame DEF At
  <2>7. s.step \in 0..Len(t.indexes) /\ Matches(t)  BY <2>1, HereIs
  <2>8. Len(t.indexes) \in Nat /\ \A k, l \in 1..Len(t.indexes) : t.indexes[k] = t.indexes[l] => k = l
    BY <2>7 DEF Matches
  <2>9. db'.stamp = db.stamp
    <3>1. CASE Creates(s) /\ s.step = 0  BY <2>1, <3>1, CreateTable, CreateTableOn
    <3>2. CASE Creates(s) /\ s.step # 0
      <4>1. t.indexes[s.step] \in Range(t.indexes)  BY <2>1, <3>2, CreateIndex, HereIs DEF Matches, Range
      <4> QED BY <2>1, <3>2, <4>1, CreateIndex, CreateIndexOn
    <3>3. CASE ~Creates(s) /\ s.step < Len(Here(s).indexes)  BY <2>1, <3>3, DropIndex, DropIndexOn
    <3>4. CASE ~Creates(s) /\ ~(s.step < Len(Here(s).indexes))  BY <2>1, <3>4, DropTable, DropTableOn
    <3> QED BY <3>1, <3>2, <3>3, <3>4
  <2>10. Clear(n, db')
    <3>1. SUFFICES ASSUME Creates(s), e.step > 0, NEW l \in e.step..Len(Here(e).indexes)
                   PROVE  Here(e).indexes[l] \notin db'.indexes
      BY <2>5, <2>6
    <3>2. s.step < Len(t.indexes)  BY <2>5, <2>7, <2>8, <3>1
    <3>3. Here(e) = t /\ e.step = s.step + 1  BY <2>5, <3>2 DEF Here
    <3>4. CASE s.step = 0
      <4>1. t.name \notin db.tables /\ db'.indexes = db.indexes
        BY <2>1, <3>1, <3>4, CreateTable, CreateTableOn
      <4>2. PICK o \in AllTables : o.name = t.name /\ \A x \in Range(t.indexes) : x \in Range(o.indexes)
        BY <2>1, HereListed
      <4>3. l \in 1..Len(t.indexes)  BY <2>8, <3>1, <3>3, <3>4
      <4>4. t.indexes[l] \in Range(t.indexes)  BY <2>7, <4>3 DEF Matches, Range
      <4> QED BY <3>3, <4>1, <4>2, <4>4 DEF IndexesHaveTables
    <3>5. CASE s.step # 0
      <4>1. t.indexes[s.step] \in Range(t.indexes)
        BY <2>1, <3>1, <3>5, CreateIndex, HereIs DEF Matches, Range
      <4>2. db'.indexes = db.indexes \cup {t.indexes[s.step]} /\ s.step \in 1..Len(t.indexes)
        BY <2>1, <3>1, <3>5, <4>1, CreateIndex, CreateIndexOn
      <4>3. l \in 1..Len(t.indexes) /\ l # s.step /\ l \in s.step..Len(t.indexes)  BY <2>8, <3>1, <3>3, <4>2
      <4>4. t.indexes[l] \notin db.indexes  BY <2>1, <2>4, <3>1, <4>2, <4>3
      <4>5. t.indexes[l] # t.indexes[s.step]  BY <2>8, <4>2, <4>3
      <4> QED BY <3>3, <4>2, <4>4, <4>5
    <3> QED BY <3>4, <3>5
  <2> QED BY <2>2, <2>3, <2>4, <2>5, <2>6, <2>9, <2>10
<1>6. ASSUME NEW r \in Runners, run_migrations(r), NEW p \in Runners, Active(session'[p]), session'[p].alone
      PROVE  Knows(p)
  <2> DEFINE s == session[r]
             n == session'[r]
  <2>1. /\ Working(s) /\ db'.stamp = Reached(s)
        /\ \/ n = Idle
           \/ n.step = 0 /\ n.from = Reached(s) /\ n.alone = s.alone
        /\ \A q \in Runners \ {r} : session'[q] = session[q]
    BY <1>6, RunIs
  <2>2. p = r /\ Active(s)  BY <1>4, <1>6, <2>1 DEF Working
  <2>3. n.step = 0 /\ n.from = db'.stamp /\ s.alone  BY <1>6, <2>1, <2>2, IdleIs
  <2>4. \A q \in Runners \ {r} : ~Active(session'[q])  BY <1>2, <2>1, <2>2, <2>3
  <2>5. Clear(n, db')  BY <2>3
  <2> QED BY <2>2, <2>3, <2>4, <2>5
<1>7. ASSUME NEW r \in Runners, refused(r) \/ killed(r), NEW p \in Runners, Active(session'[p]), session'[p].alone
      PROVE  Knows(p)
  <2>1. /\ Working(session[r]) /\ session'[r] = Idle /\ \A q \in Runners \ {r} : session'[q] = session[q]
    BY <1>7, StopIs
  <2>2. p = r  BY <1>4, <1>7, <2>1 DEF Working
  <2> QED BY <1>7, <2>1, <2>2, IdleIs
<1>8. ASSUME UNCHANGED migrationVars, NEW p \in Runners, Active(session'[p]), session'[p].alone PROVE Knows(p)
  BY <1>2, <1>8 DEF migrationVars
<1> HIDE DEF Knows
<1>9. ASSUME NEW p \in Runners, Active(session'[p]), session'[p].alone PROVE Knows(p)
  BY <1>3, <1>5, <1>6, <1>7, <1>8, <1>9, Actions
<1> QED BY <1>1, <1>9

-----------------------------------------------------------------------------
(* The command that runs alone, the types and the transactions.            *)

\* Only head is upgraded to.
LEMMA AscendingKept ==
    ASSUME MigrationTypeOK, Ascending, [MigrationNext]_migrationVars
    PROVE  Ascending'
<1>1. ASSUME \A q \in Runners : Active(session'[q]) /\ Up(session'[q]) => session'[q].to = HEAD
      PROVE  Ascending'
  BY <1>1 DEF Ascending, Running
<1>2. \A q \in Runners : Active(session[q]) /\ Up(session[q]) => session[q].to = HEAD
  BY DEF Ascending, Running
<1>3. ASSUME NEW r \in Runners, OthersStay(r), Active(session'[r]) /\ Up(session'[r]) => session'[r].to = HEAD
      PROVE  Ascending'
  <2>1. \A q \in Runners \ {r} : /\ Active(session'[q]) = Active(session[q]) /\ Up(session'[q]) = Up(session[q])
                                 /\ session'[q].to = session[q].to
    BY <1>3, AtSame DEF OthersStay, At
  <2> QED BY <1>1, <1>2, <1>3, <2>1
<1>4. ASSUME NEW r \in Runners, NEW to \in 0..HEAD, Start(r, to), to = HEAD \/ to < Committed.stamp
      PROVE  Ascending'
  <2>1. OthersStay(r) /\ session'[r].from = Committed.stamp /\ session'[r].to = to  BY <1>4, StartIs
  <2>2. Committed.stamp \in 0..4 /\ HEAD = 4  BY CommittedIs, DatabaseFields, RevisionsAre
  <2>3. Up(session'[r]) => to > Committed.stamp  BY <2>1 DEF Up
  <2> QED BY <1>3, <1>4, <2>1, <2>2, <2>3
<1>5. ASSUME NEW r \in Runners, execute(r) PROVE Ascending'
  <2>1. OthersStay(r) /\ Working(session[r]) /\ ~Complete(session[r]) /\ At(session'[r], Advanced(session[r]))
    BY <1>5, ExecuteIs
  <2>2. Same(Advanced(session[r]), session[r])  BY <2>1, AdvancedIs
  <2>3. Same(session'[r], session[r])  BY <2>1, <2>2, AtSame DEF At, Same
  <2> QED BY <1>2, <1>3, <2>1, <2>3, SameScript DEF Same
<1>6. ASSUME NEW r \in Runners, run_migrations(r) PROVE Ascending'
  <2>1. /\ OthersStay(r) /\ Working(session[r])
        /\ session'[r] = Idle \/ (session'[r].to = session[r].to /\ (Up(session'[r]) <=> Up(session[r])))
    BY <1>6, RunIs
  <2> QED BY <1>2, <1>3, <2>1, IdleIs DEF Working
<1>7. ASSUME NEW r \in Runners, refused(r) \/ killed(r) PROVE Ascending'
  BY <1>3, <1>7, StopIs, IdleIs
<1>8. CASE UNCHANGED migrationVars  BY <1>1, <1>2, <1>8 DEF migrationVars
<1> QED BY <1>4, <1>5, <1>6, <1>7, <1>8, Actions

\* On PostgreSQL no downgrade gets past the policies.
LEMMA DownNeverComplete ==
    ASSUME MigrationTypeOK, TransactionsIsolated, Transactional, NEW r \in Runners, Running(r),
        ~Up(session[r])
    PROVE  /\ ~Complete(session[r]) /\ Revision(session[r]) = HEAD /\ Creates(session[r])
           /\ Script(session[r]) = downgrade_6f5f0c8f6c1f
<1>1. session[r].from = HEAD /\ policies.name \notin Done(session[r])  BY DEF TransactionsIsolated
<1>2. Working(session[r])  BY DEF MigrationTypeOK, Running, Working
<1>3. Revision(session[r]) = HEAD /\ HEAD = 4  BY <1>1, RevisionsAre DEF Revision
<1>4. Script(session[r]) = downgrade_6f5f0c8f6c1f  BY <1>3 DEF Script, downgrade
<1>5. policies.name \in TablesOf(Script(session[r]))  BY <1>4, LastDowngrade, PlacesAre DEF TopicTables
<1>6. ~Complete(session[r])  BY <1>1, <1>2, <1>5, DoneIs
<1> QED BY <1>3, <1>4, <1>6, LastDowngrade DEF Creates

\* The types that a statement leaves are those there were, and those of a new table.
LEMMA TypesGrow ==
    ASSUME MigrationTypeOK, NEW r \in Runners, execute(r)
    PROVE  LET s == session[r] IN
           /\ db.types \subseteq db'.types /\ db'.stamp = db.stamp
           /\ Creates(s) /\ s.step = 0 /\ Transactional =>
                /\ db'.types = db.types \cup Here(s).types /\ Here(s).types \cap db.types = {}
                /\ Done(session'[r]) = Done(s) \cup {Here(s).name}
           /\ ~(Creates(s) /\ s.step = 0) => db'.types = db.types
           /\ Creates(s) /\ s.step # 0 => Done(session'[r]) = Done(s)
           /\ Same(session'[r], s)
<1> DEFINE s == session[r]
           t == Here(s)
<1>1. /\ Working(s) /\ ~Complete(s) /\ Accepts(Current(s)) /\ db' = Result(Current(s)) /\ db \in Database
      /\ At(session'[r], Advanced(s))
  BY ExecuteIs DEF MigrationTypeOK
<1>2. Done(session'[r]) = Done(Advanced(s))  BY <1>1, AtSame
<1>3. Same(Advanced(s), s)  BY <1>1, AdvancedIs
<1>4. Same(session'[r], s)  BY <1>1, <1>3, AtSame DEF At, Same
<1>5. CASE Creates(s) /\ s.step = 0
  <2>1. Done(session'[r]) = Done(s) \cup {t.name}  BY <1>1, <1>2, <1>5, CreateTable
  <2>2. /\ db'.stamp = db.stamp
        /\ db'.types = IF backend = "postgresql" THEN db.types \cup t.types ELSE db.types
        /\ backend = "postgresql" => t.types \cap db.types = {}
    BY <1>1, <1>5, CreateTable, CreateTableOn
  <2> QED BY <1>4, <1>5, <2>1, <2>2 DEF Transactional
<1>6. CASE Creates(s) /\ s.step # 0
  <2>1. t.indexes[s.step] \in Range(t.indexes)  BY <1>1, <1>6, CreateIndex, HereIs DEF Matches, Range
  <2>2. Done(session'[r]) = Done(s) /\ db'.types = db.types /\ db'.stamp = db.stamp
    BY <1>1, <1>2, <1>6, <2>1, CreateIndex, CreateIndexOn
  <2> QED BY <1>4, <1>6, <2>2
<1>7. CASE ~Creates(s) /\ s.step < Len(Here(s).indexes)
  BY <1>1, <1>4, <1>7, DropIndex, DropIndexOn
<1>8. CASE ~Creates(s) /\ ~(s.step < Len(Here(s).indexes))
  BY <1>1, <1>4, <1>8, DropTable, DropTableOn
<1> QED BY <1>5, <1>6, <1>7, <1>8

\* The types of a table belong to its name.
LEMMA TypesOf ==
    \A a, b \in AllTables : a.name # b.name => a.types \cap b.types = {}
BY TableKinds DEF Kind

\* The types of the policies, once made, stay.
LEMMA TypesKept ==
    ASSUME MigrationTypeOK, TransactionsIsolated, LoneKnows, TypesMade, [MigrationNext]_migrationVars
    PROVE  TypesMade'
<1> DEFINE Has(s, d) == Active(s) /\ Up(s) /\ s.from = 0 /\ policies.name \in Done(s) => Kept \subseteq d.types
           Free(s, d) == Active(s) /\ Up(s) /\ s.from = 0 /\ s.alone =>
                           \A t \in AllTables : t.name \notin Done(s) => t.types \cap d.types = {}
<1>1. ASSUME Transactional => /\ db'.stamp # 0 => Kept \subseteq db'.types
                              /\ \A q \in Runners : Has(session'[q], db') /\ Free(session'[q], db'),
             backend' = backend
      PROVE  TypesMade'
  BY <1>1 DEF TypesMade, Transactional, Running, Lone, Kept
<1>2. Transactional => /\ db.stamp # 0 => Kept \subseteq db.types
                       /\ \A q \in Runners : Has(session[q], db) /\ Free(session[q], db)
  BY DEF TypesMade, Running, Lone
<1>3. ASSUME NEW r \in Runners, OthersStay(r), db.types \subseteq db'.types, Transactional,
             Active(session[r]) \/ db'.types = db.types
      PROVE  \A q \in Runners \ {r} : Has(session'[q], db') /\ Free(session'[q], db')
  <2> TAKE q \in Runners \ {r}
  <2>1. /\ Active(session'[q]) = Active(session[q]) /\ Up(session'[q]) = Up(session[q])
        /\ Done(session'[q]) = Done(session[q]) /\ session'[q].from = session[q].from
        /\ session'[q].alone => session[q].alone
    BY <1>3, AtSame DEF OthersStay, At
  <2>2. Active(session[q]) /\ session[q].alone => ~Active(session[r])
    BY DEF LoneKnows, Lone, Running
  <2>3. Has(session'[q], db')  BY <1>2, <1>3, <2>1
  <2>4. Free(session'[q], db')  BY <1>2, <1>3, <2>1, <2>2
  <2> QED BY <2>3, <2>4
<1>4. ASSUME NEW r \in Runners, NEW to \in 0..HEAD, Start(r, to) PROVE TypesMade'
  <2>1. /\ OthersStay(r) /\ db' = db /\ backend' = backend /\ session'[r].from = Committed.stamp
        /\ Working(session'[r]) /\ ~Begun(session'[r])
        /\ session'[r].alone => \A q \in Runners : ~Running(q)
    BY <1>4, StartIs
  <2>2. Done(session'[r]) = {}  BY <2>1, DoneIs
  <2>3. Has(session'[r], db')  BY <2>2
  <2>4. Transactional => Free(session'[r], db')
    <3>1. SUFFICES ASSUME Transactional, session'[r].from = 0, session'[r].alone PROVE db.types = {}
      BY <2>1
    <3>2. \A q \in Runners : session[q] = Idle  BY <2>1, <3>1 DEF MigrationTypeOK, Placed, Running
    <3>3. \A q \in Runners : ~Open(q)  BY <3>2, IdleIs DEF Open
    <3>4. Committed = db /\ Sound(db)  BY <3>1, <3>3, CommittedIs DEF TransactionsIsolated
    <3> QED BY <2>1, <3>1, <3>4 DEF Sound
  <2> HIDE DEF Has, Free
  <2>5. Transactional => \A q \in Runners : Has(session'[q], db') /\ Free(session'[q], db')
    BY <1>3, <2>1, <2>3, <2>4
  <2> QED BY <1>1, <1>2, <2>1, <2>5
<1>5. ASSUME NEW r \in Runners, execute(r) PROVE TypesMade'
  <2> DEFINE s == session[r]
             n == session'[r]
             t == Here(s)
  <2>1. /\ OthersStay(r) /\ backend' = backend /\ Working(s) /\ ~Complete(s) /\ n.alone = s.alone
    BY <1>5, ExecuteIs
  <2>2. /\ db.types \subseteq db'.types /\ db'.stamp = db.stamp
        /\ Creates(s) /\ s.step = 0 /\ Transactional =>
             /\ db'.types = db.types \cup t.types /\ t.types \cap db.types = {}
             /\ Done(n) = Done(s) \cup {t.name}
        /\ ~(Creates(s) /\ s.step = 0) => db'.types = db.types
        /\ Creates(s) /\ s.step # 0 => Done(n) = Done(s)
        /\ Same(n, s)
    BY <1>5, TypesGrow
  <2>3. Active(s)  BY <2>1 DEF Working
  <2>4. PICK o \in AllTables : o.name = t.name /\ o.types = t.types  BY <2>1, HereListed
  <2>5. policies \in AllTables  BY TablesAre
  <2>6. Up(n) = Up(s) /\ n.from = s.from  BY <2>2, SameScript DEF Same
  <2>7. Up(s) /\ s.from = 0 => Creates(s)
    <3>1. Up(s) /\ s.from = 0 => Revision(s) = 1  BY DEF Revision
    <3>2. s \in Session  BY <2>1 DEF Working
    <3> QED BY <2>3, <3>1, <3>2, SessionScript
  <2> HIDE DEF s, n, t
  <2>8. Transactional => Has(n, db')
    <3>1. SUFFICES ASSUME Transactional, Up(s), s.from = 0,
        policies.name \in Done(n) PROVE Kept \subseteq db'.types
      BY <2>6
    <3>2. Creates(s)  BY <2>7, <3>1
    <3>3. CASE policies.name \in Done(s)
      BY <1>2, <2>2, <2>3, <3>1, <3>3 DEF s
    <3>4. CASE policies.name \notin Done(s)
      <4>1. s.step = 0 /\ t.name = policies.name /\ db'.types = db.types \cup t.types
        BY <2>2, <3>1, <3>2, <3>4
      <4>2. t.types = policies.types  BY <2>4, <2>5, <4>1, NamesOwn
      <4> QED BY <4>1, <4>2 DEF Kept
    <3> QED BY <3>3, <3>4
  <2>9. Transactional => Free(n, db')
    <3>1. SUFFICES ASSUME Transactional, Up(s), s.from = 0, s.alone, NEW a \in AllTables,
        a.name \notin Done(n)
                   PROVE a.types \cap db'.types = {}
      BY <2>1, <2>6
    <3>2. Creates(s)  BY <2>7, <3>1
    <3>3. a.name \notin Done(s)  BY <2>2, <3>1, <3>2
    <3>4. a.types \cap db.types = {}  BY <1>2, <2>3, <3>1, <3>3 DEF s
    <3>5. CASE s.step = 0
      <4>1. a.name # o.name  BY <2>2, <2>4, <3>1, <3>2, <3>5
      <4> QED BY <2>2, <2>4, <3>1, <3>2, <3>4, <3>5, <4>1, TypesOf
    <3>6. CASE s.step # 0  BY <2>2, <3>2, <3>4, <3>6
    <3> QED BY <3>5, <3>6
  <2> HIDE DEF Has, Free
  <2>10. Transactional => \A q \in Runners : Has(session'[q], db') /\ Free(session'[q], db')
    BY <1>3, <2>1, <2>2, <2>3, <2>8, <2>9 DEF s, n
  <2> QED BY <1>1, <1>2, <2>1, <2>2, <2>10
<1>6. ASSUME NEW r \in Runners, run_migrations(r) PROVE TypesMade'
  <2> DEFINE s == session[r]
             n == session'[r]
  <2>1. /\ OthersStay(r) /\ backend' = backend /\ Working(s) /\ Complete(s) /\ db.stamp = s.from
        /\ db'.types = db.types /\ db'.stamp = Reached(s)
        /\ \/ n = Idle
           \/ Working(n) /\ ~Begun(n) /\ n.from = Reached(s) /\ n.alone = s.alone /\ (Up(n) <=> Up(s))
    BY <1>6, RunIs
  <2>2. Active(s) /\ s \in Session  BY <2>1 DEF Working
  <2>3. Transactional => Up(s)  BY <2>1, <2>2, DownNeverComplete DEF Running
  <2>4. Up(s) /\ s.from = 0 => policies.name \in Done(s)
    <3>1. SUFFICES ASSUME Up(s), s.from = 0 PROVE policies.name \in Done(s)  OBVIOUS
    <3>2. Script(s) = upgrade_df9847a07952  BY <3>1 DEF Script, Revision, upgrade
    <3>3. policies.name \in TablesOf(Script(s))
      BY <3>2, RevisionsAre, PlacesAre DEF CatalogNames, TopicTables
    <3> QED BY <2>1, <3>3, DoneIs
  <2>5. Transactional => Kept \subseteq db'.types
    BY <1>2, <2>1, <2>2, <2>3, <2>4
  <2>6. Up(s) => Reached(s) # 0
    <3>1. s.from \in 0..4  BY <2>2, RevisionsAre DEF Session
    <3> QED BY <3>1 DEF Reached
  <2>7. Transactional => Has(n, db') /\ Free(n, db')
    BY <2>1, <2>3, <2>5, <2>6, IdleIs
  <2> HIDE DEF Has, Free
  <2>8. Transactional => \A q \in Runners : Has(session'[q], db') /\ Free(session'[q], db')
    BY <1>3, <2>1, <2>2, <2>7
  <2> QED BY <1>1, <2>1, <2>5, <2>8
<1>7. ASSUME NEW r \in Runners, refused(r) \/ killed(r) PROVE TypesMade'
  <2>1. OthersStay(r) /\ backend' = backend /\ Working(session[r]) /\ session'[r] = Idle  BY <1>7, StopIs
  <2>2. CASE Open(r)
    <3>1. Sound(db') /\ \A q \in Runners : Fresh(session'[q])  BY <1>7, <2>2, RollbackIs
    <3>2. db'.stamp = 0 => db'.types = {}  BY <3>1 DEF Sound
    <3>3. db'.stamp # 0 => Kept \subseteq db'.types  BY <3>1 DEF Sound
    <3>4. \A q \in Runners : Active(session'[q]) => Done(session'[q]) = {}
      BY <3>1, DoneIs, IdleIs DEF Fresh
    <3>5. \A q \in Runners : Has(session'[q], db')  BY <3>4
    <3>6. ASSUME Transactional PROVE \A q \in Runners : Free(session'[q], db')
      <4>1. \A q \in Runners \ {r} : session'[q].alone => session[q].alone
        BY <2>1 DEF OthersStay
      <4>2. \A q \in Runners \ {r} : Active(session'[q]) => Active(session[q])  BY <2>1, AtSame DEF OthersStay
      <4>3. \A q \in Runners \ {r} : Active(session[q]) => ~session[q].alone
        BY <2>1 DEF LoneKnows, Lone, Running, Working
      <4> QED BY <2>1, <4>1, <4>2, <4>3, IdleIs
    <3> HIDE DEF Has, Free
    <3> QED BY <1>1, <2>1, <3>3, <3>5, <3>6
  <2>3. CASE ~Open(r)
    <3>1. db' = db  BY <1>7, <2>3, StopEven
    <3>2. Has(session'[r], db') /\ Free(session'[r], db')  BY <2>1, IdleIs
    <3> HIDE DEF Has, Free
    <3>3. Transactional => \A q \in Runners : Has(session'[q], db') /\ Free(session'[q], db')
      BY <1>3, <2>1, <3>1, <3>2
    <3> QED BY <1>1, <1>2, <2>1, <3>1, <3>3
  <2> QED BY <2>2, <2>3
<1>8. CASE UNCHANGED migrationVars  BY <1>1, <1>2, <1>8 DEF migrationVars
<1> QED BY <1>4, <1>5, <1>6, <1>7, <1>8, Actions

\* What others will read.
LEMMA CommittedNext ==
    /\ (\A r \in Runners : ~session'[r].open) => Committed' = db'
    /\ \A r \in Runners : session'[r].open /\ (\A q \in Runners : session'[q].open => q = r)
                            => Committed' = session'[r].before
<1>1. (\A r \in Runners : ~session'[r].open) => Committed' = db'  BY DEF Committed, Open
<1>2. ASSUME NEW r \in Runners, session'[r].open, \A q \in Runners : session'[q].open => q = r
      PROVE Committed' = session'[r].before
  <2>1. (CHOOSE q \in Runners : session'[q].open) = r  BY <1>2
  <2> QED BY <1>2, <2>1 DEF Committed, Open
<1> QED BY <1>1, <1>2

\* When everybody is fresh, the stamp tells the tables, and they have their indexes.
LEMMA FreshSound ==
    ASSUME MigrationTypeOK', \A q \in Runners : Fresh(session'[q]), broken' = {},
           TablesAccounted', ReferencesResolve', IndexesHaveTables(db'), IndexesGuarded'
    PROVE  /\ db'.tables = TablesAt(db'.stamp) /\ Resolves(db') /\ IndexesHaveTables(db') /\ TablesHaveIndexes(db')
<1>1. /\ \A x : Creators(x)' = {} /\ Droppers(x)' = {}
      /\ \A n, x : BetweenIndex(n, x)' = {}
  BY NobodyMade
<1>2. \A x \in TableNames : x \in db'.tables <=> x \in TablesAt(db'.stamp)
  <2>1. Cardinality({}) = 0  BY FS_EmptySet
  <2> QED BY <1>1, <2>1 DEF TablesAccounted, Accounted, One
<1>3. db'.tables \subseteq TableNames /\ db'.stamp \in 0..4
  <2>1. db' \in Database  BY DEF MigrationTypeOK
  <2> QED BY <2>1, DatabaseFields, RevisionsAre
<1>4. TablesAt(db'.stamp) \subseteq TableNames
  <2>1. \A v \in 0..4 : v = 0 \/ v = 1 \/ v = 2 \/ v = 3 \/ v = 4  OBVIOUS
  <2> QED BY <1>3, <2>1, RevisionsAre
<1>5. TablesHaveIndexes(db')  BY <1>1 DEF IndexesGuarded, TablesHaveIndexes
<1> QED BY <1>2, <1>3, <1>4, <1>5 DEF ReferencesResolve

\* PostgreSQL keeps transactions apart.
LEMMA IsolationKept ==
    ASSUME MigrationTypeOK, TransactionsIsolated, TypesMade, Ascending, [MigrationNext]_migrationVars,
           TablesAccounted', ReferencesResolve', IndexesHaveTables(db'), IndexesGuarded', TypesMade'
    PROVE  TransactionsIsolated'
<1> DEFINE Down(s) == Active(s) /\ ~Up(s)
           Late(s) == s.from = HEAD /\ policies.name \notin Done(s)
           One1(S) == \A p, q \in Runners : S[p].open /\ S[q].open => p = q
           Isolated == /\ broken' = {} /\ One1(session')
                       /\ \A q \in Runners : ~session'[q].open => ~Begun(session'[q])
                       /\ \A q \in Runners : session'[q].open =>
                            Sound(session'[q].before) /\ session'[q].before.types \subseteq db'.types
                       /\ (\A q \in Runners : ~session'[q].open) => Sound(db')
                       /\ \A q \in Runners : Down(session'[q]) => Committed'.stamp = HEAD /\ Late(session'[q])
<1>1. ASSUME backend' = backend, IF Transactional THEN Isolated ELSE \A q \in Runners : ~session'[q].open
      PROVE  TransactionsIsolated'
  BY <1>1 DEF TransactionsIsolated, Transactional, Open, Running
<1>2. ASSUME Transactional
      PROVE  /\ broken = {} /\ One1(session)
             /\ \A q \in Runners : ~session[q].open => ~Begun(session[q])
             /\ \A q \in Runners : session[q].open =>
                  Sound(session[q].before) /\ session[q].before.types \subseteq db.types
             /\ (\A q \in Runners : ~session[q].open) => Sound(db)
             /\ \A q \in Runners : Down(session[q]) => Committed.stamp = HEAD /\ Late(session[q])
  BY <1>2 DEF TransactionsIsolated, Open, Running
<1>3. ~Transactional => \A q \in Runners : ~session[q].open  BY DEF TransactionsIsolated, Open
<1>4. \A q \in Runners : session[q] = Idle \/ Working(session[q])
  BY DEF MigrationTypeOK, Placed, Working
<1>5. ASSUME Transactional, NEW r \in Runners, OthersStay(r)
      PROVE  \A q \in Runners \ {r} :
               /\ session'[q].open = session[q].open /\ session'[q].before = session[q].before
               /\ Begun(session'[q]) = Begun(session[q])
               /\ Down(session'[q]) = Down(session[q]) /\ Late(session'[q]) = Late(session[q])
  BY <1>5, AtSame DEF OthersStay, At

\* What is committed as long as nobody commits.
<1>6. ASSUME Transactional, db' = db, \A q \in Runners : session'[q].open <=> session[q].open,
             \A q \in Runners : session[q].open => session'[q].before = session[q].before
      PROVE  Committed' = Committed
  <2>1. CASE \A q \in Runners : ~session[q].open  BY <1>6, <2>1, CommittedIs, CommittedNext DEF Open
  <2>2. CASE \E q \in Runners : session[q].open
    <3>1. PICK q \in Runners : session[q].open  BY <2>2
    <3>2. \A p \in Runners : session[p].open => p = q  BY <1>2, <1>6, <3>1
    <3>3. Committed = session[q].before  BY <3>1, <3>2, CommittedIs DEF Open
    <3>4. Committed' = session'[q].before  BY <1>6, <3>1, <3>2, CommittedNext
    <3> QED BY <1>6, <3>1, <3>3, <3>4
  <2> QED BY <2>1, <2>2
<1>7. Transactional => Sound(Committed) /\ Committed.types \subseteq db.types
  <2>1. CASE \A q \in Runners : ~session[q].open  BY <1>2, <2>1, CommittedIs DEF Open
  <2>2. CASE \E q \in Runners : session[q].open
    <3>1. PICK q \in Runners : session[q].open  BY <2>2
    <3>2. Transactional => \A p \in Runners : session[p].open => p = q  BY <1>2, <3>1
    <3>3. Transactional => Committed = session[q].before  BY <3>1, <3>2, CommittedIs DEF Open
    <3> QED BY <1>2, <3>1, <3>3
  <2> QED BY <2>1, <2>2
<1>8. ASSUME NEW r \in Runners, NEW to \in 0..HEAD, Start(r, to), to = HEAD \/ to < Committed.stamp
      PROVE  TransactionsIsolated'
  <2>1. /\ OthersStay(r) /\ db' = db /\ backend' = backend /\ broken' = broken
        /\ session'[r].from = Committed.stamp /\ session'[r].to = to
        /\ Working(session'[r]) /\ ~Begun(session'[r]) /\ ~session'[r].open /\ session[r] = Idle
    BY <1>8, StartIs
  <2>2. CASE ~Transactional
    <3>1. \A q \in Runners \ {r} : ~session'[q].open  BY <1>3, <2>1, <2>2 DEF OthersStay
    <3> QED BY <1>1, <2>1, <2>2, <3>1
  <2>3. CASE Transactional
    <3>1. ~session[r].open  BY <2>1, IdleIs
    <3>2. \A q \in Runners : session'[q].open <=> session[q].open  BY <2>1, <3>1 DEF OthersStay
    <3>3. Committed' = Committed
      <4>1. \A q \in Runners : session[q].open => session'[q].before = session[q].before
        BY <2>1, <3>1 DEF OthersStay
      <4> QED BY <1>6, <2>1, <2>3, <3>2, <4>1
    <3>4. Down(session'[r]) => Committed'.stamp = HEAD /\ Late(session'[r])
      <4>1. SUFFICES ASSUME Down(session'[r]) PROVE Committed.stamp = HEAD /\ policies.name \notin Done(session'[r])
        BY <2>1, <3>3
      <4>2. Committed.stamp \in {0, HEAD}  BY <1>7, <2>3 DEF Sound
      <4>3. HEAD = 4 /\ to \in 0..HEAD /\ to # Committed.stamp  BY <1>8, RevisionsAre DEF Start
      <4>4. Committed.stamp # 0
        <5>1. ~(to > Committed.stamp)  BY <2>1, <4>1 DEF Up
        <5> QED BY <4>2, <4>3, <5>1
      <4>5. Done(session'[r]) = {}  BY <2>1, DoneIs
      <4> QED BY <4>2, <4>4, <4>5
    <3> HIDE DEF Down, Late
    <3>5. Isolated  BY <1>2, <1>5, <2>1, <2>3, <3>1, <3>2, <3>3, <3>4
    <3> QED BY <1>1, <2>1, <2>3, <3>5
  <2> QED BY <2>2, <2>3
<1>9. ASSUME NEW r \in Runners, execute(r) PROVE TransactionsIsolated'
  <2> DEFINE s == session[r]
             n == session'[r]
  <2>1. /\ MigrationTypeOK' /\ OthersStay(r) /\ backend' = backend /\ broken' = broken
        /\ Working(s) /\ ~Complete(s) /\ At(n, Advanced(s)) /\ (n.open <=> Transactional)
        /\ n.before = IF Transactional /\ ~s.open THEN db ELSE s.before
        /\ \A q \in Runners \ {r} : ~session[q].open /\ session'[q] = session[q]
    BY <1>9, ExecuteIs DEF Blocked, Open
  <2>2. /\ db.types \subseteq db'.types
        /\ Creates(s) /\ s.step = 0 /\ Transactional =>
             /\ Here(s).types \cap db.types = {}
             /\ Done(n) = Done(s) \cup {Here(s).name}
        /\ Creates(s) /\ s.step # 0 => Done(n) = Done(s)
        /\ Same(n, s)
    BY <1>9, TypesGrow
  <2>3. CASE ~Transactional  BY <1>1, <2>1, <2>3
  <2>4. CASE Transactional
    <3>1. Committed = n.before
      <4>1. CASE s.open  BY <2>1, <2>4, <4>1, CommittedIs DEF Open
      <4>2. CASE ~s.open  BY <2>1, <2>4, <4>2, CommittedIs DEF Open
      <4> QED BY <4>1, <4>2
    <3>2. Committed' = n.before  BY <2>1, <2>4, CommittedNext
    <3>3. Sound(n.before) /\ n.before.types \subseteq db'.types  BY <1>7, <2>2, <2>4, <3>1
    <3>4. Down(n) => Committed'.stamp = HEAD /\ Late(n)
      <4>1. SUFFICES ASSUME Down(n) PROVE Committed.stamp = HEAD /\ Late(n)  BY <3>1, <3>2
      <4>2. Down(s) /\ n.from = s.from  BY <2>2, <4>1, SameScript DEF Same
      <4>3. Committed.stamp = HEAD /\ Late(s)  BY <1>2, <2>4, <4>2
      <4>4. Creates(s)  BY <2>4, <4>2, DownNeverComplete DEF Running
      <4>5. Kept \subseteq db.types
        <5>1. HEAD # 0  BY RevisionsAre
        <5> QED BY <1>7, <2>4, <4>3, <5>1 DEF Sound
      <4>6. policies.name \notin Done(n)
        <5>1. CASE s.step # 0  BY <2>2, <4>3, <4>4, <5>1
        <5>2. CASE s.step = 0
          <6>1. Done(n) = Done(s) \cup {Here(s).name} /\ Here(s).types \cap db.types = {}
            BY <2>2, <2>4, <4>4, <5>2
          <6>2. PICK o \in AllTables : o.name = Here(s).name /\ o.types = Here(s).types
            BY <2>1, HereListed
          <6>3. policies \in AllTables /\ policies.types # {}
            BY TablesAre DEF policies, WithTypes, Table
          <6>4. Here(s).name # policies.name  BY <4>5, <6>1, <6>2, <6>3, NamesOwn DEF Kept
          <6> QED BY <4>3, <6>1, <6>4
        <5> QED BY <5>1, <5>2
      <4> QED BY <4>2, <4>3, <4>6
    <3> HIDE DEF Down, Late, s, n
    <3>5. \A q \in Runners \ {r} : Down(session'[q]) => Committed'.stamp = HEAD /\ Late(session'[q])
      BY <1>2, <2>1, <2>4, <3>1, <3>2
    <3>6. Isolated  BY <1>2, <2>1, <2>4, <3>3, <3>4, <3>5 DEF n
    <3> QED BY <1>1, <2>1, <2>4, <3>6
  <2> QED BY <2>3, <2>4
<1>10. ASSUME NEW r \in Runners, run_migrations(r) PROVE TransactionsIsolated'
  <2> DEFINE s == session[r]
             n == session'[r]
  <2>1. /\ MigrationTypeOK' /\ OthersStay(r) /\ backend' = backend /\ broken' = broken
        /\ Working(s) /\ Complete(s) /\ db'.types = db.types /\ db'.stamp = Reached(s)
        /\ \/ n = Idle /\ s.to = Reached(s)
           \/ /\ Working(n) /\ ~Begun(n) /\ n.open = s.open /\ n.before = s.before /\ (Up(n) <=> Up(s))
        /\ \A q \in Runners \ {r} : session'[q] = session[q]
    BY <1>10, RunIs
  <2>2. CASE ~Transactional
    <3>1. ~n.open  BY <1>3, <2>1, <2>2, IdleIs
    <3> QED BY <1>1, <1>3, <2>1, <2>2, <3>1
  <2>3. CASE Transactional
    <3>1. Active(s) /\ Begun(s)
      <4>1. Ordered(Script(s).tables)  BY <2>1, SessionScript DEF Turns, WellFormed, Working
      <4>2. Len(Script(s).tables) \in Nat \ {0}  BY <4>1 DEF Ordered
      <4>3. s.table \in Nat  BY <2>1 DEF Working, Session
      <4> QED BY <2>1, <4>2, <4>3 DEF Complete, Begun, Working
    <3>2. s.open /\ \A q \in Runners \ {r} : ~session[q].open  BY <1>2, <2>3, <3>1
    <3>3. Up(s)  BY <2>1, <2>3, <3>1, DownNeverComplete DEF Running
    <3>4. Committed = s.before  BY <3>2, CommittedIs DEF Open
    <3>5. CASE n = Idle /\ s.to = Reached(s)
      <4>1. \A q \in Runners : ~session'[q].open  BY <2>1, <3>2, <3>5, IdleIs
      <4>2. Committed' = db'  BY <4>1, CommittedNext
      <4>3. db'.stamp = HEAD  BY <2>1, <3>1, <3>3, <3>5 DEF Ascending, Running
      <4>4. \A q \in Runners : Fresh(session'[q])  BY <1>2, <1>4, <2>1, <2>3, <3>2, <3>5 DEF Fresh
      <4>5. HEAD # 0  BY RevisionsAre
      <4>6. Kept \subseteq db'.types  BY <2>1, <2>3, <4>3, <4>5 DEF TypesMade, Transactional
      <4>7. Sound(db')
        BY <1>2, <2>1, <2>3, <4>3, <4>4, <4>5, <4>6, FreshSound DEF Sound
      <4>8. ~Active(n)  BY <3>5, IdleIs
      <4>9. ~Begun(n)  BY <3>5, IdleIs
      <4> HIDE DEF s, n, Late
      <4>10. Isolated  BY <1>2, <2>1, <2>3, <4>1, <4>2, <4>3, <4>7, <4>8, <4>9 DEF n
      <4> QED BY <1>1, <2>1, <2>3, <4>10
    <3>6. CASE Working(n) /\ ~Begun(n) /\ n.open = s.open /\ n.before = s.before /\ (Up(n) <=> Up(s))
      <4>1. Committed' = n.before  BY <2>1, <3>2, <3>6, CommittedNext
      <4>2. ~Down(n)  BY <3>3, <3>6
      <4> HIDE DEF s, n, Down, Late
      <4>3. Isolated  BY <1>2, <2>1, <2>3, <3>2, <3>4, <3>6, <4>1, <4>2 DEF n, s
      <4> QED BY <1>1, <2>1, <2>3, <4>3
    <3> QED BY <2>1, <3>5, <3>6
  <2> QED BY <2>2, <2>3
<1>11. ASSUME NEW r \in Runners, refused(r) \/ killed(r) PROVE TransactionsIsolated'
  <2>1. /\ OthersStay(r) /\ backend' = backend /\ Working(session[r]) /\ session'[r] = Idle
        /\ \A q \in Runners \ {r} : session'[q] = session[q]
    BY <1>11, StopIs
  <2>2. ~session'[r].open /\ ~Begun(session'[r]) /\ ~Active(session'[r])  BY <2>1, IdleIs
  <2>3. CASE ~Transactional  BY <1>1, <1>3, <2>1, <2>2, <2>3
  <2>4. CASE Transactional /\ Open(r)
    <3>1. db' = session[r].before /\ Sound(db') /\ broken' = broken  BY <1>11, <2>4, RollbackIs
    <3>2. \A q \in Runners : ~session'[q].open  BY <1>2, <2>1, <2>2, <2>4 DEF Open
    <3>3. Committed' = db'  BY <3>2, CommittedNext
    <3>4. Committed = db'  BY <1>2, <2>4, <3>1, CommittedIs DEF Open
    <3> HIDE DEF Late
    <3>5. Isolated  BY <1>2, <2>1, <2>2, <2>4, <3>1, <3>2, <3>3, <3>4
    <3> QED BY <1>1, <2>1, <2>4, <3>5
  <2>5. CASE Transactional /\ ~Open(r)
    <3>1. db' = db  BY <1>11, <2>5, StopEven
    <3>2. broken' = broken  BY <1>11, <2>5, StopIs
    <3>3. \A q \in Runners : session'[q].open <=> session[q].open  BY <2>1, <2>2, <2>5 DEF Open
    <3>4. Committed' = Committed
      <4>1. \A q \in Runners : session[q].open => session'[q].before = session[q].before
        BY <2>1, <2>5 DEF Open
      <4> QED BY <1>6, <2>5, <3>1, <3>3, <4>1
    <3> HIDE DEF Late
    <3>5. Isolated  BY <1>2, <2>1, <2>2, <2>5, <3>1, <3>2, <3>3, <3>4
    <3> QED BY <1>1, <2>1, <2>5, <3>5
  <2> QED BY <2>3, <2>4, <2>5
<1>12. CASE UNCHANGED migrationVars
  <2>1. Committed' = Committed  BY <1>12 DEF migrationVars, Committed, Open
  <2>2. session' = session /\ db' = db /\ broken' = broken /\ backend' = backend  BY <1>12 DEF migrationVars
  <2> HIDE DEF Down, Late
  <2>3. Transactional => Isolated  BY <1>2, <2>1, <2>2
  <2> QED BY <1>1, <1>3, <2>2, <2>3
<1> QED BY <1>8, <1>9, <1>10, <1>11, <1>12, Actions

-----------------------------------------------------------------------------
(* The refusals.                                                           *)

Known == {<<"mysql", "up", 4>>, <<"mysql", "down", 1>>, <<"postgresql", "down", 4>>, <<"sqlite", "down", 1>>}

\* A table's account when one runner is at work.
LEMMA LoneAccount ==
    ASSUME MigrationTypeOK, TablesAccounted, broken = {}, NEW r \in Runners,
           \A q \in Runners \ {r} : ~Running(q), NEW x \in TableNames
    PROVE  One(Unmade(session[r], x)) + One(x \in db.tables) = One(Made(session[r],
        x)) + One(x \in TablesAt(db.stamp))
<1>1. /\ Creators(x) = IF Made(session[r], x) THEN {r} ELSE {}
      /\ Droppers(x) = IF Unmade(session[r], x) THEN {r} ELSE {}
  BY DEF Creators, Droppers, Made, Unmade, Running
<1>2. Cardinality({}) = 0 /\ Cardinality({r}) = 1  BY FS_EmptySet, FS_Singleton
<1>3. Cardinality(Creators(x)) = One(Made(session[r], x)) /\ Cardinality(Droppers(x)) = One(Unmade(session[r], x))
  BY <1>1, <1>2 DEF One
<1> QED BY <1>3 DEF TablesAccounted, Accounted

\* The scripts that drop the tables with references, or an index that may be forgotten.
LEMMA DropScripts ==
    ASSUME NEW s, Working(s), ~Complete(s), ~Creates(s)
    PROVE  /\ Here(s).cover # {} => <<Direction(s), Revision(s)>> \in {<<"up", 4>>, <<"down", 1>>}
           /\ Forgotten \in Range(Here(s).indexes) => <<Direction(s), Revision(s)>> = <<"down", 1>>
<1>1. Active(s) /\ s \in Session  BY DEF Working
<1>2. Revision(s) \in 1..4 /\ (Up(s) => Revision(s) = 4) /\ (~Up(s) => Revision(s) # 4)
  BY <1>1, SessionScript
<1>3. Direction(s) = IF Up(s) THEN "up" ELSE "down"  BY DEF Direction
<1>4. PICK a \in AllTables :
        /\ a.name = Here(s).name /\ a.cover = Here(s).cover
        /\ \A x \in Range(Here(s).indexes) : x \in Range(a.indexes)
  BY HereListed
<1>5. Here(s).name \in TablesOf(Script(s))  BY HereIs
<1>6. ASSUME ~Up(s), Revision(s) # 1
      PROVE  Here(s).name \in {"schema_policies", "approval_requests"}
  <2>1. Revision(s) = 2 \/ Revision(s) = 3  BY <1>2, <1>6
  <2>2. Script(s) = Dropping(<<schema_policies>>) \/ Script(s) = Dropping(<<approval_requests>>)
    BY <1>6, <2>1 DEF Script, downgrade, downgrade_feeb4168b5fc, downgrade_a6f4f39b9c12
  <2> QED BY <1>5, <2>2, SingleTable, PlacesAre
<1>7. a.cover # {} => a.name \in {"leader_distributions", "topic_partition_metrics"}
  BY TableKinds DEF Kind
<1>8. Forgotten \in Range(a.indexes) => a.name = "metrics_snapshots"  BY TableKinds
<1>9. ASSUME Forgotten \in Range(Here(s).indexes), Up(s) PROVE FALSE
  <2>1. Script(s) = upgrade_6f5f0c8f6c1f  BY <1>2, <1>9 DEF Script, upgrade
  <2>2. Here(s).name = "metrics_snapshots"  BY <1>4, <1>8, <1>9
  <2>3. \A i \in DOMAIN upgrade_6f5f0c8f6c1f.tables :
          upgrade_6f5f0c8f6c1f.tables[i].name = "metrics_snapshots" =>
            Forgotten \notin Range(upgrade_6f5f0c8f6c1f.tables[i].indexes)
    BY LastUpgrade
  <2>4. s.table \in DOMAIN Script(s).tables /\ Here(s) = Script(s).tables[s.table]  BY HereIs
  <2> QED BY <1>9, <2>1, <2>2, <2>3, <2>4
<1> QED BY <1>2, <1>3, <1>4, <1>6, <1>7, <1>8, <1>9

\* A refusal of a lone command on a database without parts is a known one.
LEMMA RefusedKnown ==
    ASSUME MigrationTypeOK, TablesAccounted, ReferencesResolve, IndexesHaveTables(db), IndexesGuarded,
           ReferencesGuarded, LoneKnows, TransactionsIsolated, TypesMade,
           NEW r \in Runners, refused(r), session[r].alone, broken = {}
    PROVE  <<backend, Direction(session[r]), Revision(session[r])>> \in Known
<1> DEFINE s == session[r]
           t == Here(s)
           v == TablesAt(s.from)
<1>1. Running(r) /\ Working(s) /\ Active(s) /\ s \in Session
  BY DEF refused, Running, Working, MigrationTypeOK
<1>2. /\ \A q \in Runners \ {r} : ~Running(q)
      /\ s.from = db.stamp
      /\ ~Complete(s) /\ Creates(s) /\ s.step > 0 =>
           \A l \in s.step..Len(t.indexes) : t.indexes[l] \notin db.indexes
  BY <1>1 DEF LoneKnows, Lone
<1>3. ~Complete(s) /\ ~Accepts(Current(s))  BY <1>2 DEF refused
<1>4. /\ t.name \in TablesOf(Script(s)) /\ t.name \in TableNames /\ Matches(t) /\ s.step \in 0..Len(t.indexes)
  BY <1>1, <1>3, HereIs
<1>5. /\ Turns(Script(s), s.from, Reached(s)) /\ Revision(s) \in 1..4
      /\ Up(s) => (Creates(s) <=> Revision(s) # 4)
      /\ ~Up(s) => (Creates(s) <=> Revision(s) = 4)
  BY <1>1, SessionScript
<1>6. (Creates(s) => t.name \notin v) /\ (~Creates(s) => t.name \in v)
  BY <1>4, <1>5 DEF Turns, WellFormed, Creates
<1>7. One(Unmade(s, t.name)) + One(t.name \in db.tables) = One(Made(s, t.name)) + One(t.name \in v)
  BY <1>2, <1>4, LoneAccount
<1>8. PICK o \in AllTables :
        /\ o.name = t.name /\ o.references = t.references /\ o.cover = t.cover /\ o.types = t.types
        /\ \A x \in Range(t.indexes) : x \in Range(o.indexes)
  BY <1>1, <1>3, HereListed
<1>9. Direction(s) = IF Up(s) THEN "up" ELSE "down"  BY DEF Direction
<1>10. backend \in {"sqlite", "mysql", "postgresql"} /\ db \in Database
  BY MigrationsAssumption DEF MigrationTypeOK, AllBackends
<1>11. ASSUME backend = "postgresql", ~Up(s)
       PROVE  Revision(s) = 4
  BY <1>1, <1>11, DownNeverComplete, RevisionsAre DEF Transactional
<1> SUFFICES ASSUME <<backend, Direction(s), Revision(s)>> \notin Known PROVE FALSE  OBVIOUS
<1> HIDE DEF s, v
<1>12. CASE Creates(s) /\ s.step = 0
  <2>1. t.name \notin Done(s)  BY <1>1, <1>3, <1>12, CreateTable
  <2>2. t.name \notin db.tables  BY <1>6, <1>7, <1>12, <2>1 DEF One, Made, Unmade
  <2>3. t.references \subseteq db.tables
    <3> SUFFICES ASSUME NEW m \in o.references PROVE m \in db.tables  BY <1>8
    <3>1. HasReferred(s, m, o.name)  BY <1>1, <1>3, <1>8, <1>12, <2>1, OrderKept
    <3>2. r \in BetweenTables(m, o.name)  BY <3>1 DEF BetweenTables, s
    <3> QED BY <3>2 DEF ReferencesGuarded
  <2>4. ASSUME backend = "postgresql" PROVE t.types \cap db.types = {}
    <3>1. CASE ~Up(s)  BY <1>9, <1>11, <2>4, <3>1 DEF Known
    <3>2. CASE Up(s)
      <4>1. CASE s.from = 0
        <5>1. o.name \notin Done(s)  BY <1>8, <2>1
        <5>2. o.types \cap db.types = {}
          BY <1>1, <2>4, <3>2, <4>1, <5>1 DEF TypesMade, Transactional, Lone, s
        <5> QED BY <1>8, <5>2
      <4>2. CASE s.from # 0
        <5>1. Revision(s) = 2 \/ Revision(s) = 3
          <6>1. s.from \in Nat  BY <1>1 DEF Session
          <6> QED BY <1>5, <1>12, <3>2, <4>2, <6>1 DEF Revision
        <5>2. Script(s) = Creating(<<schema_policies>>) \/ Script(s) = Creating(<<approval_requests>>)
          BY <3>2, <5>1 DEF Script, upgrade, upgrade_feeb4168b5fc, upgrade_a6f4f39b9c12
        <5>3. TablesOf(Script(s)) \subseteq {"schema_policies", "approval_requests"}
          BY <5>2, SingleTable, PlacesAre
        <5>4. t.name \in {"schema_policies", "approval_requests"}  BY <1>4, <5>3
        <5>5. o.types = {}  BY <1>8, <5>4, TableKinds DEF Kind
        <5> QED BY <1>8, <5>5
      <4> QED BY <4>1, <4>2
    <3> QED BY <3>1, <3>2
  <2> QED BY <1>1, <1>3, <1>10, <1>12, <2>2, <2>3, <2>4, CreateTable, CreateTableOn
<1>13. CASE Creates(s) /\ s.step # 0
  <2>1. t.name \in Done(s) /\ s.step \in 1..Len(t.indexes)  BY <1>1, <1>3, <1>13, CreateIndex
  <2>2. t.name \in db.tables  BY <1>1, <1>6, <1>7, <1>13, <2>1 DEF One, Made, Unmade
  <2>3. t.indexes[s.step] \notin db.indexes
    <3>1. s.step \in s.step..Len(t.indexes) /\ s.step > 0  BY <1>4, <2>1 DEF Matches
    <3> QED BY <1>2, <1>3, <1>13, <3>1
  <2>4. t.indexes[s.step] \in Range(t.indexes)  BY <1>4, <2>1 DEF Matches, Range
  <2> QED BY <1>1, <1>3, <1>10, <1>13, <2>2, <2>3, <2>4, CreateIndex, CreateIndexOn
<1>14. CASE ~Creates(s) /\ s.step < Len(Here(s).indexes)
  <2> DEFINE i == t.indexes[Len(t.indexes) - s.step]
  <2>1. /\ t.name \notin Done(s) /\ Len(t.indexes) - s.step \in 1..Len(t.indexes)
        /\ ~HasPart(s, t.name, i)
    BY <1>1, <1>3, <1>14, DropIndex
  <2>2. i \in Range(t.indexes)  BY <1>4, <2>1 DEF Matches, Range
  <2>3. t.name \in db.tables  BY <1>1, <1>6, <1>7, <1>14, <2>1 DEF One, Made, Unmade
  <2>4. /\ t.cover # {} => <<Direction(s), Revision(s)>> \in {<<"up", 4>>, <<"down", 1>>}
        /\ Forgotten \in Range(t.indexes) => <<Direction(s), Revision(s)>> = <<"down", 1>>
    BY <1>1, <1>3, <1>14, DropScripts
  <2>5. CASE i = Forgotten
    <3>1. <<Direction(s), Revision(s)>> = <<"down", 1>>  BY <2>2, <2>4, <2>5
    <3>2. Direction(s) = "down" /\ Revision(s) = 1  BY <3>1
    <3>3. backend # "postgresql"  BY <1>9, <1>11, <3>2
    <3> QED BY <1>10, <3>2, <3>3 DEF Known
  <2>6. CASE i # Forgotten
    <3>1. i \in db.indexes
      <4>1. SUFFICES ASSUME i \notin db.indexes PROVE FALSE  OBVIOUS
      <4>2. i \in Range(o.indexes) \ {Forgotten}  BY <1>8, <2>2, <2>6
      <4>3. BetweenIndex(o.name, i) # {}  BY <1>8, <2>3, <4>1, <4>2 DEF IndexesGuarded
      <4>4. PICK q \in Runners : HasPart(session[q], o.name, i)  BY <4>3 DEF BetweenIndex
      <4>5. Running(q)  BY <4>4 DEF HasPart, Running
      <4>6. q = r  BY <1>2, <4>5
      <4> QED BY <1>8, <2>1, <4>4, <4>6 DEF s
    <3>2. ~(backend = "mysql" /\ i \in t.cover)
      <4>1. SUFFICES ASSUME backend = "mysql", t.cover # {} PROVE FALSE  OBVIOUS
      <4>2. <<Direction(s), Revision(s)>> \in {<<"up", 4>>, <<"down", 1>>}  BY <2>4, <4>1
      <4> QED BY <4>1, <4>2 DEF Known
    <3> QED BY <1>1, <1>3, <1>10, <1>14, <3>1, <3>2, DropIndex, DropIndexOn
  <2> QED BY <2>5, <2>6
<1>15. CASE ~Creates(s) /\ ~(s.step < Len(Here(s).indexes))
  <2>1. t.name \notin Done(s)  BY <1>1, <1>3, <1>15, DropTable
  <2>2. t.name \in db.tables  BY <1>1, <1>6, <1>7, <1>15, <2>1 DEF One, Made, Unmade
  <2>3. ASSUME NEW a \in AllTables, a.name \in db.tables, t.name \in a.references PROVE FALSE
    <3>1. HasReferred(s, t.name, a.name)  BY <1>1, <1>3, <1>15, <2>1, <2>3, OrderKept
    <3>2. r \in BetweenTables(t.name, a.name)  BY <3>1 DEF BetweenTables, s
    <3> QED BY <2>3, <3>2 DEF ReferencesGuarded
  <2> QED BY <1>1, <1>3, <1>10, <1>15, <2>2, <2>3, DropTable, DropTableOn
<1> QED BY <1>12, <1>13, <1>14, <1>15

\* So all of them are.
LEMMA RefusalsKept ==
    ASSUME MigrationTypeOK, TablesAccounted, ReferencesResolve, IndexesHaveTables(db), IndexesGuarded,
           ReferencesGuarded, LoneKnows, TransactionsIsolated, TypesMade, RefusalsAreKnown,
           [MigrationNext]_migrationVars
    PROVE  RefusalsAreKnown'
<1>1. ASSUME backend' = backend, refusals' = refusals PROVE RefusalsAreKnown'
  BY <1>1 DEF RefusalsAreKnown
<1>2. ASSUME NEW r \in Runners, refused(r) PROVE RefusalsAreKnown'
  <2> DEFINE x == [direction |-> Direction(session[r]), revision |-> Revision(session[r]),
                   clean |-> session[r].alone /\ broken = {}]
  <2>1. refusals' = refusals \cup {x} /\ backend' = backend  BY <1>2 DEF refused
  <2>2. x.clean => <<backend, x.direction, x.revision>> \in Known  BY <1>2, RefusedKnown
  <2> HIDE DEF x
  <2> QED BY <2>1, <2>2 DEF RefusalsAreKnown, Known
<1>3. ASSUME NEW r \in Runners, killed(r) PROVE RefusalsAreKnown'  BY <1>1, <1>3 DEF killed
<1>4. ASSUME NEW r \in Runners, NEW to \in 0..HEAD, Start(r, to) PROVE RefusalsAreKnown'
  BY <1>1, <1>4, StartIs
<1>5. ASSUME NEW r \in Runners, execute(r) PROVE RefusalsAreKnown'  BY <1>1, <1>5, ExecuteIs
<1>6. ASSUME NEW r \in Runners, run_migrations(r) PROVE RefusalsAreKnown'  BY <1>1, <1>6, RunIs
<1>7. CASE UNCHANGED migrationVars  BY <1>1, <1>7 DEF migrationVars
<1> QED BY <1>2, <1>3, <1>4, <1>5, <1>6, <1>7, Actions

-----------------------------------------------------------------------------
(* The invariant.                                                          *)

\* The empty database satisfies the invariant.
LEMMA InitialInv == MigrationInit => MigrationInv
<1> SUFFICES ASSUME MigrationInit PROVE MigrationInv  OBVIOUS
<1>1. \A r \in Runners : session[r] = Idle  BY DEF MigrationInit
<1>2. db = Empty /\ db \in Database /\ db.tables = {} /\ db.indexes = {} /\ db.types = {} /\ db.stamp = 0
  BY EmptyIs DEF MigrationInit
<1>3. Idle \in Session /\ ~Active(Idle) /\ Placed(Idle) /\ ~Begun(Idle) /\ ~Idle.open /\ ~Idle.alone
  BY IdleIs
<1>4. \A r \in Runners : ~Running(r) /\ ~Open(r)  BY <1>1, <1>3 DEF Running, Open
<1>5. /\ \A x : Creators(x) = {} /\ Droppers(x) = {}
      /\ \A n, x : BetweenIndex(n, x) = {}
      /\ \A a \in AllTables : \A m \in a.references : BetweenTables(m, a.name) = {}
  <2>1. /\ \A r \in Runners : \A n, x : ~HasPart(session[r], n, x)
        /\ \A r \in Runners : \A a \in AllTables : \A m \in a.references : ~HasReferred(session[r], m, a.name)
    BY <1>1, NothingMade
  <2> QED BY <1>4, <2>1 DEF Creators, Droppers, BetweenIndex, BetweenTables
<1>6. TablesAt(0) = {} /\ HEAD = 4  BY RevisionsAre
<1>7. MigrationTypeOK
  <2>1. session = [r \in Runners |-> Idle] /\ backend \in Backends /\ commands = 0 /\ broken = {} /\ refusals = {}
    BY DEF MigrationInit
  <2>2. 0 \in 0..MaxCommands  BY MigrationsAssumption
  <2>3. session \in [Runners -> Session] /\ \A r \in Runners : Placed(session[r])  BY <1>1, <1>3, <2>1
  <2> QED BY <1>2, <2>1, <2>2, <2>3 DEF MigrationTypeOK
<1>8. TablesAccounted /\ StayingAccounted
  <2>1. Cardinality({}) = 0  BY FS_EmptySet
  <2> QED BY <1>2, <1>5, <1>6, <2>1 DEF TablesAccounted, StayingAccounted, Accounted, One
<1>9. /\ Resolves(db) /\ IndexesHaveTables(db) /\ TablesHaveIndexes(db)
      /\ ReferencesResolve /\ IndexesGuarded /\ ReferencesGuarded
  BY <1>2, <1>5
     DEF Resolves, IndexesHaveTables, TablesHaveIndexes, ReferencesResolve, IndexesGuarded, ReferencesGuarded
<1>10. TransactionsIsolated
  <2>1. Sound(db)  BY <1>2, <1>6, <1>9 DEF Sound
  <2>2. broken = {}  BY DEF MigrationInit
  <2> QED BY <1>1, <1>3, <1>4, <2>1, <2>2 DEF TransactionsIsolated
<1>11. LoneKnows /\ TypesMade /\ Ascending  BY <1>2, <1>4 DEF LoneKnows, Lone, TypesMade, Ascending
<1>12. RefusalsAreKnown  BY DEF RefusalsAreKnown, MigrationInit
<1> QED BY <1>7, <1>8, <1>9, <1>10, <1>11, <1>12, QuietStamp DEF MigrationInv

\* Whatever a runner does, the state stays well formed.
LEMMA TypesStay == MigrationTypeOK /\ [MigrationNext]_migrationVars => MigrationTypeOK'
<1> SUFFICES ASSUME MigrationTypeOK, [MigrationNext]_migrationVars PROVE MigrationTypeOK'  OBVIOUS
<1>1. CASE UNCHANGED migrationVars  BY <1>1 DEF migrationVars, MigrationTypeOK
<1> QED BY <1>1, Actions, StartIs, ExecuteIs, RunIs, StopIs

\* The same of the next state.
LEMMA QuietStampNext == MigrationTypeOK' /\ TablesAccounted' => StampTellsTables'
<1> QED BY QuietStamp, PTL

\* A step keeps the invariant.
LEMMA InvKept == MigrationInv /\ [MigrationNext]_migrationVars => MigrationInv'
<1> SUFFICES ASSUME MigrationInv, [MigrationNext]_migrationVars PROVE MigrationInv'  OBVIOUS
<1>1. /\ MigrationTypeOK /\ StampTellsTables /\ ReferencesResolve
      /\ TablesAccounted /\ StayingAccounted
      /\ IndexesHaveTables(db) /\ IndexesGuarded /\ ReferencesGuarded
      /\ LoneKnows /\ TransactionsIsolated /\ TypesMade /\ Ascending /\ RefusalsAreKnown
  BY DEF MigrationInv
<1>2. MigrationTypeOK'  BY <1>1, TypesStay
<1>3. TablesAccounted' /\ StayingAccounted'  BY <1>1, AccountsKept
<1>4. ReferencesResolve' /\ ReferencesGuarded' /\ IndexesHaveTables(db') /\ IndexesGuarded'
  BY <1>1, GuardsKept
<1>5. LoneKnows'  BY <1>1, LoneKept
<1>6. TypesMade'  BY <1>1, TypesKept
<1>7. Ascending'  BY <1>1, AscendingKept
<1>8. TransactionsIsolated'  BY <1>1, <1>3, <1>4, <1>6, IsolationKept
<1>9. RefusalsAreKnown'  BY <1>1, RefusalsKept
<1>10. StampTellsTables'  BY <1>2, <1>3, QuietStampNext
<1> QED BY <1>2, <1>3, <1>4, <1>5, <1>6, <1>7, <1>8, <1>9, <1>10 DEF MigrationInv

\* The tables of the mapped classes stay, so a quiet head has them.
LEMMA ModelsServed == MigrationInv => HeadServesModels
<1> SUFFICES ASSUME MigrationInv, Quiet, db.stamp = HEAD, "down" \notin broken,
                    NEW m \in REGISTERED_MODEL_MODULES
             PROVE  \E t \in AllTables : t.name = m.table /\ t.name \in db.tables /\ t.keys = m.keys
  BY DEF HeadServesModels
<1>1. Staying \subseteq db.tables \cup (Staying \ TablesAt(4))
  <2> SUFFICES ASSUME NEW x \in Staying, x \in TablesAt(4) PROVE x \in db.tables  OBVIOUS
  <2>1. Creators(x) = {} /\ Droppers(x) = {}  BY DEF Quiet, Creators, Droppers
  <2>2. Cardinality({}) = 0  BY FS_EmptySet
  <2>3. HEAD = 4  BY RevisionsAre
  <2> QED BY <2>1, <2>2, <2>3 DEF MigrationInv, StayingAccounted, One
<1>2. TablesAt(4) \subseteq Staying
  <2>1. TablesOf(upgrade[4]) = TopicTables  BY LastUpgrade DEF upgrade
  <2> QED BY <2>1, RevisionsAre DEF Staying
<1>3. \A t \in AllTables : t.name \in TablesAt(4) => t.name \in db.tables  BY <1>1, <1>2
<1>4. {schema_metadata, schema_plans, schema_apply_results, schema_artifacts, schema_upload_results,
       schema_audit_logs, schema_policies, schema_subjects, schema_versions, observed_usage,
       schema_registries, approval_requests} \subseteq AllTables
  BY TablesAre
<1>5. /\ schema_metadata.name \in TablesAt(4) /\ schema_plans.name \in TablesAt(4)
      /\ schema_apply_results.name \in TablesAt(4) /\ schema_artifacts.name \in TablesAt(4)
      /\ schema_upload_results.name \in TablesAt(4) /\ schema_audit_logs.name \in TablesAt(4)
      /\ schema_policies.name \in TablesAt(4) /\ schema_subjects.name \in TablesAt(4)
      /\ schema_versions.name \in TablesAt(4) /\ observed_usage.name \in TablesAt(4)
      /\ schema_registries.name \in TablesAt(4) /\ approval_requests.name \in TablesAt(4)
  <2>1. \A t \in AllTables : t.name \notin TopicTables => t.name \in TablesAt(4)
    BY RevisionsAre DEF TableNames
  <2> QED BY <1>4, <2>1, PlacesAre DEF TopicTables
<1>6. \E t \in {schema_metadata, schema_plans, schema_apply_results, schema_artifacts, schema_upload_results,
                schema_audit_logs, schema_policies, schema_subjects, schema_versions, observed_usage,
                schema_registries, approval_requests} : t.name = m.table /\ t.keys = m.keys
  BY DEF REGISTERED_MODEL_MODULES, Model, SchemaMetadataModel, SchemaPlanModel, SchemaApplyResultModel,
         SchemaArtifactModel, SchemaUploadResultModel, SchemaAuditLogModel, SchemaPolicyModel,
         SchemaSubjectModel, SchemaVersionModel, ObservedUsageModel, SchemaRegistryModel,
             ApprovalRequestModel,
         Table, schema_metadata, schema_plans, schema_apply_results, schema_artifacts, schema_upload_results,
         schema_audit_logs, schema_policies, schema_subjects, schema_versions, observed_usage,
         schema_registries, approval_requests
<1> QED BY <1>3, <1>4, <1>5, <1>6

\* The stamped revision tells the tables up to what the runners have in hand,
\* references and indexes go with their tables, and on PostgreSQL one transaction
\* at a time moves between the empty database and head: upgrade() and downgrade()
\* of the four revisions, for any number of runners and commands, stopped anywhere.
THEOREM MigrationsInvariant == MigrationSpec => []MigrationInv
<1> QED BY InitialInv, InvKept, PTL DEF MigrationSpec

\* At head, no command running and no downgrade left in parts, every class that
\* SchemaPolicyModel and its like map finds its table, with the keys its repository
\* relies on, however many upgrades were killed, refused, repeated or overlapped.
THEOREM HeadServed == MigrationSpec => []HeadServesModels
<1> QED BY MigrationsInvariant, ModelsServed, PTL

\* The four refusals known are all there are: a database that no command left in
\* parts accepts every other statement of upgrade() and downgrade() from a command
\* that runs alone.
THEOREM RefusalsKnown == MigrationSpec => []RefusalsAreKnown
<1>1. MigrationInv => RefusalsAreKnown  BY DEF MigrationInv
<1> QED BY <1>1, MigrationsInvariant, PTL
===============================================================================
