--------------------------- MODULE ConnectionManager ---------------------------
(***************************************************************************)
(* The process-wide cache of Schema Registry clients                       *)
(* (infra/kafka/connection_manager.py) together with the registry rows it  *)
(* is filled from and the use cases that write those rows                  *)
(* (registry_connections).  Everything runs on one asyncio loop, so the    *)
(* code between two awaits is one step and every await is a step boundary. *)
(*                                                                         *)
(* getters are coroutines inside get_schema_registry_client; admins are    *)
(* coroutines inside the create / update / activate / delete use cases.    *)
(***************************************************************************)
EXTENDS Sequences, FiniteSets

CONSTANTS
    Registries,   \* registry ids
    Getters,      \* coroutines asking for a client
    Admins,       \* coroutines writing registry rows
    Urls,         \* connection settings other than the password
    Passwords,    \* stored (encrypted) passwords
    LockIds,      \* identities of asyncio.Lock objects
    NoRow, NoPw, NoClient, NoLock

ASSUME NullsAssumption ==
    /\ NoPw \notin Passwords
    /\ NoLock \notin LockIds

ASSUME NonEmptyAssumption == Registries # {} /\ Urls # {} /\ LockIds # {}

Row    == [url : Urls, pw : Passwords \cup {NoPw}, active : BOOLEAN]
Client == [url : Urls, pw : Passwords \cup {NoPw}]

ASSUME NoRowAssumption    == NoRow \notin Row
ASSUME NoClientAssumption == NoClient \notin Client

\* The two families of keys the lock dictionary is addressed with: the getter
\* builds "schema_<id>", invalidate_cache builds "<resource_type>_<id>" with
\* resource_type "schema_registry".
LockKeys == {"schema", "schema_registry"} \X Registries

VARIABLES
    rows,      \* schema_registries table
    clients,   \* _schema_registry_clients
    locks,     \* _locks: key -> lock object
    lockq,     \* per lock object: holder first, then waiters in FIFO order
    pc, req, lk, seen,       \* getter: program counter, registry, lock, row read
    apc, job,                \* admin: program counter, its operation
    everActive,  \* history: settings each registry has had while active
    leak         \* history: why a stale client may have escaped invalidation

vars == <<rows, clients, locks, lockq, pc, req, lk, seen, apc, job,
          everActive, leak>>
getterVars == <<pc, req, lk, seen>>
adminVars  == <<apc, job>>

AdminKinds == {"create", "update", "delete"}
Causes     == {"race", "create", "fault"}

Job == [kind : AdminKinds, reg : Registries, intent : Row,
        loaded : Row \cup {NoRow}]

TypeOK ==
    /\ rows \in [Registries -> Row \cup {NoRow}]
    /\ clients \in [Registries -> Client \cup {NoClient}]
    /\ locks \in [LockKeys -> LockIds \cup {NoLock}]
    /\ lockq \in [LockIds -> Seq(Getters)]
    /\ pc \in [Getters -> {"idle", "waiting", "reading", "fetched"}]
    /\ req \in [Getters -> Registries]
    /\ lk \in [Getters -> LockIds]
    /\ seen \in [Getters -> Row \cup {NoRow}]
    /\ apc \in [Admins -> {"idle", "activating", "loaded", "committed"}]
    /\ job \in [Admins -> Job]
    /\ everActive \in [Registries -> SUBSET Client]
    /\ leak \in [Registries -> SUBSET Causes]

\* Locals of a coroutine that is not running an operation.
AnyRow == [url |-> CHOOSE u \in Urls : TRUE, pw |-> NoPw, active |-> FALSE]
AnyReg == CHOOSE r \in Registries : TRUE
IdleJob == [kind |-> "create", reg |-> AnyReg, intent |-> AnyRow, loaded |-> NoRow]

Init ==
    /\ rows = [r \in Registries |-> NoRow]
    /\ clients = [r \in Registries |-> NoClient]
    /\ locks = [k \in LockKeys |-> NoLock]
    /\ lockq = [l \in LockIds |-> <<>>]
    /\ pc = [g \in Getters |-> "idle"]
    /\ req = [g \in Getters |-> AnyReg]
    /\ lk = [g \in Getters |-> CHOOSE l \in LockIds : TRUE]
    /\ seen = [g \in Getters |-> NoRow]
    /\ apc = [a \in Admins |-> "idle"]
    /\ job = [a \in Admins |-> IdleJob]
    /\ everActive = [r \in Registries |-> {}]
    /\ leak = [r \in Registries |-> {}]

------------------------------------------------------------------------------
(* What a client is built from. *)

\* SchemaRegistry.to_client_config: url, timeout, certificates and the stored
\* password; is_active is not part of it.
to_client_config(row) == [url |-> row.url, pw |-> row.pw]

Usable(row) == row # NoRow /\ row.active

\* to_client_config of every registry whose row is active, remembered.
Remember(rws) ==
    [r \in Registries |-> everActive[r] \cup
        (IF Usable(rws[r]) THEN {to_client_config(rws[r])} ELSE {})]

Outdated(client, row) == ~Usable(row) \/ client # to_client_config(row)

\* Getter g holds a row it is about to build a client from, and that row is
\* no longer what the table says.
StaleView(g) ==
    /\ pc[g] = "fetched"
    /\ Usable(seen[g])
    /\ Outdated(to_client_config(seen[g]), rows[req[g]])

StaleCache(r) == clients[r] # NoClient /\ Outdated(clients[r], rows[r])

------------------------------------------------------------------------------
(* get_schema_registry_client *)

\* Cache hit: the client is returned without touching lock or database.
GetHit(g, r) ==
    /\ pc[g] = "idle"
    /\ clients[r] # NoClient
    /\ UNCHANGED vars

\* _get_loop_scoped_lock: the stored lock if there is one, else a new object
\* that is stored under the key.
_get_loop_scoped_lock(key, l) ==
    \/ /\ locks[key] = l
       /\ UNCHANGED locks
    \/ /\ locks[key] = NoLock
       /\ \A k \in LockKeys : locks[k] # l
       /\ lockq[l] = <<>>
       /\ locks' = [locks EXCEPT ![key] = l]

\* Cache miss: queue for the lock.  A free lock is taken without yielding to
\* the loop, so the second check cannot fail and the row read starts at once.
GetMiss(g, r) ==
    /\ pc[g] = "idle"
    /\ clients[r] = NoClient
    /\ \E l \in LockIds :
         /\ _get_loop_scoped_lock(<<"schema", r>>, l)
         /\ lk' = [lk EXCEPT ![g] = l]
         /\ pc' = [pc EXCEPT ![g] = IF lockq[l] = <<>> THEN "reading" ELSE "waiting"]
         /\ lockq' = [lockq EXCEPT ![l] = Append(@, g)]
    /\ req' = [req EXCEPT ![g] = r]
    /\ UNCHANGED <<rows, clients, seen, adminVars, everActive, leak>>

\* `async with lock` exits.
Release(g) == lockq' = [lockq EXCEPT ![lk[g]] = Tail(@)]

\* Mutant: no second look at the cache once the lock is held.
LockGranted_NoRecheck(g) ==
    /\ pc[g] = "waiting"
    /\ lockq[lk[g]] # <<>>
    /\ Head(lockq[lk[g]]) = g
    /\ pc' = [pc EXCEPT ![g] = "reading"]
    /\ UNCHANGED <<rows, clients, locks, lockq, req, lk, seen, adminVars, everActive, leak>>

\* The lock is granted to its first waiter, which looks at the cache again.
LockGranted(g) ==
    /\ pc[g] = "waiting"
    /\ lockq[lk[g]] # <<>>
    /\ Head(lockq[lk[g]]) = g
    /\ IF clients[req[g]] # NoClient
         THEN /\ Release(g)
              /\ pc' = [pc EXCEPT ![g] = "idle"]
         ELSE /\ pc' = [pc EXCEPT ![g] = "reading"]
              /\ UNCHANGED lockq
    /\ UNCHANGED <<rows, clients, locks, req, lk, seen, adminVars, everActive, leak>>

\* The database answers get_by_id; the coroutine has not resumed yet.
RowRead(g) ==
    /\ pc[g] = "reading"
    /\ pc' = [pc EXCEPT ![g] = "fetched"]
    /\ seen' = [seen EXCEPT ![g] = rows[req[g]]]
    /\ UNCHANGED <<rows, clients, locks, lockq, req, lk, adminVars, everActive, leak>>

\* Mutant: acquire() and release() without try/finally.
RowReadFails_LockKept(g) ==
    /\ pc[g] = "reading"
    /\ pc' = [pc EXCEPT ![g] = "idle"]
    /\ UNCHANGED <<rows, clients, locks, lockq, req, lk, seen, adminVars, everActive, leak>>

\* get_by_id raises; the lock is released and the exception propagates.
RowReadFails(g) ==
    /\ pc[g] = "reading"
    /\ pc' = [pc EXCEPT ![g] = "idle"]
    /\ Release(g)
    /\ UNCHANGED <<rows, clients, locks, req, lk, seen, adminVars, everActive, leak>>

\* Mutant: the row is checked for existence only.
Filled_AnyRow(g) == IF seen[g] # NoRow THEN to_client_config(seen[g]) ELSE clients[req[g]]

\* What the getter leaves in the cache: nothing for a missing or inactive row
\* (ValueError), otherwise a client built from the row it read.
Filled(g) == IF Usable(seen[g]) THEN to_client_config(seen[g]) ELSE clients[req[g]]

\* The coroutine resumes with the row: refuse it, or build and store a client.
BuildClient(g) ==
    /\ pc[g] = "fetched"
    /\ clients' = [clients EXCEPT ![req[g]] = Filled(g)]
    /\ pc' = [pc EXCEPT ![g] = "idle"]
    /\ seen' = [seen EXCEPT ![g] = NoRow]
    /\ Release(g)
    /\ UNCHANGED <<rows, locks, req, lk, adminVars, everActive, leak>>

\* Mutant: the lock that getters do use is dropped too.
invalidate_cache_DropsLock(r) ==
    /\ clients' = [clients EXCEPT ![r] = NoClient]
    /\ locks' = [locks EXCEPT ![<<"schema", r>>] = NoLock]

\* Mutant: only the lock entry is dropped.
invalidate_cache_KeepsClient(r) ==
    /\ locks' = [locks EXCEPT ![<<"schema_registry", r>>] = NoLock]
    /\ UNCHANGED clients

\* invalidate_cache("schema_registry", r): drops the client, and the lock
\* stored under a key that get_schema_registry_client never uses.
invalidate_cache(r) ==
    /\ clients' = [clients EXCEPT ![r] = NoClient]
    /\ locks' = [locks EXCEPT ![<<"schema_registry", r>>] = NoLock]

------------------------------------------------------------------------------
(* The registry use cases.  A repository method is a session: it selects the *)
(* row, assigns attributes, and its commit writes the columns that differ    *)
(* from what was selected.                                                   *)

\* The use case returns or raises.
End(a) ==
    /\ apc' = [apc EXCEPT ![a] = "idle"]
    /\ job' = [job EXCEPT ![a] = IdleJob]

Begin(a, kind, r, intent) ==
    /\ apc' = [apc EXCEPT ![a] = "loaded"]
    /\ job' = [job EXCEPT ![a] = [kind |-> kind, reg |-> r, intent |-> intent,
                                  loaded |-> rows[r]]]
    /\ UNCHANGED <<rows, clients, locks, lockq, getterVars, everActive, leak>>

CreateSelects(a, r, u, p) ==
    /\ apc[a] = "idle"
    /\ Begin(a, "create", r, [url |-> u, pw |-> p, active |-> TRUE])

\* Rows are never removed, so the existence check of the use case and the
\* select of the repository are one read.
UpdateSelects(a, r, u, p, act) ==
    /\ apc[a] = "idle"
    /\ rows[r] # NoRow
    /\ Begin(a, "update", r, [url |-> u, pw |-> p, active |-> act])

DeleteSelects(a, r) ==
    /\ apc[a] = "idle"
    /\ rows[r] # NoRow
    /\ Begin(a, "delete", r, [rows[r] EXCEPT !.active = FALSE])

\* PATCH /activate reads the row, then updates it with the values it read, no
\* password and is_active=True.
ActivateReads(a, r) ==
    /\ apc[a] = "idle"
    /\ rows[r] # NoRow
    /\ apc' = [apc EXCEPT ![a] = "activating"]
    /\ job' = [job EXCEPT ![a] =
                 [kind |-> "update", reg |-> r, loaded |-> NoRow,
                  intent |-> [rows[r] EXCEPT !.pw = NoPw, !.active = TRUE]]]
    /\ UNCHANGED <<rows, clients, locks, lockq, getterVars, everActive, leak>>

ActivateSelects(a) ==
    /\ apc[a] = "activating"
    /\ Begin(a, "update", job[a].reg, job[a].intent)

\* The columns that reach the table.  A password is encrypted afresh for every
\* request, so a given one always differs from the stored one.
Merged(intent, loaded, cur) ==
    [url    |-> IF intent.url # loaded.url THEN intent.url ELSE cur.url,
     pw     |-> IF intent.pw # NoPw \/ loaded.pw # NoPw THEN intent.pw ELSE cur.pw,
     active |-> IF intent.active # loaded.active THEN intent.active ELSE cur.active]

\* A delete assigns nothing but is_active.
Written(j, cur) ==
    IF j.loaded = NoRow THEN j.intent
    ELSE IF j.kind = "delete"
      THEN [cur EXCEPT !.active = IF j.loaded.active THEN FALSE ELSE @]
      ELSE Merged(j.intent, j.loaded, cur)

\* session.commit(): an insert meets the primary key, an update merges.
Commit(a) ==
    LET j == job[a] IN
    /\ apc[a] = "loaded"
    /\ IF j.loaded = NoRow /\ rows[j.reg] # NoRow
         THEN /\ End(a)
              /\ UNCHANGED <<rows, everActive>>
         ELSE /\ apc' = [apc EXCEPT ![a] = "committed"]
              /\ UNCHANGED job
              /\ rows' = [rows EXCEPT ![j.reg] = Written(j, @)]
              /\ everActive' = Remember(rows')
    /\ UNCHANGED <<clients, locks, lockq, getterVars, leak>>

\* The database fails before the commit: nothing was written.
FailBeforeCommit(a) ==
    /\ apc[a] \in {"activating", "loaded"}
    /\ End(a)
    /\ UNCHANGED <<rows, clients, locks, lockq, getterVars, everActive, leak>>

Stale(r) == StaleCache(r) \/ \E g \in Getters : req[g] = r /\ StaleView(g)

\* The use case ends without invalidating.
EndWithout(a, cause) ==
    LET r == job[a].reg IN
    /\ End(a)
    /\ leak' = [leak EXCEPT ![r] = IF Stale(r) THEN @ \cup {cause} ELSE @]
    /\ UNCHANGED <<rows, clients, locks, lockq, getterVars, everActive>>

\* refresh(), or the session's closing commit, raises after the commit: the
\* use case is left before its call of invalidate_cache.
FailAfterCommit(a) ==
    /\ apc[a] = "committed"
    /\ EndWithout(a, "fault")

\* CreateSchemaRegistryUseCase holds the connection manager and does not use it.
FinishCreate(a) ==
    /\ apc[a] = "committed"
    /\ job[a].kind = "create"
    /\ EndWithout(a, "create")

\* Update and delete invalidate after the repository call has returned.
FinishWrite(a) ==
    LET r == job[a].reg IN
    /\ apc[a] = "committed"
    /\ job[a].kind # "create"
    /\ End(a)
    /\ invalidate_cache(r)
    /\ leak' = [leak EXCEPT ![r] =
                  IF \E g \in Getters : req[g] = r /\ StaleView(g) THEN {"race"} ELSE {}]
    /\ UNCHANGED <<rows, lockq, getterVars, everActive>>

------------------------------------------------------------------------------
GetterStep(g) ==
    LockGranted(g) \/ RowRead(g) \/ RowReadFails(g) \/ BuildClient(g)

AdminStep(a) ==
    \/ ActivateSelects(a) \/ Commit(a) \/ FailBeforeCommit(a)
    \/ FailAfterCommit(a) \/ FinishCreate(a) \/ FinishWrite(a)

Next ==
    \/ \E g \in Getters, r \in Registries : GetHit(g, r) \/ GetMiss(g, r)
    \/ \E g \in Getters : GetterStep(g)
    \/ \E a \in Admins, r \in Registries :
         \/ \E u \in Urls, p \in Passwords \cup {NoPw} :
              \/ CreateSelects(a, r, u, p)
              \/ \E act \in BOOLEAN : UpdateSelects(a, r, u, p, act)
         \/ DeleteSelects(a, r)
         \/ ActivateReads(a, r)
    \/ \E a \in Admins : AdminStep(a)

Spec == Init /\ [][Next]_vars

\* The loop runs ready coroutines and the database answers or times out
\* (pool_timeout); nothing forces new requests to arrive.
Fairness == \A g \in Getters : WF_vars(GetterStep(g))

FairSpec == Spec /\ Fairness

------------------------------------------------------------------------------
(* Properties *)

InSection(g) == pc[g] \in {"reading", "fetched"}

\* One coroutine at a time reads a registry's row and builds its client
\* (connection_manager.py:51-64): no invalidation makes a second coroutine
\* enter through a different lock object.
OneBuilder ==
    \A g, h \in Getters :
        g # h /\ InSection(g) /\ InSection(h) => req[g] # req[h]

\* A coroutine that has passed the second check of the cache still finds the
\* cache empty when it stores its client, so no client another coroutine is
\* using is overwritten (connection_manager.py:52-63).
BuilderFindsCacheEmpty ==
    \A g \in Getters : InSection(g) => clients[req[g]] = NoClient

\* Every cached client carries settings its registry's row had, all at one
\* time, while it was active (connection_manager.py:55-63).
BuiltFromActiveRow ==
    \A r \in Registries : clients[r] # NoClient => clients[r] \in everActive[r]

\* A committed row whose invalidation is still to come.
Pending(r) == \E a \in Admins : apc[a] = "committed" /\ job[a].reg = r

\* A cached client, or one about to be cached, disagrees with its row only while
\* a writer is between commit and invalidation, or for one of three reasons:
\* the invalidation fell between a getter's read and its store, the writer was
\* a create, or the writer died after its commit.
StaleHasCause ==
    \A r \in Registries : Stale(r) => leak[r] # {} \/ Pending(r)

\* What keeps the builders apart: every coroutine past the cache check uses the
\* lock object stored for its registry, and a builder is first in its queue.
LockDiscipline ==
    \A g \in Getters :
        /\ pc[g] # "idle" => lk[g] = locks[<<"schema", req[g]>>]
        /\ InSection(g) => lockq[lk[g]] # <<>> /\ Head(lockq[lk[g]]) = g

\* Rows are never removed, so what a writer selected is still there.
RowsPersist ==
    \A a \in Admins :
        /\ apc[a] = "activating" => rows[job[a].reg] # NoRow
        /\ apc[a] = "loaded" /\ job[a].kind # "create" => job[a].loaded # NoRow
        /\ apc[a] = "loaded" /\ job[a].loaded # NoRow => rows[job[a].reg] # NoRow

\* everActive really remembers the rows, and the rows getters have read.
HistoryKept ==
    /\ \A r \in Registries :
          Usable(rows[r]) => to_client_config(rows[r]) \in everActive[r]
    /\ \A g \in Getters :
          pc[g] = "fetched" /\ Usable(seen[g])
              => to_client_config(seen[g]) \in everActive[req[g]]

\* The inductive invariant of the module.
IInv ==
    /\ TypeOK
    /\ LockDiscipline
    /\ RowsPersist
    /\ BuilderFindsCacheEmpty
    /\ HistoryKept
    /\ BuiltFromActiveRow
    /\ StaleHasCause

\* A cached client is replaced only after it has been invalidated: a slow
\* getter never stores over a client that others were already given
\* (connection_manager.py:52-63).
NeverReplaced ==
    [][\A r \in Registries :
         clients[r] # NoClient => clients'[r] \in {clients[r], NoClient}]_vars

\* Every request for a client is answered, with a client or an error, however
\* many coroutines queue for the lock (connection_manager.py:51).
EveryGetEnds ==
    \A g \in Getters : pc[g] # "idle" ~> pc[g] = "idle"

\* The system is at rest with respect to registry r.
Settled(r) ==
    /\ \A g \in Getters : req[g] = r => pc[g] = "idle"
    /\ \A a \in Admins : apc[a] # "idle" => job[a].reg # r

\* get_schema_registry_client refuses an inactive registry
\* (connection_manager.py:58): once nothing is in flight, and no database fault
\* cut a writer short, no client of a deactivated registry is left to be handed
\* out.
InactiveIsRefused ==
    \A r \in Registries :
        Settled(r) /\ rows[r] # NoRow /\ ~rows[r].active /\ "fault" \notin leak[r]
            => clients[r] = NoClient
=============================================================================
