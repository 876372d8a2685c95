# A TLA+ verification of kafka-gov

kafka-gov governs changes of schemas in a Confluent Schema Registry: a requester
submits a batch of schema specs, the service plans it, judges it with a policy
pack, and registers what it lets through, keeping plans, results, artifacts, an
audit log and approval requests in its own database. The backend
(`src/app`) is a FastAPI application on one asyncio loop per process. Nothing
spans the registry and the database in one transaction, requests run
concurrently, and every `await` is a place where another request runs or where a
request dies. That is what this project is about.

## The system and its parts

| part | state | operations | hard behaviour | module |
|---|---|---|---|---|
| client cache (`infra/kafka/connection_manager.py`) | clients, locks per registry | get, invalidate | double-checked locking across awaits; invalidation racing a fill | `ConnectionManager` |
| registry connections (`registry_connections/`) | `schema_registries` rows | create, update, activate, soft delete | read-modify-write sessions, column-wise commits, invalidation after commit | `ConnectionManager` |
| policy pack, guardrails, dynamic policies, approval gate (`domain/policies`, `governance_support`) | none | evaluate a planned batch | two gates that must agree; rules that exempt each other | `PolicyPack`, `PolicyReview` |
| batch dry run and apply (`use_cases/batch`) | registry versions, plans, results, artifacts, audit, approvals | the two use cases | partial failure, retries under one change id, concurrent applies, cancellation | `SchemaApply`, `ChangeControl` |
| planner (`domain/services.py`) | none | plan action, violations, delete impact | a failed read looks like an absent subject | `PolicyPack`, `SchemaApply`, `SchemaLifecycle` |
| registry adapter | the external registry | describe, check, register, delete, set mode, read versions | register is two calls | `SchemaApply`, `SchemaLifecycle` |
| upload, delete, rollback, settings | registry, metadata, artifacts | sequences of registry and database writes | failure between two writes; concurrent requests on one subject | `SchemaLifecycle` |
| sync, catalog sync, drift | mirror of the registry | mirror all subjects, compare | one session shared by concurrent tasks; decisions on old listings | `CatalogSync` |
| schema policies | versions and their status | create, update, activate, set status, delete | activation is several transactions | `SchemaPolicy` |
| approval requests, audit views | request rows, audit log | create, approve, reject, list, recent, history | overlapping decisions; one query coded twice | `SchemaApply` (creation), `ApprovalTrail` |
| history, versions, export, compare | none (joins registry, artifacts, audit, plans) | reads in several awaits | versions vanish between listing and reading; artifacts change hands | `VersionHistory` |
| dashboard | none | reads in several awaits | sampling; ownership changing under the request | `GovernanceStats` |
| database migrations | the schema of the database | upgrade, downgrade | kills, two runners, three databases with different DDL rules | `Migrations` |
| linting | none | checks of a schema tree | – | only the codes raised (`PolicyPack`) |
| search, plan change, detail | none | one query; a dry run of one spec; the read of one subject | – | not modelled |
| event bus | handlers | publish | – | inside a step of `SchemaApply`; no handler is registered and failures are swallowed |
| HTTP layer, database session, encryption, settings, frontend | – | – | – | not modelled: wiring and presentation |

How they interact: every use case asks the client cache for a client, the
planner reads the registry through the adapter, the policy pack judges the plan,
apply writes the registry through the adapter and the database through the
repositories, and writes an approval request when the gate asks for one. The
cache is filled from rows that the registry-connection use cases write.

What makes each part correct:
* the cache: one client is built per registry at a time, from settings that were
  in force, and an outdated client does not survive an invalidation;
* the pack: both gates give the same answer, the verdict of a batch is the
  verdict of its subjects, and what an accepted update makes unreadable has one
  of two known causes;
* apply: nothing is registered that the gates did not let through, the result
  row is true whatever failed, a change id is applied once, and the audit trail
  is closed;
* the operations on single subjects: registry and database stay in step unless
  a write failed or requests overlapped; a rollback steps back in order and never
  past its target, and an unsafe subject is not deleted unseen, whatever failed
  and whoever else is at work;
* the mirrors: what is missing is missing for a known reason, what was recorded
  of a live version stays, and the drift an undisturbed sync leaves has a cause;
* policies and approvals: at most one active version and one decision, and known
  reasons for the exceptions; stored versions never change;
* the views: they agree with each other, credit the right actor, and leave out
  nothing that was there all the time;
* the migrations: the revision stamp tells the truth about the tables.

`PROJECT.json` lists the hazards at their lines with the properties that cover
them.

## Modules

**`ConnectionManager`** – `rows`, `clients`, `locks` and `lockq` are the table,
the client dictionary, the lock dictionary and the queues of the
`asyncio.Lock` objects. A getter moves through `GetHit` / `GetMiss`,
`LockGranted`, `RowRead` (or `RowReadFails`) and `BuildClient`: one action per
stretch of code between awaits. Taking a free `asyncio.Lock` does not yield, so
`GetMiss` on a free lock goes straight to the row read. A writer selects
(`CreateSelects`, `UpdateSelects`, `DeleteSelects`, or `ActivateReads` followed
by `ActivateSelects`), commits the columns it changed (`Commit`) and then ends
with or without an invalidation (`FinishWrite`, `FinishCreate`,
`FailAfterCommit`). `invalidate_cache` drops the lock stored under
`schema_registry_<id>`, a key that getters never use, and the model keeps both
key families. `everActive` and `leak` are history variables. A password is
encrypted afresh for each request, so a given password always differs from the
stored one. `clear_all_caches` has no caller and is left out. One event loop is
modelled, so the loop comparison in `_get_loop_scoped_lock` always succeeds.

**`PolicyPack`** – operators only. A schema is its type with a map from field
names to fields, or one of two texts without fields: `Opaque` is not JSON,
`NotObject` is JSON but not an object, on which a lint check raises. The type of a
field is the sequence of the branches of its union, one branch for any other
type; a branch is an enum with its name and symbols, or a plain type. So the
enum rules, which gather the symbols of all branches, meet unions of enums and
other types as the code does. `inline` says that the text comes as a source: the
registry gets it, the planner and the rules see none (`text`). Compatibility
modes are represented by one mode of each class the rules tell apart (`NONE`,
`BACKWARD`, `FULL`); a lint check is the code it raises. The rules, the generated
violations with their suppression by code, the evaluation, `ensure_approval` and
`can_apply` are translated one by one. Left out: attributes of an enum other than
its name and symbols, and what a name inside a type refers to; a type nested in
an array, map or record is part of a plain branch, as it is for `_enum_symbols`.

**`PolicyReview`** – one review of one batch: an input out of `Inputs`, and the
verdict, the approval state a dry run announces (which never counts an override),
the one an apply records, and the outcome of the apply; or no verdict, when
`create_plan` raises. `Values` is the reference for the structural rules: the
values a consumer upgraded to a type can read.

**`SchemaApply`** (extends `PolicyPack`) – dry runs and applies as processes.
`Start` writes the STARTED row; `describe_subject` reads one subject, or loses it
to a swallowed registry error; `save_plan` stores the plan and passes the gates;
`register`, `read_version` and `record_artifact` are the three awaits of one item;
`save_apply_result` inserts under the primary key `change_id`;
`audit_completed`, `_create_approval_request` and `audit_failed` close.
`register_fails` and `item_fails` are caught by the loop, `raises` by the
handler, `abandoned` (cancellation, a crash, a failing handler) by nobody. Items
are taken in any order, since a batch may list its subjects in any order.
Compatibility reports are the registry's answer and are arbitrary. The registry
keeps the version of a schema it already has and appends a new one; versions are
only added here; deletion belongs to the use cases of `SchemaLifecycle`.

**`ChangeControl`** – the abstract promise: open, clear, write while cleared,
claim the change id, close. `SchemaApply` implements it with `phase`, `written`,
`outcome` computed from program counters, version authors and the audit log, and
`owner` the result rows.

**`SchemaPolicy`** – `rows` is the table; clients move through `create_policy` /
`update_policy` and `save`, or `activate_policy` (the listing), `archive` per
active version, `set_active` and `status_updated`. Each repository call is its
own transaction and may fail. `split`, `cause` and `governed` are history: an
activation that met a rival, and why a policy may have lost its active version.

**`SchemaLifecycle`** – upload, delete analysis, delete, rollback and settings as
requests over `sr` (live versions), `top` (highest number ever given, since the
registry never reuses numbers), `config`, `artifacts` and `meta`. Every registry
or database call is an action; `fails`, `cancelled` and the named early returns
(`file_refused`, `nothing_to_delete`, `version_gone`) end a request. A subject
name is the sequence of its parts, so that `_build_subject_name` and
`_subject_environment` are translated by what they do. `tainted` marks subjects on
which a write failed or two requests overlapped; `seen` (history) is the highest
number of the subject when a delete was analysed or a rollback listed.

**`CatalogSync`** – the artifact loop of `sync.py`, then `sync_all`: one task per
subject, all on one session whose `pending` rows any task commits or rolls back.
`MaxConcurrent` is the semaphore. Meanwhile schemas are registered, rolled back
and deleted, by this service with its artifacts and metadata (`here`) or by
others; `Text` gives versions their text, so that a text can be registered again
after a deletion. `drift_flags` has all six flags of the drift report. The one on
observed usage reads a table that nothing in the code writes; `Observe` stands for
whoever does. `recorded` and `late` (history) are the versions this service has
recorded in both tables, and those registered after a listing that misses their
subject and before its removal of stale rows; `lost`, `quiet` and `shrunk` are
history too.

**`ApprovalTrail`** – approval rows decided by a select and a later update that
writes only the columns that differ from what was selected (the session's unit of
work), and the audit views as operators over the rows of the two tables. A row
carries the second of its stamp, all its `DATETIME` column keeps: rows share
seconds, and stamps need not follow the order of commits. A query with `ORDER BY`
and `LIMIT` therefore has several answers, the sets in `Newest`; a view is the
set of the answers it may give. `IgnoresCase` stands for the collation of the
database; under one that ignores case, the analysis of a deletion (logged as
`completed`) is visible.

**`VersionHistory`** – one subject; writers are the applies, uploads, syncs and
rollbacks reduced to what the views join (change id, artifact, plan), readers move
through describe, list, fetch and load in the order of their use case. `maker`,
`borrowed`, `stayed` and `tops` are history. The audit query names no order, so
any row of a change id may be the last.

**`GovernanceStats`** – the dashboard request against a changing registry and
changing owners, which settings without an owner erase, with `Sample` for the 50
of the code. The request may fail before the subjects are described and after.

**`Migrations`** – a table is its name, keys, indexes, references and enum types;
the four revisions are lists of tables to create or drop, each with its indexes
(`Creating`, `Dropping`), and `Current` is the statement a runner is at. `Accepts`
and `Result` are what SQLite, MySQL and PostgreSQL do with it (external). A session
is a place in a script: from which revision to which, at which table and index.
Runners execute statement by statement; only PostgreSQL rolls an interrupted
command back, to the database its transaction found, and keeps others from
executing meanwhile. The guards of `execute` and `run_migrations` stay those of
Alembic: no lock, and a stamp that moves only from the revision the script began at.

`MC*` modules give bounded inputs and symmetry; `*Proofs` hold the theorems about
the module they are named for (`GovernanceProofs` those about `PolicyReview`,
`ApprovalTrail` and `GovernanceStats`, `InfrastructureProofs` those about
`ConnectionManager` and `Migrations`), and `Extremes` what several of them need
to know of greatest elements. An operator whose name ends in a suffix such as `_NoRecheck` is a deliberately
broken variant of the definition that follows it; no specification uses it.

## Runs

| run | what it shows | bounds |
|---|---|---|
| `client_cache` | `IInv`, `OneBuilder`, `BuiltFromActiveRow`, `StaleHasCause`, `NeverReplaced`, `EveryGetEnds` | 1 registry, 3 getters, 1 writer, 1 password, 2 locks |
| `client_cache_stale` (violation) | `InactiveIsRefused`: a client of a deactivated registry stays cached | 1 getter, 2 writers |
| `policy_review` | `StricterTowardsProd`, `AcceptedLossHasCause`, `AnnouncedIsDone`, `StrictestSubject` | 1 subject with every pair of schemas over one field, of nine types (plain, enum and unions) and two symbols, as text or source; 2 subjects with schemas that raise each structural rule or none |
| `schema_apply` | `IInv`, `GatedWrites`, `HonestResult`, `AppliedOnce`, `ImplementsChangeControl` | 2 requests, 1 change id, 2 subjects, one possibly dry-run-only |
| `schema_apply_live` | `ArtifactCovered`, `EveryRequestClosed` | 2 requests, 1 change id, 1 subject with 0 or 2 versions, one text given as a source |
| `schema_policy` | `IInv`, `OneActiveUnlessRaced`, `ProtectionLostHasCause`, `VersionsAreImmutable` | 2 clients, 1 policy, 2 versions, 3 targets |
| `approval_trail` | `TrailInv` (with `OneDecisionShown`), `HistoryExtendsRecent`, `FilteredAsShown`, `PendingIsRequested` | 2 requests, 2 deciders, 2 decisions, up to 2 audit rows, 2 seconds, limits 1 and 2 |
| `schema_lifecycle` | `LifecycleInv` (with `MirrorAgrees`), `UploadedPrefixStored`, `RollbackStepsBack`, `UnsafeDeleteHasCause` | 3 requests, a production subject with 3 versions, or a development one with 2, the other new; files good and bad |
| `catalog_sync` | `SyncInv` (with `HolesHaveCause`), `QuietSyncClearsDrift`, `RecordsKept` | 2 subjects that start with 2, 1 or no versions, 3 versions, 2 changes |
| `version_history` | `HistoryInv` (with `CreditHasCause`), `ListingIsWhole`, `ExportWasLatest` | 2 writers, 1 reader, 3 versions, 2 change ids |
| `governance_stats` | `StatsInv` (with `CountedHasCause`), `NoOrphanHidden` | 3 subjects, a sample of 2, 4 changes |
| `migrations` | `MigrationInv` (inductive; with `StampTellsTables`, `ReferencesResolve`), `HeadServesModels`, `RefusalsAreKnown` | 3 databases, 2 runners, 3 commands |

The invariants named `…Inv` conjoin the module's `TypeOK` with the invariants in
parentheses; where the module has a proof they are inductive and hold in addition
what the proof needs.

Why the bounds suffice: registries do not share state, so one registry shows
every interleaving of the cache. With three getters one builds while two queue,
and the writer races all of them; liveness and safety are checked in one run
without symmetry, and the proofs of the safety properties remove the bound on
getters and writers. `client_cache_stale` has the two writers.
The structural rules look at one field at a time, so one field and two symbols
show every relation of two types. Two requests are the smallest number that
race; a request runs once, and a retry is the second request with the same
change id. Two clients, deciders, uploads or runners are likewise the smallest
number that race; three requests in `schema_lifecycle` let one run between two
steps of another after a third has set the scene. In `schema_apply` a subject
starts without versions and gets them from the other request; `schema_apply_live`
adds one with a past. Two audit rows and two requests over two seconds put rows of
the two tables before, after and beside each other, and limits of 1 and 2 cut
through a second. Thresholds are scaled down so
that they are crossed: `Threshold` = 2 versions (10 in the code), `Sample` = 2
(50); `MaxConcurrent` keeps the code's 15, which two subjects do not reach, as
the semaphore only removes interleavings. `MaxVersion`, `MaxChanges`, `MaxLog` and
`MaxCommands` bound counters: each leaves room for a change during an operation
and `MaxCommands`, 3, for up, down and up again, each of them killed, refused or
beside another; `MigrationsInvariant` is proved for any number. Two changes
suffice for `catalog_sync`: a deletion and a registration of the same text or of a
new one, before or between the steps of a sync, or one change during each of two
syncs; syncs repeat, so that later ones find catalogs that are absent, behind,
ahead or with holes. Symmetry is used over requests, clients and
subjects, which are interchangeable; no liveness property is checked under it.
The runs of `PolicyReview`, `SchemaApply`, `ApprovalTrail`, `VersionHistory` and
`GovernanceStats` switch deadlock checking off because a review, a set of
requests, a bounded log and a view really end; `SchemaLifecycle` and `Migrations`
have an explicit `Finished` step instead, so that anything stuck would show.

Fairness: a coroutine that can run is run by the loop, and every call ends, with
an answer or with a timeout, so getters and started requests are weakly fair.
Nothing makes requests arrive, and writers of rows are not assumed to go on.

### Where the code and what is said of it differ

`client_cache_stale` shows one such difference. `InactiveIsRefused`:
`get_schema_registry_client` refuses inactive registries
(`connection_manager.py:59`), but a getter suspended in `get_by_id` during a
delete stores its client after the invalidation. `StaleHasCause` says how long
and why such a client may live.

Other differences met while modelling have no run of their own. The properties
that are checked say what does hold, with the exception as their premise or in
their list of causes:

* Changes of types. `update-mvp.md:223` wants incompatible type changes rejected.
  `_changed_field_types` passes over a field that had enums and has some, in any
  union (`policy_pack.py:290,327`), and the enum rule looks at symbols only: an
  enum may lose its null or any other branch beside it, or be renamed. A text
  given as a source has no structural rule at all (`policy_pack.py:124`; the
  adapter registers it, `schema_registry_adapter.py:249`). `AcceptedLossHasCause`:
  in an accepted update nothing else makes a written value unreadable, no symbol
  ever leaves a field that keeps an enum, and new fields have defaults.
* Failed applies. `update-mvp.md:202` wants the state kept on failure; the result
  row is inserted last, and a used change id makes it fail after registering.
  `HonestResult` and `AppliedOnce` hold. The rules see the version that was latest
  before the plan was saved, not at the registration (`update-mvp.md:200`).
* Versions of artifacts. `interfaces.py:42` says that `register_schema` returns
  the version it registered; it returns the greatest one. `ArtifactCovered`.
* Activations. `policy_router.py:96` answers "Status updated successfully" after
  archiving the active version and activating a missing one.
  `ProtectionLostHasCause` lists the ways a policy ends up unenforced.
* Decisions. Two that overlap mix their columns
  (`governance_support/infrastructure/models.py:31,33`). `OneDecisionShown` holds
  without overlap.
* Filters. Pending requests are shown as `REQUESTED` (`constants.py:38`) but
  filtered by their stored status, hence `Shown` in `FilteredAsShown`; deletions
  have a message (`constants.py:66`) and a status, `success`, that every view
  leaves out (`VisibleStatus`). Rows of one second come in any order, and a limit
  may cut through them (`repository.py:119,210-212,317` order by the stamp alone),
  so two pages may differ there; `FilteredAsShown` and `PendingIsRequested` say
  that they differ nowhere else.
* Deletes. `delete.py:101` refuses unsafe ones without force; a failed description
  makes a subject look absent, and an absent subject is safe (`services.py:64`).
  `UnsafeDeleteHasCause`: this and a version registered between the analysis and
  the deletion are the only ways; no failed write and no other request is an
  excuse.
* Rollbacks. `governance_router.py:326` announces that the old schema is registered
  again as a new version; `rollback.py:153` deletes the newer versions instead and
  registers nothing. `RollbackStepsBack` is about what the code does: the
  deletions go from the newest listed version down and stop above the target, on
  any subject, whoever else works on it.
* Syncs. A subject whose newest versions were deleted counts as up to date, and so
  does one that got new versions below the stored one since
  (`catalog_sync.py:51` wants the registry's state collected as it is).
  `QuietSyncClearsDrift` names the deleted version as the cause of the drift that
  remains. Version rows of a subject that never got a subject row, an artifact or
  metadata (all three lost or failed) are not found by the removal of stale rows
  (`catalog_sync.py:98-108`) and outlive the subject; the property speaks of
  the subjects the removal looks at (`Existing`), and the drift report answers
  "not found" for the others.
* Authors. `interface/schemas/governance.py:74,125`; a sync rewrites the change id
  of the latest artifact. `CreditHasCause` lists all the ways.
* Orphans. `interface/schemas/governance.py:62`; subjects beyond the sample are
  added to the number whoever owns them. `NoOrphanHidden`: the error is on the
  safe side.
* Migrations. `script/migrate.sh:7` calls them DB-agnostic; MySQL refuses to drop
  the last index under a foreign key, half way through a revision it cannot roll
  back, and the base revision cannot be reached again since the downgrade before
  it does not restore an index. `RefusalsAreKnown` lists every refusal.

## Proofs

All for every value of the constants, under the named assumptions of the modules
(null values are not ordinary values, some sets are not empty, lint codes are not
codes of the pack).

`InfrastructureProofs` is about two modules. `ConnectionManager`: `IInv` is proved
inductive and the rest derived. The argument: `LockDiscipline` says that every getter past the cache check uses the
lock object stored for its registry and that a builder heads its queue, so two
builders of one registry would head one queue; this needs `invalidate_cache` to
leave that lock alone. `BuilderFindsCacheEmpty` then says nobody fills the cache
under a builder, which gives `NeverReplaced`. `HistoryKept` carries settings from
the row to the getter's copy to the client, which gives `BuiltFromActiveRow`.
`StaleHasCause` is inductive with `RowsPersist`: only a commit makes a client
outdated, and the writer is then pending until it ends, where it invalidates or
leaves a cause.

`Migrations`: `MigrationInv` is proved inductive for any number of runners and
commands. First the scripts, which are data: each is well formed (no table twice,
a table that refers to another after it forwards and before it backwards, indexes
with their own table) and turns the tables of one revision into those of the next
(`UpgradesTurn`, `DowngradesTurn`). Names are compared as numbers, their places in
the catalog. Then the runners, by four arguments. (1) An account per table: as
often as the stamp, the runners that created it and those that dropped it say, it
is there (`TablesAccounted`). Every step is even, since a statement moves one from
the database to its runner's hands and the stamp takes a whole script out of them;
a command that stops half way unbalances an account, in the upgrade's direction
never that of a table that stays (`StayingAccounted`), which is why a killed upgrade
is harmless to `HeadServesModels`. (2) Places that one runner can be in: between a
table and one of its indexes, or between a table and one that references it.
The database refuses a second one the statement that leads there
(`IndexesGuarded`, `ReferencesGuarded`), so references resolve even on SQLite, which
does not check them. (3) What a command that runs alone knows of the database
(`LoneKnows`). (4) PostgreSQL: a transaction is alone, what is committed is empty or
at head, and the enum types of the policies outlive their table, so that no downgrade gets
past the last revision (`TransactionsIsolated`, `TypesMade`). `RefusalsAreKnown`
follows case by case: a lone statement on a database without parts meets what (1) to
(3) say, and only the four known places contradict what the database asks.

`GovernanceProofs` is about three small modules. `PolicyReview`: the planner's
codes and the pack's codes are disjoint, so no generated violation is suppressed,
and rejections and error violations correspond one to one (`GatesAgree`);
`Announced` follows. The rules of a batch are the union of those of its subjects
(`SubjectRules`), a decision is that of the weightiest rule (`DecisionIs`,
`DecisionGrows`), and a risk the greatest one (`RiskIs`): hence `AsStrictest`.
`Stricter` goes through the rules one by one: none disappears on the way to
production without one at least as weighty (`SubjectStricter`); its premise that
no policy is bound to one environment is needed, since such a policy may demand
of `dev` what nobody demands of `prod`. `LossHasCause`: below an
approval no rule about the structure has fired, so nothing was added without a
default, a type without enums on one side is the one it was (`_changed_field_types`),
and between types with enums every symbol is still one of some branch.
`ApprovalTrail`: `TrailInv` is inductive because without rivals what a
decision has selected is still what is stored (`SeenIsStored`), so the columns it
leaves out already have its values (`WrittenAlone`). An answer of a view is any set of
rows of the right size that leaves out none newer than one it has; `ViewsAgree`
is the equality of what the two queries select, and `FilterIsShown` and
`PendingShown` compare two answers: a row that one has and the other lacks was
cut off, and an answer that cut something off is full and has nothing older.
`GovernanceStats`: `RequestKnows` relates what the
request took down to who had an owner since it began, and sends each sampled
subject to one of four places; `NoneHidden` then counts (`OrphansShown`). The
module extends all three machines, which is why the names that all have (`Init`,
`Next`, `Spec`, `TypeOK`, `vars`) carry a prefix in the last two.

`SchemaApplyProofs` proves `IInv` of `SchemaApply` inductive. It says of each
request: only a request past the gates loops or has written (`ClearedToWrite`;
before the gates it has done nothing, `Untouched`); the three lists, the item in
hand and what is left split the batch (`Accounted`); what it read, registered or
skipped as unchanged is in the registry (`Held`); and an apply about to be logged
as completed holds its result row (`CompletingHolds`). `OnlyAdds` is the heart of
the non-interference argument: a step of one request leaves the locals of the
others alone and only adds to the registry and the tables in its own name, so
`Frame` carries the invariant of every request that does not move. `Held` is
needed because the registry's content changes between the read of a version and
its use; it survives because versions are only added. `Gated`, `Honest`,
`Covered` and `Once` follow from `IInv`.

The last part of the module proves that `SchemaApply` implements `ChangeControl`.
It needs one more invariant, `ClosedLast` (no request moves after its closing
row); each action then maps to one action of `ChangeControl`, and
`describe_subject`, `read_version`, `record_artifact`, `item_fails`,
`_create_approval_request` and registrations of a known schema map to stutters.

`SchemaPolicyProofs` proves `IInv` of `SchemaPolicy` inductive. An activation is a
listing, an archiving transaction per active version, and an activating one; what
makes it end with one active version is `ListedAll`: unless a rival took part,
every other active version is on the list or already archived. `IdsHandedOut` says
that a policy id with rows or requests has been given out, without which a
`create_policy` could write its version 1 over a stored one, and
`VersionsAreImmutable` would fail. `OneActive` and `ProtectionKept` are parts of
`IInv`; `TextsAreImmutable` compares each write with the cell it writes.

`SchemaLifecycleProofs` proves `LifecycleInv` inductive, together with
`UploadedPrefixStored`. `Alone` is the argument: on a subject on which nothing went
wrong one request at most is running, because the start of a second one marks
every subject they share. A step therefore disturbs only the subject its request
is writing to, and there `HalfDone` says how the stores differ between the first
and the last write of each use case: an upload has registered what it has not
yet recorded, a delete has emptied the registry first, a rollback holds in `todo`
exactly the live versions above its target. When the last write is done the
difference is gone (`MirroredElsewhere`, `MirrorAgrees`). The other two theorems
hold on tainted subjects too and rest on what a request knows in spite of the
others: numbers are never reused, so the live versions between a rollback's target
and the highest number at its listing can only become fewer, and are among those
it has in hand (`Listed`): hence `RollbackOrdered`. `JudgedSafe` carries the judgement
of the analysis to the deletion as long as the highest number stays; hence
`EraseHasCause`.

`CatalogSyncProofs` proves `SyncInv` inductive, subject by subject. Up to
commits and rollbacks a step concerns the task of one subject; a commit or a
rollback by any task takes the pending rows of all. `PendingOwned` says whose
each pending row is and `BehindCovered` that what a task has passed is stored,
lost or pending: so after a commit a subject's catalog row can only have moved to
the version its own task read, with everything up to it covered
(`CommittedFor`), and a rollback records what it loses (`RolledBackFor`).
This half of the invariant is `TasksInv`. The other is about the request:
`QuietRecords` (in a sync without a failure what is not recorded is still in hand,
and absent subjects have no rows once the removal is done), `NoneAhead` and
`Unlisted` (a live version of a subject that the listing misses is new since).
`QuietSync` needs `QuietTasks` (without a failure tasks work on what the registry
holds), `RowsKnown` (no row is ahead of the registry) and `QuietRecords`: a catalog or
a row that is ahead of the latest version names one that was deleted.
`KeepsRecords` is inductive beside `SyncInv`: only a deletion takes records of a
version that no longer lives, and a removal those of unlisted subjects, whose
live versions are all `late`.

`VersionHistoryProofs` proves `HistoryInv` inductive. A writer's step is judged by
the rows it leaves: the maker of a version that its own registration recorded last
is in the audit log under the change id of the row (`RowsKnown`), because a writer
logs before it registers and remembers what it has created (`WritersKnown`);
`CreditHasCause` follows (`CreditFollows`). Readers never disturb writers, and
writers reach a reader only by what it observes of the registry (`Observed`), so
`ViewsSound` holds view by view: read, unread and still to read cover everything
that has stayed. `ListingWhole` and `ExportLatest` are its case of an answered
view.

`Extremes` proves that a bounded non-empty set of version numbers has a greatest
element. The induction theorems of the library take an operator as a parameter,
which the provers cannot use; the proof picks a minimal one of the set's final
segments instead, strict inclusion of finite sets being well founded.

Only model-checked: liveness (fairness is beyond the prover), and the violation.
Every invariant and every action property that a passing run checks has a theorem.

## Not modelled

* Search is a single query, the detail view reads one subject, and plan change is the planner plus `save_plan`, both
  of which `SchemaApply` has in its dry run.
* The walk over a schema tree in the lint checks, the texts of diffs, reasons and
  messages, export file names and hashes: no state and no control depends on them.
* Middleware, dependency injection, configuration, encryption and the frontend:
  wiring and presentation. The commit and rollback of a session are part of the
  actions of the modules that use it.

## Plan

Every module of the plan is written, checked and proved as far as the prover
reaches. What could follow: the HTTP layer's own session handling, which is
folded into the actions today, and the walk over schema trees in the lint checks,
whose recursion over data no installed prover can do for every input.
