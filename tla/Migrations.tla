------------------------------- MODULE Migrations -------------------------------
(***************************************************************************)
(* The database migrations (migrations/versions, run by script/migrate.sh  *)
(* as `alembic upgrade head`): four revisions, each a list of DDL          *)
(* statements forwards and one backwards, executed one statement at a time *)
(* on one of the databases the settings allow.  A table is reduced to its  *)
(* keys, its indexes, its references and the enum types it declares; its   *)
(* other columns decide nothing here.                                      *)
(***************************************************************************)
EXTENDS Naturals, FiniteSets, SequencesExt

CONSTANTS
    Runners,      \* processes that run alembic
    Backends,     \* the databases considered
    MaxCommands   \* bound on the commands started

AllBackends == {"sqlite", "mysql", "postgresql"}

ASSUME MigrationsAssumption == Backends \subseteq AllBackends /\ MaxCommands \in Nat
ASSUME RunnersAssumption == IsFiniteSet(Runners)

-----------------------------------------------------------------------------
(* The tables.                                                             *)

Table(name, keys, indexes) ==
    [name |-> name, keys |-> keys, indexes |-> indexes,
     references |-> {}, cover |-> {}, types |-> {}]
\* cover: the indexes that begin with the referencing column.
Referencing(t, other, cover) == [t EXCEPT !.references = {other}, !.cover = cover]
WithTypes(t, types) == [t EXCEPT !.types = types]

audit_logs == Table("audit_logs", {{"id"}}, <<>>)
consumer_group_rebalance_delta ==
    Table("consumer_group_rebalance_delta", {{"id"}},
          <<"idx_consumer_rebalance_delta_cluster_group_ts", "ix_delta_cluster_id",
            "ix_delta_group_id", "ix_delta_ts">>)
consumer_group_rebalance_rollup ==
    WithTypes(Table("consumer_group_rebalance_rollup",
                    {{"id"}, {"cluster_id", "group_id", "window", "window_start"}},
                    <<"idx_consumer_rebalance_rollup_cluster_group_window", "ix_rollup_cluster_id",
                      "ix_rollup_group_id">>), {"rollup_window_enum"})
consumer_group_snapshot ==
    Table("consumer_group_snapshot", {{"id"}},
          <<"idx_consumer_group_snapshot_cluster_group_ts", "idx_consumer_group_snapshot_ts",
            "ix_group_cluster_id", "ix_group_group_id", "ix_group_ts">>)
consumer_member_snapshot ==
    Table("consumer_member_snapshot", {{"id"}},
          <<"idx_consumer_member_snapshot_cluster_group_ts", "ix_member_cluster_id",
            "ix_member_group_id", "ix_member_ts">>)
consumer_partition_snapshot ==
    Table("consumer_partition_snapshot", {{"id"}},
          <<"idx_consumer_partition_snapshot_cluster_group_ts",
            "idx_consumer_partition_snapshot_cluster_topic_ts", "ix_partition_cluster_id",
            "ix_partition_group_id", "ix_partition_topic", "ix_partition_ts">>)
kafka_clusters == Table("kafka_clusters", {{"cluster_id"}}, <<>>)
metrics_snapshots ==
    Table("metrics_snapshots", {{"id"}},
          <<"idx_cluster_collected", "idx_collected_at_desc", "ix_metrics_cluster_id",
            "ix_metrics_collected_at">>)
observed_usage == Table("observed_usage", {{"subject", "version"}}, <<"idx_last_seen">>)
policies ==
    WithTypes(Table("policies", {{"id"}, {"policy_id", "version"}}, <<>>),
              {"policy_type_enum", "policy_status_enum"})
schema_apply_results == Table("schema_apply_results", {{"change_id"}}, <<>>)
schema_artifacts == Table("schema_artifacts", {{"subject", "version"}}, <<>>)
schema_audit_logs == Table("schema_audit_logs", {{"id"}}, <<>>)
schema_metadata == Table("schema_metadata", {{"subject"}}, <<>>)
schema_plans == Table("schema_plans", {{"change_id"}}, <<>>)
schema_registries == Table("schema_registries", {{"registry_id"}}, <<>>)
schema_subjects == Table("schema_subjects", {{"subject"}}, <<"idx_env_team", "idx_risk_score">>)
schema_upload_results == Table("schema_upload_results", {{"upload_id"}}, <<>>)
schema_versions ==
    Table("schema_versions", {{"subject", "version"}},
          <<"idx_canonical_hash", "idx_schema_type", "idx_subject_version">>)
topic_apply_results == Table("topic_apply_results", {{"change_id"}}, <<>>)
topic_metadata == Table("topic_metadata", {{"topic_name"}}, <<>>)
topic_plans == Table("topic_plans", {{"change_id"}}, <<>>)
leader_distributions ==
    Referencing(Table("leader_distributions", {{"id"}},
                      <<"idx_snapshot_broker", "ix_leader_snapshot_id">>),
                "metrics_snapshots", {"idx_snapshot_broker", "ix_leader_snapshot_id"})
topic_partition_metrics ==
    Referencing(Table("topic_partition_metrics", {{"id"}},
                      <<"idx_snapshot_topic", "idx_topic_name", "ix_topic_snapshot_id",
                        "ix_topic_topic_name">>),
                "metrics_snapshots", {"idx_snapshot_topic", "ix_topic_snapshot_id"})
schema_policies_NoKey == Table("schema_policies", {{"id"}}, <<>>)
schema_policies == Table("schema_policies", {{"id"}, {"policy_id", "version"}}, <<>>)
approval_requests ==
    Table("approval_requests", {{"id"}, {"request_id"}},
          <<"idx_approval_requests_status_requested_at", "idx_approval_requests_resource_type">>)

\* What 6f5f0c8f6c1f knows of metrics_snapshots: three of its four indexes.
metrics_snapshots_again ==
    Table("metrics_snapshots", {{"id"}},
          <<"idx_cluster_collected", "ix_metrics_cluster_id", "ix_metrics_collected_at">>)

-----------------------------------------------------------------------------
(* The revisions.  upgrade() and downgrade() create or drop these tables    *)
(* in this order; a table is created before its indexes and dropped after   *)
(* them, the last index first.                                              *)

Creating(ts) == [op |-> "create", tables |-> ts]
Dropping(ts) == [op |-> "drop", tables |-> ts]

CatalogTables ==
    <<audit_logs, consumer_group_rebalance_delta, consumer_group_rebalance_rollup,
      consumer_group_snapshot, consumer_member_snapshot, consumer_partition_snapshot,
      kafka_clusters, metrics_snapshots, observed_usage, policies, schema_apply_results,
      schema_artifacts, schema_audit_logs, schema_metadata, schema_plans, schema_registries,
      schema_subjects, schema_upload_results, schema_versions, topic_apply_results,
      topic_metadata, topic_plans, leader_distributions, topic_partition_metrics>>
upgrade_df9847a07952 == Creating(CatalogTables)
downgrade_df9847a07952 == Dropping(Reverse(CatalogTables))

upgrade_feeb4168b5fc == Creating(<<schema_policies>>)
downgrade_feeb4168b5fc == Dropping(<<schema_policies>>)

upgrade_a6f4f39b9c12 == Creating(<<approval_requests>>)
downgrade_a6f4f39b9c12 == Dropping(<<approval_requests>>)

upgrade_6f5f0c8f6c1f_SnapshotsFirst ==
    Dropping(<<metrics_snapshots_again, topic_partition_metrics, leader_distributions,
               topic_apply_results, topic_plans, topic_metadata, policies, audit_logs>>)
upgrade_6f5f0c8f6c1f ==
    Dropping(<<topic_partition_metrics, leader_distributions, metrics_snapshots_again,
               topic_apply_results, topic_plans, topic_metadata, policies, audit_logs>>)
downgrade_6f5f0c8f6c1f_NoPlans ==
    Creating(<<audit_logs, policies, topic_metadata, topic_apply_results,
               metrics_snapshots_again, leader_distributions, topic_partition_metrics>>)
downgrade_6f5f0c8f6c1f ==
    Creating(<<audit_logs, policies, topic_metadata, topic_plans, topic_apply_results,
               metrics_snapshots_again, leader_distributions, topic_partition_metrics>>)

\* The chain of down_revision; revision 0 is the empty database.
upgrade == <<upgrade_df9847a07952, upgrade_feeb4168b5fc, upgrade_a6f4f39b9c12, upgrade_6f5f0c8f6c1f>>
downgrade == <<downgrade_df9847a07952, downgrade_feeb4168b5fc, downgrade_a6f4f39b9c12,
               downgrade_6f5f0c8f6c1f>>
HEAD == Len(upgrade)

AllTables  == Range(CatalogTables) \cup {schema_policies, approval_requests}
TableNames == {t.name : t \in AllTables}
IndexesOf(n) == UNION {Range(t.indexes) : t \in {o \in AllTables : o.name = n}}

-----------------------------------------------------------------------------
(* The mapped classes of the service: table and keys.                      *)

Model(name, keys) == [table |-> name, keys |-> keys]
SchemaMetadataModel     == Model("schema_metadata", {{"subject"}})
SchemaPlanModel         == Model("schema_plans", {{"change_id"}})
SchemaApplyResultModel  == Model("schema_apply_results", {{"change_id"}})
SchemaArtifactModel     == Model("schema_artifacts", {{"subject", "version"}})
SchemaUploadResultModel == Model("schema_upload_results", {{"upload_id"}})
SchemaAuditLogModel     == Model("schema_audit_logs", {{"id"}})
SchemaPolicyModel       == Model("schema_policies", {{"id"}, {"policy_id", "version"}})
SchemaSubjectModel      == Model("schema_subjects", {{"subject"}})
SchemaVersionModel      == Model("schema_versions", {{"subject", "version"}})
ObservedUsageModel      == Model("observed_usage", {{"subject", "version"}})
SchemaRegistryModel     == Model("schema_registries", {{"registry_id"}})
ApprovalRequestModel    == Model("approval_requests", {{"id"}, {"request_id"}})
REGISTERED_MODEL_MODULES ==
    {SchemaMetadataModel, SchemaPlanModel, SchemaApplyResultModel, SchemaArtifactModel,
     SchemaUploadResultModel, SchemaAuditLogModel, SchemaPolicyModel, SchemaSubjectModel,
     SchemaVersionModel, ObservedUsageModel, SchemaRegistryModel, ApprovalRequestModel}

-----------------------------------------------------------------------------
VARIABLES
    backend,    \* the database behind the URL
    db,         \* its tables, indexes, enum types, and the stamped revision
    session,    \* per runner: the command it is executing, or Idle
    commands,   \* how many were started
    broken,     \* history: directions in which a command stopped inside a revision and left a part
    refusals    \* history: the statements the database refused

migrationVars == <<backend, db, session, commands, broken, refusals>>

Database == [tables : SUBSET TableNames, indexes : SUBSET UNION {IndexesOf(n) : n \in TableNames},
             types : SUBSET UNION {t.types : t \in AllTables}, stamp : 0..HEAD]
Empty == [tables |-> {}, indexes |-> {}, types |-> {}, stamp |-> 0]

\* A command moves from a revision to another, one revision after the other; it is at
\* a statement of a table of the revision's list.  open: it has a transaction open,
\* which found the database as before; alone: nobody else has run since it began.
Session == [from : 0..HEAD, to : 0..HEAD, table : Nat, step : Nat,
            open : BOOLEAN, before : Database, alone : BOOLEAN]
Idle == [from |-> 0, to |-> 0, table |-> 1, step |-> 0,
         open |-> FALSE, before |-> Empty, alone |-> FALSE]

Active(s)    == s.to # s.from
Up(s)        == s.to > s.from
Direction(s) == IF Up(s) THEN "up" ELSE "down"
Revision(s)  == IF Up(s) THEN s.from + 1 ELSE s.from
Reached(s)   == IF Up(s) THEN s.from + 1 ELSE s.from - 1
Script(s)    == IF Up(s) THEN upgrade[Revision(s)] ELSE downgrade[Revision(s)]
Creates(s)   == Script(s).op = "create"
Here(s)      == Script(s).tables[s.table]

Begun(s)    == s.table > 1 \/ s.step > 0
Complete(s) == s.table > Len(Script(s).tables)

Placed(s) ==
    /\ Active(s) => s.table \in 1..(Len(Script(s).tables) + 1)
    /\ Active(s) => s.step \in 0..(IF Complete(s) THEN 0 ELSE Len(Here(s).indexes))
    /\ ~Active(s) => s = Idle

MigrationTypeOK ==
    /\ backend \in Backends
    /\ db \in Database
    /\ session \in [Runners -> Session]
    /\ \A r \in Runners : Placed(session[r])
    /\ commands \in 0..MaxCommands
    /\ broken \subseteq {"up", "down"}
    /\ refusals \subseteq [direction : {"up", "down"}, revision : 1..HEAD, clean : BOOLEAN]

MigrationInit ==
    /\ backend \in Backends
    /\ db = Empty
    /\ session = [r \in Runners |-> Idle]
    /\ commands = 0
    /\ broken = {}
    /\ refusals = {}

Running(r) == Active(session[r])

-----------------------------------------------------------------------------
(* One statement.                                                          *)

NoIndex == ""
Statement(op, t, index) == [op |-> op, table |-> t, index |-> index]

Current(s) ==
    LET t == Here(s)
        n == Len(t.indexes) IN
    IF Creates(s)
    THEN IF s.step = 0 THEN Statement("create_table", t, NoIndex)
         ELSE Statement("create_index", t, t.indexes[s.step])
    ELSE IF s.step < n THEN Statement("drop_index", t, t.indexes[n - s.step])
         ELSE Statement("drop_table", t, NoIndex)

Advanced(s) ==
    IF s.step < Len(Here(s).indexes) THEN [s EXCEPT !.step = @ + 1]
    ELSE [s EXCEPT !.table = @ + 1, !.step = 0]

\* SQLite checks no reference; MySQL keeps an index under every reference;
\* PostgreSQL creates enum types with a table and does not drop them with it.
Accepts(s) ==
    LET t == s.table IN
    CASE s.op = "create_table" ->
           /\ t.name \notin db.tables
           /\ backend # "sqlite" => t.references \subseteq db.tables
           /\ backend = "postgresql" => t.types \cap db.types = {}
      [] s.op = "create_index" -> t.name \in db.tables /\ s.index \notin db.indexes
      [] s.op = "drop_index" ->
           /\ s.index \in db.indexes
           /\ backend = "mysql" /\ s.index \in t.cover => (t.cover \cap db.indexes) # {s.index}
      [] s.op = "drop_table" ->
           /\ t.name \in db.tables
           /\ backend = "sqlite" \/ \A o \in AllTables : o.name \in db.tables => t.name \notin o.references

Result(s) ==
    LET t == s.table IN
    CASE s.op = "create_table" ->
           [db EXCEPT !.tables = @ \cup {t.name},
                      !.types = IF backend = "postgresql" THEN @ \cup t.types ELSE @]
      [] s.op = "create_index" -> [db EXCEPT !.indexes = @ \cup {s.index}]
      [] s.op = "drop_index"   -> [db EXCEPT !.indexes = @ \ {s.index}]
      [] s.op = "drop_table"   ->
           [db EXCEPT !.tables = @ \ {t.name}, !.indexes = @ \ IndexesOf(t.name)]

-----------------------------------------------------------------------------
(* Commands.  Alembic takes no lock: another runner may be at work.         *)

\* Alembic wraps a command in one transaction where DDL is transactional; what
\* others wrote in an open one is not seen, and blocks.
Transactional == backend = "postgresql"
Open(r) == session[r].open
Committed == IF \E r \in Runners : Open(r) THEN session[CHOOSE r \in Runners : Open(r)].before ELSE db
Blocked(r) == \E q \in Runners \ {r} : Open(q)

Start(r, to) ==
    /\ ~Running(r)
    /\ commands < MaxCommands
    /\ to # Committed.stamp
    /\ session' = [q \in Runners |->
                     IF q = r
                     THEN [Idle EXCEPT !.from = Committed.stamp, !.to = to,
                                       !.alone = \A o \in Runners : ~Running(o)]
                     ELSE [session[q] EXCEPT !.alone = FALSE]]
    /\ commands' = commands + 1
    /\ UNCHANGED <<backend, db, broken, refusals>>

upgrade_head(r) == Start(r, HEAD)
downgrade_to(r, n) == n < Committed.stamp /\ Start(r, n)

execute(r) ==
    LET s == session[r] IN
    /\ Running(r) /\ ~Blocked(r)
    /\ ~Complete(s)
    /\ Accepts(Current(s))
    /\ db' = Result(Current(s))
    /\ session' = [session EXCEPT ![r] =
                     [Advanced(s) EXCEPT !.open = Transactional,
                                         !.before = IF Transactional /\ ~s.open THEN db ELSE @]]
    /\ UNCHANGED <<backend, commands, broken, refusals>>

\* The stamp moves only from the revision the command started at.
run_migrations(r) ==
    LET s == session[r]
        n == Reached(s) IN
    /\ Running(r)
    /\ Complete(s)
    /\ db.stamp = s.from
    /\ db' = [db EXCEPT !.stamp = n]
    /\ session' = [session EXCEPT ![r] = IF n = s.to THEN Idle
                                         ELSE [s EXCEPT !.from = n, !.table = 1, !.step = 0]]
    /\ UNCHANGED <<backend, commands, broken, refusals>>

\* What a stopped command leaves behind.
Stop(r) ==
    /\ session' = [session EXCEPT ![r] = Idle]
    /\ db' = IF Open(r) THEN session[r].before ELSE db
    /\ broken' = IF ~Transactional /\ Begun(session[r])
                 THEN broken \cup {Direction(session[r])} ELSE broken

refused(r) ==
    LET s == session[r] IN
    /\ Running(r) /\ ~Blocked(r)
    /\ IF Complete(s) THEN db.stamp # s.from ELSE ~Accepts(Current(s))
    /\ Stop(r)
    /\ refusals' = refusals \cup
         {[direction |-> Direction(s), revision |-> Revision(s),
           clean |-> s.alone /\ broken = {}]}
    /\ UNCHANGED <<backend, commands>>

\* The process is killed or loses the database.
killed(r) ==
    /\ Running(r)
    /\ Stop(r)
    /\ UNCHANGED <<backend, commands, refusals>>

Finished == commands = MaxCommands /\ (\A r \in Runners : ~Running(r)) /\ UNCHANGED migrationVars

MigrationNext ==
    \/ \E r \in Runners :
         \/ upgrade_head(r) \/ \E n \in 0..(HEAD - 1) : downgrade_to(r, n)
         \/ execute(r) \/ run_migrations(r) \/ refused(r) \/ killed(r)
    \/ Finished

MigrationSpec == MigrationInit /\ [][MigrationNext]_migrationVars

-----------------------------------------------------------------------------
(* Properties.                                                             *)

Quiet == \A r \in Runners : ~Running(r)

\* The tables the first n upgrades leave.
TablesOf(script) == {script.tables[i].name : i \in DOMAIN script.tables}
TablesAfter == [n \in 0..HEAD |->
    (UNION {TablesOf(upgrade[v]) : v \in {w \in 1..n : upgrade[w].op = "create"}})
      \ (UNION {TablesOf(upgrade[v]) : v \in {w \in 1..n : upgrade[w].op = "drop"}})]
TablesAt(n) == TablesAfter[n]

\* Between commands the stamped revision tells which tables exist, whatever
\* went up, down or wrong before, unless a command stopped inside a revision
\* on a database that keeps the part it had done: each downgrade() is the
\* inverse of its upgrade() as far as tables go.
StampTellsTables == Quiet /\ broken = {} => db.tables = TablesAt(db.stamp)

\* No table outlives the table it references, on SQLite neither, where nothing
\* but the order of the statements sees to it.
Resolves(d) == \A t \in AllTables : t.name \in d.tables => t.references \subseteq d.tables
ReferencesResolve == Resolves(db)

\* An index exists with its table only, and, but for the one that the last downgrade
\* forgets, with it always.
Forgotten == "idx_collected_at_desc"
IndexesHaveTables(d) == \A t \in AllTables : \A x \in Range(t.indexes) : x \in d.indexes => t.name \in d.tables
TablesHaveIndexes(d) ==
    \A t \in AllTables : \A x \in Range(t.indexes) \ {Forgotten} : t.name \in d.tables => x \in d.indexes

\* The tables that the revision of a session has created or dropped so far.
Done(s) == {Script(s).tables[i].name : i \in
              {k \in DOMAIN Script(s).tables : k < s.table \/ (k = s.table /\ Creates(s) /\ s.step > 0)}}
Creators(x) == {r \in Runners : Running(r) /\ Creates(session[r]) /\ x \in Done(session[r])}
Droppers(x) == {r \in Runners : Running(r) /\ ~Creates(session[r]) /\ x \in Done(session[r])}

\* Each table is there as often as the stamped revision, the runners that have created
\* it and those that have dropped it say, unless a command has left a part behind.
One(p) == IF p THEN 1 ELSE 0
Accounted(x) ==
    Cardinality(Droppers(x)) + One(x \in db.tables)
      = Cardinality(Creators(x)) + One(x \in TablesAt(db.stamp))
TablesAccounted == broken = {} => \A x \in TableNames : Accounted(x)

\* A stopped upgrade takes none of the tables that stay: only a downgrade drops them.
Staying == TableNames \ TablesOf(upgrade[HEAD])
StayingAccounted ==
    "down" \notin broken => \A x \in Staying :
      Cardinality(Creators(x)) + One(x \in TablesAt(db.stamp))
        <= Cardinality(Droppers(x)) + One(x \in db.tables)

\* Who is between a table and one of its indexes, or between a table and one that
\* references it, is there alone: creating, past the first and not the second;
\* dropping, past the second and not the first.
HasPart(s, t, x) ==
    /\ Active(s) /\ ~Complete(s) /\ Here(s).name = t
    /\ LET all == Here(s).indexes IN
       \E l \in DOMAIN all :
         all[l] = x /\ IF Creates(s) THEN 0 < s.step /\ s.step <= l ELSE Len(all) - s.step < l
BetweenIndex(t, x) == {r \in Runners : HasPart(session[r], t, x)}
IndexesGuarded ==
    \A t \in AllTables : \A x \in Range(t.indexes) \ {Forgotten} :
      LET there == BetweenIndex(t.name, x) IN
      /\ there # {} => t.name \in db.tables /\ x \notin db.indexes
      /\ \A r, q \in there : r = q
      /\ broken = {} /\ t.name \in db.tables /\ x \notin db.indexes => there # {}

HasReferred(s, m, t) ==
    /\ Active(s)
    /\ IF Creates(s) THEN m \in Done(s) /\ t \notin Done(s) /\ t \in TablesOf(Script(s))
       ELSE t \in Done(s) /\ m \notin Done(s)
BetweenTables(m, t) == {r \in Runners : HasReferred(session[r], m, t)}
ReferencesGuarded ==
    \A t \in AllTables : \A m \in t.references :
      LET there == BetweenTables(m, t.name) IN
      /\ there # {} => m \in db.tables /\ t.name \notin db.tables
      /\ \A r, q \in there : r = q

\* A command that runs alone finds the database at the revision it began with, and the
\* tables it has created without the indexes it has still to create.
Lone(r) == Running(r) /\ session[r].alone
LoneKnows ==
    \A r \in Runners : Lone(r) =>
      /\ \A q \in Runners \ {r} : ~Running(q)
      /\ session[r].from = db.stamp
      /\ ~Complete(session[r]) /\ Creates(session[r]) /\ session[r].step > 0 =>
           \A l \in session[r].step..Len(Here(session[r]).indexes) :
             Here(session[r]).indexes[l] \notin db.indexes

\* PostgreSQL: one transaction at a time; what is committed is empty or at head, and
\* keeps the enum types of the policies from then on, so that no downgrade gets past them.
Kept == policies.types
Sound(d) ==
    /\ d.tables = TablesAt(d.stamp)
    /\ Resolves(d) /\ IndexesHaveTables(d) /\ TablesHaveIndexes(d)
    /\ d.stamp \in {0, HEAD}
    /\ d.stamp = 0 => d.types = {}
    /\ d.stamp = HEAD => Kept \subseteq d.types
TransactionsIsolated ==
    IF Transactional
    THEN /\ broken = {}
         /\ \A r, q \in Runners : Open(r) /\ Open(q) => r = q
         /\ \A r \in Runners : ~Open(r) => ~Begun(session[r])
         /\ \A r \in Runners : Open(r) => Sound(session[r].before) /\ session[r].before.types \subseteq db.types
         /\ (\A r \in Runners : ~Open(r)) => Sound(db)
         /\ \A r \in Runners : Running(r) /\ ~Up(session[r]) =>
              Committed.stamp = HEAD /\ session[r].from = HEAD /\ policies.name \notin Done(session[r])
    ELSE \A r \in Runners : ~Open(r)
TypesMade ==
    Transactional =>
      /\ db.stamp # 0 => Kept \subseteq db.types
      /\ \A r \in Runners : Running(r) /\ Up(session[r]) =>
           /\ session[r].from = 0 /\ policies.name \in Done(session[r]) => Kept \subseteq db.types
           /\ Lone(r) /\ session[r].from = 0 => \A t \in AllTables :
                t.name \notin Done(session[r]) => t.types \cap db.types = {}

\* Only head is upgraded to, and every session knows a revision to go from.
Ascending == \A r \in Runners : Running(r) /\ Up(session[r]) => session[r].to = HEAD

\* The statements a database refuses to a lone command on a database no command
\* has left in parts: the drop of the last index under a reference (MySQL, the
\* last upgrade and the first downgrade), the creation of enum types that
\* outlived their table (PostgreSQL, the last downgrade), the drop of an index
\* that the last downgrade did not restore (SQLite, the first downgrade).
RefusalsAreKnown ==
    \A x \in refusals : x.clean =>
      <<backend, x.direction, x.revision>> \in
        {<<"mysql", "up", 4>>, <<"mysql", "down", 1>>, <<"postgresql", "down", 4>>,
         <<"sqlite", "down", 1>>}

\* The inductive invariant: the stamp tells the tables up to what runners have in
\* hand, references and indexes go with their tables, transactions are isolated.
MigrationInv ==
    /\ MigrationTypeOK /\ StampTellsTables /\ ReferencesResolve
    /\ TablesAccounted /\ StayingAccounted
    /\ IndexesHaveTables(db) /\ IndexesGuarded /\ ReferencesGuarded
    /\ LoneKnows /\ TransactionsIsolated /\ TypesMade /\ Ascending /\ RefusalsAreKnown

\* At head, and no command running, every mapped class has its table with the
\* keys its repositories rely on, unless a downgrade stopped inside a revision.
\* Upgrades that were killed, refused, repeated or run at the same time never
\* reach head without them.
HeadServesModels ==
    Quiet /\ db.stamp = HEAD /\ "down" \notin broken =>
      \A m \in REGISTERED_MODEL_MODULES :
        \E t \in AllTables : t.name = m.table /\ t.name \in db.tables /\ t.keys = m.keys
=============================================================================
