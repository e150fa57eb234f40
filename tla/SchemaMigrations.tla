-------------------------- MODULE SchemaMigrations --------------------------
(***************************************************************************)
(* The database schema of the API: the twelve revisions under              *)
(* apps/api/alembic/versions, the models they must serve                   *)
(* (apps/api/src/models*.py), create_all at the start of a SQLite          *)
(* application (main.py), and rows that the migrations move or refuse.     *)
(*                                                                         *)
(* A schema is a set of items: tables, and the columns, constraints and    *)
(* types that some revision adds to or changes in a table of an earlier    *)
(* one.  PostgreSQL runs a whole command in one transaction; SQLite makes  *)
(* statements durable one by one, so an interrupted command leaves the     *)
(* revision of the last complete migration and part of the next one.       *)
(***************************************************************************)
EXTENDS Naturals, Sequences, FiniteSets

CONSTANT MaxCommands    \* alembic commands

ASSUME MigrationAssumption == MaxCommands \in Nat

VARIABLES
  dialect,     \* "postgresql" or "sqlite"
  schema,      \* the items there are
  revision,    \* the stamped revision, 0 (base) to 12 (head)
  command,     \* "idle", "up" or "down"
  target,      \* the revision the command goes to
  stmt,        \* the next statement of the current migration
  begun,       \* what a rollback restores
  runRow,      \* a run: its origin, its is_synthetic and its evidence_class
  evidenceRows,\* rows of the tables that downgrade refuses to drop: none, kept,
               \* lost, or lost after coming late (overtaken)
  late,        \* a row came after the downgrade counted them
  clash,       \* two tenants have a span with one id
  broken,      \* "up", "down": a command of the kind was cut within a migration
  createdAll,  \* create_all added a table
  commands     \* commands so far

smvars == <<dialect, schema, revision, command, target, stmt, begun, runRow, evidenceRows, late, clash,
            broken, createdAll, commands>>
rowVars == <<runRow, evidenceRows, late, clash>>
-----------------------------------------------------------------------------
(* Revisions: each a sequence of statements                                *)
DDL(add, drop) == [do |-> "ddl", add |-> add, drop |-> drop]
Do(what) == [do |-> what, add |-> {}, drop |-> {}]

Tenancy == {"detector_thresholds", "tenants", "users", "agent_pipelines", "audit_events",
            "component_versions", "idempotency_keys", "tenant_memberships"}
RunTables == {"request_runs", "interventions", "replay_state_manifests"}
TraceTables == {"span_records", "span_records.uq_span_id", "symptom_registry", "trace_artifacts",
                "replay_episodes", "replay_episodes.original_not_null"}
Durable == {"approval_requests", "jobs", "ledger_entries", "recovery_states", "approval_decisions"}
Certificates == {"recovery_certificates"}
ManifestColumns == {"replay_state_manifests.original_query_hash", "replay_state_manifests.corpus_version_id",
                    "replay_state_manifests.retriever_settings", "replay_state_manifests.retrieved_chunk_ids"}
Restored == {"corpus_versions", "index_versions", "documents", "chunks", "manifests", "causal_graphs",
             "graph_edges", "bandit_states"}
ReceiptLink == {"replay_episodes.admission_receipt_id"}
Evidence == {"background_jobs", "quarantine_rules", "recovery_certificate_summaries"}
EvidenceColumns == {"replay_episodes.replay_mode", "replay_state_manifests.original_query",
                    "replay_state_manifests.embedding", "span_records.provenance_json"}
RunClass == {"request_runs.evidence_class"}
EpisodeClass == {"replay_episodes.evidence_class"}
ClassColumns == {"request_runs.evidence_class", "replay_episodes.evidence_class"}
OtherColumns == {"replay_state_manifests.original_query", "replay_state_manifests.embedding",
                 "span_records.provenance_json"}
Admission == {"admission_resource_pools", "admission_receipts", "admission_audit_events",
              "admission_execution_attestations"}

OnPostgres(s) == IF dialect = "postgresql" THEN s ELSE <<>>

\* The class columns are added and filled table by table.
UpEvidence ==
  <<DDL(Evidence, {}), DDL(RunClass, {}), Do("classify"), DDL(EpisodeClass, {}), Do("classify_episodes"),
    DDL(EvidenceColumns, {"replay_episodes.original_not_null"})>>

UpSpans == <<DDL({"span_records.uq_tenant_span"}, {"span_records.uq_span_id"})>>

UpAuth == <<DDL(Tenancy, {}), DDL(RunTables, {}), DDL(TraceTables, {})>>
UpDurable == <<DDL(Durable, {})>> \o OnPostgres(<<DDL({"rls"}, {})>>)
UpManifest == <<DDL(ManifestColumns, {}), Do("fill"), Do("require")>>
UpJsonb == OnPostgres(<<DDL({"jsonb"}, {})>>)

\* The two revisions after the certificates change nothing; the ingestion tables
\* they were meant for are restored later.
Upgrades(r) ==
  CASE r = 1 -> UpAuth [] r = 2 -> UpDurable [] r = 3 -> <<DDL(Certificates, {})>>
    [] r = 6 -> UpManifest [] r = 7 -> UpSpans [] r = 8 -> UpJsonb
    [] r = 9 -> <<DDL(Restored, {})>> [] r = 10 -> <<DDL(ReceiptLink, {})>>
    [] r = 11 -> UpEvidence [] r = 12 -> <<DDL(Admission, {})>> [] OTHER -> <<>>

\* Mutant of DownEvidence: the rows are dropped with their tables.
DownEvidenceUnasked ==
  <<DDL({}, OtherColumns),
    DDL({"replay_episodes.original_not_null"}, {"replay_episodes.replay_mode"} \cup EpisodeClass),
    DDL({}, RunClass), DDL({}, Evidence)>>

DownEvidence ==
  <<Do("refuse"), DDL({}, OtherColumns),
    DDL({"replay_episodes.original_not_null"}, {"replay_episodes.replay_mode"} \cup EpisodeClass),
    DDL({}, RunClass), DDL({}, Evidence)>>

DownDurable == OnPostgres(<<DDL({}, {"rls"})>>) \o <<DDL({}, Durable)>>

DownSpans == <<[DDL({"span_records.uq_span_id"}, {"span_records.uq_tenant_span"}) EXCEPT !.do = "unique"]>>
DownAuth == <<DDL({}, TraceTables), DDL({}, RunTables), DDL({}, Tenancy)>>

Downgrades(r) ==
  CASE r = 1 -> DownAuth [] r = 2 -> DownDurable [] r = 3 -> <<DDL({}, Certificates)>>
    [] r = 6 -> <<DDL({}, ManifestColumns)>> [] r = 7 -> DownSpans
    [] r = 8 -> OnPostgres(<<DDL({}, {"jsonb"})>>)
    [] r = 9 -> <<DDL({}, Restored)>> [] r = 10 -> <<DDL({}, ReceiptLink)>>
    [] r = 11 -> DownEvidence [] r = 12 -> <<DDL({}, Admission)>> [] OTHER -> <<>>

HeadRevision == 12
-----------------------------------------------------------------------------
(* The models                                                              *)
TenancyModels == {"tenants", "users", "tenant_memberships", "idempotency_keys", "audit_events",
                  "component_versions", "agent_pipelines"}
RunModels == {"request_runs", "request_runs.evidence_class"}
TraceModels == {"trace_artifacts", "span_records", "span_records.uq_tenant_span",
                "span_records.provenance_json", "interventions"}
ReplayModels == {"replay_episodes", "replay_episodes.admission_receipt_id", "replay_episodes.evidence_class",
                 "replay_episodes.replay_mode"}
ManifestModels == {"replay_state_manifests", "replay_state_manifests.embedding",
                   "replay_state_manifests.original_query", "detector_thresholds", "symptom_registry"}
                  \cup ManifestColumns
StateModels == {"jobs", "approval_requests", "approval_decisions", "quarantine_rules", "recovery_states",
                "ledger_entries"}
CertificateModels == {"recovery_certificates", "recovery_certificate_summaries", "background_jobs"}
IngestionModels == {"corpus_versions", "index_versions", "documents", "chunks"}
OtherModels == {"manifests", "causal_graphs", "graph_edges", "bandit_states"}
AdmissionModels == {"admission_resource_pools", "admission_receipts", "admission_audit_events",
                    "admission_execution_attestations"}

\* _JSON_TYPE is JSONB on PostgreSQL only.
ModelItems ==
  TenancyModels \cup RunModels \cup TraceModels \cup ReplayModels \cup ManifestModels \cup StateModels \cup CertificateModels
    \cup IngestionModels \cup OtherModels \cup AdmissionModels
    \cup {x \in {"jsonb"} : dialect = "postgresql"}

\* A table comes with the items that belong to it.
ItemsOf(t) ==
  CASE t = "request_runs" -> {t, "request_runs.evidence_class"}
    [] t = "span_records" -> {t, "span_records.uq_tenant_span", "span_records.provenance_json"}
    [] t = "replay_episodes" -> ReplayModels
    [] t = "replay_state_manifests" -> {t, "replay_state_manifests.embedding",
                                        "replay_state_manifests.original_query"} \cup ManifestColumns
    [] OTHER -> {t}
Columns == ManifestColumns \cup EvidenceColumns \cup ClassColumns \cup ReceiptLink
             \cup {"span_records.uq_tenant_span", "jsonb"}
ModelTables == ModelItems \ Columns
-----------------------------------------------------------------------------
SyntheticClass == {"SYNTHETIC_SIMULATION", "TEST_FIXTURE"}
RealClass == {"PRODUCTION", "REAL_CONTROLLED_EXPERIMENT"}
NoRun == [origin |-> "none", legacy |-> TRUE, class |-> "none"]

SMInit ==
  /\ dialect \in {"postgresql", "sqlite"} /\ schema = {} /\ revision = 0 /\ command = "idle" /\ target = 0
  /\ stmt = 1 /\ begun = [schema |-> {}, revision |-> 0, run |-> NoRun, rows |-> "none"]
  /\ runRow = NoRun /\ evidenceRows = "none" /\ late = FALSE /\ clash = FALSE
  /\ broken = {} /\ createdAll = FALSE /\ commands = 0

Savepoint == [schema |-> schema, revision |-> revision, run |-> runRow, rows |-> evidenceRows]

\* alembic upgrade head, downgrade -1 and downgrade base.
BeginCommand ==
  /\ command = "idle" /\ commands < MaxCommands /\ commands' = commands + 1
  /\ \/ revision < HeadRevision /\ command' = "up" /\ target' = HeadRevision
     \/ revision > 0 /\ command' = "down" /\ target' \in {revision - 1, 0}
  /\ stmt' = 1 /\ begun' = Savepoint /\ late' = FALSE
  /\ UNCHANGED <<dialect, schema, revision, runRow, evidenceRows, clash, broken, createdAll>>

Migration == IF command = "up" THEN Upgrades(revision + 1) ELSE Downgrades(revision)
Statement == Migration[stmt]

\* The database refuses to create what exists, to drop what does not, to make
\* unique what is not; the downgrade of the evidence schema refuses to lose rows.
Applies(s) ==
  /\ s.add \cap schema = {} /\ s.drop \subseteq schema
  /\ s.do = "refuse" => evidenceRows # "kept"
  /\ s.do = "unique" => ~clash

\* What a statement does to the run: the new column has a server default, the
\* update reads is_synthetic; the column goes with its value.
RunAfter(s) ==
  IF s.do = "classify" /\ runRow.legacy THEN [runRow EXCEPT !.class = "SYNTHETIC_SIMULATION"]
  ELSE IF RunClass \subseteq s.add THEN [runRow EXCEPT !.class = "UNVERIFIED"]
  ELSE IF RunClass \subseteq s.drop THEN [runRow EXCEPT !.class = "none"]
  ELSE IF "request_runs" \in s.drop THEN NoRun ELSE runRow

RunStatement ==
  /\ command # "idle" /\ revision # target /\ stmt <= Len(Migration) /\ Applies(Statement)
  /\ schema' = (schema \ Statement.drop) \cup Statement.add
  /\ runRow' = RunAfter(Statement)
  /\ evidenceRows' = IF Evidence \subseteq Statement.drop /\ evidenceRows = "kept"
                       THEN (IF late THEN "overtaken" ELSE "lost") ELSE evidenceRows
  /\ clash' = (clash /\ "span_records" \notin Statement.drop)
  /\ stmt' = stmt + 1
  /\ UNCHANGED <<dialect, revision, command, target, begun, late, broken, createdAll, commands>>

\* The end of one migration; on SQLite it is a point to return to.
Stamp ==
  /\ command # "idle" /\ revision # target /\ stmt > Len(Migration)
  /\ revision' = (IF command = "up" THEN revision + 1 ELSE revision - 1) /\ stmt' = 1
  /\ begun' = IF dialect = "sqlite" THEN [Savepoint EXCEPT !.revision = revision'] ELSE begun
  /\ UNCHANGED <<dialect, schema, command, target, rowVars, broken, createdAll, commands>>

EndCommand ==
  /\ command # "idle" /\ revision = target /\ command' = "idle"
  /\ UNCHANGED <<dialect, schema, revision, target, stmt, begun, rowVars, broken, createdAll, commands>>

\* The transaction of a PostgreSQL command: the run is what it was before, and
\* evidence that others committed meanwhile stays.
Rollback ==
  /\ schema' = begun.schema /\ revision' = begun.revision
  /\ runRow' = begun.run
  /\ evidenceRows' = IF evidenceRows \in {"lost", "overtaken"} /\ begun.rows \in {"none", "kept"}
                       THEN "kept" ELSE evidenceRows
  /\ UNCHANGED <<clash, broken>>

\* A statement fails, or the process dies: SQLite keeps the statements that ran,
\* or those before the migration when they were in its transaction.
Interrupt ==
  \/ dialect = "postgresql" /\ Rollback
  \/ /\ dialect = "sqlite" /\ broken' = broken \cup {x \in {command} : stmt > 1}
     /\ UNCHANGED <<schema, revision, runRow, evidenceRows, clash>>
  \/ /\ dialect = "sqlite" /\ runRow = begun.run /\ evidenceRows = begun.rows
     /\ schema' = begun.schema /\ UNCHANGED <<revision, runRow, evidenceRows, clash, broken>>

FailCommand ==
  /\ command # "idle" /\ revision # target /\ stmt <= Len(Migration) /\ ~Applies(Statement)
  /\ command' = "idle" /\ Interrupt
  /\ UNCHANGED <<dialect, target, stmt, begun, late, createdAll, commands>>

CrashCommand ==
  /\ command # "idle" /\ command' = "idle" /\ Interrupt
  /\ UNCHANGED <<dialect, target, stmt, begun, late, createdAll, commands>>
-----------------------------------------------------------------------------
(* The application                                                         *)

\* What other connections see, and are not locked out of.
Visible == IF dialect = "postgresql" /\ command # "idle" THEN schema \cap begun.schema ELSE schema

\* The lifespan of a SQLite application: missing tables only.
CreateAll ==
  /\ dialect = "sqlite" /\ command = "idle" /\ ~(ModelTables \subseteq schema)
  /\ schema' = schema \cup UNION {ItemsOf(t) : t \in ModelTables \ schema}
  /\ createdAll' = TRUE
  /\ UNCHANGED <<dialect, revision, command, target, stmt, begun, rowVars, broken, commands>>

\* The models write the class and leave is_synthetic at its default, whichever the
\* class; the code before the column existed wrote is_synthetic.
WriteRun ==
  /\ runRow.origin = "none" /\ command = "idle" /\ "request_runs" \in schema
  /\ IF "request_runs.evidence_class" \in schema
       THEN \E c \in SyntheticClass \cup RealClass :
              runRow' = [origin |-> IF c \in SyntheticClass THEN "synthetic" ELSE "real",
                         legacy |-> TRUE, class |-> c]
       ELSE \E synthetic \in BOOLEAN :
              runRow' = [origin |-> IF synthetic THEN "synthetic" ELSE "real", legacy |-> synthetic,
                         class |-> "none"]
  /\ UNCHANGED <<dialect, schema, revision, command, target, stmt, begun, evidenceRows, late, clash, broken,
                 createdAll, commands>>

\* A job, a quarantine rule, a certificate summary, or an episode without an
\* original version; an operator may export it.
WriteEvidence ==
  /\ evidenceRows = "none" /\ Evidence \subseteq Visible /\ evidenceRows' = "kept"
  /\ late' = (late \/ (command = "down" /\ revision = 11 /\ stmt > 1))
  /\ UNCHANGED <<dialect, schema, revision, command, target, stmt, begun, runRow, clash, broken, createdAll,
                 commands>>

ExportEvidence ==
  /\ evidenceRows = "kept" /\ Evidence \subseteq Visible /\ evidenceRows' = "none"
  /\ UNCHANGED <<dialect, schema, revision, command, target, stmt, begun, runRow, late, clash, broken,
                 createdAll, commands>>

WriteSpans ==
  /\ ~clash /\ "span_records.uq_tenant_span" \in Visible /\ "span_records.uq_span_id" \notin Visible
  /\ clash' = TRUE
  /\ UNCHANGED <<dialect, schema, revision, command, target, stmt, begun, runRow, evidenceRows, late, broken,
                 createdAll, commands>>

SMNext ==
  \/ BeginCommand \/ RunStatement \/ Stamp \/ EndCommand \/ FailCommand \/ CrashCommand
  \/ CreateAll \/ WriteRun \/ WriteEvidence \/ ExportEvidence \/ WriteSpans
SMSpec == SMInit /\ [][SMNext]_smvars
-----------------------------------------------------------------------------
\* The schema that the upgrades alone lead to.
SchemaAt[r \in 0..HeadRevision] ==
  IF r = 0 THEN {}
  ELSE LET u == Upgrades(r) IN
       (SchemaAt[r - 1] \ UNION {u[i].drop : i \in DOMAIN u}) \cup UNION {u[i].add : i \in DOMAIN u}

\* At rest the schema is the one of the stamped revision, whatever upgrades,
\* downgrades, refusals and crashes led there: on PostgreSQL always, on SQLite
\* unless a command was cut within a migration or create_all ran.
SchemaIsRevision ==
  (command = "idle" /\ broken = {} /\ ~createdAll) => schema = SchemaAt[revision]

\* A database stamped with the head revision has exactly what the models declare
\* (the row level policies aside), even if create_all ran before or an upgrade
\* was cut and repeated; only a cut SQLite downgrade, which leaves the stamp and
\* drops tables, escapes.
HeadServesModels ==
  (command = "idle" /\ revision = HeadRevision /\ "down" \notin broken) => schema \ {"rls"} = ModelItems

\* No downgrade loses jobs, quarantine rules or certificate summaries silently,
\* unless they were written after the downgrade had counted them.
EvidenceIsNotDropped == command = "idle" => evidenceRows # "lost"

\* Through every round trip of migrations a run that was written as synthetic is
\* presented as synthetic, and so no run is presented as real that was not written as
\* real; as long as no SQLite command was cut within a migration, which may leave the
\* column unfilled. The other way round nothing is kept: the models leave is_synthetic
\* true (models.py:232), so a PRODUCTION run is a SYNTHETIC_SIMULATION after a downgrade
\* and an upgrade (8e7a2d4c6f90:91-94).
SyntheticStaysSynthetic ==
  (command = "idle" /\ broken = {} /\ runRow.class # "none") =>
    /\ runRow.origin = "synthetic" => runRow.class \in SyntheticClass
    /\ runRow.class \in RealClass => runRow.origin = "real"

\* The revisions of alembic/versions: whatever commands are run, refused, cut short
\* and repeated, schema, stamp and models fit, evidence rows are not dropped unasked,
\* and synthetic evidence does not become real; each part names what it excepts.
EvidenceSurvives ==
  SchemaIsRevision /\ HeadServesModels /\ EvidenceIsNotDropped /\ SyntheticStaysSynthetic
=============================================================================
