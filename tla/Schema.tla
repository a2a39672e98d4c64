------------------------------- MODULE Schema -------------------------------
(***************************************************************************)
(* The database schema: the four Alembic revisions, upgraded to head in    *)
(* one transaction or downgraded one by one, the columns and the table     *)
(* that only the seed script adds, and what the ORM models need and        *)
(* neither provides.                                                       *)
(*                                                                         *)
(* An object is <<kind, table, name>>; dropping a table drops its objects. *)
(***************************************************************************)
EXTENDS Integers, Sequences, SequencesExt

VARIABLES
    revision, \* alembic_version: 0 is an empty database
    objects   \* tables, columns added to them, and indexes

schema == <<revision, objects>>

Table(t) == <<"table", t, t>>
Column(t, c) == <<"column", t, c>>
Index(t, i) == <<"index", t, i>>
HasTable(t, O) == Table(t) \in O

Initially ==
    /\ revision = 0
    /\ objects = {}

-----------------------------------------------------------------------------
(* The operations of a revision, in order.  A lenient one has IF (NOT)     *)
(* EXISTS; refs are the tables of the foreign keys.                        *)

CreateTable(t, refs) ==
    [do |-> "create", object |-> Table(t), refs |-> refs, lenient |-> FALSE]
CreateIndex(t, i) ==
    [do |-> "create", object |-> Index(t, i), refs |-> {t}, lenient |-> FALSE]
EnsureIndex(t, i) == [CreateIndex(t, i) EXCEPT !.lenient = TRUE]
DropTable(t) == [CreateTable(t, {}) EXCEPT !.do = "drop"]
DropIndex(t, i) == [CreateIndex(t, i) EXCEPT !.do = "drop"]
DropIndexIfExists(t, i) == [EnsureIndex(t, i) EXCEPT !.do = "drop"]

IdentityTables ==
    << CreateTable("roles", {}),
       CreateTable("users", {"roles"}),
       CreateTable("user_sessions", {"users"}) >>

ContentTables ==
    << CreateTable("data_sources", {"users"}),
       CreateTable("ingestion_jobs", {"data_sources"}),
       CreateTable("audit_logs", {"users"}) >>

InitialIndexes ==
    << CreateIndex("users", "idx_users_email"),
       CreateIndex("users", "idx_users_role"),
       CreateIndex("user_sessions", "idx_sessions_token"),
       CreateIndex("user_sessions", "idx_sessions_expires"),
       CreateIndex("audit_logs", "idx_audit_user"),
       CreateIndex("audit_logs", "idx_audit_action"),
       CreateIndex("ingestion_jobs", "idx_ingestion_source") >>

\* A mutant: the tables go in the order in which they came.
InitialDowngradeForwards ==
    << DropIndex("users", "idx_users_role"), DropIndex("users", "idx_users_email"),
       DropTable("roles"), DropTable("users"), DropTable("user_sessions"),
       DropTable("data_sources"), DropTable("ingestion_jobs"), DropTable("audit_logs") >>

InitialDowngrade ==
    << DropIndexIfExists("ingestion_jobs", "idx_ingestion_source"),
       DropIndexIfExists("audit_logs", "idx_audit_action"),
       DropIndexIfExists("audit_logs", "idx_audit_user"),
       DropIndex("user_sessions", "idx_sessions_expires"),
       DropIndex("user_sessions", "idx_sessions_token"),
       DropIndex("users", "idx_users_role"),
       DropIndex("users", "idx_users_email"),
       DropTable("audit_logs"), DropTable("ingestion_jobs"), DropTable("data_sources"),
       DropTable("user_sessions"), DropTable("users"), DropTable("roles") >>

\* permission_tags is there from the first revision on: 002 adds an index.
RbacIndex == << EnsureIndex("roles", "idx_roles_permission_tags") >>
RbacDowngrade == << DropIndexIfExists("roles", "idx_roles_permission_tags") >>

AuditIndex == << EnsureIndex("audit_logs", "idx_audit_query_hash") >>
AuditDowngrade == << DropIndexIfExists("audit_logs", "idx_audit_query_hash") >>

ConversationTables ==
    << CreateTable("conversations", {}),
       CreateIndex("conversations", "ix_conversations_user_id"),
       CreateTable("conversation_messages", {"conversations"}),
       CreateIndex("conversation_messages", "ix_conversation_messages_conversation_id") >>

ConversationDowngrade ==
    << DropIndex("conversation_messages", "ix_conversation_messages_conversation_id"),
       DropTable("conversation_messages"),
       DropIndex("conversations", "ix_conversations_user_id"),
       DropTable("conversations") >>

Upgrades ==
    << IdentityTables \o ContentTables \o InitialIndexes,
       RbacIndex, AuditIndex, ConversationTables >>
Downgrades ==
    << InitialDowngrade, RbacDowngrade, AuditDowngrade, ConversationDowngrade >>
Latest == Len(Upgrades)

\* The foreign keys between the tables: <<referring, referred>>.
KeysOf(op) == IF op.object[1] = "table" THEN {<<op.object[2], t>> : t \in op.refs} ELSE {}
ForeignKeys == UNION {UNION {KeysOf(op) : op \in ToSet(Upgrades[r])} : r \in 1..Latest}

Applies(op, O) ==
    IF op.do = "create"
    THEN /\ op.lenient \/ op.object \notin O
         /\ \A t \in op.refs : HasTable(t, O)
    ELSE /\ op.lenient \/ op.object \in O
         /\ op.object[1] = "table" => ~ \E fk \in ForeignKeys :
                fk[2] = op.object[2] /\ fk[1] # fk[2] /\ HasTable(fk[1], O)

Removes(op, o) ==
    op.do = "drop" /\ (o = op.object \/ (op.object[1] = "table" /\ o[2] = op.object[2]))

Effect(op, O) ==
    IF op.do = "create" THEN O \cup {op.object} ELSE {o \in O : ~Removes(op, o)}

\* The objects before a sequence of operations and after each of them.
Stages(ops, O) ==
    LET S[n \in 0..Len(ops)] == IF n = 0 THEN O ELSE Effect(ops[n], S[n - 1]) IN S

\* What the operations make of O: one outcome, or none if it aborts.
Migrated(ops, O) ==
    LET S == Stages(ops, O) IN
    IF \A n \in 1..Len(ops) : Applies(ops[n], S[n - 1]) THEN {S[Len(ops)]} ELSE {}

\* alembic upgrade head: env.py runs what is missing in one transaction.
Missing(r) == IF revision < r THEN Upgrades[r] ELSE << >>
PendingOps == Missing(1) \o Missing(2) \o Missing(3) \o Missing(4)
Upgrade ==
    /\ objects' \in Migrated(PendingOps, objects)
    /\ revision' = Latest

\* alembic downgrade -1
Downgrade ==
    /\ revision > 0
    /\ objects' \in Migrated(Downgrades[revision], objects)
    /\ revision' = revision - 1

-----------------------------------------------------------------------------
(* Beyond the revisions *)

\* What the seed script adds in its first steps, each one a transaction.
Ensured ==
    << {Column("audit_logs", "updated_at")},
       {Column("user_sessions", "is_active")},
       {Column("ingestion_jobs", c) : c \in {"chunks_processed", "error_message", "updated_at"}},
       {Column("data_sources", c) : c \in {"is_deleted", "deleted_at"}},
       {Table("document_chunks")} >>

Ensure(k) ==
    /\ \A o \in Ensured[k] : o = Table("document_chunks") \/ HasTable(o[2], objects)
    /\ objects' = objects \cup Ensured[k]
    /\ UNCHANGED revision

\* Columns of the models that no revision and no script adds.
RoleColumns == {Column("roles", c) : c \in {"permissions", "updated_at"}}
UserColumns ==
    {Column("users", c) : c \in {"password_hash", "first_name", "last_name",
                                 "is_deleted", "deleted_at"}}
SessionColumns == {Column("user_sessions", c) : c \in {"refresh_token", "updated_at"}}
\* Columns that refuse what the models write: of another type, or NOT NULL and
\* unknown to the model.
Misfits ==
    {<<"fits", "data_sources", "created_by">>,
     <<"fits", "data_sources", "default_permission_tags">>,
     <<"fits", "audit_logs", "user_id">>, <<"fits", "users", "display_name">>}
ByHand == RoleColumns \cup UserColumns \cup SessionColumns \cup Misfits

\* Someone adds and adapts them, as every running installation needs.
AlterByHand ==
    /\ \A o \in ByHand : HasTable(o[2], objects)
    /\ objects' = objects \cup ByHand
    /\ UNCHANGED revision

Has(O) == O \subseteq objects
=============================================================================
