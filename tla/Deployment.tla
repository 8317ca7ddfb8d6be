----------------------------- MODULE Deployment -----------------------------
(***************************************************************************)
(* The account handlers over the schema that the migrations leave: the     *)
(* revisions of app/migration/versions, up and down, env.py, which runs    *)
(* them in one transaction, and run.sh, which starts the service after     *)
(* them whether they succeeded or not.                                     *)
(*                                                                         *)
(* Of the schema the model keeps what the revisions add and drop around    *)
(* existing rows: the columns of users that differ between them, and the   *)
(* enum types, which outlive the tables and columns that use them.  The    *)
(* values in a dropped column are not removed from the rows of Accounts:   *)
(* below the last revision nothing reads them.                             *)
(***************************************************************************)
EXTENDS Accounts

CONSTANT NoMigration

VARIABLES
    schema,      \* the committed schema, with the revision in alembic_version
    migration,   \* what the transaction of alembic upgrade sees, or NoMigration
    up           \* uvicorn runs

deployVars == <<schema, migration, up>>
allVars == <<accountVars, deployVars>>

\* The revisions ad60df1100dd, 011ecd79da3a and d97294d6ba68; 0 is none.
Head == 3

NameColumns == {"username", "first_name", "last_name"}

ColumnsAt(v) ==
    IF v = 0 THEN {}
    ELSE IF v = 1 THEN {"full_name"}
    ELSE IF v = 2 THEN NameColumns
    ELSE NameColumns \cup {"role"}

TypesAt(v) ==
    {t \in {"bookingstatus", "userstatus"} :
        v >= IF t = "bookingstatus" THEN 1 ELSE 3}

Schema == [version : 0..Head,
           columns : SUBSET ({"full_name", "role"} \cup NameColumns),
           types : SUBSET {"bookingstatus", "userstatus"}]

DeploymentTypeOK ==
    /\ AccountsTypeOK
    /\ schema \in Schema
    /\ migration \in Schema \cup {NoMigration}
    /\ up \in BOOLEAN

DeploymentInit ==
    /\ AccountsInit
    /\ schema = [version |-> 0, columns |-> {}, types |-> {}]
    /\ migration = NoMigration
    /\ up = FALSE

NoAccounts == DOMAIN users = {}

-----------------------------------------------------------------------------
(* The revisions, as what they make of a schema                            *)

\* ad60df1100dd.upgrade
CreateTables(s) == [version |-> 1, columns |-> {"full_name"},
                    types |-> s.types \cup {"bookingstatus"}]

\* ad60df1100dd.downgrade: the type stays.
DropTables(s) == [s EXCEPT !.version = 0, !.columns = {}]

\* 011ecd79da3a.upgrade
SplitName(s) == [s EXCEPT !.version = 2,
                          !.columns = (@ \ {"full_name"}) \cup NameColumns]

\* 011ecd79da3a.downgrade
JoinName(s) == [s EXCEPT !.version = 1,
                         !.columns = (@ \ NameColumns) \cup {"full_name"}]

\* d97294d6ba68.upgrade
AddRole(s) == [s EXCEPT !.version = 3,
                        !.columns = @ \cup {"role"},
                        !.types = @ \cup {"userstatus"}]

\* d97294d6ba68.downgrade: the type stays.
DropRole(s) == [s EXCEPT !.version = 2, !.columns = @ \ {"role"}]

\* Mutant of ColumnsFit: the new columns have a default.
ColumnsFitAlways == TRUE

\* A column that is NOT NULL and has no default is refused by a table with rows.
ColumnsFit == DOMAIN users = {}

\* Mutant of Applicable: the last revision creates the type of the first again.
ApplicableOnce(s) ==
    \/ s.version = 0 /\ "bookingstatus" \notin s.types
    \/ s.version = 1 /\ ColumnsFit
    \/ s.version = 2 /\ s.types = {} /\ ColumnsFit

\* Mutant of Applicable: types are created if missing, and columns have a default.
ApplicableAlways(s) == s.version < Head

\* The next revision can be applied to s: CREATE TYPE finds no such type, and
\* the columns it adds fit.
Applicable(s) ==
    \/ s.version = 0 /\ "bookingstatus" \notin s.types
    \/ s.version = 1 /\ ColumnsFit
    \/ s.version = 2 /\ "userstatus" \notin s.types /\ ColumnsFit

-----------------------------------------------------------------------------
(* run.sh: alembic upgrade head, then uvicorn                              *)

BeginUpgrade ==
    /\ ~up
    /\ migration = NoMigration
    /\ migration' = schema
    /\ UNCHANGED <<accountVars, schema, up>>

ApplyRevision ==
    /\ migration # NoMigration
    /\ Applicable(migration)
    /\ migration' = IF migration.version = 0 THEN CreateTables(migration)
                    ELSE IF migration.version = 1 THEN SplitName(migration)
                    ELSE AddRole(migration)
    /\ UNCHANGED <<accountVars, schema, up>>

Start == migration' = NoMigration /\ up' = TRUE

CommitUpgrade ==
    /\ migration # NoMigration
    /\ migration.version = Head
    /\ schema' = migration
    /\ Start
    /\ UNCHANGED accountVars

\* Mutant of Rollback: every statement commits by itself.
RollbackNothing == schema' = [migration EXCEPT !.version = schema.version]

\* do_run_migrations: the revisions are one transaction.
Rollback == UNCHANGED schema

\* A revision cannot be applied: "migrations failed, starting anyway".
AbortUpgrade ==
    /\ migration # NoMigration
    /\ migration.version < Head
    /\ ~Applicable(migration)
    /\ Rollback
    /\ Start
    /\ UNCHANGED accountVars

\* PostgreSQL cannot be reached, and the service is started likewise.
UpgradeFails ==
    /\ migration # NoMigration
    /\ FailElsewhere
    /\ Rollback
    /\ Start

\* The container ends during the upgrade.
UpgradeKilled ==
    /\ migration # NoMigration
    /\ migration' = NoMigration
    /\ UNCHANGED <<accountVars, schema, up>>

-----------------------------------------------------------------------------
(* An operator runs alembic downgrade -1, also under the running service   *)

\* Transactions that have read or written users hold a lock on it, for which
\* ALTER TABLE and DROP TABLE wait.
UsersLocked == \E r \in Requests : pc[r] \in {"insert", "commit", "issue"}

Downgrade ==
    /\ migration = NoMigration
    /\ ~UsersLocked
    /\ \/ schema.version = 3 /\ schema' = DropRole(schema) /\ UNCHANGED users
       \/ schema.version = 2 /\ ColumnsFit
                             /\ schema' = JoinName(schema) /\ UNCHANGED users
       \/ schema.version = 1 /\ schema' = DropTables(schema)
                             /\ users' = [b \in {} |-> None]
    /\ UNCHANGED <<tokens, clock, pc, req, answer, historyVars, faults, migration, up>>

-----------------------------------------------------------------------------
(* The service                                                             *)

\* Mutant of UsersReadable: the mapped class names no column of its own.
UsersReadableAlways == TRUE

\* Every SELECT and INSERT of the class User names all columns of the model.
UsersReadable == NameColumns \cup {"role"} \subseteq schema.columns

Serve(r) ==
    /\ up
    /\ \/ UsersReadable /\ Credentials(r)
       \/ Bearer(r)
       \/ (pc[r] = "check" => UsersReadable) /\ Continue(r)
       \/ ~UsersReadable /\ Unavailable(r)
       \/ Fail(r)
       \/ CommitUnacknowledged(r)
    /\ UNCHANGED deployVars

\* The process ends, between requests or under them.
Stop ==
    /\ up
    /\ \/ Crash
       \/ (\A r \in Requests : pc[r] \notin InFlight) /\ UNCHANGED accountVars
    /\ up' = FALSE
    /\ UNCHANGED <<schema, migration>>

\* The operator's UPDATEs, and time.
Outside ==
    /\ \/ \E b \in DOMAIN users :
              Deactivate(b) \/ ("role" \in schema.columns /\ Promote(b))
       \/ Tick
    /\ UNCHANGED deployVars

DeploymentNext ==
    \/ \E r \in Requests : Serve(r)
    \/ Stop
    \/ Outside
    \/ BeginUpgrade
    \/ ApplyRevision
    \/ CommitUpgrade
    \/ AbortUpgrade
    \/ UpgradeFails
    \/ UpgradeKilled
    \/ Downgrade

DeploymentSpec == DeploymentInit /\ [][DeploymentNext]_allVars

-----------------------------------------------------------------------------
(* Properties                                                              *)

\* However upgrades fail or are killed half way, the committed tables are
\* those of the revision that alembic_version names, with at least its types.
SchemaIsRevision ==
    /\ schema.columns = ColumnsAt(schema.version)
    /\ TypesAt(schema.version) \subseteq schema.types

\* Some revision from that of s to the last cannot be applied, now or later:
\* nothing deletes a type or an account.
Blocked(s) ==
    /\ s.version < Head
    /\ \/ "userstatus" \in s.types
       \/ s.version = 0 /\ "bookingstatus" \in s.types
       \/ DOMAIN users # {}

\* Without failures, the service runs over an old schema only behind an
\* obstacle to the upgrade that no restart removes.
OldSchemaExplained ==
    up /\ schema.version < Head => Blocked(schema) \/ faults > 0

\* Whatever is migrated, killed or restarted, the service is the one of
\* Accounts: no upgrade or downgrade changes or removes an account, and a
\* handler sees of them no more than errors.
ServiceKeepsAccounts == AccountsSpec

\* No handler registers or logs in over a schema other than the one it began
\* with: a downgrade under the running service waits for it, and every later
\* one is refused.
HandlersKeepSchema ==
    \A r \in Requests :
        pc[r] \in {"insert", "commit", "issue"} => schema.version = Head

\* No migration makes up values for the accounts that exist: while there are
\* any, the schema never advances.
NothingInvented ==
    [][DOMAIN users # {} => schema'.version <= schema.version]_allVars

-----------------------------------------------------------------------------
(* The inductive invariant behind them, next to that of Accounts           *)

\* What a running upgrade sees is a revision, at or above the committed one,
\* and the committed one itself as long as nothing could be applied.
MigrationShape ==
    migration # NoMigration =>
        /\ ~up
        /\ migration.columns = ColumnsAt(migration.version)
        /\ TypesAt(migration.version) \subseteq migration.types
        /\ schema.version <= migration.version
        /\ migration.version < Head /\ "userstatus" \in migration.types =>
               "userstatus" \in schema.types
        /\ migration.version = 0 \/ DOMAIN users # {} => migration = schema

DeploymentInv ==
    /\ AccountsInv
    /\ DeploymentTypeOK
    /\ SchemaIsRevision
    /\ MigrationShape
    /\ \A r \in Requests : pc[r] \in InFlight => up
    /\ schema.version <= 1 => DOMAIN users = {}
    /\ OldSchemaExplained
    /\ HandlersKeepSchema
=============================================================================
