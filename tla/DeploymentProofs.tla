--------------------------- MODULE DeploymentProofs ---------------------------
(* Theorems about Deployment, for every set of requests, e-mails and          *)
(* passwords and every number of failures: the migrations around the account  *)
(* handlers leave them what they are in Accounts.                             *)
EXTENDS Deployment, AccountsProofs

(***************************************************************************)
(* With the revision that a schema has, one knows its columns.             *)
(***************************************************************************)
LEMMA ReadableAtHead ==
    ASSUME DeploymentTypeOK, SchemaIsRevision, UsersReadable
    PROVE  schema.version = Head
<1>1. schema.version \in 0..3
  BY DEF DeploymentTypeOK, Schema, Head
<1>2. "role" \in ColumnsAt(schema.version)
  BY DEF UsersReadable, SchemaIsRevision
<1>3. QED
  BY <1>1, <1>2 DEF ColumnsAt, NameColumns, Head

\* The revisions that the chain of migrations knows.
LEMMA Revisions ==
    /\ ColumnsAt(0) = {} /\ TypesAt(0) = {}
    /\ ColumnsAt(1) = {"full_name"} /\ TypesAt(1) = {"bookingstatus"}
    /\ ColumnsAt(2) = NameColumns /\ TypesAt(2) = {"bookingstatus"}
    /\ ColumnsAt(3) = NameColumns \cup {"role"} /\ TypesAt(3) = {"bookingstatus", "userstatus"}
<1>1. TypesAt(0) = {} /\ TypesAt(1) = {"bookingstatus"}
  BY DEF TypesAt
<1>2. TypesAt(2) = {"bookingstatus"} /\ TypesAt(3) = {"bookingstatus", "userstatus"}
  BY DEF TypesAt
<1>3. QED
  BY <1>1, <1>2 DEF ColumnsAt

\* Before the first upgrade the invariant holds.
LEMMA DeploymentInitInvariant == DeploymentInit => DeploymentInv
<1> SUFFICES ASSUME DeploymentInit PROVE DeploymentInv
  OBVIOUS
<1> USE DEF DeploymentInit
<1>1. AccountsInv
  BY InitInvariant
<1>2. DeploymentTypeOK
  <2>1. schema \in Schema
    BY DEF Schema, Head
  <2>2. QED
    BY <1>1, <2>1 DEF AccountsInv, DeploymentTypeOK
<1>3. SchemaIsRevision
  <2>1. schema.version = 0 /\ schema.columns = {}
    OBVIOUS
  <2>2. ColumnsAt(0) = {} /\ TypesAt(0) = {}
    BY DEF ColumnsAt, TypesAt
  <2>3. QED
    BY <2>1, <2>2 DEF SchemaIsRevision
<1>4. MigrationShape /\ OldSchemaExplained
  BY DEF MigrationShape, OldSchemaExplained
<1>5. /\ \A r \in Requests : pc[r] \notin InFlight
      /\ DOMAIN users = {}
      /\ HandlersKeepSchema
  BY DEF AccountsInit, InFlight, HandlersKeepSchema
<1>6. QED
  BY <1>1, <1>2, <1>3, <1>4, <1>5 DEF DeploymentInv

(***************************************************************************)
(* What the steps of a deployment are for the accounts: a step of Accounts *)
(* or nothing.  DROP TABLE finds no account in the table.                  *)
(***************************************************************************)
LEMMA DeploymentStepIsAccountsStep ==
    ASSUME DeploymentInv, [DeploymentNext]_allVars
    PROVE  [AccountsNext]_accountVars
<1>1. ASSUME NEW r \in Requests, Serve(r) PROVE AccountsNext
  BY <1>1 DEF Serve, AccountsNext
<1>2. CASE Stop
  BY <1>2 DEF Stop, AccountsNext
<1>3. CASE Outside
  BY <1>3 DEF Outside, AccountsNext, Operator
<1>4. CASE UpgradeFails
  BY <1>4 DEF UpgradeFails, AccountsNext
<1>5. CASE BeginUpgrade \/ ApplyRevision \/ CommitUpgrade \/ AbortUpgrade \/ UpgradeKilled
  BY <1>5 DEF BeginUpgrade, ApplyRevision, CommitUpgrade, AbortUpgrade, UpgradeKilled
<1>6. CASE Downgrade
  <2>1. users' = users
    <3>1. CASE schema.version = 1 /\ users' = [b \in {} |-> None]
      <4>1. DOMAIN users = {} /\ users \in [DOMAIN users -> User]
        BY <3>1 DEF DeploymentInv, DeploymentTypeOK, AccountsTypeOK
      <4>2. QED
        BY <3>1, <4>1
    <3>2. QED
      BY <1>6, <3>1 DEF Downgrade
  <2>2. QED
    BY <1>6, <2>1 DEF Downgrade, accountVars, historyVars
<1>7. CASE UNCHANGED allVars
  BY <1>7 DEF allVars
<1>8. QED
  BY <1>1, <1>2, <1>3, <1>4, <1>5, <1>6, <1>7 DEF DeploymentNext

(***************************************************************************)
(* The accounts change under a served request, which the last revision     *)
(* alone can serve, and keep their ids otherwise.                          *)
(***************************************************************************)
LEMMA ServeEffect ==
    ASSUME DeploymentInv, NEW r \in Requests, Serve(r)
    PROVE  /\ DOMAIN users' # DOMAIN users => schema.version = Head
           /\ \A x \in Requests : pc'[x] \in {"insert", "commit", "issue"} =>
                  schema.version = Head
           /\ DOMAIN users \subseteq DOMAIN users'
           /\ faults' >= faults
           /\ up /\ UNCHANGED deployVars
<1>1. /\ AccountsTypeOK /\ DeploymentTypeOK /\ SchemaIsRevision
      /\ \A x \in Requests : pc[x] \in {"insert", "commit", "issue"} =>
             schema.version = Head
  BY DEF DeploymentInv, DeploymentTypeOK, HandlersKeepSchema
<1>2. faults \in Nat /\ up /\ UNCHANGED deployVars
  BY <1>1, AccountsAssumption DEF AccountsTypeOK, Serve
<1>3. CASE UsersReadable /\ Credentials(r)
  <2>1. schema.version = Head
    BY <1>1, <1>3, ReadableAtHead
  <2>2. UNCHANGED <<users, faults>>
    BY <1>3 DEF Credentials, Register, Login, tableVars
  <2>3. QED
    BY <1>2, <2>1, <2>2
<1>4. CASE Bearer(r)
  <2>1. UNCHANGED <<users, faults>>
    BY <1>4 DEF Bearer, Use, Administer, tableVars
  <2>2. \A x \in Requests : pc'[x] = pc[x] \/ pc'[x] \in {"done", "check"}
    BY <1>1, <1>4 DEF Bearer, Use, Administer, Answer, Goto, Grant, AccountsTypeOK
  <2>3. QED
    BY <1>1, <1>2, <2>1, <2>2
<1>5. CASE Insert(r)
  <2>1. schema.version = Head
    BY <1>1, <1>5 DEF Insert
  <2>2. QED
    BY <1>2, <1>5, <2>1 DEF Insert, tableVars
<1>6. CASE Commit(r) \/ CommitUnacknowledged(r)
  <2>1. schema.version = Head
    BY <1>1, <1>6 DEF Commit, CommitUnacknowledged
  <2>2. faults' >= faults
    BY <1>2, <1>6 DEF Commit, CommitUnacknowledged, Fault
  <2>3. DOMAIN users' = DOMAIN users \cup {r}
    BY <1>6 DEF Commit, CommitUnacknowledged, Store
  <2>4. QED
    BY <1>2, <2>1, <2>2, <2>3
<1>7. CASE Reply(r) \/ Issue(r) \/ CheckAdmin(r) \/ Unavailable(r) \/ Fail(r)
  <2>1. DOMAIN users' = DOMAIN users /\ faults' >= faults
    BY <1>2, <1>7 DEF Reply, Issue, CheckAdmin, Unavailable, Fail, Fault, tableVars
  <2>2. \A x \in Requests : pc'[x] = pc[x] \/ pc'[x] = "done"
    BY <1>1, <1>7 DEF Reply, Issue, CheckAdmin, Unavailable, Fail, Answer, Grant,
                      AccountsTypeOK
  <2>3. QED
    BY <1>1, <1>2, <2>1, <2>2
<1>8. QED
  BY <1>3, <1>4, <1>5, <1>6, <1>7 DEF Serve, Continue

(***************************************************************************)
(* What the revisions do, up and down.                                     *)
(***************************************************************************)
LEMMA RevisionUp ==
    ASSUME NEW s \in Schema, s.version < Head,
           s.columns = ColumnsAt(s.version), TypesAt(s.version) \subseteq s.types,
           NEW u, u = IF s.version = 0 THEN CreateTables(s)
                      ELSE IF s.version = 1 THEN SplitName(s)
                      ELSE AddRole(s)
    PROVE  /\ u \in Schema
           /\ u.version = s.version + 1
           /\ u.columns = ColumnsAt(u.version) /\ TypesAt(u.version) \subseteq u.types
           /\ u.version < Head => ("userstatus" \in u.types <=> "userstatus" \in s.types)
<1> USE DEF Schema, Head
<1>1. CASE s.version = 0
  BY <1>1, Revisions DEF CreateTables
<1>2. CASE s.version = 1
  <2>1. /\ u.version = 2 /\ u.types = s.types
        /\ u.columns = ({"full_name"} \ {"full_name"}) \cup NameColumns
    BY <1>2, Revisions DEF SplitName
  <2>2. u.columns = NameColumns
    BY <2>1
  <2>3. "bookingstatus" \in s.types
    BY <1>2, Revisions
  <2>4. u \in Schema
    <3>1. s = [version |-> s.version, columns |-> s.columns, types |-> s.types]
      OBVIOUS
    <3>2. u = [version |-> 2, columns |-> NameColumns, types |-> s.types]
      BY <1>2, <2>2, <3>1, Revisions DEF SplitName
    <3>3. QED
      BY <3>2 DEF NameColumns
  <2>5. QED
    BY <1>2, <2>1, <2>2, <2>3, <2>4, Revisions
<1>3. CASE s.version = 2
  <2>1. /\ u.version = 3 /\ u.types = s.types \cup {"userstatus"}
        /\ u.columns = NameColumns \cup {"role"}
    BY <1>3, Revisions DEF AddRole
  <2>2. "bookingstatus" \in s.types
    BY <1>3, Revisions
  <2>3. u \in Schema
    <3>1. s = [version |-> s.version, columns |-> s.columns, types |-> s.types]
      OBVIOUS
    <3>2. u = AddRole(s) /\ s.columns = NameColumns
      BY <1>3, Revisions
    <3>3. u = [version |-> 3, columns |-> s.columns \cup {"role"},
               types |-> s.types \cup {"userstatus"}]
      BY <3>1, <3>2 DEF AddRole
    <3>4. s.columns \cup {"role"} \in SUBSET ({"full_name", "role"} \cup NameColumns)
      BY <3>2
    <3>5. s.types \cup {"userstatus"} \in SUBSET {"bookingstatus", "userstatus"}
      OBVIOUS
    <3>6. QED
      BY <3>3, <3>4, <3>5
  <2>4. QED
    BY <1>3, <2>1, <2>2, <2>3, Revisions
<1>4. QED
  BY <1>1, <1>2, <1>3

\* One revision is downgraded.
LEMMA RevisionDown ==
    ASSUME NEW s \in Schema,
           s.columns = ColumnsAt(s.version), TypesAt(s.version) \subseteq s.types,
           NEW u,
           \/ s.version = 3 /\ u = DropRole(s)
           \/ s.version = 2 /\ u = JoinName(s)
           \/ s.version = 1 /\ u = DropTables(s)
    PROVE  /\ u \in Schema
           /\ u.version = s.version - 1 /\ u.version < Head
           /\ u.types = s.types
           /\ u.columns = ColumnsAt(u.version) /\ TypesAt(u.version) \subseteq u.types
           /\ s.version = 3 => "userstatus" \in u.types
           /\ s.version = 1 => "bookingstatus" \in u.types
<1> USE DEF Schema, Head
<1>1. CASE s.version = 3 /\ u = DropRole(s)
  <2>1. /\ u.version = 2 /\ u.types = s.types
        /\ u.columns = (NameColumns \cup {"role"}) \ {"role"}
    BY <1>1, Revisions DEF DropRole
  <2>2. u.columns = NameColumns
    BY <2>1 DEF NameColumns
  <2>3. "bookingstatus" \in s.types /\ "userstatus" \in s.types
    BY <1>1, Revisions
  <2>4. u \in Schema
    <3>1. s = [version |-> s.version, columns |-> s.columns, types |-> s.types]
      OBVIOUS
    <3>2. u = [version |-> 2, columns |-> NameColumns, types |-> s.types]
      BY <3>1, <1>1, <2>1, <2>2 DEF DropRole
    <3>3. QED
      BY <3>2 DEF NameColumns
  <2>5. QED
    BY <1>1, <2>1, <2>2, <2>3, <2>4, Revisions
<1>2. CASE s.version = 2 /\ u = JoinName(s)
  <2>1. /\ u.version = 1 /\ u.types = s.types
        /\ u.columns = (NameColumns \ NameColumns) \cup {"full_name"}
    BY <1>2, Revisions DEF JoinName
  <2>2. u.columns = {"full_name"}
    BY <2>1
  <2>3. "bookingstatus" \in s.types
    BY <1>2, Revisions
  <2>4. u \in Schema
    <3>1. s = [version |-> s.version, columns |-> s.columns, types |-> s.types]
      OBVIOUS
    <3>2. u = [version |-> 1, columns |-> {"full_name"}, types |-> s.types]
      BY <3>1, <1>2, <2>1, <2>2 DEF JoinName
    <3>3. QED
      BY <3>2 DEF NameColumns
  <2>5. QED
    BY <1>2, <2>1, <2>2, <2>3, <2>4, Revisions
<1>3. CASE s.version = 1 /\ u = DropTables(s)
  <2>1. u.version = 0 /\ u.types = s.types /\ u.columns = {}
    BY <1>3 DEF DropTables
  <2>2. "bookingstatus" \in s.types
    BY <1>3, Revisions
  <2>3. u \in Schema
    <3>1. s = [version |-> s.version, columns |-> s.columns, types |-> s.types]
      OBVIOUS
    <3>2. u = [version |-> 0, columns |-> {}, types |-> s.types]
      BY <3>1, <1>3, <2>1 DEF DropTables
    <3>3. QED
      BY <3>2 DEF NameColumns
  <2>4. QED
    BY <1>3, <2>1, <2>2, <2>3, Revisions
<1>4. QED
  BY <1>1, <1>2, <1>3

(***************************************************************************)
(* The service runs or ends, and the schema stays.                         *)
(***************************************************************************)
LEMMA RunningInvariant ==
    ASSUME DeploymentInv, AccountsInv',
           UNCHANGED <<schema, migration>>,
           DOMAIN users \subseteq DOMAIN users',
           DOMAIN users' # DOMAIN users => schema.version = Head /\ up,
           faults' >= faults,
           up' \in BOOLEAN, up' => up,
           \A x \in Requests : pc'[x] \in InFlight => up',
           \A x \in Requests : pc'[x] \in {"insert", "commit", "issue"} =>
               schema.version = Head
    PROVE  DeploymentInv'
<1>1. /\ DeploymentTypeOK /\ SchemaIsRevision /\ MigrationShape
      /\ schema.version <= 1 => DOMAIN users = {}
      /\ OldSchemaExplained
      /\ AccountsTypeOK' /\ faults \in Nat /\ faults' \in Nat
  BY AccountsAssumption DEF DeploymentInv, DeploymentTypeOK, AccountsInv, AccountsTypeOK
<1>2. DeploymentTypeOK' /\ SchemaIsRevision'
  BY <1>1 DEF DeploymentTypeOK, SchemaIsRevision
<1>3. MigrationShape'
  BY <1>1 DEF MigrationShape
<1>4. schema'.version <= 1 => DOMAIN users' = {}
  BY <1>1 DEF Head
<1>5. OldSchemaExplained'
  BY <1>1 DEF OldSchemaExplained, Blocked
<1>6. HandlersKeepSchema'
  BY DEF HandlersKeepSchema
<1>7. QED
  BY <1>2, <1>3, <1>4, <1>5, <1>6 DEF DeploymentInv

\* The steps that leave the schema alone.
LEMMA ServiceInvariant ==
    ASSUME DeploymentInv, AccountsInv',
           Stop \/ Outside \/ UNCHANGED allVars \/ \E r \in Requests : Serve(r)
    PROVE  DeploymentInv'
<1>1. /\ up \in BOOLEAN /\ faults \in Nat
      /\ \A x \in Requests : pc[x] \in InFlight => up
      /\ \A x \in Requests : pc[x] \in {"insert", "commit", "issue"} =>
             schema.version = Head
  BY AccountsAssumption DEF DeploymentInv, DeploymentTypeOK, AccountsTypeOK, HandlersKeepSchema
<1>2. ASSUME NEW r \in Requests, Serve(r)
      PROVE  DeploymentInv'
  BY <1>1, <1>2, ServeEffect, RunningInvariant DEF deployVars
<1>3. CASE Stop
  <2>1. /\ UNCHANGED <<schema, migration, users>> /\ faults' >= faults /\ up' = FALSE
        /\ \A x \in Requests : pc'[x] \notin InFlight
    BY <1>1, <1>3 DEF Stop, Crash, Fault, tableVars, accountVars, InFlight
  <2>2. QED
    BY <1>3, <2>1, RunningInvariant DEF InFlight, Stop
<1>4. CASE Outside
  <2>1. UNCHANGED <<schema, migration, up, pc, faults>>
    BY <1>4 DEF Outside, Deactivate, Promote, Tick, deployVars, historyVars
  <2>2. DOMAIN users' = DOMAIN users
    BY <1>4 DEF Outside, Deactivate, Promote, Tick, tableVars
  <2>3. QED
    BY <1>1, <2>1, <2>2, RunningInvariant
<1>5. CASE UNCHANGED allVars
  BY <1>1, <1>5, RunningInvariant DEF allVars, accountVars, deployVars
<1>6. QED
  BY <1>2, <1>3, <1>4, <1>5

(***************************************************************************)
(* The upgrade sees its own revisions, and commits all of them or none.    *)
(***************************************************************************)
LEMMA UpgradeInvariant ==
    ASSUME DeploymentInv, AccountsInv',
           BeginUpgrade \/ ApplyRevision \/ UpgradeKilled
    PROVE  DeploymentInv'
<1>1. /\ DeploymentTypeOK /\ SchemaIsRevision /\ MigrationShape
      /\ schema.version <= 1 => DOMAIN users = {}
      /\ OldSchemaExplained /\ HandlersKeepSchema
      /\ \A x \in Requests : pc[x] \in InFlight => up
  BY DEF DeploymentInv
<1>2. UNCHANGED <<users, pc, faults, schema, up>>
  BY DEF BeginUpgrade, ApplyRevision, UpgradeKilled, accountVars
<1>3. /\ SchemaIsRevision' /\ OldSchemaExplained' /\ HandlersKeepSchema'
      /\ schema'.version <= 1 => DOMAIN users' = {}
      /\ \A x \in Requests : pc'[x] \in InFlight => up'
      /\ schema.version \in 0..3
  BY <1>1, <1>2 DEF SchemaIsRevision, OldSchemaExplained, Blocked, HandlersKeepSchema,
                    DeploymentTypeOK, Schema, Head
<1>4. migration' \in Schema \cup {NoMigration} /\ MigrationShape'
  <2>1. CASE BeginUpgrade
    BY <1>1, <1>3, <2>1 DEF BeginUpgrade, DeploymentTypeOK, MigrationShape, SchemaIsRevision
  <2>2. CASE ApplyRevision
    <3>1. /\ migration \in Schema /\ ~up
          /\ migration.columns = ColumnsAt(migration.version)
          /\ TypesAt(migration.version) \subseteq migration.types
          /\ schema.version <= migration.version
          /\ migration.version < Head /\ "userstatus" \in migration.types =>
                 "userstatus" \in schema.types
          /\ migration.version = 0 \/ DOMAIN users # {} => migration = schema
      BY <1>1, <2>2 DEF ApplyRevision, MigrationShape, DeploymentTypeOK
    <3>2. migration.version \in 0..3 /\ migration.version < Head
      BY <2>2, <3>1 DEF ApplyRevision, Applicable, Schema, Head
    <3>3. /\ migration' \in Schema
          /\ migration'.version = migration.version + 1
          /\ migration'.columns = ColumnsAt(migration'.version)
          /\ TypesAt(migration'.version) \subseteq migration'.types
          /\ migration'.version < Head =>
                 ("userstatus" \in migration'.types <=> "userstatus" \in migration.types)
      BY <2>2, <3>1, <3>2, RevisionUp DEF ApplyRevision
    <3>4. DOMAIN users = {}
      <4>1. CASE migration.version = 0
        BY <1>1, <3>1, <4>1
      <4>2. CASE migration.version # 0
        BY <2>2, <4>2 DEF ApplyRevision, Applicable, ColumnsFit
      <4>3. QED
        BY <4>1, <4>2
    <3>5. MigrationShape'
      BY <1>2, <1>3, <3>1, <3>2, <3>3, <3>4 DEF MigrationShape, Head
    <3>6. QED
      BY <3>3, <3>5
  <2>3. CASE UpgradeKilled
    BY <2>3 DEF UpgradeKilled, MigrationShape
  <2>4. QED
    BY <2>1, <2>2, <2>3
<1>5. DeploymentTypeOK'
  BY <1>1, <1>2, <1>4 DEF DeploymentTypeOK, AccountsInv
<1>6. QED
  BY <1>3, <1>4, <1>5 DEF DeploymentInv

\* run.sh starts the service, whether or not the upgrade succeeded.
LEMMA StartInvariant ==
    ASSUME DeploymentInv, AccountsInv',
           CommitUpgrade \/ AbortUpgrade \/ UpgradeFails
    PROVE  DeploymentInv'
<1>1. /\ DeploymentTypeOK /\ SchemaIsRevision /\ MigrationShape
      /\ schema.version <= 1 => DOMAIN users = {}
      /\ \A x \in Requests : pc[x] \in InFlight => up
      /\ faults \in Nat
  BY AccountsAssumption DEF DeploymentInv, DeploymentTypeOK, AccountsTypeOK
<1>2. /\ migration # NoMigration /\ migration \in Schema
      /\ migration' = NoMigration /\ up' = TRUE
      /\ UNCHANGED <<users, pc>> /\ faults' >= faults
  BY <1>1 DEF CommitUpgrade, AbortUpgrade, UpgradeFails, Start, accountVars,
              FailElsewhere, Fault, tableVars, DeploymentTypeOK
<1>3. /\ ~up
      /\ migration.columns = ColumnsAt(migration.version)
      /\ TypesAt(migration.version) \subseteq migration.types
      /\ schema.version <= migration.version
      /\ migration.version < Head /\ "userstatus" \in migration.types =>
             "userstatus" \in schema.types
      /\ migration.version = 0 \/ DOMAIN users # {} => migration = schema
  BY <1>1, <1>2 DEF MigrationShape
<1>4. /\ schema.version \in 0..3 /\ migration.version \in 0..3
      /\ \A x \in Requests : pc[x] \notin InFlight
  BY <1>1, <1>2, <1>3 DEF DeploymentTypeOK, Schema, Head
<1>5. /\ schema' = schema \/ (schema' = migration /\ migration.version = Head)
      /\ schema' \in Schema
  BY <1>1, <1>2 DEF CommitUpgrade, AbortUpgrade, UpgradeFails, Rollback, DeploymentTypeOK
<1>6. DeploymentTypeOK'
  BY <1>2, <1>5 DEF DeploymentTypeOK, AccountsInv
<1>7. SchemaIsRevision'
  BY <1>1, <1>3, <1>5 DEF SchemaIsRevision
<1>8. MigrationShape' /\ HandlersKeepSchema'
  BY <1>2, <1>4 DEF MigrationShape, HandlersKeepSchema, InFlight
<1>9. schema'.version <= 1 => DOMAIN users' = {}
  BY <1>1, <1>2, <1>4, <1>5 DEF Head
<1>10. OldSchemaExplained'
  <2>1. CASE CommitUpgrade
    BY <1>4, <2>1 DEF CommitUpgrade, OldSchemaExplained, Head
  <2>2. CASE AbortUpgrade
    <3>1. UNCHANGED schema /\ migration.version < Head /\ ~Applicable(migration)
      BY <2>2 DEF AbortUpgrade, Rollback
    <3>2. schema.version < Head
      BY <1>3, <1>4, <3>1 DEF Head
    <3>3. \/ "userstatus" \in schema.types
          \/ schema.version = 0 /\ "bookingstatus" \in schema.types
          \/ DOMAIN users # {}
      <4>1. CASE migration.version = 0
        BY <1>3, <3>1, <4>1 DEF Applicable
      <4>2. CASE migration.version = 1
        BY <3>1, <4>2 DEF Applicable, ColumnsFit
      <4>3. CASE migration.version = 2
        BY <1>3, <3>1, <4>3 DEF Applicable, ColumnsFit
      <4>4. QED
        BY <1>4, <3>1, <4>1, <4>2, <4>3 DEF Head
    <3>4. QED
      BY <1>2, <3>1, <3>2, <3>3 DEF OldSchemaExplained, Blocked
  <2>3. CASE UpgradeFails
    BY <1>1, <2>3 DEF UpgradeFails, FailElsewhere, Fault, OldSchemaExplained
  <2>4. QED
    BY <2>1, <2>2, <2>3
<1>11. QED
  BY <1>2, <1>6, <1>7, <1>8, <1>9, <1>10 DEF DeploymentInv

(***************************************************************************)
(* A downgrade leaves the type that stops the next upgrade.                *)
(***************************************************************************)
LEMMA DowngradeInvariant ==
    ASSUME DeploymentInv, AccountsInv', Downgrade
    PROVE  DeploymentInv'
<1>1. /\ DeploymentTypeOK /\ SchemaIsRevision /\ OldSchemaExplained
      /\ schema.version <= 1 => DOMAIN users = {}
      /\ \A x \in Requests : pc[x] \in InFlight => up
      /\ schema \in Schema /\ schema.version \in 0..3
  BY DEF DeploymentInv, DeploymentTypeOK, Schema, Head
<1>2. /\ migration' = NoMigration /\ UNCHANGED <<pc, faults, up>>
      /\ \A r \in Requests : pc[r] \notin {"insert", "commit", "issue"}
  BY DEF Downgrade, UsersLocked, DeploymentTypeOK
<1>3. /\ schema' \in Schema
      /\ schema'.version = schema.version - 1 /\ schema'.version < Head
      /\ schema'.types = schema.types
      /\ schema'.columns = ColumnsAt(schema'.version)
      /\ TypesAt(schema'.version) \subseteq schema'.types
      /\ schema.version = 3 => "userstatus" \in schema'.types
      /\ schema.version = 1 => "bookingstatus" \in schema'.types
  <2>1. \/ schema.version = 3 /\ schema' = DropRole(schema)
        \/ schema.version = 2 /\ schema' = JoinName(schema)
        \/ schema.version = 1 /\ schema' = DropTables(schema)
    BY DEF Downgrade
  <2>2. schema.columns = ColumnsAt(schema.version) /\ TypesAt(schema.version) \subseteq schema.types
    BY <1>1 DEF SchemaIsRevision
  <2>3. QED
    BY <1>1, <2>1, <2>2, RevisionDown
<1>4. /\ schema.version = 3 \/ DOMAIN users' = {}
      /\ schema.version = 2 => DOMAIN users = {}
  BY <1>1 DEF Downgrade, ColumnsFit
<1>5. DeploymentTypeOK' /\ SchemaIsRevision' /\ MigrationShape' /\ HandlersKeepSchema'
  <2>1. DeploymentTypeOK'
    BY <1>1, <1>2, <1>3 DEF DeploymentTypeOK, AccountsInv
  <2>2. SchemaIsRevision' /\ MigrationShape' /\ HandlersKeepSchema'
    BY <1>2, <1>3 DEF SchemaIsRevision, MigrationShape, HandlersKeepSchema
  <2>3. QED
    BY <2>1, <2>2
<1>6. schema'.version <= 1 => DOMAIN users' = {}
  BY <1>1, <1>3, <1>4
<1>7. OldSchemaExplained'
  <2> SUFFICES ASSUME up, faults <= 0 \/ faults = 0 \/ ~(faults > 0)
               PROVE  Blocked(schema)'
    BY <1>2 DEF OldSchemaExplained
  <2>1. CASE schema.version = 3
    BY <1>3, <2>1 DEF Blocked
  <2>2. CASE schema.version = 1
    BY <1>3, <2>2 DEF Blocked
  <2>3. CASE schema.version = 2
    <3>1. faults \in Nat
      BY <1>1, AccountsAssumption DEF DeploymentTypeOK, AccountsTypeOK
    <3>2. Blocked(schema)
      BY <1>1, <2>3, <3>1 DEF OldSchemaExplained, Head
    <3>3. "userstatus" \in schema.types
      BY <1>4, <2>3, <3>2 DEF Blocked
    <3>4. QED
      BY <1>3, <3>3 DEF Blocked
  <2>4. QED
    BY <1>1, <2>1, <2>2, <2>3 DEF Downgrade
<1>8. QED
  BY <1>1, <1>2, <1>5, <1>6, <1>7 DEF DeploymentInv

\* Every step of a deployment keeps the invariant.
LEMMA DeploymentStepInvariant ==
    ASSUME DeploymentInv, [DeploymentNext]_allVars
    PROVE  DeploymentInv'
<1>1. AccountsInv'
  BY DeploymentStepIsAccountsStep, StepInvariant DEF DeploymentInv
<1>2. QED
  BY <1>1, ServiceInvariant, UpgradeInvariant, StartInvariant, DowngradeInvariant
     DEF DeploymentNext

\* The invariant of the deployment holds throughout.
THEOREM DeploymentInvariant == DeploymentSpec => []DeploymentInv
  BY DeploymentInitInvariant, DeploymentStepInvariant, PTL DEF DeploymentSpec

\* Upgrades, downgrades, restarts and an old schema leave the service the one
\* of Accounts, so that all that is proved of it holds in a deployment.
THEOREM DeploymentKeepsAccounts == DeploymentSpec => ServiceKeepsAccounts
<1>1. DeploymentInit => AccountsInit
  BY DEF DeploymentInit
<1>2. QED
  BY <1>1, DeploymentInvariant, DeploymentStepIsAccountsStep, PTL
     DEF DeploymentSpec, AccountsSpec, ServiceKeepsAccounts

\* Every state of the deployment, its schema and the pending transaction of a
\* migration included, has the shape the code gives it.
THEOREM DeploymentTypeCorrect == DeploymentSpec => []DeploymentTypeOK
<1>1. DeploymentInv => DeploymentTypeOK
  BY DEF DeploymentInv
<1>2. QED
  BY <1>1, DeploymentInvariant, PTL

\* However an upgrade ends, the tables are those of the recorded revision.
THEOREM SchemaIsARevision == DeploymentSpec => []SchemaIsRevision
<1>1. DeploymentInv => SchemaIsRevision
  BY DEF DeploymentInv
<1>2. QED
  BY <1>1, DeploymentInvariant, PTL

\* Without failures an old schema under the service has a lasting reason.
THEOREM OldSchemasAreExplained == DeploymentSpec => []OldSchemaExplained
<1>1. DeploymentInv => OldSchemaExplained
  BY DEF DeploymentInv
<1>2. QED
  BY <1>1, DeploymentInvariant, PTL

\* No downgrade takes the schema away under a registration or a login.
THEOREM HandlersKeepTheirSchema == DeploymentSpec => []HandlersKeepSchema
<1>1. DeploymentInv => HandlersKeepSchema
  BY DEF DeploymentInv
<1>2. QED
  BY <1>1, DeploymentInvariant, PTL

\* While there are accounts the schema never advances.
THEOREM NoValuesInvented == DeploymentSpec => NothingInvented
<1>1. ASSUME DeploymentInv, [DeploymentNext]_allVars
      PROVE  [DOMAIN users # {} => schema'.version <= schema.version]_allVars
  <2>1. schema.version \in 0..3
    BY <1>1 DEF DeploymentInv, DeploymentTypeOK, Schema, Head
  <2>2. CASE UNCHANGED schema
    BY <2>1, <2>2
  <2>3. CASE Downgrade
    <3>1. /\ schema \in Schema /\ schema.columns = ColumnsAt(schema.version)
          /\ TypesAt(schema.version) \subseteq schema.types
      BY <1>1 DEF DeploymentInv, DeploymentTypeOK, SchemaIsRevision
    <3>2. schema'.version = schema.version - 1
      BY <2>3, <3>1, RevisionDown DEF Downgrade
    <3>3. QED
      BY <2>1, <3>2
  <2>4. CASE CommitUpgrade
    <3>1. DOMAIN users # {} => migration = schema
      BY <1>1, <2>4 DEF CommitUpgrade, DeploymentInv, MigrationShape
    <3>2. QED
      BY <2>1, <2>4, <3>1 DEF CommitUpgrade
  <2>5. QED
    BY <1>1, <2>2, <2>3, <2>4 DEF DeploymentNext, Serve, Stop, Outside, BeginUpgrade,
       ApplyRevision, AbortUpgrade, Rollback, UpgradeFails, UpgradeKilled,
       deployVars, allVars
<1>2. QED
  BY <1>1, DeploymentInvariant, PTL DEF DeploymentSpec, NothingInvented
=============================================================================
