--------------------------- MODULE IdentityGuards ---------------------------
(***************************************************************************)
(* The database of the control plane against any writer: the constraints   *)
(* of revision 0001, the constraints and triggers that revision 0002 adds  *)
(* and the migrations between them (migrations/versions/,                  *)
(* persistence/tables.py).  A writer is an application connection (foreign *)
(* keys enforced) that sends any INSERT, UPDATE, DELETE or, on SQLite,     *)
(* REPLACE, one row and one statement at a time; a statement that violates *)
(* a constraint or raises in a trigger changes nothing and is no step.     *)
(* Writers are stopped during a migration (docs/runbook-0.1.md).           *)
(*                                                                         *)
(* Primary keys are never updated here.  A specification's content_hash    *)
(* stands for its content, a configuration's policy for the rest of its    *)
(* columns.  domain_events has the guards of the other immutable tables    *)
(* and no row refers to it, artifacts and evidence have no guard and hang  *)
(* below the attempts; the three are left out.  Foreign keys are checked   *)
(* when a statement ends.                                                  *)
(***************************************************************************)
EXTENDS Integers, FiniteSets

CONSTANTS
    Dialect,      \* "sqlite" or "postgresql"
    Ids,          \* of each table, the primary keys that may occur
    RowsOf,       \* of each table, the rows that may be written
    NoRow,        \* no row has the key
    NoSpec        \* the NULL current_specification_id

Tables == {"projects", "agents", "agent_configurations", "repositories", "tasks",
           "task_specifications", "attempts"}

ASSUME DialectAssumption == Dialect \in {"sqlite", "postgresql"}

ASSUME TablesAssumption ==
    /\ DOMAIN Ids = Tables
    /\ DOMAIN RowsOf = Tables
    /\ \A T \in Tables : NoRow \notin RowsOf[T]
    /\ NoSpec \notin Ids["task_specifications"]

\* The version and ownership_epoch columns are integers.
ASSUME RowsAssumption ==
    /\ \A row \in RowsOf["agent_configurations"] \cup RowsOf["task_specifications"] :
        row.version \in Int
    /\ \A row \in RowsOf["tasks"] \cup RowsOf["attempts"] : row.epoch \in Int

VARIABLES
    db,         \* of each table, the row of each key
    revision,   \* the migration the schema is at
    migration   \* how the last migration ended

vars == <<db, revision, migration>>

\* The keys that table T of database d has rows for.
Keys(d, T) == {k \in Ids[T] : d[T][k] # NoRow}
IsKey(d, T, k) == k \in Ids[T] /\ d[T][k] # NoRow

IsSpecificationOf(d, s, t) ==
    IsKey(d, "task_specifications", s) /\ d["task_specifications"][s].task = t

SpecificationsOf(d, t) == {s \in Ids["task_specifications"] : IsSpecificationOf(d, s, t)}

-----------------------------------------------------------------------------
(* Constraints.                                                            *)

\* The columns of the unique key besides id, of the tables that have one.
UniqueKey == [projects |-> {"name"}, agents |-> {"name"},
              agent_configurations |-> {"agent", "version"},
              repositories |-> {"project", "name"},
              task_specifications |-> {"task", "version"},
              attempts |-> {"work", "epoch"}]

\* The rows of T other than k that agree with row on that key.
SameKey(d, T, k, row) == {j \in Keys(d, T) \ {k} :
    T \in DOMAIN UniqueKey /\ \A f \in UniqueKey[T] : d[T][j][f] = row[f]}

Unique(d, T) == \A k \in Keys(d, T) : SameKey(d, T, k, d[T][k]) = {}

\* The foreign keys with ON DELETE CASCADE: of a table, the one that owns its
\* rows and the column that names the owner.
Owner == [agent_configurations |-> "agents", repositories |-> "projects",
          tasks |-> "projects", task_specifications |-> "tasks", attempts |-> "tasks"]
OwnerColumn == [agent_configurations |-> "agent", repositories |-> "project",
                tasks |-> "project", task_specifications |-> "task", attempts |-> "work"]

Owned(d) == \A T \in DOMAIN Owner : \A k \in Keys(d, T) :
    IsKey(d, Owner[T], d[T][k][OwnerColumn[T]])

\* The foreign keys of revision 0001.
ForeignKeys(d) ==
    /\ Owned(d)
    /\ \A s \in Keys(d, "task_specifications") :
        /\ IsKey(d, "repositories", d["task_specifications"][s].repository)
        /\ IsKey(d, "agent_configurations", d["task_specifications"][s].actor)
        /\ IsKey(d, "agent_configurations", d["task_specifications"][s].reviewer)
    /\ \A t \in Keys(d, "tasks") :
        d["tasks"][t].current = NoSpec \/ IsKey(d, "task_specifications", d["tasks"][t].current)
    /\ \A a \in Keys(d, "attempts") :
        /\ IsKey(d, "agent_configurations", d["attempts"][a].config)
        /\ IsSpecificationOf(d, d["attempts"][a].spec, d["attempts"][a].work)

Constraints0001(d) ==
    /\ \A T \in Tables \ {"attempts"} : Unique(d, T)
    /\ ForeignKeys(d)

\* The attempt refers to the specification row with its work, actor
\* configuration and content hash.
InputIdentity(d, a) ==
    LET attempt == d["attempts"][a]
    IN  /\ IsSpecificationOf(d, attempt.spec, attempt.work)
        /\ d["task_specifications"][attempt.spec].actor = attempt.config
        /\ d["task_specifications"][attempt.spec].hash = attempt.hash

\* Definitions named Faulty... are variants with a plausible bug: a property is
\* told from its absence by failing with one of them (mutants in PROJECT.json).
\* Here: no unique constraint on (work_id, ownership_epoch).
FaultyEpochsUnique(d) == TRUE

EpochsUnique(d) == Unique(d, "attempts")

\* What revision 0002 adds.
Constraints0002(d) ==
    /\ \A c \in Keys(d, "agent_configurations") : d["agent_configurations"][c].version > 0
    /\ \A s \in Keys(d, "task_specifications") : d["task_specifications"][s].version > 0
    /\ \A t \in Keys(d, "tasks") :
        /\ d["tasks"][t].current = NoSpec \/ IsSpecificationOf(d, d["tasks"][t].current, t)
        /\ d["tasks"][t].epoch >= 0
    /\ \A a \in Keys(d, "attempts") :
        /\ InputIdentity(d, a)
        /\ d["attempts"][a].epoch > 0
        /\ a # d["attempts"][a].work
    /\ EpochsUnique(d)

Accepted(d) == Constraints0001(d) /\ (revision = "0002" => Constraints0002(d))

-----------------------------------------------------------------------------
(* Triggers of revision 0002.                                              *)

IMMUTABLE_TABLES == {"agent_configurations", "task_specifications"}

ATTEMPT_IDENTITY == {"work", "spec", "config", "hash", "epoch", "snapshot"}

Guarded == revision = "0002"

DeleteRaises(T) == Guarded /\ T \in IMMUTABLE_TABLES \cup {"attempts"}

UpdateRaises(T, old, new) ==
    /\ Guarded
    /\ \/ T \in IMMUTABLE_TABLES
       \/ T = "attempts" /\ \E f \in ATTEMPT_IDENTITY : old[f] # new[f]

\* The insert guard of attempts forgotten.
FaultyInsertRaises(T, conflicts) ==
    Guarded /\ T \in IMMUTABLE_TABLES /\ conflicts # {}

\* The insert guards of SQLite, on the primary and the unique keys.
InsertRaises(T, conflicts) ==
    Guarded /\ T \in IMMUTABLE_TABLES \cup {"attempts"} /\ conflicts # {}

-----------------------------------------------------------------------------
(* Statements.                                                             *)

\* A row of a table is named by the table and its key.
Removed(d, gone) ==
    [T \in Tables |-> [k \in Ids[T] |-> IF <<T, k>> \in gone THEN NoRow ELSE d[T][k]]]

\* The rows that some of the rows gone own.
Children(gone) == UNION {
    {<<T, k>> : k \in {j \in Keys(db, T) : <<Owner[T], db[T][j][OwnerColumn[T]]>> \in gone}} :
        T \in DOMAIN Owner}

\* ON DELETE CASCADE: what goes with these rows, what they own and what that
\* owns (the tasks of a project, and their rows).
Cascade(rows) ==
    LET owned == Children(rows)
    IN  rows \cup owned \cup Children(owned)

\* An UPDATE of an attempt that forgets its configuration column.
FaultyWritten(d, T, k, row) ==
    [d EXCEPT ![T][k] = IF T = "attempts" /\ d[T][k] # NoRow
                        THEN [row EXCEPT !.config = d[T][k].config]
                        ELSE row]

Written(d, T, k, row) == [d EXCEPT ![T][k] = row]

\* A statement that leaves every row as it is is no step.
Write(d) == d # db /\ Accepted(d) /\ db' = d /\ UNCHANGED <<revision, migration>>

Insert(T, k, row) ==
    /\ db[T][k] = NoRow
    /\ Write(Written(db, T, k, row))

Update(T, k, row) ==
    /\ db[T][k] \notin {NoRow, row}
    /\ ~UpdateRaises(T, db[T][k], row)
    /\ Write(Written(db, T, k, row))

\* The row and what the cascade takes with it; triggers fire for each.
Delete(T, k) ==
    LET gone == Cascade({<<T, k>>})
    IN  /\ db[T][k] # NoRow
        /\ \A row \in gone : ~DeleteRaises(row[1])
        /\ Write(Removed(db, gone))

\* Only revision 0002 has a unique key besides id on attempts.
UniqueIndex(T) == T # "attempts" \/ Guarded

Conflicts(T, k, row) ==
    (Keys(db, T) \cap {k}) \cup (IF UniqueIndex(T) THEN SameKey(db, T, k, row) ELSE {})

\* INSERT OR REPLACE: the conflicting rows are deleted without their delete
\* triggers, but the rows the cascade takes with them fire theirs.
Replace(T, k, row) ==
    LET conflicts == Conflicts(T, k, row)
        gone == Cascade({T} \X conflicts)
    IN  /\ Dialect = "sqlite"
        /\ conflicts # {}
        /\ ~InsertRaises(T, conflicts)
        /\ \A other \in gone \ ({T} \X conflicts) : ~DeleteRaises(other[1])
        /\ Write(Written(Removed(db, gone), T, k, row))

-----------------------------------------------------------------------------
(* Migrations.                                                             *)

\* No query for repeated epochs.
FaultyRepeatedEpochs(d) == {}

\* GROUP BY work_id, ownership_epoch HAVING COUNT( * ) > 1
RepeatedEpochs(d) == {a \in Keys(d, "attempts") :
    \E b \in Keys(d, "attempts") \ {a} :
        /\ d["attempts"][a].work = d["attempts"][b].work
        /\ d["attempts"][a].epoch = d["attempts"][b].epoch}

\* _preflight, past its look at the connection: none of the seven queries finds
\* a row, nor PRAGMA foreign_key_check one that refers to nothing.  (Of the
\* foreign keys that revision 0002 changes, two of the queries do as much.)
Preflight(d) ==
    /\ {t \in Keys(d, "tasks") : d["tasks"][t].current \notin SpecificationsOf(d, t) \cup {NoSpec}}
            = {}
    /\ {a \in Keys(d, "attempts") : ~InputIdentity(d, a)} = {}
    /\ RepeatedEpochs(d) = {}
    /\ {a \in Keys(d, "attempts") : d["attempts"][a].epoch <= 0 \/ a = d["attempts"][a].work} = {}
    /\ {t \in Keys(d, "tasks") : d["tasks"][t].epoch < 0} = {}
    /\ {c \in Keys(d, "agent_configurations") : d["agent_configurations"][c].version <= 0} = {}
    /\ {s \in Keys(d, "task_specifications") : d["task_specifications"][s].version <= 0} = {}
    /\ Dialect = "sqlite" => ForeignKeys(d)

\* Creating a constraint fails on rows that violate it.  The connection is fit
\* if it is online, of one of the two databases and, on SQLite, does not
\* enforce foreign keys; an unfit one is refused first.
UpgradeOutcome(d, fit) ==
    IF ~fit \/ ~Preflight(d) THEN "refused" ELSE IF Constraints0002(d) THEN "done" ELSE "failed"

Upgrade(fit) ==
    /\ revision = "0001"
    /\ migration' = UpgradeOutcome(db, fit)
    /\ revision' = IF migration' = "done" THEN "0002" ELSE "0001"
    /\ UNCHANGED db

\* The constraints it puts back are those of revision 0001, which still hold.
\* "stuck": the rows are why it is refused.
DowngradeOutcome(d, fit) ==
    IF ~fit THEN "refused" ELSE IF Preflight(d) THEN "done" ELSE "stuck"

Downgrade(fit) ==
    /\ revision = "0002"
    /\ migration' = DowngradeOutcome(db, fit)
    /\ revision' = IF migration' = "done" THEN "0001" ELSE "0002"
    /\ UNCHANGED db

-----------------------------------------------------------------------------
Init ==
    /\ db = [T \in Tables |-> [k \in Ids[T] |-> NoRow]]
    /\ revision = "0001"
    /\ migration = "done"

Next ==
    \/ \E T \in Tables : \E k \in Ids[T] :
        \/ \E row \in RowsOf[T] : Insert(T, k, row) \/ Update(T, k, row) \/ Replace(T, k, row)
        \/ Delete(T, k)
    \/ \E fit \in BOOLEAN : Upgrade(fit) \/ Downgrade(fit)

Spec == Init /\ [][Next]_vars

-----------------------------------------------------------------------------
\* Every table maps its keys to rows of its own or to none.
TypeOK ==
    /\ \A T \in Tables : db[T] \in [Ids[T] -> RowsOf[T] \cup {NoRow}]
    /\ revision \in {"0001", "0002"}
    /\ migration \in {"done", "refused", "failed", "stuck"}

\* What an attempt executed: its own identity and the rows it refers to.
ExecutionRecord(d, a) ==
    [identity |-> [f \in ATTEMPT_IDENTITY |-> d["attempts"][a][f]],
     specification |-> d["task_specifications"][d["attempts"][a].spec],
     configuration |-> d["agent_configurations"][d["attempts"][a].config]]

\* A step within revision 0002 keeps the record of every attempt.
RecordsKept ==
    Guarded /\ Guarded' =>
        \A a \in Keys(db, "attempts") :
            a \in Keys(db', "attempts") /\ ExecutionRecord(db', a) = ExecutionRecord(db, a)

\* No sequence of accepted statements rewrites or loses what an attempt
\* executed: at revision 0002 its identity, the specification and the
\* configuration it is bound to stay as they are, whether a writer updates,
\* deletes or replaces these rows, the task, project or agent above them or rows
\* whose keys collide with theirs.
ExecutionRecordStable == [][RecordsKept]_vars

\* The preflight is as strict as the constraints it prepares: an upgrade that
\* passes it never fails on the data half way through the revision.
UpgradeNeverFailsHalfway == migration # "failed"

\* And no stricter: whatever writers did under revision 0002, the preflight
\* of a downgrade accepts it.
DowngradeNeverRefused == migration # "stuck"

=============================================================================
