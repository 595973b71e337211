------------------------ MODULE IdentityGuardsProofs ------------------------
(***************************************************************************)
(* Theorems about IdentityGuards, for any keys, any rows and both          *)
(* dialects.  The constraints of the schema at hand hold in every state,   *)
(* because a statement that violates one is no step and an upgrade that    *)
(* ends well has checked the new ones.  Under them the triggers of         *)
(* revision 0002 leave no way to a row that an attempt rests on.           *)
(***************************************************************************)
EXTENDS IdentityGuards, TLAPS

\* The cells of a database, typed.
Typed(d) ==
    /\ d = [T \in Tables |-> [k \in Ids[T] |-> d[T][k]]]
    /\ \A T \in Tables : \A k \in Ids[T] : d[T][k] \in RowsOf[T] \cup {NoRow}

GuardInv ==
    /\ Typed(db)
    /\ revision \in {"0001", "0002"}
    /\ migration \in {"done", "refused"}
    /\ Constraints0001(db)
    /\ Guarded => Constraints0002(db)

\* A statement of a writer.
Statement ==
    \E T \in Tables : \E k \in Ids[T] :
        \/ \E row \in RowsOf[T] : Insert(T, k, row) \/ Update(T, k, row) \/ Replace(T, k, row)
        \/ Delete(T, k)

-----------------------------------------------------------------------------
(* What statements write.                                                  *)

\* Writing a row changes one cell.
LEMMA WrittenCells ==
    ASSUME NEW d, Typed(d), NEW T \in Tables, NEW k \in Ids[T], NEW row
    PROVE  /\ Written(d, T, k, row) = [U \in Tables |-> [j \in Ids[U] |-> Written(d, T, k, row)[U][j]]]
           /\ \A U \in Tables : \A j \in Ids[U] :
                Written(d, T, k, row)[U][j] = IF U = T /\ j = k THEN row ELSE d[U][j]
BY DEF Written, Typed

\* Removing rows empties their cells and no others.
LEMMA RemovedCells ==
    ASSUME NEW d, NEW gone
    PROVE  /\ Removed(d, gone) = [U \in Tables |-> [j \in Ids[U] |-> Removed(d, gone)[U][j]]]
           /\ \A U \in Tables : \A j \in Ids[U] :
                Removed(d, gone)[U][j] = IF <<U, j>> \in gone THEN NoRow ELSE d[U][j]
BY DEF Removed

\* Removing rows keeps the types.
LEMMA RemovedTyped ==
    ASSUME NEW d, Typed(d), NEW gone
    PROVE  Typed(Removed(d, gone))
<1>1. PICK e : e = Removed(d, gone)
  OBVIOUS
<1>2. /\ e = [U \in Tables |-> [j \in Ids[U] |-> e[U][j]]]
      /\ \A U \in Tables : \A j \in Ids[U] : e[U][j] = IF <<U, j>> \in gone THEN NoRow ELSE d[U][j]
  BY <1>1, RemovedCells
<1>3. \A U \in Tables : \A j \in Ids[U] : e[U][j] \in RowsOf[U] \cup {NoRow}
  BY <1>2 DEF Typed
<1> QED
  BY <1>1, <1>2, <1>3 DEF Typed

\* Writing a row of the table keeps the types.
LEMMA WrittenTyped ==
    ASSUME NEW d, Typed(d), NEW T \in Tables, NEW k \in Ids[T], NEW row \in RowsOf[T]
    PROVE  Typed(Written(d, T, k, row))
<1>1. PICK e : e = Written(d, T, k, row)
  OBVIOUS
<1>2. /\ e = [U \in Tables |-> [j \in Ids[U] |-> e[U][j]]]
      /\ \A U \in Tables : \A j \in Ids[U] : e[U][j] = IF U = T /\ j = k THEN row ELSE d[U][j]
  BY <1>1, WrittenCells
<1>3. \A U \in Tables : \A j \in Ids[U] : e[U][j] \in RowsOf[U] \cup {NoRow}
  BY <1>2 DEF Typed
<1> QED
  BY <1>1, <1>2, <1>3 DEF Typed

\* Every statement leaves typed rows that meet the constraints, and touches
\* no schema.
LEMMA StatementEffect ==
    ASSUME Typed(db), Statement
    PROVE  Typed(db)' /\ Accepted(db') /\ UNCHANGED <<revision, migration>>
<1>0. PICK T \in Tables : \E k \in Ids[T] :
        \/ \E row \in RowsOf[T] : Insert(T, k, row) \/ Update(T, k, row) \/ Replace(T, k, row)
        \/ Delete(T, k)
  BY DEF Statement
<1>1. PICK k \in Ids[T] :
        \/ \E row \in RowsOf[T] : Insert(T, k, row) \/ Update(T, k, row) \/ Replace(T, k, row)
        \/ Delete(T, k)
  BY <1>0
<1>2. ASSUME NEW row \in RowsOf[T], Insert(T, k, row) \/ Update(T, k, row)
      PROVE  Typed(db)' /\ Accepted(db') /\ UNCHANGED <<revision, migration>>
  <2>1. /\ db' = Written(db, T, k, row) /\ Accepted(Written(db, T, k, row))
        /\ UNCHANGED <<revision, migration>>
    BY <1>2 DEF Insert, Update, Write
  <2>2. Typed(Written(db, T, k, row))
    BY WrittenTyped
  <2> QED
    BY <2>1, <2>2 DEF Typed
<1>3. ASSUME NEW row \in RowsOf[T], Replace(T, k, row)
      PROVE  Typed(db)' /\ Accepted(db') /\ UNCHANGED <<revision, migration>>
  <2>1. PICK gone : /\ db' = Written(Removed(db, gone), T, k, row)
                    /\ Accepted(Written(Removed(db, gone), T, k, row))
                    /\ UNCHANGED <<revision, migration>>
    BY <1>3 DEF Replace, Write
  <2>2. Typed(Written(Removed(db, gone), T, k, row))
    BY RemovedTyped, WrittenTyped
  <2> QED
    BY <2>1, <2>2 DEF Typed
<1>4. ASSUME Delete(T, k)
      PROVE  Typed(db)' /\ Accepted(db') /\ UNCHANGED <<revision, migration>>
  <2>1. PICK gone : /\ db' = Removed(db, gone) /\ Accepted(Removed(db, gone))
                    /\ UNCHANGED <<revision, migration>>
    BY <1>4 DEF Delete, Write
  <2>2. Typed(Removed(db, gone))
    BY RemovedTyped
  <2> QED
    BY <2>1, <2>2 DEF Typed
<1> QED
  BY <1>1, <1>2, <1>3, <1>4

-----------------------------------------------------------------------------
(* The preflight and the constraints of revision 0002 say the same.        *)

\* No epoch of a task is found repeated exactly if epochs are unique.
LEMMA RepeatedIsNotUnique ==
    ASSUME NEW d
    PROVE  RepeatedEpochs(d) = {} <=> EpochsUnique(d)
BY DEF RepeatedEpochs, EpochsUnique, Unique, SameKey, UniqueKey

\* The preflight of the migration passes exactly on data that meets the
\* constraints it prepares, the foreign keys holding (_preflight against upgrade).
LEMMA PreflightIsExact ==
    ASSUME NEW d, Typed(d), Constraints0001(d)
    PROVE  Preflight(d) <=> Constraints0002(d)
<1>1. \A T \in Tables : \A k \in Keys(d, T) : d[T][k] \in RowsOf[T]
  BY DEF Typed, Keys
<1>2. /\ \A c \in Keys(d, "agent_configurations") : d["agent_configurations"][c].version \in Int
      /\ \A s \in Keys(d, "task_specifications") : d["task_specifications"][s].version \in Int
      /\ \A t \in Keys(d, "tasks") : d["tasks"][t].epoch \in Int
      /\ \A a \in Keys(d, "attempts") : d["attempts"][a].epoch \in Int
  BY <1>1, RowsAssumption DEF Tables
<1>3. {t \in Keys(d, "tasks") : d["tasks"][t].current \notin SpecificationsOf(d, t) \cup {NoSpec}}
        = {}
      <=> \A t \in Keys(d, "tasks") : \/ d["tasks"][t].current = NoSpec
                                      \/ IsSpecificationOf(d, d["tasks"][t].current, t)
  BY DEF SpecificationsOf, IsSpecificationOf, IsKey
<1>4. {a \in Keys(d, "attempts") : ~InputIdentity(d, a)} = {}
      <=> \A a \in Keys(d, "attempts") : InputIdentity(d, a)
  OBVIOUS
<1>5. {a \in Keys(d, "attempts") : d["attempts"][a].epoch <= 0 \/ a = d["attempts"][a].work} = {}
      <=> \A a \in Keys(d, "attempts") : d["attempts"][a].epoch > 0 /\ a # d["attempts"][a].work
  BY <1>2
<1>6. {t \in Keys(d, "tasks") : d["tasks"][t].epoch < 0} = {}
      <=> \A t \in Keys(d, "tasks") : d["tasks"][t].epoch >= 0
  BY <1>2
<1>7. {c \in Keys(d, "agent_configurations") : d["agent_configurations"][c].version <= 0} = {}
      <=> \A c \in Keys(d, "agent_configurations") : d["agent_configurations"][c].version > 0
  BY <1>2
<1>8. {s \in Keys(d, "task_specifications") : d["task_specifications"][s].version <= 0} = {}
      <=> \A s \in Keys(d, "task_specifications") : d["task_specifications"][s].version > 0
  BY <1>2
<1> QED
  BY <1>3, <1>4, <1>5, <1>6, <1>7, <1>8, RepeatedIsNotUnique
     DEF Preflight, Constraints0001, Constraints0002

-----------------------------------------------------------------------------
(* The invariant.                                                          *)

\* An empty database meets every constraint of revision 0001.
LEMMA GuardInitInv == Init => GuardInv
<1> SUFFICES ASSUME Init PROVE GuardInv
  OBVIOUS
<1>1. Typed(db)
  BY DEF Init, Typed
<1>2. \A T \in Tables : Keys(db, T) = {}
  BY DEF Init, Keys
<1>3. Constraints0001(db)
  BY <1>2 DEF Constraints0001, ForeignKeys, Owned, Owner, Unique, Tables
<1> QED
  BY <1>1, <1>3 DEF Init, GuardInv, Guarded

\* An upgrade never fails on the data, and is done only when the data meets
\* the new constraints (upgrade).
LEMMA UpgradeInv == ASSUME GuardInv, NEW fit \in BOOLEAN, Upgrade(fit) PROVE GuardInv'
<1>1. migration' \in {"done", "refused"} /\ (migration' = "done" => Constraints0002(db))
  BY PreflightIsExact DEF GuardInv, Upgrade, UpgradeOutcome
<1> QED
  BY <1>1 DEF GuardInv, Upgrade, Guarded

\* A downgrade is never refused for the rows (downgrade).
LEMMA DowngradeInv == ASSUME GuardInv, NEW fit \in BOOLEAN, Downgrade(fit) PROVE GuardInv'
<1>1. migration' \in {"done", "refused"}
  BY PreflightIsExact DEF GuardInv, Downgrade, DowngradeOutcome, Guarded
<1> QED
  BY <1>1 DEF GuardInv, Downgrade, Guarded

\* Every step keeps the invariant.
LEMMA GuardStepInv == GuardInv /\ [Next]_vars => GuardInv'
<1>1. ASSUME GuardInv, Statement
      PROVE  GuardInv'
  BY <1>1, StatementEffect DEF GuardInv, Accepted, Guarded
<1>2. ASSUME GuardInv, UNCHANGED vars
      PROVE  GuardInv'
  BY <1>2 DEF GuardInv, vars, Guarded
<1> QED
  BY <1>1, <1>2, UpgradeInv, DowngradeInv DEF Next, Statement

\* At every moment the rows meet the constraints of the schema's revision.
THEOREM GuardsCorrect == Spec => []GuardInv
BY GuardInitInv, GuardStepInv, PTL DEF Spec

\* Tables, revision and outcome of the last migration have their types.
THEOREM TypeCorrect == Spec => []TypeOK
<1>1. GuardInv => TypeOK
  BY DEF GuardInv, Typed, TypeOK
<1> QED
  BY <1>1, GuardsCorrect, PTL

\* Whatever writers did before it, an upgrade that passes its preflight does
\* not fail on the data (upgrade).
THEOREM UpgradeNeverFailsHalfwayHolds == Spec => []UpgradeNeverFailsHalfway
<1>1. GuardInv => UpgradeNeverFailsHalfway
  BY DEF GuardInv, UpgradeNeverFailsHalfway
<1> QED
  BY <1>1, GuardsCorrect, PTL

\* Whatever writers did under revision 0002, the preflight of a downgrade
\* accepts it (downgrade).
THEOREM DowngradeNeverRefusedHolds == Spec => []DowngradeNeverRefused
<1>1. GuardInv => DowngradeNeverRefused
  BY DEF GuardInv, DowngradeNeverRefused
<1> QED
  BY <1>1, GuardsCorrect, PTL

-----------------------------------------------------------------------------
(* What the triggers of revision 0002 protect.                             *)

\* The rows that no statement may change at revision 0002.
GuardedRowsStay ==
    /\ \A T \in IMMUTABLE_TABLES : \A k \in Keys(db, T) : db'[T][k] = db[T][k]
    /\ \A a \in Keys(db, "attempts") :
        /\ db'["attempts"][a] # NoRow
        /\ \A f \in ATTEMPT_IDENTITY : db'["attempts"][a][f] = db["attempts"][a][f]

\* An insert needs a free key, so it changes no row.
LEMMA InsertKeeps ==
    ASSUME GuardInv, NEW T \in Tables, NEW k \in Ids[T], NEW row \in RowsOf[T], Insert(T, k, row)
    PROVE  GuardedRowsStay
<1>1. db' = Written(db, T, k, row) /\ db[T][k] = NoRow
  BY DEF Insert, Write
<1>2. \A U \in Tables : \A j \in Keys(db, U) : db'[U][j] = db[U][j]
  BY <1>1, WrittenCells DEF GuardInv, Keys
<1> QED
  BY <1>2 DEF GuardedRowsStay, Keys, Tables, IMMUTABLE_TABLES

\* The update triggers let through what changes neither an immutable table nor
\* the identity of an attempt.
LEMMA UpdateKeeps ==
    ASSUME GuardInv, Guarded, NEW T \in Tables, NEW k \in Ids[T], NEW row \in RowsOf[T],
           Update(T, k, row)
    PROVE  GuardedRowsStay
<1>1. /\ db' = Written(db, T, k, row) /\ T \notin IMMUTABLE_TABLES
      /\ T = "attempts" => \A f \in ATTEMPT_IDENTITY : db[T][k][f] = row[f]
  BY DEF Update, Write, UpdateRaises
<1>2. \A U \in Tables : \A j \in Ids[U] :
        db'[U][j] = IF U = T /\ j = k THEN row ELSE db[U][j]
  BY <1>1, WrittenCells DEF GuardInv
<1>3. row # NoRow
  BY TablesAssumption
<1> QED
  BY <1>1, <1>2, <1>3 DEF GuardedRowsStay, Keys, Tables, IMMUTABLE_TABLES

\* The delete triggers let go of a row only when no version, configuration or
\* attempt goes with it.
LEMMA DeleteKeeps ==
    ASSUME GuardInv, Guarded, NEW T \in Tables, NEW k \in Ids[T], Delete(T, k)
    PROVE  GuardedRowsStay
<1>1. PICK gone :
        /\ \A row \in gone : ~DeleteRaises(row[1])
        /\ db' = Removed(db, gone)
  BY DEF Delete, Write
<1>2. \A U \in IMMUTABLE_TABLES \cup {"attempts"} : \A j : <<U, j>> \notin gone
  BY <1>1 DEF DeleteRaises
<1>3. \A U \in IMMUTABLE_TABLES \cup {"attempts"} : \A j \in Ids[U] : db'[U][j] = db[U][j]
  <2>1. \A U \in Tables : \A j \in Ids[U] :
          db'[U][j] = IF <<U, j>> \in gone THEN NoRow ELSE db[U][j]
    BY <1>1 DEF Removed
  <2> QED
    BY <1>2, <2>1 DEF IMMUTABLE_TABLES, Tables
<1> QED
  BY <1>3 DEF GuardedRowsStay, Keys

\* The insert guards let REPLACE through for other tables only, and there the
\* delete triggers of what the cascade would take stop it.
LEMMA ReplaceKeeps ==
    ASSUME GuardInv, Guarded, NEW T \in Tables, NEW k \in Ids[T], NEW row \in RowsOf[T],
           Replace(T, k, row)
    PROVE  GuardedRowsStay
<1>0. IMMUTABLE_TABLES \cup {"attempts"} \subseteq Tables
  BY DEF IMMUTABLE_TABLES, Tables
<1>1. T \notin IMMUTABLE_TABLES \cup {"attempts"}
  BY DEF Replace, InsertRaises
<1>2. PICK gone, conflicts :
        /\ \A other \in gone \ ({T} \X conflicts) : ~DeleteRaises(other[1])
        /\ db' = Written(Removed(db, gone), T, k, row)
  BY DEF Replace, Write
<1>3. \A U \in IMMUTABLE_TABLES \cup {"attempts"} : \A j : <<U, j>> \notin gone
  BY <1>1, <1>2 DEF DeleteRaises
<1>4. PICK d : d = Removed(db, gone)
  OBVIOUS
<1>5. /\ Typed(d)
      /\ \A U \in IMMUTABLE_TABLES \cup {"attempts"} : \A j \in Ids[U] : d[U][j] = db[U][j]
  <2>1. Typed(d)
    BY <1>4, RemovedTyped DEF GuardInv
  <2>2. \A U \in Tables : \A j \in Ids[U] :
          d[U][j] = IF <<U, j>> \in gone THEN NoRow ELSE db[U][j]
    BY <1>4 DEF Removed
  <2> QED
    BY <1>0, <1>3, <2>1, <2>2
<1>6. \A U \in IMMUTABLE_TABLES \cup {"attempts"} : \A j \in Ids[U] : db'[U][j] = db[U][j]
  <2>1. \A U \in Tables : \A j \in Ids[U] :
          db'[U][j] = IF U = T /\ j = k THEN row ELSE d[U][j]
    BY <1>2, <1>4, <1>5, WrittenCells
  <2> QED
    BY <1>0, <1>1, <1>5, <2>1
<1> QED
  BY <1>6 DEF GuardedRowsStay, Keys

\* No statement changes a guarded row.
LEMMA StatementKeeps == ASSUME GuardInv, Guarded, Statement PROVE GuardedRowsStay
BY InsertKeeps, UpdateKeeps, DeleteKeeps, ReplaceKeeps DEF Statement

\* Where the guarded rows stay, so does what an attempt executed: by the
\* constraints it refers to rows that are there.
LEMMA RecordKept ==
    ASSUME GuardInv, Guarded, GuardedRowsStay, NEW a \in Keys(db, "attempts")
    PROVE  a \in Keys(db', "attempts") /\ ExecutionRecord(db', a) = ExecutionRecord(db, a)
<1>1. /\ db'["attempts"][a] # NoRow
      /\ \A f \in ATTEMPT_IDENTITY : db'["attempts"][a][f] = db["attempts"][a][f]
  BY DEF GuardedRowsStay
<1>2. /\ db'["attempts"][a].spec = db["attempts"][a].spec
      /\ db'["attempts"][a].config = db["attempts"][a].config
  BY <1>1 DEF ATTEMPT_IDENTITY
<1>3. /\ db["attempts"][a].spec \in Keys(db, "task_specifications")
      /\ db["attempts"][a].config \in Keys(db, "agent_configurations")
  BY DEF GuardInv, Constraints0001, ForeignKeys, IsSpecificationOf, IsKey, Keys
<1>4. /\ db'["task_specifications"][db["attempts"][a].spec]
            = db["task_specifications"][db["attempts"][a].spec]
      /\ db'["agent_configurations"][db["attempts"][a].config]
            = db["agent_configurations"][db["attempts"][a].config]
  BY <1>3 DEF GuardedRowsStay, IMMUTABLE_TABLES
<1>5. [f \in ATTEMPT_IDENTITY |-> db'["attempts"][a][f]]
        = [f \in ATTEMPT_IDENTITY |-> db["attempts"][a][f]]
  BY <1>1
<1>6. ExecutionRecord(db', a) = ExecutionRecord(db, a)
  BY <1>2, <1>4, <1>5 DEF ExecutionRecord
<1> QED
  BY <1>1, <1>6 DEF Keys

\* At revision 0002 no step of any writer changes or loses what an attempt
\* executed: its identity, its specification and its configuration.
THEOREM ExecutionRecordStableHolds == Spec => ExecutionRecordStable
<1>1. GuardInv /\ [Next]_vars /\ Guarded => RecordsKept \/ UNCHANGED vars
  <2> SUFFICES ASSUME GuardInv, [Next]_vars, Guarded, ~UNCHANGED vars
               PROVE  RecordsKept
    OBVIOUS
  <2>1. CASE Statement
    BY <2>1, StatementKeeps, RecordKept DEF RecordsKept
  <2>2. CASE \E fit \in BOOLEAN : Upgrade(fit) \/ Downgrade(fit)
    BY <2>2 DEF Upgrade, Downgrade, RecordsKept, Guarded
  <2> QED
    BY <2>1, <2>2 DEF Next, Statement
<1>2. GuardInv /\ [Next]_vars => [RecordsKept]_vars
  BY <1>1 DEF RecordsKept
<1> QED
  BY <1>2, GuardsCorrect, PTL DEF Spec, ExecutionRecordStable

=============================================================================
