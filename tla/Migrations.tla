----------------------------- MODULE Migrations -----------------------------
(***************************************************************************)
(* Opening the database: apply_schema and the migrations it runs, with     *)
(* errors and crashes between any two statements, and the next start.      *)
(*                                                                         *)
(* The connection is Python's sqlite3 in its default mode: a transaction   *)
(* is opened before INSERT, UPDATE and DELETE only.  An ALTER TABLE or a   *)
(* PRAGMA inside "with conn:" therefore commits by itself, and the block's *)
(* rollback has nothing to undo.                                           *)
(*                                                                         *)
(* Columns are the ones migrations add; two stand for the nine of v2.      *)
(***************************************************************************)
EXTENDS Naturals, Sequences

CONSTANT MaxStarts      \* bound: times the database is opened

Columns == <<<<"text", "destination_num">>, <<"last_snr", "rf_count">>>>
CurrentVersion == Len(Columns)
ColumnsOf(v) == {Columns[v][i]: i \in DOMAIN Columns[v]}
AllColumns == UNION {ColumnsOf(v): v \in 1..CurrentVersion}

VARIABLES
    exists,     \* the database file holds the tables
    cols,       \* columns added so far
    version,    \* PRAGMA user_version
    backups,    \* versions a pre-migration backup was taken of
    pc,         \* where apply_schema stands
    target,     \* the migration under way
    todo,       \* columns its PRAGMA table_info did not show
    before,     \* history: columns when that migration began
    starts

vars == <<exists, cols, version, backups, pc, target, todo, before, starts>>

\* A file of an earlier release, or none at all.
Init ==
    /\ \/ exists = FALSE /\ cols = {} /\ version = 0
       \/ \E v \in 0..CurrentVersion:
            exists = TRUE /\ version = v /\ cols = UNION {ColumnsOf(u): u \in 1..v}
    /\ backups = {} /\ pc = "closed" /\ target = 0 /\ todo = <<>> /\ before = cols /\ starts = 0

\* executescript(SCHEMA_SQL) creates what is missing, with every column; then
\* the pending migrations are looked up and, for a file that was there, the
\* backup is tried.
ApplySchema ==
    /\ pc = "closed" /\ starts < MaxStarts
    /\ starts' = starts + 1
    /\ exists' = TRUE
    /\ cols' = IF exists THEN cols ELSE AllColumns
    /\ IF version = CurrentVersion THEN pc' = "open" /\ backups' = backups
       ELSE /\ pc' = "migrate"
            /\ backups' \in {backups, IF exists THEN backups \cup {version} ELSE backups}
    /\ UNCHANGED <<version, target, todo, before>>

\* The next pending migration reads table_info.
BeginMigration ==
    /\ pc = "migrate" /\ version < CurrentVersion
    /\ target' = version + 1
    /\ todo' = SelectSeq(Columns[version + 1], LAMBDA c: c \notin cols)
    /\ before' = cols
    /\ pc' = "alter"
    /\ UNCHANGED <<exists, cols, version, backups, starts>>

\* One ALTER TABLE, committed by itself.
AlterTable ==
    /\ pc = "alter" /\ todo # <<>>
    /\ cols' = cols \cup {Head(todo)} /\ todo' = Tail(todo)
    /\ UNCHANGED <<exists, version, backups, pc, target, before, starts>>

\* PRAGMA user_version, after the last column.
StampVersion ==
    /\ pc = "alter" /\ todo = <<>>
    /\ version' = target
    /\ pc' = IF version' = CurrentVersion THEN "check" ELSE "migrate"
    /\ UNCHANGED <<exists, cols, backups, target, todo, before, starts>>

\* A statement of the migration raises: rollback, then MigrationError.
MigrationFails ==
    /\ pc = "alter"
    /\ pc' = "failed"
    /\ UNCHANGED <<exists, cols, version, backups, target, todo, before, starts>>

\* PRAGMA integrity_check, then the indexes.
CheckIntegrity ==
    /\ pc = "check"
    /\ pc' \in {"open", "damaged"}
    /\ UNCHANGED <<exists, cols, version, backups, target, todo, before, starts>>

\* The program ends, at any point.
Stop ==
    /\ pc # "closed"
    /\ pc' = "closed" /\ todo' = <<>>
    /\ UNCHANGED <<exists, cols, version, backups, target, before, starts>>

Next ==
    \/ ApplySchema \/ BeginMigration \/ AlterTable \/ StampVersion
    \/ MigrationFails \/ CheckIntegrity \/ Stop

Spec == Init /\ [][Next]_vars
-----------------------------------------------------------------------------
\* The docstring of MigrationError: when a migration fails, its own ALTER
\* TABLEs are rolled back and the database is as it was before the attempt.
FailureLeavesNoTrace == pc = "failed" => cols = before
=============================================================================
