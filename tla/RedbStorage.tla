---------------------------- MODULE RedbStorage -----------------------------
(***************************************************************************)
(* migrate_to_latest of SledStorage and RedbStorage (their migration.rs    *)
(* and migration/): the rows of format 1 are rewritten in format 2, then   *)
(* the version is recorded; a database opens only at the latest version.   *)
(* A database is a function like a disk: one path per row, one for the     *)
(* version and, for redb, one for the format of redb's own file.           *)
(* A crash loses the writes to sled since its last flush; since they are   *)
(* lost from the end, that is a crash some operations earlier.             *)
(***************************************************************************)
EXTENDS FileSystem, FiniteSets, TableSchema

LOCAL INSTANCE SequencesExt
LOCAL INSTANCE FiniteSetsExt

CONSTANT BatchSize   \* ROW_REWRITE_BATCH_SIZE

VersionPath == Path("", "version")

FileFormatPath == Path("", "file format")

DbRow(format, row) == [format |-> format, row |-> row]

RowPaths(d) == {p \in DOMAIN d : p.file = "row"}

\* detect_storage_format_version: without a recorded version it is 1.
Version(d) == IF Exists(d, VersionPath) THEN d[VersionPath] ELSE 1

\* ensure_storage_format_version_supported
SledCanOpen(d) == Version(d) = 2

RedbCanOpen(d) == Version(d) = 3

\* migrate_tree: every row is read, then every row is written and flushed.
SledMigrateTree(d) ==
  LET rows == SetToSeq(RowPaths(d))
  IN  [n \in 1..Len(rows) |-> Write(rows[n], DbRow(2, d[rows[n]].row))]

\* migrate_tree_to_latest
SledMigrateProgram(d) ==
  IF Version(d) = 1 THEN SledMigrateTree(d) \o <<Write(VersionPath, 2)>> ELSE <<>>

\* Fault: a full batch is taken for the last one.
CollectOnlyBatch(d, t, last) ==
  LET old   == {p \in RowPaths(d) : p.table = t /\ p.key > last /\ d[p].format = 1}
      order == SetToSortSeq(old, LAMBDA p, q : p.key < q.key)
  IN  [rows |-> ToSet(SubSeq(order, 1, Min({BatchSize, Len(order)}))), last |-> last, reached_end |-> TRUE]

\* collect_rewrite_batch: the rows of the table after the key `last` that are
\* in format 1, at most BatchSize of them.
CollectRewriteBatch(d, t, last) ==
  LET old   == {p \in RowPaths(d) : p.table = t /\ p.key > last /\ d[p].format = 1}
      order == SetToSortSeq(old, LAMBDA p, q : p.key < q.key)
      full  == Len(order) >= BatchSize
  IN  [rows |-> ToSet(SubSeq(order, 1, Min({BatchSize, Len(order)}))),
       last |-> IF full THEN order[BatchSize].key ELSE last,
       reached_end |-> ~full]

\* migrate_table_rows: batch after batch.
MigrateTableRows(d, t) ==
  LET Keys == {0} \cup {p.key : p \in RowPaths(d)}
      rewritten[last \in Keys] ==
        LET batch == CollectRewriteBatch(d, t, last)
        IN  batch.rows \cup IF batch.reached_end THEN {} ELSE rewritten[batch.last]
  IN  rewritten[0]

\* Phase 1 is one write transaction over all tables.
Rewritten(d) ==
  LET paths == UNION {MigrateTableRows(d, t) : t \in {p.table : p \in RowPaths(d)}}
  IN  [p \in DOMAIN d |-> IF p \in paths THEN DbRow(2, d[p].row) ELSE d[p]]

\* Fault: the version is not recorded.
RedbMigrateNoVersion(d) ==
  IF Version(d) = 1 THEN <<Install(Rewritten(d)), Write(FileFormatPath, 3)>> ELSE <<>>

\* migrate_database_to_latest: rows, redb's file format, version.
RedbMigrateProgram(d) ==
  (IF Version(d) = 1 THEN <<Install(Rewritten(d))>> ELSE <<>>)
  \o (IF Version(d) \in {1, 2}
      THEN <<Write(FileFormatPath, 3), Write(VersionPath, 3)>> ELSE <<>>)

(***************************************************************************)
(* RedbStorage (storages/redb-storage/src): a database file with one redb  *)
(* table of schemas and one redb table per table.  All calls of StoreMut   *)
(* work on the one write transaction the storage holds, whose copy of the  *)
(* database (`data`) replaces the file's content when it is committed.     *)
(* Executing a statement opens such a transaction for the statement alone  *)
(* unless BEGIN has opened one.                                            *)
(***************************************************************************)

\* TransactionState::None
NoTxn == [active |-> FALSE, autocommit |-> FALSE, data |-> <<>>]

Active(data, autocommit) == [active |-> TRUE, autocommit |-> autocommit, data |-> data]

SchemaPath(t) == Path(t, "schema")

TablePath(t) == Path(t, "redb table")

\* new: a file that is not there is created in redb's latest file format,
\* then the version is recorded.
NewProgram(d) ==
  IF d = <<>> THEN <<Write(FileFormatPath, 3), Write(VersionPath, 3)>> ELSE <<>>

------------------------------------------------------------------------------
(* Store                                                                    *)

\* The database a scan sees: the copy of a transaction that BEGIN opened, or
\* the file.  fetch_schema and fetch_data look into the copy of an autocommit
\* statement too, which is still the file's content then: the calls read
\* before they write.
View(d, txn) == IF txn.active /\ ~txn.autocommit THEN txn.data ELSE d

TableNames(d) == {t \in {p.table : p \in DOMAIN d} : Exists(d, SchemaPath(t))}

FetchSchema(d, t) == d[SchemaPath(t)]

RowsOf(d, t) == {p \in RowPaths(d) : p.table = t}

\* In the order of the keys; a redb table that is not there is an error.
ScanData(d, t) ==
  LET paths == SetToSortSeq(RowsOf(d, t), LAMBDA p, q : p.key < q.key)
  IN  IF ~Exists(d, TablePath(t)) THEN Failed
      ELSE [n \in 1..Len(paths) |-> [key |-> paths[n].key, row |-> d[paths[n]].row]]

FetchData(d, t, key) ==
  IF Exists(d, RowPath(t, key)) THEN d[RowPath(t, key)].row ELSE NoRow

------------------------------------------------------------------------------
(* StoreMut, as programs on the transaction's copy                          *)

\* The redb table of the rows is created when it is not there, and kept when
\* it is.
InsertSchemaProgram(d, t, schema) ==
  <<Write(SchemaPath(t), schema), Write(TablePath(t), "table")>>

DeleteSchemaProgram(d, t) ==
  <<Unlink(SchemaPath(t)), Install([p \in {q \in DOMAIN d : q.table # t} |-> d[p]])>>

InsertDataProgram(d, t, entries) ==
  [n \in 1..Len(entries) |-> Write(RowPath(t, entries[n].key), DbRow(2, entries[n].row))]

\* Uuid::now_v7: larger than those before.
NewKey(d, t) == 1 + Max({0} \cup {p.key : p \in RowsOf(d, t)})

AppendDataProgram(d, t, rows) ==
  [n \in 1..Len(rows) |-> Write(RowPath(t, NewKey(d, t) + n - 1), DbRow(2, rows[n]))]

DeleteDataProgram(d, t, keys) ==
  LET found == SetToSeq({p \in RowsOf(d, t) : p.key \in keys})
  IN  [n \in 1..Len(found) |-> Unlink(found[n])]

------------------------------------------------------------------------------
(* Transaction                                                              *)

Transaction(do) == Operation(do, Path("", "transaction"), Path("", "transaction"), Torn)

\* begin(false); inside a transaction it is NestedTransactionNotSupported.
BeginProgram(txn) == IF txn.active THEN <<Refuse>> ELSE <<Transaction("begin txn")>>

\* commit and rollback take the transaction if there is one.
CommitProgram(txn) == IF txn.active THEN <<Transaction("commit txn")>> ELSE <<>>

RollbackProgram(txn) == IF txn.active THEN <<Transaction("abort txn")>> ELSE <<>>

\* Fault: begin(true) says that the statement may commit, whoever began.
ExecuteAndCommit(txn, program) ==
  (IF txn.active THEN <<>> ELSE <<Transaction("begin statement")>>)
  \o [n \in 1..Len(program) |-> OnFailure(program[n], <<Transaction("abort txn")>>)]
  \o <<Transaction("commit txn")>>

\* A statement as execute runs it: begin(true) opens a transaction or says that
\* there is one; only the one it opened is committed, or aborted on an error.
Execute(txn, program) ==
  IF txn.active THEN program
  ELSE <<Transaction("begin statement")>>
       \o [n \in 1..Len(program) |-> OnFailure(program[n], <<Transaction("abort txn")>>)]
       \o <<Transaction("commit txn")>>

\* The transaction and the file after the operation.
TxnAfter(d, txn, operation) ==
  CASE operation.do = "begin txn"             -> Active(d, FALSE)
    [] operation.do = "begin statement"   -> Active(d, TRUE)
    [] operation.do \in {"commit txn", "abort txn"} -> NoTxn
    [] txn.active -> [txn EXCEPT !.data = Applied(@, operation)]
    [] OTHER -> NoTxn

DatabaseAfter(d, txn, operation) ==
  CASE operation.do = "commit txn" -> txn.data
    [] txn.active              -> d
    [] OTHER                   -> Applied(d, operation)

\* take_txn: a commit or an abort that fails has given the transaction up.
TxnAfterFailure(txn, operation) ==
  IF operation.do \in {"commit txn", "abort txn"} THEN NoTxn ELSE txn
=============================================================================
