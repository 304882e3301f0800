---------------------------- MODULE FileStorage -----------------------------
(***************************************************************************)
(* FileStorage (storages/file-storage/src): a table t is the file t.sql    *)
(* with its schema and format version, and the directory t with one file   *)
(* per row.  The calls of Store read a disk; the calls of StoreMut and the *)
(* migration from format 1 to format 2 are programs for the file system.   *)
(***************************************************************************)
EXTENDS TableSchema, FileSystem

LOCAL INSTANCE SequencesExt
LOCAL INSTANCE FiniteSetsExt

SqlPath(t) == Path(t, "sql")

DirPath(t) == Path(t, "dir")

\* The contents of a schema file: the version is 1 when the header with the
\* version is missing.
SchemaFile(version, schema) == [version |-> version, schema |-> schema]

\* The contents of a row file, in one of the two formats.
FileRow(format, key, row) == [format |-> format, key |-> key, row |-> row]

------------------------------------------------------------------------------
(* Store                                                                    *)

TableNames(d) ==
  {t \in {p.table : p \in DOMAIN d} : Exists(d, SqlPath(t))}

\* The engine is not part of the DDL text.
FetchSchema(d, t) == [d[SqlPath(t)].schema EXCEPT !.engine = NoEngine]

\* The .ron files of the directory; temporary and backup files are passed over.
RowPaths(d, t) ==
  {p \in DOMAIN d : p.table = t /\ p.file = "row" /\ p.copy = "no"}

\* The file names are the keys, encoded so that they sort like them.
InOrder(paths) == SetToSortSeq(paths, LAMBDA p, q : p.key < q.key)

IsRow(d, p) == d[p] # Torn /\ d[p].format = 2

ScanData(d, t) ==
  LET paths == InOrder(RowPaths(d, t))
  IN  IF ~Exists(d, DirPath(t)) \/ \E p \in RowPaths(d, t) : ~IsRow(d, p)
      THEN Failed
      ELSE [n \in 1..Len(paths) |->
              [key |-> d[paths[n]].key, row |-> d[paths[n]].row]]

FetchData(d, t, key) ==
  IF ~Exists(d, RowPath(t, key)) THEN NoRow
  ELSE IF IsRow(d, RowPath(t, key)) THEN d[RowPath(t, key)].row ELSE Failed

------------------------------------------------------------------------------
(* StoreMut, as programs                                                    *)


\* write_file_atomically: a complete copy of the new or of the old content is
\* on disk at every point, though not always under the path.
WriteAtomically(d, path, content) ==
  LET aside   == OnFailure(Rename(path, Backup(path)), <<Ignored(Unlink(Temp(path)))>>)
      restore == IF Exists(d, path) THEN <<Rename(Backup(path), path)>> ELSE <<>>
      replace == OnFailure(Rename(Temp(path), path),
                           <<Ignored(Unlink(Temp(path)))>> \o restore)
  IN  <<Create(Temp(path)), Write(Temp(path), content)>>
      \o (IF Exists(d, path) THEN <<aside>> ELSE <<>>)
      \o <<replace>>
      \o (IF Exists(d, path) THEN <<Ignored(Unlink(Backup(path)))>> ELSE <<>>)

\* write_schema_file
WriteSchemaFile(d, t, schema) ==
  WriteAtomically(d, SqlPath(t), SchemaFile(2, schema))

InsertSchemaProgram(d, t, schema) ==
  (IF Exists(d, DirPath(t)) THEN <<>> ELSE <<Write(DirPath(t), "dir")>>)
  \o WriteSchemaFile(d, t, schema)

\* remove_dir_all removes the entries of the directory one by one.
DeleteSchemaProgram(d, t) ==
  LET entries == {p \in DOMAIN d : p.table = t /\ p.file = "row"}
      removes == [n \in 1..Cardinality(entries) |-> Unlink(SetToSeq(entries)[n])]
  IN  IF ~Exists(d, DirPath(t)) THEN <<>>
      ELSE removes \o <<Unlink(DirPath(t)), Unlink(SqlPath(t))>>

\* Every row file is written in place, one after the other.
InsertDataProgram(d, t, entries) ==
  FlattenSeq([n \in 1..Len(entries) |->
    <<Create(RowPath(t, entries[n].key)),
      Write(RowPath(t, entries[n].key), FileRow(2, entries[n].key, entries[n].row))>>])

\* A new key, Uuid::now_v7: larger than all keys given before.
NewKey(d, t) == 1 + Max({0} \cup {p.key : p \in RowPaths(d, t)})

AppendDataProgram(d, t, rows) ==
  InsertDataProgram(d, t, [n \in 1..Len(rows) |->
    [key |-> NewKey(d, t) + n - 1, row |-> rows[n]]])

DeleteDataProgram(d, t, keys) ==
  LET order == SetToSortSeq(keys, <)
  IN  [n \in 1..Len(order) |-> Unlink(RowPath(t, order[n]))]

------------------------------------------------------------------------------
(* Opening and migration                                                    *)

\* FileStorage::new: refused unless every schema file has the version 2.
CanOpen(d) ==
  \A t \in TableNames(d) : d[SqlPath(t)].version = 2

\* migrate_rows: the rows in format 1 are rewritten, those in format 2 kept.
MigrateRows(d, t) ==
  LET old == InOrder({p \in RowPaths(d, t) : d[p].format = 1})
  IN  FlattenSeq([n \in 1..Len(old) |->
        WriteAtomically(d, old[n], FileRow(2, d[old[n]].key, d[old[n]].row))])

\* Fault: the schema gets its version before the rows are rewritten.
MigrateTableSchemaFirst(d, t) ==
  WriteSchemaFile(d, t, d[SqlPath(t)].schema) \o MigrateRows(d, t)

MigrateTable(d, t) ==
  MigrateRows(d, t) \o WriteSchemaFile(d, t, d[SqlPath(t)].schema)

\* migrate_to_latest, table by table; a row file that is not complete stops it.
MigrateProgram(d) ==
  LET old == SetToSeq({t \in TableNames(d) : d[SqlPath(t)].version = 1})
  IN  FlattenSeq([n \in 1..Len(old) |-> MigrateTable(d, old[n])])

------------------------------------------------------------------------------
(* The calls as functions of the disk, when nothing goes wrong              *)

Empty == <<>>

Within(d) == TRUE

Settings(d) == {}

InsertSchema(d, t, schema) == Run(d, InsertSchemaProgram(d, t, schema))

DeleteSchema(d, t) == Run(d, DeleteSchemaProgram(d, t))

AppendData(d, t, rows) == Run(d, AppendDataProgram(d, t, rows))

InsertData(d, t, entries) == Run(d, InsertDataProgram(d, t, entries))

DeleteData(d, t, keys) == Run(d, DeleteDataProgram(d, t, keys))

DefaultAlter == INSTANCE AlterTable
                  WITH table_names <- TableNames, fetch_schema <- FetchSchema,
                       scan_data <- ScanData, insert_schema <- InsertSchema,
                       insert_data <- InsertData, delete_schema <- DeleteSchema

(***************************************************************************)
(* GitStorage (storages/git-storage/src) over a base storage: each call is *)
(* the program of the base storage, then `git add .` and `git commit`.     *)
(* The base is FileStorage here; the wrapper is the same for all of them.  *)
(* git and its repository are outside: `git add .` puts the files, not the *)
(* directories, into the index and a commit makes the index the head.      *)
(***************************************************************************)

Add == Operation("add", Path("", "index"), Path("", "index"), Torn)

Commit == Operation("commit", Path("", "head"), Path("", "head"), Torn)

\* add_and_commit; --allow-empty lets a commit without changes succeed.
AddAndCommit == <<Add, Commit>>

\* A repository: what is in the index and in the last commit.
EmptyRepository == [index |-> <<>>, head |-> <<>>]

Tracked(d) == [p \in {q \in DOMAIN d : q.file # "dir"} |-> d[p]]

Recorded(repository, d, operation) ==
  CASE operation.do = "add"    -> [repository EXCEPT !.index = Tracked(d)]
    [] operation.do = "commit" -> [repository EXCEPT !.head = repository.index]
    [] OTHER                   -> repository

GitInsertSchemaProgram(d, t, schema) == InsertSchemaProgram(d, t, schema) \o AddAndCommit

\* Fault: DROP TABLE is not committed.
GitDeleteSchemaNoCommit(d, t) == DeleteSchemaProgram(d, t)

GitDeleteSchemaProgram(d, t) == DeleteSchemaProgram(d, t) \o AddAndCommit

\* The calls that change rows return at once when there are none.
GitAppendDataProgram(d, t, rows) ==
  IF rows = <<>> THEN <<>> ELSE AppendDataProgram(d, t, rows) \o AddAndCommit

GitInsertDataProgram(d, t, entries) ==
  IF entries = <<>> THEN <<>> ELSE InsertDataProgram(d, t, entries) \o AddAndCommit

GitDeleteDataProgram(d, t, keys) ==
  IF keys = {} THEN <<>> ELSE DeleteDataProgram(d, t, keys) \o AddAndCommit
=============================================================================
