---------------------------- MODULE StorageCalls ----------------------------
(***************************************************************************)
(* One client calls StoreMut and AlterTable of a storage that keeps its    *)
(* tables on a disk or a server, one operation of the call's program at a  *)
(* time.  An operation may fail, and the process (or the connection) may   *)
(* die between two operations; the next call then meets what is left.      *)
(* `kind` is the storage: one text is checked for all of them.             *)
(***************************************************************************)
EXTENDS TableSchema, FileSystem

LOCAL INSTANCE SequencesExt
LOCAL INSTANCE FiniteSetsExt

CONSTANTS Kind,       \* the storages
          Table,      \* table names
          KeyedTable, \* those that are created with a primary key;
                      \* they are renamed to the names of the others
          MaxRows,    \* rows of all tables
          MaxRedbRows, MaxRedbTables, \* the same for redb, and its tables:
                      \* transactions square the number of its states
          MaxKey,     \* primary keys, and keys given by the storages
          MaxFaults,  \* failures and crashes of a behaviour
          NullText,
          BatchSize   \* rows of a batch of redb's migration

VARIABLES kind,       \* the storage
          disk,       \* what it has written
          txn,        \* the write transaction redb holds
          client,     \* what the client of redb was told: whether it is in a
                      \* transaction, and what is committed
          repository, \* the git repository around it
          todo,       \* the operations the call in progress has left
          call,       \* the last call
          before,     \* the tables when it began
          status,     \* "idle", "running", "failing", "done", "failed" or "died"
          faults      \* how many operations failed or calls died

vars == <<kind, disk, txn, client, repository, todo, call, before, status, faults>>

File == INSTANCE FileStorage
Csv == INSTANCE CsvStorage
Parquet == INSTANCE ParquetStorage
Redis == INSTANCE RedisStorage
Mongo == INSTANCE MongoStorage
Redb == INSTANCE RedbStorage

\* The storages whose tables have no columns in this model: rows are maps.
IsMap(k) == k = "CSVMAP"

\* A new file of redb, and a database of an earlier version, which is only
\* migrated here; so is a database of sled.
IsRedb(k) == k \in {"REDB", "OLDREDB"}

OnlyMigrated == {"SLED", "OLDREDB"}

TableNames(k, d) ==
  CASE k \in {"FILE", "GIT"}   -> File!TableNames(d)
    [] k \in {"CSV", "CSVMAP"} -> Csv!TableNames(d)
    [] k = "PARQUET"           -> Parquet!TableNames(d)
    [] k = "REDIS"             -> Redis!TableNames(d)
    [] k = "MONGO"             -> Mongo!TableNames(d)
    [] k = "REDB"              -> Redb!TableNames(d)

FetchSchema(k, d, t) ==
  CASE k \in {"FILE", "GIT"}   -> File!FetchSchema(d, t)
    [] k \in {"CSV", "CSVMAP"} -> Csv!FetchSchema(d, t)
    [] k = "PARQUET"           -> Parquet!FetchSchema(d, t)
    [] k = "REDIS"             -> Redis!FetchSchema(d, t)
    [] k = "MONGO"             -> Mongo!FetchSchema(d, t)
    [] k = "REDB"              -> Redb!FetchSchema(d, t)

ScanData(k, d, t) ==
  CASE k \in {"FILE", "GIT"}   -> File!ScanData(d, t)
    [] k \in {"CSV", "CSVMAP"} -> Csv!ScanData(d, t)
    [] k = "PARQUET"           -> Parquet!ScanData(d, t)
    [] k = "REDIS"             -> Redis!ScanData(d, t)
    [] k = "MONGO"             -> Mongo!ScanData(d, t)
    [] k = "REDB"              -> Redb!ScanData(d, t)

FetchData(k, d, t, key) ==
  CASE k \in {"FILE", "GIT"}   -> File!FetchData(d, t, key)
    [] k \in {"CSV", "CSVMAP"} -> Csv!FetchData(d, t, key)
    [] k = "PARQUET"           -> Parquet!FetchData(d, t, key)
    [] k = "REDIS"             -> Redis!FetchData(d, t, key)
    [] k = "MONGO"             -> Mongo!FetchData(d, t, key)
    [] k = "REDB"              -> Redb!FetchData(d, t, key)

\* fetch_all_schemas
ListsSchemas(k, d) ==
  CASE k \in {"CSV", "CSVMAP"} -> Csv!ListsSchemas(d)
    [] k = "PARQUET"           -> Parquet!ListsSchemas(d)
    [] OTHER                   -> \A t \in TableNames(k, d) : FetchSchema(k, d, t) # Failed

InsertSchemaProgram(k, d, t, schema) ==
  CASE k = "FILE"              -> File!InsertSchemaProgram(d, t, schema)
    [] k = "GIT"               -> File!GitInsertSchemaProgram(d, t, schema)
    [] k \in {"CSV", "CSVMAP"} -> Csv!InsertSchemaProgram(d, t, schema)
    [] k = "PARQUET"           -> Parquet!InsertSchemaProgram(d, t, schema)
    [] k = "REDIS"             -> Redis!InsertSchemaProgram(d, t, schema)
    [] k = "MONGO"             -> Mongo!InsertSchemaProgram(d, t, schema)
    [] k = "REDB"              -> Redb!InsertSchemaProgram(d, t, schema)

DeleteSchemaProgram(k, d, t) ==
  CASE k = "FILE"              -> File!DeleteSchemaProgram(d, t)
    [] k = "GIT"               -> File!GitDeleteSchemaProgram(d, t)
    [] k \in {"CSV", "CSVMAP"} -> Csv!DeleteSchemaProgram(d, t)
    [] k = "PARQUET"           -> Parquet!DeleteSchemaProgram(d, t)
    [] k = "REDIS"             -> Redis!DeleteSchemaProgram(d, t)
    [] k = "MONGO"             -> Mongo!DeleteSchemaProgram(d, t)
    [] k = "REDB"              -> Redb!DeleteSchemaProgram(d, t)

AppendDataProgram(k, d, t, rows) ==
  CASE k = "FILE"              -> File!AppendDataProgram(d, t, rows)
    [] k = "GIT"               -> File!GitAppendDataProgram(d, t, rows)
    [] k \in {"CSV", "CSVMAP"} -> Csv!AppendDataProgram(d, t, rows)
    [] k = "PARQUET"           -> Parquet!AppendDataProgram(d, t, rows)
    [] k = "REDIS"             -> Redis!AppendDataProgram(d, t, rows)
    [] k = "MONGO"             -> Mongo!AppendDataProgram(d, t, rows)
    [] k = "REDB"              -> Redb!AppendDataProgram(d, t, rows)

InsertDataProgram(k, d, t, entries) ==
  CASE k = "FILE"              -> File!InsertDataProgram(d, t, entries)
    [] k = "GIT"               -> File!GitInsertDataProgram(d, t, entries)
    [] k \in {"CSV", "CSVMAP"} -> Csv!InsertDataProgram(d, t, entries)
    [] k = "PARQUET"           -> Parquet!InsertDataProgram(d, t, entries)
    [] k = "REDIS"             -> Redis!InsertDataProgram(d, t, entries)
    [] k = "MONGO"             -> Mongo!InsertDataProgram(d, t, entries)
    [] k = "REDB"              -> Redb!InsertDataProgram(d, t, entries)

DeleteDataProgram(k, d, t, keys) ==
  CASE k = "FILE"              -> File!DeleteDataProgram(d, t, keys)
    [] k = "GIT"               -> File!GitDeleteDataProgram(d, t, keys)
    [] k \in {"CSV", "CSVMAP"} -> Csv!DeleteDataProgram(d, t, keys)
    [] k = "PARQUET"           -> Parquet!DeleteDataProgram(d, t, keys)
    [] k = "REDIS"             -> Redis!DeleteDataProgram(d, t, keys)
    [] k = "MONGO"             -> Mongo!DeleteDataProgram(d, t, keys)
    [] k = "REDB"              -> Redb!DeleteDataProgram(d, t, keys)

\* rename_schema: the provided method, and Redis's own.
RenameSchemaProgram(k, d, t, new) ==
  LET create == InsertSchemaProgram(k, d, new, FetchSchema(k, d, t))
      rows   == InsertDataProgram(k, Run(d, create), new, ScanData(k, d, t))
      moved  == Run(d, create \o rows)
  IN  IF k = "REDIS" THEN Redis!RenameSchemaProgram(d, t, new)
      ELSE create \o rows \o DeleteSchemaProgram(k, moved, t)

\* rename_column
RenameColumnProgram(k, d, t, name) ==
  LET create == InsertSchemaProgram(k, d, t, RenamedColumn(FetchSchema(k, d, t), 2, name))
  IN  IF k = "REDIS" THEN Redis!RenameColumnProgram(d, t, 2, name)
      ELSE create \o InsertDataProgram(k, Run(d, create), t, ScanData(k, d, t))

------------------------------------------------------------------------------
(* The calls                                                                *)

Keyed == Schema(<<ColumnDef("id", "primary", FALSE, NoDefault),
                  ColumnDef("v", "no", TRUE, NoDefault)>>, <<>>, NoEngine)

Unkeyed == Schema(<<ColumnDef("w", "no", TRUE, NoDefault),
                    ColumnDef("v", "no", TRUE, NoDefault)>>, <<>>, NoEngine)

NoColumns == Schema(<<>>, <<>>, NoEngine)

\* The schema a client gives the table.
SchemaOf(k, t) ==
  IF IsMap(k) THEN NoColumns ELSE IF t \in KeyedTable THEN Keyed ELSE Unkeyed

\* The row with this first value and NULLs.
NewRow(schema, v) == [i \in 1..Len(schema.columns) |-> IF i = 1 THEN v ELSE Null]

\* The rows a client inserts; UPDATE gives them the value 1.
Rows(schema) ==
  IF schema.columns = <<>>
  THEN {<<"a" :> Null>>, <<"a" :> 1 @@ "b" :> 1>>}
  ELSE IF HasPrimaryKey(schema)
  THEN {NewRow(schema, id) : id \in 1..IF kind = "REDB" THEN MaxRedbRows ELSE MaxKey}
  ELSE {NewRow(schema, 1)}

\* The database is at the version this program reads.
Opened(k, d) ==
  CASE k = "FILE" -> File!CanOpen(d)
    [] k = "SLED" -> Redb!SledCanOpen(d)
    [] IsRedb(k)  -> d = <<>> \/ Redb!RedbCanOpen(d)
    [] OTHER      -> TRUE

\* The executor has read the schema and, to change rows, the rows.
Readable(k, d, t) ==
  /\ t \in TableNames(k, d)
  /\ FetchSchema(k, d, t) # Failed
  /\ ScanData(k, d, t) # Failed

\* The tables as a call sees them.
View == Redb!View(disk, txn)

Waiting == status = "idle"

InProgress == status \in {"running", "failing"}

\* The call, and how many faults there were before it.
Call(name, t, to, keys, rows) ==
  [name |-> name, table |-> t, to |-> to, keys |-> keys, rows |-> rows,
   faults |-> faults]

NoCall ==
  [name |-> "none", table |-> "", to |-> "", keys |-> {}, rows |-> <<>>, faults |-> 0]

Begin(c, program) ==
  /\ call' = c
  /\ before' = View
  /\ todo' = program
  /\ status' = IF program = <<>> THEN "done" ELSE "running"
  /\ UNCHANGED <<kind, disk, txn, client, repository, faults>>

\* A statement: the calls of the executor, in a transaction where there are any.
Execute(c, program) ==
  Begin(c, IF kind = "REDB" THEN Redb!Execute(txn, program) ELSE program)

CanCall ==
  /\ Waiting /\ kind \notin OnlyMigrated /\ Opened(kind, disk)
  /\ kind = "REDB" => disk # <<>>

\* One table without columns is enough, and one in a repository.
CreateTable(t) ==
  /\ CanCall /\ t \notin TableNames(kind, View)
  /\ IsMap(kind) \/ kind = "GIT" => t \in KeyedTable
  /\ kind = "REDB" => Cardinality(TableNames(kind, View)) < MaxRedbTables
  /\ Execute(Call("create", t, t, {}, <<>>),
             InsertSchemaProgram(kind, View, t, SchemaOf(kind, t)))

DropTable(t) ==
  /\ CanCall /\ t \in TableNames(kind, View)
  /\ Execute(Call("drop", t, t, {}, <<>>), DeleteSchemaProgram(kind, View, t))

\* The rows of all tables, for the bound on them.
RowCount ==
  LET readable == {t \in Table : Readable(kind, View, t)}
  IN  SumFunction([t \in readable |-> Len(ScanData(kind, View, t))])

\* INSERT: append_data, or insert_data when the table has a primary key.
Insert(t) ==
  /\ CanCall /\ Readable(kind, View, t)
  /\ RowCount < IF kind = "REDB" THEN MaxRedbRows ELSE MaxRows
  /\ LET schema == FetchSchema(kind, View, t)
         taken  == {e.key : e \in ToSet(ScanData(kind, View, t))}
     IN  \E row \in Rows(schema) :
           IF HasPrimaryKey(schema)
           THEN /\ row[1] \notin taken
                /\ Execute(Call("insert", t, t, {row[1]}, <<row>>),
                           InsertDataProgram(kind, View, t, <<[key |-> row[1], row |-> row]>>))
           ELSE LET program == AppendDataProgram(kind, View, t, <<row>>)
                    given   == {o.path.key : o \in ToSet(program)} \ {0}
                IN  /\ given \subseteq 1..MaxKey
                    /\ Execute(Call("append", t, t, given, <<row>>), program)

\* UPDATE: the rows whose keys the scan gave, with the last value replaced.
Update(t) ==
  /\ CanCall /\ Readable(kind, View, t)
  /\ LET entries == ScanData(kind, View, t)
         Set(row, v) == IF IsMap(kind) THEN <<("a" :> v) @@ row[1]>> ELSE [row EXCEPT ![2] = v]
     IN  \E keys \in SUBSET {e.key : e \in ToSet(entries)} :
           LET chosen  == SelectSeq(entries, LAMBDA e : e.key \in keys)
               changed == [n \in 1..Len(chosen) |->
                             [key |-> chosen[n].key, row |-> Set(chosen[n].row, 1)]]
           IN  Execute(Call("insert", t, t, keys, [n \in 1..Len(changed) |-> changed[n].row]),
                       InsertDataProgram(kind, View, t, changed))

Delete(t) ==
  /\ CanCall /\ Readable(kind, View, t)
  /\ \E keys \in SUBSET {e.key : e \in ToSet(ScanData(kind, View, t))} :
       Execute(Call("delete", t, t, keys, <<>>), DeleteDataProgram(kind, View, t, keys))

\* ALTER TABLE ... RENAME TO, with a name that is free.
RenameTable(t, new) ==
  /\ CanCall /\ ~IsMap(kind) /\ Readable(kind, View, t) /\ new \notin TableNames(kind, View)
  /\ Execute(Call("rename", t, new, {}, <<>>), RenameSchemaProgram(kind, View, t, new))

\* One change of the columns at a time.
Unaltered(schema) == ColumnNames(schema) \cap {"x", "y"} = {}

RenameColumn(t, name) ==
  /\ CanCall /\ ~IsMap(kind) /\ Readable(kind, View, t)
  /\ Unaltered(FetchSchema(kind, View, t))
  /\ Execute(Call("rename_column", t, t, {}, <<>>), RenameColumnProgram(kind, View, t, name))

\* Redis has methods of its own for these; the provided ones of the others
\* call insert_schema and insert_data as rename_column does.
AddColumn(t) ==
  /\ CanCall /\ kind = "REDIS" /\ Readable(kind, View, t)
  /\ FetchSchema(kind, View, t).columns = Unkeyed.columns
  /\ Execute(Call("add_column", t, t, {}, <<>>),
             Redis!AddColumnProgram(View, t, ColumnDef("y", "no", TRUE, NoDefault), Null))

DropColumn(t) ==
  /\ CanCall /\ kind = "REDIS" /\ Readable(kind, View, t)
  /\ "y" \in ColumnNames(FetchSchema(kind, View, t))
  /\ Execute(Call("drop_column", t, t, {}, <<>>),
             Redis!DropColumnProgram(View, t, Position(FetchSchema(kind, View, t), "y")))

\* BEGIN, COMMIT and ROLLBACK, and a process that opens a file that is not there.
BeginTransaction ==
  /\ CanCall /\ kind = "REDB"
  /\ Begin(Call("begin", "", "", {}, <<>>), Redb!BeginProgram(txn))

CommitTransaction ==
  /\ CanCall /\ kind = "REDB"
  /\ Begin(Call("commit", "", "", {}, <<>>), Redb!CommitProgram(txn))

RollbackTransaction ==
  /\ CanCall /\ kind = "REDB"
  /\ Begin(Call("rollback", "", "", {}, <<>>), Redb!RollbackProgram(txn))

Open ==
  /\ Waiting /\ kind = "REDB" /\ disk = <<>>
  /\ Begin(Call("open", "", "", {}, <<>>), Redb!NewProgram(disk))

\* `gluesql upgrade`: migrate_to_latest, on a database no process has open.
Migrate ==
  /\ Waiting /\ kind \in {"FILE", "SLED", "REDB", "OLDREDB"}
  /\ IsRedb(kind) => disk # <<>> /\ ~txn.active
  /\ Begin(Call("migrate", "", "", {}, <<>>),
           CASE kind = "FILE" -> File!MigrateProgram(disk)
             [] kind = "SLED" -> Redb!SledMigrateProgram(disk)
             [] IsRedb(kind)  -> Redb!RedbMigrateProgram(disk))

------------------------------------------------------------------------------
(* The call in progress                                                     *)

Rest(operations, ended) ==
  /\ todo' = operations
  /\ status' = IF operations = <<>> THEN ended ELSE status

\* The next operation is done.
Step ==
  /\ InProgress /\ Head(todo).do # "refuse"
  /\ disk' = Redb!DatabaseAfter(disk, txn, Head(todo))
  /\ txn' = Redb!TxnAfter(disk, txn, Head(todo))
  /\ repository' = File!Recorded(repository, disk, Head(todo))
  /\ Rest(Tail(todo), IF status = "running" THEN "done" ELSE "failed")
  /\ UNCHANGED <<kind, client, call, before, faults>>

\* The next operation fails (a Refuse always does).  An ignored failure is not seen; after another
\* the code undoes what it undoes and returns the error.
Fail ==
  /\ InProgress
  /\ IF Head(todo).do = "refuse" THEN UNCHANGED faults
     ELSE faults < MaxFaults /\ faults' = faults + 1
  /\ IF Head(todo).ignored
     THEN Rest(Tail(todo), IF status = "running" THEN "done" ELSE "failed")
     ELSE /\ todo' = Head(todo).undo
          /\ status' = IF Head(todo).undo = <<>> THEN "failed" ELSE "failing"
  /\ txn' = Redb!TxnAfterFailure(txn, Head(todo))
  /\ UNCHANGED <<kind, disk, client, repository, call, before>>

\* The process dies and is started again.  A transaction of redb that BEGIN
\* opened is gone with what its calls did.
Crash ==
  /\ InProgress \/ (Waiting /\ txn.active)
  /\ faults < MaxFaults
  /\ faults' = faults + 1
  /\ todo' = <<>>
  /\ status' = "died"
  /\ txn' = Redb!NoTxn
  /\ IF client.in_transaction THEN call' = NoCall /\ before' = disk
                              ELSE UNCHANGED <<call, before>>
  /\ UNCHANGED <<kind, disk, client, repository>>

\* What the client knows when the call has returned: BEGIN that succeeds puts
\* it in a transaction, and COMMIT, ROLLBACK or the end of the process out of
\* it.  COMMIT commits what it saw before it, a statement outside a
\* transaction what it sees now.
Told ==
  [in_transaction |->
     IF call.name = "begin" /\ status = "done" THEN TRUE
     ELSE client.in_transaction /\ status # "died" /\ call.name \notin {"commit", "rollback"},
   committed |->
     IF kind # "REDB" THEN client.committed
     ELSE IF call.name \in {"migrate", "open"} THEN disk
     ELSE IF status # "done" \/ call.name = "rollback" THEN client.committed
     ELSE IF call.name = "commit" THEN before
     ELSE IF client.in_transaction \/ call.name = "begin" THEN client.committed
     ELSE View]

\* The call has returned to the executor, or the process is there again.
Return ==
  /\ status \in {"done", "failed", "died"}
  /\ status' = "idle"
  /\ client' = Told
  /\ call' = NoCall
  /\ before' = View
  /\ UNCHANGED <<kind, disk, txn, repository, todo, faults>>

------------------------------------------------------------------------------
(* The specification                                                        *)

\* A directory of format 1 with two rows, one of them perhaps already in the
\* shape of format 2; and databases of the formats 1 and 2.
OldFiles(t, format) ==
  File!SqlPath(t) :> File!SchemaFile(1, Keyed)
  @@ File!DirPath(t) :> "dir"
  @@ RowPath(t, 1) :> File!FileRow(1, 1, <<1, 1>>)
  @@ RowPath(t, 2) :> File!FileRow(format, 2, <<2, 1>>)

OldRows(t, format, n) ==
  [p \in {RowPath(t, k) : k \in 1..n} |-> Redb!DbRow(format, <<p.key, 1>>)]

OldDisks(k) ==
  CASE k = "FILE" -> {OldFiles(t, format) : t \in Table, format \in {1, 2}}
    [] k = "SLED" -> {OldRows(t, 1, n) : t \in Table, n \in 1..MaxRows}
    [] k = "OLDREDB" ->
         {OldRows(t, 1, n) : t \in Table, n \in 1..(2 * BatchSize + 1)}
         \cup {Redb!VersionPath :> 2 @@ OldRows(t, 2, 1) : t \in Table}
    [] OTHER      -> {}

Init ==
  /\ kind \in Kind
  /\ disk \in OldDisks(kind) \cup (IF kind \in OnlyMigrated THEN {} ELSE {<<>>})
  /\ txn = Redb!NoTxn
  /\ client = [in_transaction |-> FALSE, committed |-> IF kind = "REDB" THEN disk ELSE <<>>]
  /\ repository = File!EmptyRepository
  /\ todo = <<>>
  /\ call = NoCall
  /\ before = disk
  /\ status = "idle"
  /\ faults = 0

Next ==
  \/ \E t \in Table : \/ CreateTable(t)
                      \/ DropTable(t)
                      \/ Insert(t)
                      \/ Update(t)
                      \/ Delete(t)
                      \/ \E new \in Table \ KeyedTable :
                           t \in KeyedTable /\ RenameTable(t, new)
                      \/ t \notin KeyedTable /\ (RenameColumn(t, "x") \/ AddColumn(t) \/ DropColumn(t))
  \/ BeginTransaction
  \/ CommitTransaction
  \/ RollbackTransaction
  \/ Open
  \/ Migrate
  \/ Step
  \/ Fail
  \/ Crash
  \/ Return

\* A call that runs goes on to its end, and who cannot open the database
\* runs the migration again.
Spec ==
  Init /\ [][Next]_vars /\ WF_vars(Step) /\ WF_vars(Return) /\ WF_vars(Migrate)

------------------------------------------------------------------------------
(* Properties                                                               *)

\* The calls of StoreMut and AlterTable.
TableCalls ==
  {"create", "drop", "append", "insert", "delete", "rename", "rename_column",
   "add_column", "drop_column"}

\* How often each row is in the table.
Bag(entries) ==
  [row \in {e.row : e \in ToSet(entries)} |->
     Cardinality({n \in 1..Len(entries) : entries[n].row = row})]

\* What the call promises for the rows of its table.
Promised ==
  LET old  == ScanData(kind, before, call.table)
      kept == SelectSeq(old, LAMBDA e : e.key \notin call.keys)
      new  == [n \in 1..Len(call.rows) |-> [key |-> 0, row |-> call.rows[n]]]
  IN  CASE call.name = "create" -> <<>>
        [] call.name = "append" -> old \o new
        [] call.name \in {"insert", "delete"} -> kept \o new
        [] call.name = "add_column" ->
             [n \in 1..Len(old) |-> [old[n] EXCEPT !.row = Append(@, Null)]]
        [] call.name = "drop_column" -> [n \in 1..Len(old) |-> [old[n] EXCEPT !.row = Front(@)]]
        [] OTHER -> old

\* What an earlier call that failed or died left of the table is its schema
\* and its rows, or nothing.  In Redis the rows of a table whose renaming
\* failed cannot be told from those of a new table of that name.
Clean(t) ==
  /\ t \in TableNames(kind, before) => Readable(kind, before, t)
  /\ \A p \in DOMAIN before :
       p.table = t => t \in TableNames(kind, before) /\ before[p] # Torn
  /\ kind = "REDIS" => faults = 0

\* A call of StoreMut or AlterTable that meets a clean table, whatever failed
\* before, and returns Ok without a fault on its way has changed the rows as
\* its name says: the table has the rows it had, with those that are inserted, replaced or
\* deleted, under its new name when it is renamed; a row is found under its
\* primary key; and the set of tables changes accordingly, which
\* fetch_all_schemas can list if nothing ever failed.
PromiseKept ==
  (/\ status = "done" /\ faults = call.faults
   /\ call.name \in TableCalls
   /\ Clean(call.table) /\ Clean(call.to)) =>
    /\ TableNames(kind, View) =
         (TableNames(kind, before) \
            IF call.name \in {"drop", "rename"} THEN {call.table} ELSE {})
         \cup IF call.name = "drop" THEN {} ELSE {call.to}
    /\ call.name # "drop" =>
         /\ ScanData(kind, View, call.to) # Failed
         /\ Bag(ScanData(kind, View, call.to)) = Bag(Promised)
         /\ HasPrimaryKey(FetchSchema(kind, View, call.to)) =>
              \A e \in ToSet(ScanData(kind, View, call.to)) :
                FetchData(kind, View, call.to, e.key) = e.row
    /\ faults = 0 => ListsSchemas(kind, View)

\* The paths the call may touch: those of the tables it names, and when rows
\* have files or keys of their own, only the rows it names.
Touched ==
  {p \in DOMAIN before \cup DOMAIN View :
     \/ p = Redis!GlobalKey
     \/ /\ p.table \in {call.table, call.to}
        /\ (kind \in {"FILE", "GIT", "REDIS", "MONGO", "REDB"} /\ call.name \in {"append", "insert", "delete"})
             => p.file = "row" /\ p.key \in call.keys}

\* At every moment of a call, done, failed or cut short, whatever it does not
\* name is as it was: the other tables and, in the storages that keep a row
\* in a file or a key of its own, the other rows and the schema.
OthersUntouched ==
  call.name \in TableCalls =>
    \A p \in (DOMAIN before \cup DOMAIN View) \ Touched :
      p \in DOMAIN before /\ p \in DOMAIN View /\ View[p] = before[p]

\* CSV (with columns) and Parquet keep a table in one file.  A call on its
\* rows, wherever it stops, leaves the old rows, the new rows, no row or a
\* file that cannot be read; never some rows of the old and some of the new.
NeverAMixture ==
  (kind \in {"CSV", "PARQUET"} /\ call.name \in {"append", "insert", "delete"}) =>
    LET now == ScanData(kind, View, call.table)
    IN  now # Failed /\ now # <<>> =>
          Bag(now) \in {Bag(ScanData(kind, before, call.table)), Bag(Promised)}

\* The rows with a complete file, under their own name, as .tmp or as .bak.
Copies(d) ==
  {[table |-> p.table, key |-> p.key, row |-> d[p].row] :
     p \in {q \in DOMAIN d : q.file = "row" /\ d[q] # Torn}}


\* A database that opens at the latest version has no row of format 1 left,
\* and redb's own file is upgraded: the version is recorded last, whatever
\* stopped earlier runs.
OpensMigrated ==
  (kind \in {"FILE", "SLED", "REDB", "OLDREDB"} /\ Opened(kind, disk)) =>
    /\ \A p \in DOMAIN disk :
         (p.file = "row" /\ p.copy = "no" /\ disk[p] # Torn) => disk[p].format = 2
    /\ (IsRedb(kind) /\ disk # <<>>) => Exists(disk, Redb!FileFormatPath)

\* What is done is committed, and nothing else.  GitStorage: after a call that
\* returns Ok and had something to do, the last commit has exactly the files
\* of the storage, also those an earlier call left behind when its commit
\* failed.  RedbStorage: between two calls the file has what the client was
\* told is committed, the statements it ran on their own and the transactions
\* whose COMMIT returned Ok, whatever failed or died; and the storage holds a
\* transaction exactly when the client is in one.
DoneIsCommitted ==
  /\ (kind = "GIT" /\ status = "done" /\ call.name # "none"
        /\ (call.name \in {"append", "insert", "delete"} => call.keys # {})) =>
       repository.head = File!Tracked(disk)
  /\ (kind = "REDB" /\ Waiting) =>
       disk = client.committed /\ txn.active = client.in_transaction

\* A database of an old format can be opened in the end when the migration
\* is run again after each failure or crash.
MigrationCompletes == ~Opened(kind, disk) ~> Opened(kind, disk)
=============================================================================
