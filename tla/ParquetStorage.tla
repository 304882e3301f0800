--------------------------- MODULE ParquetStorage ---------------------------
(***************************************************************************)
(* ParquetStorage (storages/parquet-storage/src): a table is one file with *)
(* its schema and its rows.  Every change rewrites the file in place: it   *)
(* is truncated, then written, and readable again once the footer is       *)
(* there.  How values are stored is in Values.                             *)
(***************************************************************************)
EXTENDS TableSchema, FileSystem

LOCAL INSTANCE SequencesExt

DataPath(t) == Path(t, "parquet")

ParquetFile(schema, rows) == [schema |-> schema, rows |-> rows]

------------------------------------------------------------------------------
(* Store                                                                    *)

TableNames(d) == {t \in {p.table : p \in DOMAIN d} : Exists(d, DataPath(t))}

FetchSchema(d, t) ==
  IF d[DataPath(t)] = Torn THEN Failed
  ELSE [d[DataPath(t)].schema EXCEPT !.engine = NoEngine]

\* fetch_all_schemas stops at the first file it cannot read.
ListsSchemas(d) == \A t \in TableNames(d) : d[DataPath(t)] # Torn

\* The keys of the rows: the primary key, or the number of rows before
\* that have none.
Keyed(schema, rows) ==
  [n \in 1..Len(rows) |->
     [key |-> IF HasPrimaryKey(schema) THEN rows[n][PrimaryKey(schema)] ELSE n - 1,
      row |-> rows[n]]]

ScanData(d, t) ==
  IF t \notin TableNames(d) \/ d[DataPath(t)] = Torn THEN Failed
  ELSE Keyed(d[DataPath(t)].schema, d[DataPath(t)].rows)

FetchData(d, t, key) ==
  LET entries == ScanData(d, t)
      at      == SelectInSeq(entries, LAMBDA e : e.key = key)
  IN  IF at = 0 THEN NoRow ELSE entries[at].row

------------------------------------------------------------------------------
(* StoreMut, as programs                                                    *)

\* Fault: the rows are written and closed one by one.
RewriteByRow(t, schema, rows) ==
  <<Create(DataPath(t))>>
  \o [n \in 1..(Len(rows) + 1) |->
        Write(DataPath(t), ParquetFile(schema, SubSeq(rows, 1, n - 1)))]

\* rewrite: File::create truncates what is there, write puts all of it back.
Rewrite(t, schema, rows) ==
  <<Create(DataPath(t)), Write(DataPath(t), ParquetFile(schema, rows))>>

InsertSchemaProgram(d, t, schema) == Rewrite(t, schema, <<>>)

DeleteSchemaProgram(d, t) ==
  IF Exists(d, DataPath(t)) THEN <<Unlink(DataPath(t))>> ELSE <<>>

RowsOf(entries) == [n \in 1..Len(entries) |-> entries[n].row]

AppendDataProgram(d, t, rows) ==
  Rewrite(t, FetchSchema(d, t), RowsOf(ScanData(d, t)) \o rows)

\* SortMerge of the old rows, in file order, and the new ones, sorted.
Merged(d, t, entries) == SortMerge(ScanData(d, t), SortedByKey(entries))

InsertDataProgram(d, t, entries) ==
  Rewrite(t, FetchSchema(d, t), RowsOf(Merged(d, t, entries)))

DeleteDataProgram(d, t, keys) ==
  Rewrite(t, FetchSchema(d, t),
          RowsOf(SelectSeq(ScanData(d, t), LAMBDA e : e.key \notin keys)))

------------------------------------------------------------------------------
(* The calls as functions of the disk, when nothing goes wrong              *)

Empty == <<>>

InsertSchema(d, t, schema) == Run(d, InsertSchemaProgram(d, t, schema))

DeleteSchema(d, t) == Run(d, DeleteSchemaProgram(d, t))

AppendData(d, t, rows) == Run(d, AppendDataProgram(d, t, rows))

InsertData(d, t, entries) == Run(d, InsertDataProgram(d, t, entries))

DeleteData(d, t, keys) == Run(d, DeleteDataProgram(d, t, keys))

DefaultAlter == INSTANCE AlterTable
                  WITH table_names <- TableNames, fetch_schema <- FetchSchema,
                       scan_data <- ScanData, insert_schema <- InsertSchema,
                       insert_data <- InsertData, delete_schema <- DeleteSchema
=============================================================================
