----------------------------- MODULE CsvStorage -----------------------------
(***************************************************************************)
(* CsvStorage (storages/csv-storage/src): a table t is t.sql with its      *)
(* schema, t.csv with its records and, when the schema has no columns,     *)
(* t.types.csv with the type of every field.  A schema without columns is  *)
(* `column_defs: None`; the rows of its table are <<map>>.                 *)
(*                                                                         *)
(* A csv::Writer keeps what it is given until it is dropped: the records   *)
(* reach the file after the rename that puts the file in its place, and a  *)
(* failure to write them is not seen.  (Files are smaller than its buffer.)*)
(***************************************************************************)
EXTENDS TableSchema, FileSystem

LOCAL INSTANCE SequencesExt
LOCAL INSTANCE FiniteSetsExt

CONSTANT NullText   \* the text "NULL"

SchemaPath(t) == Path(t, "sql")

DataPath(t) == Path(t, "csv")

TmpDataPath(t) == Path(t, "tmp.csv")

TypesPath(t) == Path(t, "types.csv")

TmpTypesPath(t) == Path(t, "types.tmp.csv")

Schemaless(schema) == schema.columns = <<>>

\* A CSV file: the header and the records.  An empty file has neither.
CsvFile(header, records) == [header |-> header, records |-> records]

Records(d, path) == IF d[path] = Torn THEN <<>> ELSE d[path].records

Header(d, path) == IF d[path] = Torn THEN <<>> ELSE d[path].header

\* String::from(value), and how a field of a column is read back.  A field
\* of a text column that is the text NULL would be read as Null.
Text(value) == IF value = Null THEN NullText ELSE value

Value(text) == IF text = NullText THEN Null ELSE text

------------------------------------------------------------------------------
(* Store                                                                    *)

TableNames(d) ==
  {t \in {p.table : p \in DOMAIN d} :
     \E path \in {SchemaPath(t), DataPath(t), TypesPath(t)} : Exists(d, path)}

\* The schema generated for a data file without a schema: TEXT columns.
GeneratedSchema(d, t) ==
  LET header == IF Exists(d, TypesPath(t)) THEN <<>> ELSE Header(d, DataPath(t))
  IN  Schema([n \in 1..Len(header) |-> ColumnDef(header[n], "no", TRUE, NoDefault)],
             <<>>, NoEngine)

FetchSchema(d, t) ==
  IF ~Exists(d, SchemaPath(t)) THEN GeneratedSchema(d, t)
  ELSE IF d[SchemaPath(t)] = Torn THEN Failed
       ELSE [d[SchemaPath(t)] EXCEPT !.engine = NoEngine]

\* fetch_all_schemas takes a left-over t.tmp.csv for the data of a table
\* whose schema is t.sql, and fails because that is the schema of t.
ListsSchemas(d) ==
  \A t \in TableNames(d) :
    Exists(d, TmpDataPath(t)) => ~Exists(d, SchemaPath(t))

\* The row of a table with columns, and its key.
TypedRow(schema, record) ==
  [i \in 1..Min({Len(record), Len(schema.columns)}) |-> Value(record[i])]

KeyOf(schema, row, n) ==
  IF HasPrimaryKey(schema) /\ HasValue(row, PrimaryKey(schema))
  THEN row[PrimaryKey(schema)] ELSE n - 1

\* The row of a table without columns: the fields that have a type.
MapRow(header, record, types) ==
  LET present == {i \in 1..Min({Len(header), Len(types)}) : types[i] # ""}
  IN  <<[name \in {header[i] : i \in present} |->
           LET i == CHOOSE j \in present : header[j] = name
           IN  IF types[i] = "NULL" THEN Null ELSE record[i]]>>

ScanData(d, t) ==
  LET schema  == FetchSchema(d, t)
      records == Records(d, DataPath(t))
      header  == Header(d, DataPath(t))
      types   == Records(d, TypesPath(t))
  IN  IF t \notin TableNames(d) THEN <<>>
      ELSE IF schema = Failed THEN Failed
      ELSE IF ~Exists(d, DataPath(t)) THEN <<>>
      ELSE IF ~Schemaless(schema)
      THEN [n \in 1..Len(records) |->
              LET row == TypedRow(schema, records[n])
              IN  [key |-> KeyOf(schema, row, n), row |-> row]]
      ELSE IF Exists(d, TypesPath(t))
      THEN [n \in 1..Min({Len(records), Len(types)}) |->
              [key |-> n - 1, row |-> MapRow(header, records[n], types[n])]]
      ELSE [n \in 1..Len(records) |->
              [key |-> n - 1,
               row |-> MapRow(header, records[n], [i \in DOMAIN header |-> "TEXT"])]]

\* The columns scan_data returns beside the rows; none for maps.
KnowsColumns(d, t) ==
  /\ t \in TableNames(d) /\ Exists(d, DataPath(t))
  /\ ~Schemaless(FetchSchema(d, t))

FetchData(d, t, key) ==
  LET entries == ScanData(d, t)
      at      == SelectInSeq(entries, LAMBDA e : e.key = key)
  IN  IF at = 0 THEN NoRow ELSE entries[at].row

------------------------------------------------------------------------------
(* StoreMut, as programs                                                    *)

Names(schema) == [i \in Columns(schema) |-> schema.columns[i].name]

InsertSchemaProgram(d, t, schema) ==
  <<Create(SchemaPath(t)), Write(SchemaPath(t), schema)>>
  \o (IF Schemaless(schema) THEN <<>>
      ELSE <<Create(DataPath(t)), Ignored(Write(DataPath(t), CsvFile(Names(schema), <<>>)))>>)

DeleteSchemaProgram(d, t) ==
  LET present == SelectSeq(<<DataPath(t), TypesPath(t), SchemaPath(t)>>,
                           LAMBDA path : Exists(d, path))
  IN  [n \in 1..Len(present) |-> Unlink(present[n])]

\* The field and the type of a column of a map row that has it or not.
Field(map, name) == IF name \in DOMAIN map THEN Text(map[name]) ELSE NullText

TypeOf(map, name) ==
  IF name \notin DOMAIN map THEN "" ELSE IF map[name] = Null THEN "NULL" ELSE "INT"

\* write(): the rows go to temporary files, which are renamed; what a writer
\* leaves in a temporary file that is not renamed is never read.
WriteProgram(d, t, rows) ==
  LET typed   == CsvFile(Names(FetchSchema(d, t)),
                         [n \in 1..Len(rows) |-> [i \in DOMAIN rows[n] |-> Text(rows[n][i])]])
      header  == SetToSeq(UNION {DOMAIN rows[n][1] : n \in 1..Len(rows)})
      fields  == CsvFile(header, [n \in 1..Len(rows) |->
                   [i \in DOMAIN header |-> Field(rows[n][1], header[i])]])
      types   == CsvFile(header, [n \in 1..Len(rows) |->
                   [i \in DOMAIN header |-> TypeOf(rows[n][1], header[i])]])
      InPlace(content) ==
        <<Rename(TmpDataPath(t), DataPath(t)), Ignored(Write(DataPath(t), content))>>
  IN  IF KnowsColumns(d, t) THEN <<Create(TmpDataPath(t))>> \o InPlace(typed)
      ELSE <<Create(TmpDataPath(t)), Create(TmpTypesPath(t))>>
           \o IF \E n \in 1..Len(rows) : Len(rows[n]) # 1 THEN <<Refuse>>
              ELSE <<Rename(TmpTypesPath(t), TypesPath(t)),
                     Ignored(Write(TypesPath(t), types))>> \o InPlace(fields)

RowsOf(entries) == [n \in 1..Len(entries) |-> entries[n].row]

\* At the end of the file; the first record of an empty file becomes its
\* header, which is not looked at when there is a schema.
AppendDataProgram(d, t, rows) ==
  LET added == [n \in 1..Len(rows) |-> [i \in DOMAIN rows[n] |-> Text(rows[n][i])]]
      file  == IF d[DataPath(t)] = Torn THEN CsvFile(<<>>, Tail(added))
               ELSE [d[DataPath(t)] EXCEPT !.records = @ \o added]
  IN  IF KnowsColumns(d, t) THEN <<Ignored(Write(DataPath(t), file))>>
      ELSE WriteProgram(d, t, RowsOf(ScanData(d, t)) \o rows)

\* SortMerge of the old rows, in file order, and the new ones, sorted.
Merged(d, t, entries) == SortMerge(ScanData(d, t), SortedByKey(entries))

InsertDataProgram(d, t, entries) == WriteProgram(d, t, RowsOf(Merged(d, t, entries)))

DeleteDataProgram(d, t, keys) ==
  WriteProgram(d, t, RowsOf(SelectSeq(ScanData(d, t), LAMBDA e : e.key \notin keys)))

------------------------------------------------------------------------------
(* The calls as functions of the disk, when nothing goes wrong              *)

Empty == <<>>

Within(d) == TRUE

Settings(d) == {}

InsertSchema(d, t, schema) == Run(d, InsertSchemaProgram(d, t, schema))

DeleteSchema(d, t) == Run(d, DeleteSchemaProgram(d, t))

AppendData(d, t, rows) == Run(d, AppendDataProgram(d, t, rows))

InsertData(d, t, entries) == Run(d, InsertDataProgram(d, t, entries))

DeleteData(d, t, keys) == Run(d, DeleteDataProgram(d, t, keys))

DefaultAlter == INSTANCE AlterTable
                  WITH table_names <- TableNames, fetch_schema <- FetchSchema,
                       scan_data <- ScanData, insert_schema <- InsertSchema,
                       insert_data <- InsertData, delete_schema <- DeleteSchema
=============================================================================
