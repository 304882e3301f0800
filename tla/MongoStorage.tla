---------------------------- MODULE MongoStorage ----------------------------
(***************************************************************************)
(* MongoStorage (storages/mongo-storage/src): a table is a collection.     *)
(* Its validator holds the columns, the names of its indexes tell which    *)
(* column is the primary key or unique; documents are rows by position.    *)
(* The server is outside: each command is one operation, and insert_many   *)
(* and delete_many are one per document.                                   *)
(***************************************************************************)
EXTENDS TableSchema, FileSystem

LOCAL INSTANCE SequencesExt
LOCAL INSTANCE FiniteSetsExt

CollectionPath(t) == Path(t, "collection")

IndexPath(t) == Path(t, "index")

\* IndexInfo: the column and what the name of the index ends with.
IndexInfo(schema) ==
  {[column |-> schema.columns[i].name, unique |-> schema.columns[i].unique] :
     i \in UniqueColumns(schema)}

\* The validator: a UNIQUE column may be null, whatever its definition says.
Validator(schema) ==
  [schema EXCEPT !.columns =
     [i \in DOMAIN @ |-> [@[i] EXCEPT !.nullable = @ \/ schema.columns[i].unique = "unique",
                                      !.unique = "no"]]]

------------------------------------------------------------------------------
(* Store                                                                    *)

TableNames(d) == {t \in {p.table : p \in DOMAIN d} : Exists(d, CollectionPath(t))}

\* fetch_schemas_iter: the validator, with the indexes of the columns.
FetchSchema(d, t) ==
  LET indexes == IF Exists(d, IndexPath(t)) THEN d[IndexPath(t)] ELSE {}
      Unique(name) ==
        IF \E i \in indexes : i.column = name
        THEN (CHOOSE i \in indexes : i.column = name).unique ELSE "no"
      schema == d[CollectionPath(t)]
  IN  [schema EXCEPT
         !.engine = NoEngine,
         !.columns = [i \in DOMAIN @ |-> [@[i] EXCEPT !.unique = Unique(schema.columns[i].name)]]]

Documents(d, t) == {p \in DOMAIN d : p.table = t /\ p.file = "row"}

\* Sorted by the primary key; otherwise in natural order, here by object id.
ScanData(d, t) ==
  LET paths == SetToSortSeq(Documents(d, t), LAMBDA p, q : p.key < q.key)
  IN  [n \in 1..Len(paths) |-> [key |-> paths[n].key, row |-> d[paths[n]]]]

\* An error when the table has no primary key.
FetchData(d, t, key) ==
  IF ~HasPrimaryKey(FetchSchema(d, t)) THEN Failed
  ELSE IF Exists(d, RowPath(t, key)) THEN d[RowPath(t, key)] ELSE NoRow

------------------------------------------------------------------------------
(* StoreMut, as programs                                                    *)

\* A collection that exists keeps its indexes: only the validator changes.
InsertSchemaProgram(d, t, schema) ==
  <<Write(CollectionPath(t), Validator(schema))>>
  \o IF t \in TableNames(d) \/ IndexInfo(schema) = {} THEN <<>>
     ELSE <<Write(IndexPath(t), IndexInfo(schema))>>

DeleteSchemaProgram(d, t) ==
  <<Install([p \in {q \in DOMAIN d : q.table # t} |-> d[p]])>>

\* replace_one with upsert, row by row.
InsertDataProgram(d, t, entries) ==
  [n \in 1..Len(entries) |-> Write(RowPath(t, entries[n].key), entries[n].row)]

\* An object id of the driver: larger than those before.
NewKey(d, t) == 1 + Max({0} \cup {p.key : p \in Documents(d, t)})

AppendDataProgram(d, t, rows) ==
  [n \in 1..Len(rows) |-> Write(RowPath(t, NewKey(d, t) + n - 1), rows[n])]

DeleteDataProgram(d, t, keys) ==
  LET found == SetToSeq({p \in Documents(d, t) : p.key \in keys})
  IN  [n \in 1..Len(found) |-> Unlink(found[n])]

------------------------------------------------------------------------------
(* The calls as functions of the server, when nothing goes wrong            *)

Empty == <<>>

InsertSchema(d, t, schema) == Run(d, InsertSchemaProgram(d, t, schema))

DeleteSchema(d, t) == Run(d, DeleteSchemaProgram(d, t))

AppendData(d, t, rows) == Run(d, AppendDataProgram(d, t, rows))

InsertData(d, t, entries) == Run(d, InsertDataProgram(d, t, entries))

DeleteData(d, t, keys) == Run(d, DeleteDataProgram(d, t, keys))

DefaultAlter == INSTANCE AlterTable
                  WITH table_names <- TableNames, fetch_schema <- FetchSchema,
                       scan_data <- ScanData, insert_schema <- InsertSchema,
                       insert_data <- InsertData, delete_schema <- DeleteSchema
=============================================================================
