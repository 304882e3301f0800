---------------------------- MODULE RedisStorage ----------------------------
(***************************************************************************)
(* RedisStorage (storages/redis-storage/src): rows, schemas and metadata   *)
(* are string keys of a Redis server, and a call is a program of commands: *)
(* SET (Write) and DEL (Unlink), computed from what SCAN and GET returned. *)
(* A SCAN pattern ns#t#* matches the rows of the table t only.             *)
(***************************************************************************)
EXTENDS TableSchema, FileSystem

LOCAL INSTANCE SequencesExt
LOCAL INSTANCE FiniteSetsExt

SchemaKey(t) == Path(t, "schema")

MetadataKey(t) == Path(t, "metadata")

\* The one counter all clients take keys from.
GlobalKey == Path("", "globalkey")

RowKeys(d, t) == {p \in DOMAIN d : p.table = t /\ p.file = "row"}

------------------------------------------------------------------------------
(* Store                                                                    *)

TableNames(d) == {t \in {p.table : p \in DOMAIN d} : Exists(d, SchemaKey(t))}

\* The schema is stored with its engine.
FetchSchema(d, t) == d[SchemaKey(t)]

\* The rows are put into a BTreeMap: they come in the order of their keys.
ScanData(d, t) ==
  LET keys == SetToSortSeq(RowKeys(d, t), LAMBDA p, q : p.key < q.key)
  IN  [n \in 1..Len(keys) |-> [key |-> keys[n].key, row |-> d[keys[n]]]]

FetchData(d, t, key) ==
  IF Exists(d, RowPath(t, key)) THEN d[RowPath(t, key)] ELSE NoRow

------------------------------------------------------------------------------
(* StoreMut, as programs                                                    *)

\* redis_store_schema and redis_delete_schema
StoreSchema(t, schema) == <<Write(SchemaKey(t), schema)>>

RemoveSchema(d, t) ==
  IF Exists(d, SchemaKey(t)) THEN <<Unlink(SchemaKey(t))>> ELSE <<>>

\* CREATED is set twice.
InsertSchemaProgram(d, t, schema) ==
  <<Write(MetadataKey(t), "CREATED"), Write(MetadataKey(t), "CREATED")>>
  \o StoreSchema(t, schema)

UnlinkAll(paths) ==
  LET order == SetToSeq(paths)
  IN  [n \in 1..Len(order) |-> Unlink(order[n])]

\* Fault: the SCAN pattern has no table name.
DeleteSchemaAllRows(d, t) ==
  UnlinkAll({p \in DOMAIN d : p.file = "row"})
  \o UnlinkAll({MetadataKey(t)} \cap DOMAIN d) \o RemoveSchema(d, t)

DeleteSchemaProgram(d, t) ==
  UnlinkAll(RowKeys(d, t))
  \o UnlinkAll({MetadataKey(t)} \cap DOMAIN d) \o RemoveSchema(d, t)

LastKey(d) == IF Exists(d, GlobalKey) THEN d[GlobalKey] ELSE 0

\* Fault: the number of rows of the table is the next key.
AppendByCount(d, t, rows) ==
  LET k == Cardinality(RowKeys(d, t))
  IN  [n \in 1..Len(rows) |-> Write(RowPath(t, k + n), rows[n])]

\* INCR, then SET, row by row.
AppendDataProgram(d, t, rows) ==
  FlattenSeq([n \in 1..Len(rows) |->
    <<Write(GlobalKey, LastKey(d) + n), Write(RowPath(t, LastKey(d) + n), rows[n])>>])

InsertDataProgram(d, t, entries) ==
  [n \in 1..Len(entries) |-> Write(RowPath(t, entries[n].key), entries[n].row)]

\* DEL of a key that is not there is no error.
DeleteDataProgram(d, t, keys) == UnlinkAll(RowKeys(d, t) \cap {RowPath(t, k) : k \in keys})

------------------------------------------------------------------------------
(* AlterTable, as programs                                                  *)

\* Fault: the row is removed before it is stored under its new key.
RenameSchemaDelFirst(d, t, new) ==
  LET rows == SetToSeq(RowKeys(d, t))
  IN  RemoveSchema(d, t) \o StoreSchema(new, FetchSchema(d, t))
      \o FlattenSeq([n \in 1..Len(rows) |->
           <<Unlink(rows[n]), Write(RowPath(new, rows[n].key), d[rows[n]])>>])

\* The metadata stays under the old name.
RenameSchemaProgram(d, t, new) ==
  LET rows == SetToSeq(RowKeys(d, t))
  IN  RemoveSchema(d, t) \o StoreSchema(new, FetchSchema(d, t))
      \o FlattenSeq([n \in 1..Len(rows) |->
           <<Write(RowPath(new, rows[n].key), d[rows[n]]), Unlink(rows[n])>>])

\* The schema is replaced by DEL and SET.
ReplaceSchema(d, t, schema) == RemoveSchema(d, t) \o StoreSchema(t, schema)

RenameColumnProgram(d, t, i, name) ==
  ReplaceSchema(d, t, RenamedColumn(FetchSchema(d, t), i, name))

\* The rows are rewritten one by one, and then the schema.
AddColumnProgram(d, t, def, value) ==
  LET rows == SetToSeq(RowKeys(d, t))
  IN  [n \in 1..Len(rows) |-> Write(rows[n], Append(d[rows[n]], value))]
      \o ReplaceSchema(d, t, WithColumn(FetchSchema(d, t), def))

\* A row that is too short for the column is an error where it is met.
DropColumnProgram(d, t, i) ==
  LET rows == SetToSeq(RowKeys(d, t))
  IN  [n \in 1..Len(rows) |-> IF Len(d[rows[n]]) < i THEN Refuse
                              ELSE Write(rows[n], WithoutValue(d[rows[n]], i))]
      \o ReplaceSchema(d, t, WithoutColumn(FetchSchema(d, t), i))

------------------------------------------------------------------------------
(* The calls as functions of the server, when nothing goes wrong            *)

Empty == <<>>

InsertSchema(d, t, schema) == Run(d, InsertSchemaProgram(d, t, schema))

DeleteSchema(d, t) == Run(d, DeleteSchemaProgram(d, t))

AppendData(d, t, rows) == Run(d, AppendDataProgram(d, t, rows))

InsertData(d, t, entries) == Run(d, InsertDataProgram(d, t, entries))

DeleteData(d, t, keys) == Run(d, DeleteDataProgram(d, t, keys))

RenameSchema(d, t, new) == Run(d, RenameSchemaProgram(d, t, new))

RenameColumn(d, t, i, name) == Run(d, RenameColumnProgram(d, t, i, name))

AddColumn(d, t, def, value) == Run(d, AddColumnProgram(d, t, def, value))

DropColumn(d, t, i) == Run(d, DropColumnProgram(d, t, i))
=============================================================================
