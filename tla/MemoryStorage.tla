--------------------------- MODULE MemoryStorage ---------------------------
(***************************************************************************)
(* The calls of MemoryStorage (storages/memory-storage/src) as operators   *)
(* on the value of the storage.  A key is an integer: Key::I64 both for a  *)
(* primary key value and for the counter append_data draws from, so the    *)
(* two share one key space.                                                *)
(***************************************************************************)
EXTENDS TableSchema, TLC

LOCAL INSTANCE SequencesExt

CONSTANT MaxId        \* bound on id_counter

Empty == [items |-> <<>>, id_counter |-> 0, metadata |-> {}]

Within(s) == s.id_counter <= MaxId

Settings(s) == {}

TableNames(s) == DOMAIN s.items

FetchSchema(s, t) == s.items[t].schema

FetchData(s, t, key) ==
  IF t \in DOMAIN s.items /\ key \in DOMAIN s.items[t].rows
  THEN s.items[t].rows[key] ELSE NoRow

\* The rows of a BTreeMap come in the order of their keys.
ScanData(s, t) ==
  IF t \notin DOMAIN s.items THEN <<>>
  ELSE LET rows == s.items[t].rows
           keys == SetToSortSeq(DOMAIN rows, <)
       IN  [n \in 1..Len(keys) |-> [key |-> keys[n], row |-> rows[keys[n]]]]

\* A table that exists is replaced by an empty one.
InsertSchema(s, t, schema) ==
  [s EXCEPT !.items = t :> [schema |-> schema, rows |-> <<>>] @@ @,
            !.metadata = @ \cup {t}]

DeleteSchema(s, t) ==
  [s EXCEPT !.items = [u \in DOMAIN @ \ {t} |-> @[u]],
            !.metadata = @ \ {t}]


AppendData(s, t, rows) ==
  IF t \notin DOMAIN s.items THEN s
  ELSE LET base == s.id_counter
       IN  [s EXCEPT !.id_counter = base + Len(rows),
                     !.items[t].rows =
                       [k \in base + 1..base + Len(rows) |-> rows[k - base]] @@ @]

\* Fault: the map of rows is built anew.
InsertDataAnew(s, t, entries) ==
  IF t \notin DOMAIN s.items THEN s
  ELSE [s EXCEPT !.items[t].rows =
          FoldLeft(LAMBDA rows, e : e.key :> e.row @@ rows, <<>>, entries)]

InsertData(s, t, entries) ==
  IF t \notin DOMAIN s.items THEN s
  ELSE [s EXCEPT !.items[t].rows =
          FoldLeft(LAMBDA rows, e : e.key :> e.row @@ rows, @, entries)]

DeleteData(s, t, keys) ==
  IF t \notin DOMAIN s.items THEN s
  ELSE [s EXCEPT !.items[t].rows = [k \in DOMAIN @ \ keys |-> @[k]]]

\* The item moves; the metadata of the old name is left where it is.
RenameSchema(s, t, new) ==
  [s EXCEPT !.items = new :> @[t] @@ [u \in DOMAIN @ \ {t} |-> @[u]]]

RenameColumn(s, t, i, name) ==
  [s EXCEPT !.items[t].schema = RenamedColumn(@, i, name)]

\* The default goes through try_into_value: a NULL for a NOT NULL column fails.
CanAddColumn(def) ==
  IF def.default = NoDefault THEN def.nullable
                             ELSE def.default = Null => def.nullable

AddColumn(s, t, def, value) ==
  [s EXCEPT !.items[t] =
     [schema |-> WithColumn(@.schema, def),
      rows |-> [k \in DOMAIN @.rows |-> Append(@.rows[k], value)]]]

\* Fault: the rows keep the dropped value.
DropColumnOfSchema(s, t, i) ==
  [s EXCEPT !.items[t].schema = WithoutColumn(@, i)]

\* Fault: the last value goes instead of the one at the index.
DropLastValue(s, t, i) ==
  [s EXCEPT !.items[t] =
     [schema |-> WithoutColumn(@.schema, i),
      rows |-> [k \in DOMAIN @.rows |-> WithoutValue(@.rows[k], Len(@.rows[k]))]]]

DropColumn(s, t, i) ==
  [s EXCEPT !.items[t] =
     [schema |-> WithoutColumn(@.schema, i),
      rows |-> [k \in DOMAIN @.rows |-> WithoutValue(@.rows[k], i)]]]
=============================================================================
