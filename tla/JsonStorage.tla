---------------------------- MODULE JsonStorage ----------------------------
(***************************************************************************)
(* The calls of JsonStorage (storages/json-storage/src) as operators on    *)
(* the directory: per table the data files it has (`files`, a subset of    *)
(* {"json", "jsonl"}), the schema of its .sql file and the rows of the     *)
(* data file, in file order.  ALTER TABLE is the provided implementation.  *)
(***************************************************************************)
EXTENDS TableSchema, TLC

LOCAL INSTANCE SequencesExt

Empty == <<>>

Within(s) == TRUE

\* fetch_schema: a table has one data file; with two every call on it fails.
TableNames(s) == {t \in DOMAIN s : Cardinality(s[t].files) = 1}

\* The .sql file has the engine, the schema that is read from it does not.
FetchSchema(s, t) == [s[t].schema EXCEPT !.engine = NoEngine]

Settings(s) == {}

\* scan_data: the key is the primary key, or else the place in the file.
KeyOf(schema, row, n) ==
  IF HasPrimaryKey(schema) THEN row[PrimaryKey(schema)] ELSE n - 1

ScanData(s, t) ==
  IF t \notin TableNames(s) THEN <<>>
  ELSE [n \in 1..Len(s[t].rows) |->
          [key |-> KeyOf(s[t].schema, s[t].rows[n], n), row |-> s[t].rows[n]]]

\* fetch_data: the first row of the file with the key.
FetchData(s, t, key) ==
  LET entries == ScanData(s, t)
      at      == SelectInSeq(entries, LAMBDA e : e.key = key)
  IN  IF at = 0 THEN NoRow ELSE entries[at].row

\* A new, empty .jsonl file, beside the .json file when there is one.
InsertSchema(s, t, schema) ==
  LET files == IF t \in DOMAIN s THEN s[t].files ELSE {}
      rows  == IF "json" \in files THEN s[t].rows ELSE <<>>
  IN  t :> [files |-> files \cup {"jsonl"}, schema |-> schema, rows |-> rows] @@ s

DeleteSchema(s, t) == [u \in DOMAIN s \ {t} |-> s[u]]

Rewritten(s, t, rows) ==
  IF t \notin TableNames(s) THEN s ELSE [s EXCEPT ![t].rows = rows]

AppendData(s, t, rows) == Rewritten(s, t, s[t].rows \o rows)

\* Fault: the new entries go to the end of the file.
InsertDataAtEnd(s, t, entries) ==
  LET merged == ScanData(s, t) \o SortedByKey(entries)
  IN  Rewritten(s, t, [n \in 1..Len(merged) |-> merged[n].row])

InsertData(s, t, entries) ==
  LET merged == SortMerge(ScanData(s, t), SortedByKey(entries))
  IN  Rewritten(s, t, [n \in 1..Len(merged) |-> merged[n].row])

DeleteData(s, t, keys) ==
  LET kept == SelectSeq(ScanData(s, t), LAMBDA e : e.key \notin keys)
  IN  Rewritten(s, t, [n \in 1..Len(kept) |-> kept[n].row])

DefaultAlter == INSTANCE AlterTable
                  WITH table_names <- TableNames, fetch_schema <- FetchSchema,
                       scan_data <- ScanData, insert_schema <- InsertSchema,
                       insert_data <- InsertData, delete_schema <- DeleteSchema
=============================================================================
