----------------------------- MODULE AlterTable -----------------------------
(***************************************************************************)
(* The provided methods of the AlterTable trait (core/src/store/           *)
(* alter_table.rs): each is a sequence of calls on the storage it is       *)
(* implemented for, here run to the end; every call sees what the calls    *)
(* before it wrote.                                                        *)
(***************************************************************************)
EXTENDS TableSchema

CONSTANTS table_names(_), fetch_schema(_,_), scan_data(_,_), insert_schema(_,_,_),
          insert_data(_,_,_), delete_schema(_,_)

\* What becomes of the values of a row: they stay, one is appended, one is
\* taken out.
Same == [kind |-> "same"]
Appending(value) == [kind |-> "append", value |-> value]
Dropping(i) == [kind |-> "drop", column |-> i]

Changed(change, row) ==
  CASE change.kind = "same"   -> row
    [] change.kind = "append" -> Append(row, change.value)
    [] change.kind = "drop"   -> WithoutValue(row, change.column)

Entries(s, t, change) ==
  LET entries == scan_data(s, t)
  IN  [n \in 1..Len(entries) |-> [entries[n] EXCEPT !.row = Changed(change, @)]]

\* The rows are read after the new schema is written; when the new table
\* cannot be read insert_data fails and the old one stays.
RenameSchema(s, t, new) ==
  LET created == insert_schema(s, new, fetch_schema(s, t))
      moved   == insert_data(created, new, Entries(created, t, Same))
  IN  IF new \in table_names(created) THEN delete_schema(moved, t) ELSE created

\* Fault: the rows are read after the schema is written.
RewriteReadLate(s, t, schema, change) ==
  LET created == insert_schema(s, t, schema)
  IN  insert_data(created, t, Entries(created, t, change))

\* The rows are read, the schema is written, the rows are written back.
Rewrite(s, t, schema, change) ==
  insert_data(insert_schema(s, t, schema), t, Entries(s, t, change))

RenameColumn(s, t, i, name) ==
  Rewrite(s, t, RenamedColumn(fetch_schema(s, t), i, name), Same)

\* The default is used as it evaluates, without the checks of the column.
CanAddColumn(def) == def.default = NoDefault => def.nullable

\* Fault: the rows are written back as they were.
AddColumnOfSchema(s, t, def, value) ==
  Rewrite(s, t, WithColumn(fetch_schema(s, t), def), Same)

AddColumn(s, t, def, value) ==
  Rewrite(s, t, WithColumn(fetch_schema(s, t), def), Appending(value))

DropColumn(s, t, i) ==
  Rewrite(s, t, WithoutColumn(fetch_schema(s, t), i), Dropping(i))
=============================================================================
