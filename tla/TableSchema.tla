---------------------------- MODULE TableSchema ----------------------------
(***************************************************************************)
(* Schemas and rows as the executor and the storages share them            *)
(* (core/src/data/schema.rs, core/src/ast/ddl.rs).                         *)
(*                                                                         *)
(* A schema has a sequence of column definitions, a sequence of foreign    *)
(* keys and an engine; data types, comments and index definitions are left *)
(* out.                                                                    *)
(* A row is the sequence of its values: integers, or Null.                 *)
(***************************************************************************)
EXTENDS Integers, Sequences, FiniteSets

LOCAL INSTANCE SequencesExt

CONSTANTS Null,       \* Value::Null
          NoDefault,  \* ColumnDef.default = None
          NoRow,      \* fetch_data's None
          NoEngine    \* Schema.engine = None

ASSUME NullNotInt == Null \notin Int

\* ColumnDef; PRIMARY KEY makes the column NOT NULL (translate_column_def).
ColumnDef(name, unique, nullable, default) ==
  [name |-> name, unique |-> unique,
   nullable |-> nullable /\ unique # "primary", default |-> default]

ForeignKey(column, table, referenced) ==
  [column |-> column, table |-> table, referenced |-> referenced]

\* Schema
Schema(columns, foreign_keys, engine) ==
  [columns |-> columns, foreign_keys |-> foreign_keys, engine |-> engine]

Columns(schema) == 1..Len(schema.columns)

ColumnNames(schema) == {schema.columns[i].name : i \in Columns(schema)}

\* position(): the first column of that name, 0 when there is none.
Position(schema, name) ==
  IF name \notin ColumnNames(schema) THEN 0
  ELSE CHOOSE i \in Columns(schema) :
         /\ schema.columns[i].name = name
         /\ \A j \in 1..(i - 1) : schema.columns[j].name # name

PrimaryColumns(schema) ==
  {i \in Columns(schema) : schema.columns[i].unique = "primary"}

HasPrimaryKey(schema) == PrimaryColumns(schema) # {}

\* The first PRIMARY KEY column: the others are never looked at.
PrimaryKey(schema) ==
  CHOOSE i \in PrimaryColumns(schema) : \A j \in PrimaryColumns(schema) : i <= j

UniqueColumns(schema) ==
  {i \in Columns(schema) : schema.columns[i].unique # "no"}

\* The values of a column of a row, absent when the row is too short.
HasValue(row, i) == i \in DOMAIN row

WithColumn(schema, def) == [schema EXCEPT !.columns = Append(@, def)]

WithoutColumn(schema, i) ==
  [schema EXCEPT !.columns = SubSeq(@, 1, i - 1) \o SubSeq(@, i + 1, Len(@))]

RenamedColumn(schema, i, name) == [schema EXCEPT !.columns[i].name = name]

WithoutValue(row, i) ==
  IF HasValue(row, i) THEN SubSeq(row, 1, i - 1) \o SubSeq(row, i + 1, Len(row))
                      ELSE row

------------------------------------------------------------------------------
(* How the storages that keep a table in one file (JSON, CSV, Parquet) put  *)
(* new entries among the old ones; the three crates have the same text.     *)

\* Fault: what is left of the old file after the last new entry is lost.
SortMergeShort(left, right) ==
  LET Step(acc, e) ==
        LET stop == SelectInSeq(acc.left, LAMBDA l : l.key >= e.key)
            n    == IF stop = 0 THEN Len(acc.left) ELSE stop - 1
            rest == SubSeq(acc.left, n + 1, Len(acc.left))
        IN  [out  |-> acc.out \o SubSeq(acc.left, 1, n) \o <<e>>,
             left |-> IF rest # <<>> /\ rest[1].key = e.key THEN Tail(rest)
                                                            ELSE rest]
  IN  FoldLeft(Step, [out |-> <<>>, left |-> left], right).out

\* SortMerge: two sequences of entries, merged as if both were in the order
\* of their keys; of two entries with one key the right one is kept.
SortMerge(left, right) ==
  LET Step(acc, e) ==
        \* the entries of the left before the entry e of the right
        LET stop == SelectInSeq(acc.left, LAMBDA l : l.key >= e.key)
            n    == IF stop = 0 THEN Len(acc.left) ELSE stop - 1
            rest == SubSeq(acc.left, n + 1, Len(acc.left))
        IN  [out  |-> acc.out \o SubSeq(acc.left, 1, n) \o <<e>>,
             left |-> IF rest # <<>> /\ rest[1].key = e.key THEN Tail(rest)
                                                            ELSE rest]
      end == FoldLeft(Step, [out |-> <<>>, left |-> left], right)
  IN  end.out \o end.left

\* sort_by is stable: entries with one key stay in their order.
SortedByKey(entries) ==
  LET Before(i, j) == \/ entries[i].key < entries[j].key
                      \/ entries[i].key = entries[j].key /\ i < j
      order == SetToSortSeq(DOMAIN entries, Before)
  IN  [n \in 1..Len(entries) |-> entries[order[n]]]
=============================================================================
