----------------------------- MODULE MCExecutor -----------------------------
(***************************************************************************)
(* The executor over MemoryStorage, and over CompositeStorage: there the   *)
(* default engine is JSON, and each table names an engine or takes the     *)
(* default.                                                                *)
(***************************************************************************)
EXTENDS Executor, CompositeStorage

------------------------------------------------------------------------------
(* Small schemas and the statements on them                                 *)

\* A parent with a primary key and a unique column, and a child of it.
Parent(engine) ==
  Schema(<<ColumnDef("id", "primary", FALSE, NoDefault),
           ColumnDef("a", "unique", TRUE, NoDefault)>>, <<>>, engine)

Child(engine) ==
  Schema(<<ColumnDef("a", "no", FALSE, 1), ColumnDef("r", "no", TRUE, NoDefault)>>,
         <<ForeignKey("r", "p", "id")>>, engine)

\* A primary key alone.
Keyed(engine) ==
  Schema(<<ColumnDef("id", "primary", FALSE, NoDefault)>>, <<>>, engine)

\* No constraint at all.
Plain(engine) ==
  Schema(<<ColumnDef("a", "no", TRUE, NoDefault)>>, <<>>, engine)

AddedColumns == {ColumnDef("b", "no", TRUE, NoDefault),
                 ColumnDef("b", "no", FALSE, 2)}

\* Statements on the rows of a parent and its child.
Dml(start, engine) ==
  Setup(start, {"create", "insert", "insert_select", "update", "delete"},
        [p |-> {Parent(engine)}, c |-> {Child(engine)}],
        {}, {}, {1, 2}, {<<>>}, 2)

\* Tables that come, go and change while rows are written.
Ddl(start, engine, added) ==
  Setup(start, {"create", "create_as", "drop", "insert", "delete",
                "rename_column", "add_column", "drop_column"},
        [p |-> {Keyed(engine)}, c |-> {Child(engine)}],
        added, {"z"}, {1}, {<<"a">>}, 1)

\* Statements that copy, move and unlink whole tables.
Copies(start, engine) ==
  Setup(start, {"create", "create_as_if_not_exists", "drop_cascade", "insert",
                "insert_select", "rename_table"},
        [p |-> {Plain(engine)}, c |-> {Plain(engine)}],
        {}, {}, {1}, {<<>>}, 2)

------------------------------------------------------------------------------
(* The executor over MemoryStorage                                          *)

DmlSetups == {Dml(Memory!Empty, NoEngine)}

DdlSetups ==
  {Ddl(Memory!Empty, NoEngine,
       AddedColumns \cup {ColumnDef("b", "no", FALSE, Null)}),
   Copies(Memory!Empty, NoEngine)}

\* The calls of MemoryStorage, under names of their own.
MemoryTableNames(s) == Memory!TableNames(s)
MemoryFetchSchema(s, t) == Memory!FetchSchema(s, t)
MemoryFetchData(s, t, key) == Memory!FetchData(s, t, key)
MemoryScanData(s, t) == Memory!ScanData(s, t)
MemoryInsertSchema(s, t, schema) == Memory!InsertSchema(s, t, schema)
MemoryDeleteSchema(s, t) == Memory!DeleteSchema(s, t)
MemoryAppendData(s, t, rows) == Memory!AppendData(s, t, rows)
MemoryInsertData(s, t, entries) == Memory!InsertData(s, t, entries)
MemoryDeleteData(s, t, keys) == Memory!DeleteData(s, t, keys)
MemoryRenameSchema(s, t, new) == Memory!RenameSchema(s, t, new)
MemoryRenameColumn(s, t, i, name) == Memory!RenameColumn(s, t, i, name)
MemoryCanAddColumn(def) == Memory!CanAddColumn(def)
MemoryAddColumn(s, t, def, value) == Memory!AddColumn(s, t, def, value)
MemoryDropColumn(s, t, i) == Memory!DropColumn(s, t, i)
MemoryWithin(s) == Memory!Within(s)
MemorySettings(s) == Memory!Settings(s)

------------------------------------------------------------------------------
(* The executor over CompositeStorage                                       *)

\* The setup with another engine for table t, and one row per INSERT.
With(s, t, engine) ==
  [s EXCEPT !.schemas[t] = {[schema EXCEPT !.engine = engine] : schema \in @},
            !.batch = 1]

DmlOn(engine) == With(Dml(Bundle("JSON"), NoEngine), "c", engine)

DdlOn(engine) == With(Ddl(Bundle("JSON"), NoEngine, AddedColumns), "c", engine)

\* Both tables name the engine they are in, and the default changes.
ConfigureOn(engine) ==
  [With(DmlOn(engine), "p", engine) EXCEPT !.values = {1},
                                          !.statements = {"create", "insert", "delete", "configure"}]

\* A parent in a file; its child in another file, or in memory.
CompositeSetups ==
  {DmlOn(NoEngine), [DmlOn("MEMORY") EXCEPT !.values = {1}], DdlOn("MEMORY"),
   ConfigureOn("MEMORY")}

=============================================================================
