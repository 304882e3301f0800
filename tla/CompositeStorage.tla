-------------------------- MODULE CompositeStorage --------------------------
(***************************************************************************)
(* The calls of CompositeStorage (storages/composite-storage/src) as       *)
(* operators on its value: a MemoryStorage and a JsonStorage bundled under *)
(* the engine names "MEMORY" and "JSON", and the default engine.  A call   *)
(* on a table goes to the storage that the engine of its schema names, or  *)
(* the default; ALTER TABLE is the provided implementation over these      *)
(* calls.  begin, commit and rollback of the two storages do nothing.      *)
(***************************************************************************)
EXTENDS TableSchema, TLC

CONSTANT MaxId

Memory == INSTANCE MemoryStorage

Json == INSTANCE JsonStorage

Engine == {"MEMORY", "JSON"}

\* CompositeStorage::new, push of both storages and set_default.
Bundle(default) ==
  [MEMORY |-> Memory!Empty, JSON |-> Json!Empty, default |-> default]

Within(s) == Memory!Within(s.MEMORY)

\* set_default
Settings(s) == {[s EXCEPT !.default = e] : e \in Engine}

NamesIn(s, e) ==
  IF e = "MEMORY" THEN Memory!TableNames(s.MEMORY) ELSE Json!TableNames(s.JSON)

TableNames(s) == UNION {NamesIn(s, e) : e \in Engine}

\* fetch_schema asks the storages one by one; when two of them have the
\* table, the order of the HashMap decides.
FetchSchema(s, t) ==
  LET e == CHOOSE f \in Engine : t \in NamesIn(s, f)
  IN  IF e = "MEMORY" THEN Memory!FetchSchema(s.MEMORY, t)
                      ELSE Json!FetchSchema(s.JSON, t)


\* fetch_engine
FetchEngine(s, t) ==
  IF t \in TableNames(s) /\ FetchSchema(s, t).engine # NoEngine
  THEN FetchSchema(s, t).engine ELSE s.default

FetchData(s, t, key) ==
  IF FetchEngine(s, t) = "MEMORY" THEN Memory!FetchData(s.MEMORY, t, key)
                                  ELSE Json!FetchData(s.JSON, t, key)

ScanData(s, t) ==
  IF FetchEngine(s, t) = "MEMORY" THEN Memory!ScanData(s.MEMORY, t)
                                  ELSE Json!ScanData(s.JSON, t)

\* insert_schema writes the default engine into a schema without one.
InsertSchema(s, t, schema) ==
  LET e    == IF schema.engine # NoEngine THEN schema.engine ELSE s.default
      kept == [schema EXCEPT !.engine = e]
  IN  IF e = "MEMORY" THEN [s EXCEPT !.MEMORY = Memory!InsertSchema(@, t, kept)]
                      ELSE [s EXCEPT !.JSON = Json!InsertSchema(@, t, kept)]

DeleteSchema(s, t) ==
  IF FetchEngine(s, t) = "MEMORY"
  THEN [s EXCEPT !.MEMORY = Memory!DeleteSchema(@, t)]
  ELSE [s EXCEPT !.JSON = Json!DeleteSchema(@, t)]

AppendData(s, t, rows) ==
  IF FetchEngine(s, t) = "MEMORY"
  THEN [s EXCEPT !.MEMORY = Memory!AppendData(@, t, rows)]
  ELSE [s EXCEPT !.JSON = Json!AppendData(@, t, rows)]

InsertData(s, t, entries) ==
  IF FetchEngine(s, t) = "MEMORY"
  THEN [s EXCEPT !.MEMORY = Memory!InsertData(@, t, entries)]
  ELSE [s EXCEPT !.JSON = Json!InsertData(@, t, entries)]

DeleteData(s, t, keys) ==
  IF FetchEngine(s, t) = "MEMORY"
  THEN [s EXCEPT !.MEMORY = Memory!DeleteData(@, t, keys)]
  ELSE [s EXCEPT !.JSON = Json!DeleteData(@, t, keys)]

DefaultAlter == INSTANCE AlterTable
                  WITH table_names <- TableNames, fetch_schema <- FetchSchema,
                       scan_data <- ScanData, insert_schema <- InsertSchema,
                       insert_data <- InsertData, delete_schema <- DeleteSchema

RenameSchema(s, t, new) == DefaultAlter!RenameSchema(s, t, new)

RenameColumn(s, t, i, name) == DefaultAlter!RenameColumn(s, t, i, name)

CanAddColumn(def) == DefaultAlter!CanAddColumn(def)

AddColumn(s, t, def, value) == DefaultAlter!AddColumn(s, t, def, value)

DropColumn(s, t, i) == DefaultAlter!DropColumn(s, t, i)
=============================================================================
