------------------------------ MODULE Executor ------------------------------
(***************************************************************************)
(* The statements of the executor (core/src/executor) over a storage: each *)
(* action is one statement, from execute() down to the last call it makes  *)
(* on the storage.  The storage is a value `db` and its calls (the traits  *)
(* Store, StoreMut, AlterTable) are the constant operators below, so one   *)
(* text is checked over every storage that defines them.                   *)
(*                                                                         *)
(* The storages meant here have no transactions: begin(true) answers false *)
(* and nothing undoes what a statement wrote before it failed.  A          *)
(* statement that fails before its first write changes nothing and is a    *)
(* stuttering step, so the guards of an action are the conditions under    *)
(* which it writes.                                                        *)
(***************************************************************************)
EXTENDS TableSchema

LOCAL INSTANCE SequencesExt

CONSTANTS table_names(_), fetch_schema(_,_), fetch_data(_,_,_),
          scan_data(_,_), insert_schema(_,_,_), delete_schema(_,_),
          append_data(_,_,_), insert_data(_,_,_), delete_data(_,_,_),
          rename_schema(_,_,_), rename_column(_,_,_,_), can_add_column(_),
          add_column(_,_,_,_), drop_column(_,_,_), within_bounds(_),
          settings(_)

CONSTANTS Table,        \* table names
          Setups,       \* what the clients do, see Setup
          MaxRows,      \* rows of one table
          MaxColumns    \* columns of one table

VARIABLES setup,   \* the clients of this behaviour
          db,      \* the storage
          payload  \* of the last statement: its kind, table and number of rows

\* A storage to start from and the statements clients send to it: the kinds
\* of statements, the schemas CREATE TABLE may give each table, the columns
\* ADD COLUMN may add, the names a column may be renamed to, the integers
\* statements mention, the select lists (<<>> is *, else column names) and
\* the number of rows of one INSERT.
Setup(start, statements, schemas, added, names, values, projections, batch) ==
  [start |-> start, statements |-> statements, schemas |-> schemas,
   added |-> added, names |-> names, values |-> values,
   projections |-> projections, batch |-> batch]

Statements == setup.statements

Values == setup.values

vars == <<setup, db, payload>>

Exists(t) == t \in table_names(db)

SchemaOf(t) == fetch_schema(db, t)

Rows(s, t) == [n \in 1..Len(scan_data(s, t)) |-> scan_data(s, t)[n].row]

\* The bounds of the instance, and the write of a statement within them.
Fits(s) ==
  /\ \A t \in table_names(s) : /\ Len(scan_data(s, t)) <= MaxRows
                              /\ Len(fetch_schema(s, t).columns) <= MaxColumns
  /\ within_bounds(s)

Write(s, kind, t, n) ==
  /\ Fits(s) /\ db' = s
  /\ payload' = [kind |-> kind, table |-> t, n |-> n]
  /\ UNCHANGED setup

----------------------------------------------------------------------------
(* SELECT: a select list and a WHERE clause `column = value`.               *)

Selectable(t, sel) == sel # <<>> => sel[1] \in ColumnNames(SchemaOf(t))

\* fetch: the entries of a table that satisfy the WHERE clause.
Satisfies(s, t, row, sel) ==
  LET i == Position(fetch_schema(s, t), sel[1])
  IN  HasValue(row, i) /\ row[i] = sel[2]

Fetch(s, t, sel) ==
  IF sel = <<>> THEN scan_data(s, t)
  ELSE SelectSeq(scan_data(s, t), LAMBDA e : Satisfies(s, t, e.row, sel))

Projectable(t, proj) == ToSet(proj) \subseteq ColumnNames(SchemaOf(t))

Projected(s, t, proj) ==
  LET schema == fetch_schema(s, t)
      pick(row) == [n \in 1..Len(proj) |-> row[Position(schema, proj[n])]]
      rows == Rows(s, t)
  IN  IF proj = <<>> THEN rows
      ELSE [n \in 1..Len(rows) |-> pick(rows[n])]

----------------------------------------------------------------------------
(* Constraint checks                                                        *)

\* The tables other than t with a foreign key on t (fetch_referencings).
Referencings(s, t) ==
  UNION {{[table |-> u, key |-> fetch_schema(s, u).foreign_keys[n]] :
            n \in {m \in DOMAIN fetch_schema(s, u).foreign_keys :
                     fetch_schema(s, u).foreign_keys[m].table = t}} :
         u \in table_names(s) \ {t}}

\* create_unique_constraints and the scan: NULLs never clash.
NoDuplicate(t, cols, rows) ==
  \A i \in cols :
    /\ \A a \in DOMAIN rows : HasValue(rows[a], i)
    /\ \A a, b \in DOMAIN rows :
         a # b => rows[a][i] = Null \/ rows[a][i] # rows[b][i]
    /\ \A e \in ToSet(scan_data(db, t)) :
         /\ HasValue(e.row, i)
         /\ e.row[i] = Null \/ \A a \in DOMAIN rows : rows[a][i] # e.row[i]

OnlyPrimaryKey(schema) ==
  HasPrimaryKey(schema) /\ UniqueColumns(schema) = PrimaryColumns(schema)

\* Fault: new rows are not compared with the stored ones.
ValidateUniqueInBatch(t, schema, rows) ==
  \A i \in UniqueColumns(schema) : \A a, b \in DOMAIN rows :
    a # b => rows[a][i] = Null \/ rows[a][i] # rows[b][i]

\* validate_unique for INSERT: a table whose only unique column is its
\* primary key is probed with fetch_data, row by row.
ValidateUnique(t, schema, rows) ==
  IF OnlyPrimaryKey(schema)
  THEN \A a \in DOMAIN rows :
         LET i == PrimaryKey(schema)
         IN  HasValue(rows[a], i) => fetch_data(db, t, rows[a][i]) = NoRow
  ELSE NoDuplicate(t, UniqueColumns(schema), rows)

\* validate_foreign_key: NULL refers to nothing.
ValidateForeignKey(t, schema, rows) ==
  \A n \in DOMAIN schema.foreign_keys :
    LET key == schema.foreign_keys[n]
        i   == Position(schema, key.column)
    IN  /\ i # 0
        /\ \A a \in DOMAIN rows :
             /\ HasValue(rows[a], i)
             /\ rows[a][i] = Null \/ fetch_data(db, key.table, rows[a][i]) # NoRow

----------------------------------------------------------------------------
(* INSERT                                                                   *)

\* A VALUES row names some columns of the table.
Given(schema) ==
  UNION {[names -> Values \cup {Null}] :
         names \in SUBSET ColumnNames(schema) \ {{}}}

\* fill_values: a column left out gets its default, or NULL.
FillValues(schema, given) ==
  [i \in Columns(schema) |->
     LET def == schema.columns[i]
     IN  IF def.name \in DOMAIN given THEN given[def.name]
         ELSE IF def.default # NoDefault THEN def.default ELSE Null]

\* A NULL that was given, defaulted or filled in fails in a NOT NULL column;
\* only the columns the row reaches are compared.
NullsAllowed(schema, row) ==
  \A i \in Columns(schema) \cap DOMAIN row :
    row[i] = Null => schema.columns[i].nullable

\* Fault: a batch for a table with a primary key is appended.
InsertRowsAppending(t, rows) ==
  LET schema == SchemaOf(t)
  IN  /\ \A a \in DOMAIN rows : NullsAllowed(schema, rows[a])
      /\ ValidateUnique(t, schema, rows)
      /\ ValidateForeignKey(t, schema, rows)
      /\ Write(append_data(db, t, rows), "insert", t, Len(rows))

\* The rest of insert(): a table with a primary key stores each row under
\* the value of that column, and drops a row too short to have one.
InsertRows(t, rows) ==
  LET schema == SchemaOf(t)
      i      == PrimaryKey(schema)
      keyed  == SelectSeq(rows, LAMBDA row : HasValue(row, i))
  IN  /\ \A a \in DOMAIN rows : NullsAllowed(schema, rows[a])
      /\ ValidateUnique(t, schema, rows)
      /\ ValidateForeignKey(t, schema, rows)
      /\ IF HasPrimaryKey(schema)
         THEN Write(insert_data(db, t, [n \in 1..Len(keyed) |->
                      [key |-> keyed[n][i], row |-> keyed[n]]]),
                    "insert", t, Len(keyed))
         ELSE Write(append_data(db, t, rows), "insert", t, Len(rows))

Insert(t, batch) ==
  /\ Exists(t)
  /\ InsertRows(t, [n \in 1..Len(batch) |-> FillValues(SchemaOf(t), batch[n])])

\* INSERT ... SELECT: the column list is not used, nor the number of values.
InsertSelect(t, source, proj) ==
  /\ "insert_select" \in Statements
  /\ Exists(t) /\ Exists(source) /\ Projectable(source, proj)
  /\ InsertRows(t, Projected(db, source, proj))

----------------------------------------------------------------------------
(* UPDATE and DELETE                                                        *)


\* try_into_value of an assignment.
Assignable(def, value) == value = Null => def.nullable

\* UPDATE t SET column = value WHERE sel: Update::new, Update::apply for
\* every selected row, validate_unique for that column, insert_data.
Update(t, sel, column, value) ==
  /\ "update" \in Statements
  /\ Exists(t)
  /\ LET schema  == SchemaOf(t)
         i       == Position(schema, column)
         entries == Fetch(db, t, sel)
         changed == [n \in 1..Len(entries) |->
                       [entries[n] EXCEPT !.row[i] = value]]
         newRows == [n \in 1..Len(entries) |-> changed[n].row]
     IN  /\ Selectable(t, sel)
         /\ column \in ColumnNames(schema)
         /\ schema.columns[i].unique # "primary"
         /\ entries # <<>> => Assignable(schema.columns[i], value)
         /\ \A n \in DOMAIN schema.foreign_keys :
              LET key == schema.foreign_keys[n]
              IN  \/ key.column # column \/ value = Null \/ entries = <<>>
                  \/ fetch_data(db, key.table, value) # NoRow
         /\ schema.columns[i].unique # "no" => NoDuplicate(t, {i}, newRows)
         /\ Write(insert_data(db, t, changed), "update", t, Len(changed))

\* Fault: rows that refer to the deleted ones are not looked for.
DeleteUnchecked(t, sel) ==
  /\ "delete" \in Statements
  /\ Exists(t) /\ Selectable(t, sel)
  /\ Write(delete_data(db, t, {e.key : e \in ToSet(Fetch(db, t, sel))}),
           "delete", t, Len(Fetch(db, t, sel)))

\* DELETE FROM t WHERE sel, every foreign key being ON DELETE NO ACTION.
Delete(t, sel) ==
  /\ "delete" \in Statements
  /\ Exists(t) /\ Selectable(t, sel)
  /\ LET entries == ToSet(Fetch(db, t, sel))
     IN  /\ \A e \in entries, r \in Referencings(db, t) :
              LET i == Position(SchemaOf(t), r.key.referenced)
              IN  /\ i # 0 /\ HasValue(e.row, i)
                  /\ Fetch(db, r.table, <<r.key.column, e.row[i]>>) = <<>>
         /\ Write(delete_data(db, t, {e.key : e \in entries}),
                  "delete", t, Cardinality(entries))

----------------------------------------------------------------------------
(* CREATE TABLE, DROP TABLE                                                 *)

\* The foreign keys of create_table: the referenced column is a primary key.
ForeignKeysValid(t, schema) ==
  \A n \in DOMAIN schema.foreign_keys :
    LET key == schema.foreign_keys[n]
        of  == IF key.table = t THEN schema ELSE SchemaOf(key.table)
    IN  /\ key.table # t => Exists(key.table)
        /\ key.column \in ColumnNames(schema)
        /\ key.referenced \in ColumnNames(of)
        /\ of.columns[Position(of, key.referenced)].unique = "primary"

CreateTable(t, schema) ==
  /\ "create" \in Statements
  /\ ForeignKeysValid(t, schema)
  /\ ~Exists(t)
  /\ Write(insert_schema(db, t, schema), "create", t, 0)

\* The columns of CREATE TABLE ... AS SELECT: SELECT * copies the column
\* definitions of the source, any other list makes plain columns.
SourceColumns(source, proj) ==
  IF proj = <<>> THEN SchemaOf(source).columns
  ELSE [n \in 1..Len(proj) |-> ColumnDef(proj[n], "no", TRUE, NoDefault)]

\* IF NOT EXISTS keeps an existing table and appends to it all the same.
CreateTableAs(t, source, proj, ifNotExists) ==
  /\ IF ifNotExists THEN "create_as_if_not_exists" \in Statements
                    ELSE "create_as" \in Statements
  /\ Exists(source) /\ Projectable(source, proj) /\ IsInjective(proj)
  /\ Exists(t) => ifNotExists
  /\ LET schema  == [columns |-> SourceColumns(source, proj),
                     foreign_keys |-> <<>>, engine |-> NoEngine]
         created == IF Exists(t) THEN db ELSE insert_schema(db, t, schema)
     IN  Write(append_data(created, t, Projected(db, source, proj)), "create", t, 0)

\* DROP TABLE ... CASCADE writes the schema of every referencing table back
\* without the foreign key.
Unlink(s, t, u) ==
  insert_schema(s, u, [fetch_schema(s, u) EXCEPT !.foreign_keys =
                        SelectSeq(@, LAMBDA key : key.table # t)])

DropOne(acc, t, ifExists, cascade) ==
  LET users == {r.table : r \in Referencings(acc.db, t)}
  IN  IF ~acc.ok THEN acc
      ELSE IF t \notin table_names(acc.db) THEN [acc EXCEPT !.ok = ifExists]
      ELSE IF users # {} /\ ~cascade THEN [acc EXCEPT !.ok = FALSE]
      ELSE [acc EXCEPT !.db =
              delete_schema(FoldLeft(LAMBDA s, u : Unlink(s, t, u), @, SetToSeq(users)),
                           t)]

\* The tables are dropped one by one; those dropped before an error stay so.
DropTable(names, ifExists, cascade) ==
  /\ IF cascade THEN "drop_cascade" \in Statements ELSE "drop" \in Statements
  /\ Write(FoldLeft(LAMBDA acc, t : DropOne(acc, t, ifExists, cascade),
                    [db |-> db, ok |-> TRUE], names).db, "drop", names[1], 0)

----------------------------------------------------------------------------
(* ALTER TABLE                                                              *)

\* alter_table: a column a foreign key uses, on either side, stays as it is.
FreeOfKeys(t, column) ==
  /\ \A n \in DOMAIN SchemaOf(t).foreign_keys :
       SchemaOf(t).foreign_keys[n].column # column
  /\ \A r \in Referencings(db, t) : r.key.referenced # column

RenameTable(t, new) ==
  /\ "rename_table" \in Statements
  /\ Exists(t)
  /\ Write(rename_schema(db, t, new), "rename", t, 0)

RenameColumnTo(t, column, new) ==
  /\ "rename_column" \in Statements
  /\ Exists(t) /\ FreeOfKeys(t, column)
  /\ column \in ColumnNames(SchemaOf(t)) /\ new \notin ColumnNames(SchemaOf(t))
  /\ Write(rename_column(db, t, Position(SchemaOf(t), column), new), "alter", t, 0)

DefaultOf(def) == IF def.default = NoDefault THEN Null ELSE def.default

AlterAddColumn(t, def) ==
  /\ "add_column" \in Statements
  /\ Exists(t) /\ def.name \notin ColumnNames(SchemaOf(t)) /\ can_add_column(def)
  /\ Write(add_column(db, t, def, DefaultOf(def)), "alter", t, 0)


AlterDropColumn(t, column) ==
  /\ "drop_column" \in Statements
  /\ Exists(t) /\ FreeOfKeys(t, column) /\ column \in ColumnNames(SchemaOf(t))
  /\ Write(drop_column(db, t, Position(SchemaOf(t), column)), "alter", t, 0)
----------------------------------------------------------------------------

Init == /\ setup \in Setups
        /\ db = setup.start
        /\ payload = [kind |-> "none", table |-> "", n |-> 0]

Selections(t) == 
  {<<>>} \cup {<<c, v>> : c \in ColumnNames(SchemaOf(t)), v \in Values}

InsertValues ==
  /\ "insert" \in Statements
  /\ \E t \in table_names(db) :
       \E batch \in UNION {[1..n -> Given(SchemaOf(t))] : n \in 1..setup.batch} :
         Insert(t, batch)

InsertFrom ==
  \E t, source \in table_names(db), proj \in setup.projections :
    InsertSelect(t, source, proj)

UpdateRows ==
  \E t \in table_names(db) :
    \E sel \in Selections(t), column \in ColumnNames(SchemaOf(t)),
       value \in Values \cup {Null} : Update(t, sel, column, value)

DeleteRows == \E t \in table_names(db) : \E sel \in Selections(t) : Delete(t, sel)

Create == \E t \in DOMAIN setup.schemas : \E schema \in setup.schemas[t] : CreateTable(t, schema)

CreateAs ==
  \E t \in Table, source \in table_names(db), proj \in setup.projections,
     ifNotExists \in BOOLEAN : CreateTableAs(t, source, proj, ifNotExists)

\* Lists of one and of two names, any of which may be missing.
Drop ==
  \E names \in UNION {[1..n -> Table] : n \in 1..2}, ifExists, cascade \in BOOLEAN :
    DropTable(names, ifExists, cascade)

Alter ==
  \E t \in table_names(db) :
    \/ \E new \in Table : RenameTable(t, new)
    \/ \E column \in ColumnNames(SchemaOf(t)), new \in setup.names :
         RenameColumnTo(t, column, new)
    \/ \E def \in setup.added : AlterAddColumn(t, def)
    \/ \E column \in ColumnNames(SchemaOf(t)) : AlterDropColumn(t, column)

\* A call on the storage itself that changes its settings.
Configure ==
  /\ "configure" \in Statements
  /\ \E s \in settings(db) : Write(s, "configure", "", 0)

Next ==
  \/ InsertValues \/ InsertFrom \/ UpdateRows \/ DeleteRows
  \/ Create \/ CreateAs \/ Drop \/ Alter \/ Configure

Spec == Init /\ [][Next]_vars
----------------------------------------------------------------------------
(* Properties                                                               *)

\* Every stored row has one value per column and a NULL only where the
\* column definition allows one, whatever ALTER TABLE did to the schema.
RowsFitSchema ==
  \A t \in table_names(db) : \A e \in ToSet(scan_data(db, t)) :
    /\ Len(e.row) = Len(SchemaOf(t).columns)
    /\ \A i \in DOMAIN e.row :
         e.row[i] = Null => SchemaOf(t).columns[i].nullable

\* The row a table with a primary key shows in a scan is the row fetch_data
\* finds under its primary key: what the planner's primary key lookup, the
\* duplicate check of INSERT and the foreign key checks rely on.
PrimaryKeyFindsRow ==
  \A t \in table_names(db) :
    HasPrimaryKey(SchemaOf(t)) =>
      \A e \in ToSet(scan_data(db, t)) :
        fetch_data(db, t, e.row[PrimaryKey(SchemaOf(t))]) = e.row

\* No two rows of a table have the same value in a UNIQUE or PRIMARY KEY
\* column, NULLs aside.
UniqueHolds ==
  \A t \in table_names(db) :
    LET entries == scan_data(db, t)
    IN  \A i \in Columns(SchemaOf(t)), a, b \in DOMAIN entries :
          a # b => \/ SchemaOf(t).columns[i].unique = "no"
                   \/ entries[a].row[i] = Null
                   \/ entries[a].row[i] # entries[b].row[i]

\* Every foreign key refers to a table that exists, and every value of its
\* column to a row of that table: INSERT, UPDATE, DELETE, DROP TABLE and
\* ALTER TABLE each check only their own side of it.
ReferencesHold ==
  \A t \in table_names(db) : \A n \in DOMAIN SchemaOf(t).foreign_keys :
    LET key == SchemaOf(t).foreign_keys[n]
        i   == Position(SchemaOf(t), key.column)
    IN  /\ Exists(key.table)
        /\ i # 0
        /\ \A e \in ToSet(scan_data(db, t)) :
             e.row[i] = Null \/ fetch_data(db, key.table, e.row[i]) # NoRow

\* Rows leave a table by DELETE from it or DROP TABLE of it, and by nothing
\* else; RENAME takes all of them along.
NoRowLost ==
  [][\A t \in table_names(db) :
       IF t \in table_names(db')
       THEN \/ Len(scan_data(db', t)) >= Len(scan_data(db, t))
            \/ payload'.kind = "delete" /\ payload'.table = t
       ELSE \/ payload'.kind = "drop"
            \/ \E new \in table_names(db') :
                 Len(scan_data(db', new)) = Len(scan_data(db, t))]_vars

\* An INSERT that reports n rows has added n rows to its table, and no
\* statement on rows touches another table.
InsertAddsRows ==
  [][/\ payload'.kind = "insert" =>
          Len(scan_data(db', payload'.table)) =
            Len(scan_data(db, payload'.table)) + payload'.n
     /\ payload'.kind \in {"insert", "update", "delete"} =>
          \A u \in table_names(db) \ {payload'.table} :
            scan_data(db', u) = scan_data(db, u)]_vars

\* UPDATE rewrites rows in place: it neither adds nor removes one.
UpdateKeepsRows ==
  [][payload'.kind = "update" =>
       \A t \in table_names(db) :
         Len(scan_data(db', t)) = Len(scan_data(db, t))]_vars

\* The values of a row by column name, for the columns in `names`.
Named(s, t, row, names) ==
  [c \in names |-> row[Position(fetch_schema(s, t), c)]]

\* ALTER TABLE changes no value of a column it does not name: the rows of
\* every table agree before and after on the columns both schemas have.
AlterKeepsValues ==
  [][payload'.kind = "alter" =>
       \A t \in table_names(db) \cap table_names(db') :
         LET names == ColumnNames(fetch_schema(db, t))
                        \cap ColumnNames(fetch_schema(db', t))
             view(s) == [n \in 1..Len(scan_data(s, t)) |->
                           Named(s, t, scan_data(s, t)[n].row, names)]
         IN  ToBag(view(db)) = ToBag(view(db'))]_vars



=============================================================================
