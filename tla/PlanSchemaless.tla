--------------------------- MODULE PlanSchemaless ---------------------------
(***************************************************************************)
(* core/src/plan/statement: the From conversions that turn a translated     *)
(* statement into the tree the planner works on.  A plan has room for what  *)
(* the planner will choose: the index of a table, the executor of a join,   *)
(* the slot of an aggregate.  The conversion leaves them unchosen.          *)
(***************************************************************************)
EXTENDS SqlGrammar

RECURSIVE From(_)
Each(q) == [i \in DOMAIN q |-> From(q[i])]

From_Function(n) ==
    N("Function", n.s, [i \in DOMAIN FunctionPlan[n.s] |-> From(n.a[At(Function[n.s], FromFunction[n.s][i])])])
From_CountArgExpr(x) == IF x.k = "Wildcard" THEN x ELSE From(x)
From_AggregateFunction(fn, x) == <<fn, IF fn = "Count" THEN From_CountArgExpr(x) ELSE From(x)>>
From_Aggregate(n) ==
    LET f == From_AggregateFunction(n.s, n.a[1]) IN N("Aggregate", f[1], <<f[2], n.a[2], None>>)
From_Expr(n) ==
    CASE n.k \in {"Identifier", "CompoundIdentifier", "Literal", "Value", "TypedString"} -> n
      [] n.k = "Function" -> From_Function(n)
      [] n.k = "Aggregate" -> From_Aggregate(n)
      [] n.k = "Interval" -> N("Interval", n.s, <<From(n.a[1]), n.a[2], n.a[3]>>)
      [] OTHER -> N(n.k, n.s, Each(n.a))

From_TableAlias(x) == x
From_TableFactor(f) ==
    CASE f.k = "Table" -> N("Table", "", <<f.a[1], From_TableAlias(f.a[2]), None>>)
      [] f.k = "Derived" -> N("Derived", "", <<From(f.a[1]), From_TableAlias(f.a[2])>>)
      [] f.k = "Series" -> N("Series", "", <<From_TableAlias(f.a[1]), From(f.a[2])>>)
      [] f.k = "Dictionary" -> N("Dictionary", f.s, <<From_TableAlias(f.a[1])>>)
From_JoinConstraint(c) == From(c)
From_JoinOperator(j) == <<j.s, From_JoinConstraint(j.a[2])>>
From_Join(j) ==
    LET o == From_JoinOperator(j)
    IN  N("Join", o[1], <<From_TableFactor(j.a[1]), o[2], Leaf("NestedLoop", "")>>)
From_TableWithJoins(f) ==
    N("TableWithJoins", "", <<From_TableFactor(f.a[1]), List([i \in DOMAIN f.a[2].a |-> From_Join(f.a[2].a[i])])>>)
From_SelectItem(i) == IF i.k = "Expr" THEN N("Expr", "", <<From(i.a[1]), i.a[2]>>) ELSE i
From_Projection(l) == List([i \in DOMAIN l.a |-> From_SelectItem(l.a[i])])
From_Select(n) ==
    N("Select", n.s, <<From_Projection(n.a[1]), From_TableWithJoins(n.a[2]), From(n.a[3]), From(n.a[4]),
                       From(n.a[5]), None>>)
From_Values(n) == N("Values", "", Each(n.a))
From_SetExpr(n) == IF n.k = "Select" THEN From_Select(n) ELSE From_Values(n)
From_OrderByExpr(o) == N("OrderByExpr", o.s, Each(o.a))
From_Query(n) ==
    N("Query", "", <<From_SetExpr(n.a[1]), List([i \in DOMAIN n.a[2].a |-> From_OrderByExpr(n.a[2].a[i])]),
                     From(n.a[3]), From(n.a[4])>>)
From_AlterTableOperation(o) == o
From_Assignment(x) == N("Assignment", x.s, <<From(x.a[1])>>)
From_Statement(n) ==
    CASE n.k = "Query" -> From_Query(n)
      [] n.k = "Insert" -> N("Insert", "", <<n.a[1], n.a[2], From(n.a[3])>>)
      [] n.k = "Update" ->
            N("Update", "", <<n.a[1], List([i \in DOMAIN n.a[2].a |-> From_Assignment(n.a[2].a[i])]),
                              From(n.a[3])>>)
      [] n.k = "Delete" -> N("Delete", "", <<n.a[1], From(n.a[2])>>)
      [] n.k = "CreateTable" ->
            N("CreateTable", n.s, <<n.a[1], n.a[2], From(n.a[3]), n.a[4], n.a[5], n.a[6]>>)
      [] n.k = "AlterTable" -> N("AlterTable", "", <<n.a[1], From_AlterTableOperation(n.a[2])>>)
      [] OTHER -> n
\* The conversion of a part of a tree, by what it is.
From(n) ==
    CASE n.k \in {"None", "Err"} -> n
      [] n.k = "List" -> N("List", "", Each(n.a))
      [] n.k = "Expr" -> From_SelectItem(n)
      [] n.k = "Assignment" -> From_Assignment(n)
      [] n.k \in DOMAIN Statement -> From_Statement(n)
      [] OTHER -> From_Expr(n)

(***************************************************************************)
(* core/src/plan: the passes over a plan before it runs.  They differ in    *)
(* how they descend: as_exprs and PlanExpr give the expressions right under *)
(* one, visit_mut_expr walks them all but not into a subquery, scan_* looks *)
(* for the tables whose schemas are fetched, check_* asks whether a context *)
(* has every column, and transform_* turns the columns of a table without a *)
(* schema into lookups in its document.  A storage is the function from the *)
(* names of its tables to their columns; {} is a table without a schema.    *)
(***************************************************************************)

\* The fields of a function that a table names, its lists opened.
Fields(table, n) ==
    LET f[i \in 0 .. Len(table[n.s])] ==
            IF i = 0 THEN <<>>
            ELSE LET x == n.a[At(FunctionPlan[n.s], table[n.s][i])]
                 IN  f[i - 1] \o (IF x.k = "List" THEN x.a ELSE IF x = None THEN <<>> ELSE <<x>>)
    IN  f[Len(table[n.s])]
Present(q) == SelectSeq(q, LAMBDA x : x # None)
WhenThen(n) ==
    LET q == n.a[2].a
        f[i \in 0 .. Len(q)] == IF i = 0 THEN <<>> ELSE f[i - 1] \o q[i].a
    IN  f[Len(q)]
\* AggregatePlan::as_expr
as_expr(n) == IF n.a[1].k = "Wildcard" THEN <<>> ELSE <<n.a[1]>>

\* PlanExpr::from: the expressions under one, and its query.
PlanExpr(n) ==
    CASE n.k \in {"Literal", "Value", "TypedString", "Identifier", "CompoundIdentifier"} -> <<>>
      [] n.k \in {"Nested", "UnaryOp", "IsNull", "IsNotNull", "Interval"} -> <<n.a[1]>>
      [] n.k = "Aggregate" -> as_expr(n)
      [] n.k \in {"BinaryOp", "Like", "ILike", "Between"} -> n.a
      [] n.k \in {"InList", "ArrayIndex"} -> n.a[2].a \o <<n.a[1]>>
      [] n.k = "Case" -> WhenThen(n) \o Present(<<n.a[1], n.a[3]>>)
      [] n.k = "Array" -> n.a[1].a
      [] n.k = "Function" -> Fields(AsExprs, n)
      [] n.k \in {"Subquery", "Exists"} -> <<n.a[1]>>
      [] n.k = "InSubquery" -> <<n.a[2], n.a[1]>>

-----------------------------------------------------------------------------
\* The tables whose schema is fetched.
RECURSIVE scan_query(_, _), scan_expr(_, _)
ScanAll(storage, q) == UNION {scan_expr(storage, q[i]) : i \in DOMAIN q}
FetchSchema(storage, name) == {name.s} \cap DOMAIN storage
scan_table_factor(storage, f) ==
    CASE f.k = "Table" -> FetchSchema(storage, f.a[1])
      [] f.k = "Derived" -> scan_query(storage, f.a[1])
      [] OTHER -> {}
\* Fault: the tables of an ON are not looked up.
ScanJoinWithoutConstraint(storage, j) == scan_table_factor(storage, j.a[1])
scan_join(storage, j) == scan_table_factor(storage, j.a[1]) \cup ScanAll(storage, Present(<<j.a[2]>>))
scan_table_with_joins(storage, f) ==
    scan_table_factor(storage, f.a[1])
        \cup UNION {scan_join(storage, f.a[2].a[i]) : i \in DOMAIN f.a[2].a}
Projected(n) ==
    LET items == SelectSeq(n.a[1].a, LAMBDA x : x.k = "Expr") IN [i \in DOMAIN items |-> items[i].a[1]]
scan_select(storage, n) ==
    scan_table_with_joins(storage, n.a[2])
        \cup ScanAll(storage, Projected(n) \o Present(<<n.a[3], n.a[5]>>) \o n.a[4].a)
scan_query(storage, n) ==
    (IF n.a[1].k = "Select" THEN scan_select(storage, n.a[1]) ELSE {})
        \cup ScanAll(storage, Present(<<n.a[3], n.a[4]>>))
scan_expr(storage, n) == IF n.k = "Query" THEN scan_query(storage, n) ELSE ScanAll(storage, PlanExpr(n))
FetchedNames(storage, n) ==
    CASE n.k = "Query" -> scan_query(storage, n)
      [] n.k = "Insert" -> FetchSchema(storage, n.a[1]) \cup scan_query(storage, n.a[3])
      [] n.k \in {"CreateTable", "Update"} -> FetchSchema(storage, n.a[1]) \cup ScanAll(storage, Present(<<n.a[3]>>))
      [] n.k = "DropTable" -> UNION {FetchSchema(storage, n.a[1].a[i]) : i \in DOMAIN n.a[1].a}
      [] n.k = "Delete" -> FetchSchema(storage, n.a[1]) \cup ScanAll(storage, Present(<<n.a[2]>>))
      [] OTHER -> {}
fetch_schema_map(storage, n) == [t \in FetchedNames(storage, n) |-> storage[t]]

-----------------------------------------------------------------------------
\* A context: a chain of the tables in scope, the innermost first, or two chains side by side.
\* None is no context.
RECURSIVE contains_alias(_, _), contains_column(_, _), contains_aliased_column(_, _, _)
Context(alias, columns, next) == [k |-> "Data", alias |-> alias, columns |-> columns, next |-> <<next>>]
NoContext == [k |-> "None"]
concat(left, right) ==
    IF left = NoContext THEN right ELSE IF right = NoContext THEN left
    ELSE [k |-> "Bridge", next |-> <<left, right>>]
contains_alias(c, alias) ==
    \/ c.k = "Data" /\ c.alias = alias
    \/ c.k # "None" /\ \E i \in DOMAIN c.next : contains_alias(c.next[i], alias)
contains_column(c, name) ==
    \/ c.k = "Data" /\ name \in c.columns
    \/ c.k # "None" /\ \E i \in DOMAIN c.next : contains_column(c.next[i], name)
contains_aliased_column(c, alias, name) ==
    IF c.k = "Data" /\ c.alias = alias THEN name \in c.columns
    ELSE c.k # "None" /\ \E i \in DOMAIN c.next : contains_aliased_column(c.next[i], alias, name)
AliasName(f) ==
    CASE f.k = "Table" -> IF f.a[2] = None THEN f.a[1].s ELSE f.a[2].s
      [] f.k = "Derived" -> f.a[2].s
      [] OTHER -> f.a[1].s
update_context(map, next, f) ==
    IF f.k = "Table" /\ f.a[1].s \in DOMAIN map /\ map[f.a[1].s] # {}
    THEN Context(AliasName(f), map[f.a[1].s], next) ELSE next

\* Whether the context has all the columns an expression needs.
RECURSIVE check_expr(_, _), check_query(_, _)
CheckAll(c, q) == \A i \in DOMAIN q : check_expr(c, q[i])
check_table_factor(c, f) == contains_alias(c, AliasName(f))
check_select(c, n) ==
    LET joins == n.a[2].a[2].a
    IN  /\ CheckAll(c, Projected(n))
        /\ check_table_factor(c, n.a[2].a[1])
        /\ \A i \in DOMAIN joins : check_table_factor(c, joins[i].a[1]) /\ CheckAll(c, Present(<<joins[i].a[2]>>))
        /\ CheckAll(c, Present(<<n.a[3], n.a[5]>>) \o n.a[4].a)
check_query(c, n) ==
    /\ IF n.a[1].k = "Select" THEN check_select(c, n.a[1])
       ELSE \A i \in DOMAIN n.a[1].a[1].a : CheckAll(c, n.a[1].a[1].a[i].a)
    /\ \A i \in DOMAIN n.a[2].a : check_expr(c, n.a[2].a[i].a[1])
    /\ CheckAll(c, Present(<<n.a[3], n.a[4]>>))
check_expr(c, n) ==
    CASE n.k = "Query" -> check_query(c, n)
      [] n.k = "Identifier" -> contains_column(c, n.s)
      [] n.k = "CompoundIdentifier" -> contains_aliased_column(c, n.a[1].s, n.a[2].s)
      [] OTHER -> CheckAll(c, PlanExpr(n))

\* is_deterministic and may_return_null; the functions by their tables.
RECURSIVE is_deterministic(_), may_return_null(_)
is_function_deterministic(n) ==
    n.s \in DOMAIN Deterministic
        /\ LET q == Fields(Deterministic, n) IN \A i \in DOMAIN q : is_deterministic(q[i])
is_deterministic(n) ==
    CASE n.k \in {"Identifier", "CompoundIdentifier", "Subquery", "Exists", "InSubquery", "Aggregate"} -> FALSE
      [] n.k = "Function" -> is_function_deterministic(n)
      [] OTHER -> LET q == PlanExpr(n) IN \A i \in DOMAIN q : is_deterministic(q[i])
function_may_return_null(n) ==
    IF n.s \in DOMAIN NullWhenAll
    THEN LET q == Fields(NullWhenAll, n) IN \A i \in DOMAIN q : may_return_null(q[i])
    ELSE IF n.s \in DOMAIN NullWhenAny
    THEN LET q == Fields(NullWhenAny, n) IN \E i \in DOMAIN q : may_return_null(q[i])
    ELSE n.s \in {"NullIf", "Custom"}
may_return_null(n) ==
    CASE n.k \in {"Identifier", "CompoundIdentifier", "ArrayIndex", "Subquery", "Exists", "InSubquery",
                   "Aggregate"} -> TRUE
      [] n.k = "Value" -> n.s = "NULL"
      [] n.k \in {"Literal", "TypedString", "IsNull", "IsNotNull"} -> FALSE
      [] n.k = "Function" -> function_may_return_null(n)
      [] OTHER ->
            \/ n.k = "Case" /\ n.a[3] = None
            \/ LET q == PlanExpr(n) IN \E i \in DOMAIN q : may_return_null(q[i])

(***************************************************************************)
(* core/src/plan/validate.rs, schemaless.rs and planner.rs: the passes that *)
(* refuse an ambiguous column, rewrite the columns of a table without a     *)
(* schema, and reach the subqueries of an expression.  map is the schema    *)
(* map: the tables of the statement whose schema was fetched.               *)
(***************************************************************************)

\* validate: a column projected by its bare name belongs to one table only.
RECURSIVE contextualize_query(_, _)
get_labels(columns) == columns
contextualize_table_factor(map, f) ==
    CASE f.k = "Table" -> IF f.a[1].s \in DOMAIN map THEN <<get_labels(map[f.a[1].s])>> ELSE <<>>
      [] f.k = "Derived" -> contextualize_query(map, f.a[1])
      [] OTHER -> <<>>
contextualize_query(map, n) ==
    LET from == n.a[1].a[2]
        f[i \in 0 .. Len(from.a[2].a)] ==
            IF i = 0 THEN contextualize_table_factor(map, from.a[1])
            ELSE f[i - 1] \o contextualize_table_factor(map, from.a[2].a[i].a[1])
    IN  IF n.a[1].k = "Select" THEN f[Len(from.a[2].a)] ELSE <<>>
validate_duplicated(tables, column) ==
    \E i, j \in DOMAIN tables : i # j /\ column \in tables[i] \cap tables[j]
validate(map, n) ==
    LET q == CASE n.k = "Query" -> n [] n.k \in {"Insert", "CreateTable"} -> n.a[3] [] OTHER -> None
        columns == Projected(q.a[1])
    IN  IF q # None /\ q.a[1].k = "Select"
           /\ \E i \in DOMAIN columns : columns[i].k = "Identifier"
                /\ validate_duplicated(contextualize_query(map, q), columns[i].s)
        THEN Err("ColumnReferenceAmbiguous") ELSE n

-----------------------------------------------------------------------------
\* The children of an expression that a visit goes to; a subquery is not one.
visit_aggregate_children(n) == IF n.a[1].k = "Wildcard" THEN {} ELSE {1}
visit_function_children(n) == {At(FunctionPlan[n.s], Visit[n.s][i]) : i \in DOMAIN Visit[n.s]}
visit_expr_children(n) ==
    CASE n.k \in {"Identifier", "CompoundIdentifier", "Literal", "Value", "TypedString", "Exists", "Subquery"} -> {}
      [] n.k \in {"IsNull", "IsNotNull", "Nested", "InSubquery", "UnaryOp", "Interval", "Array"} -> {1}
      [] n.k \in {"InList", "Between", "Like", "ILike", "BinaryOp", "Case", "ArrayIndex"} -> DOMAIN n.a
      [] n.k = "Function" -> visit_function_children(n)
      [] n.k = "Aggregate" -> visit_aggregate_children(n)

\* schemaless/validate.rs: TRUE when the query is refused.
RECURSIVE validate_query(_, _), try_visit_expr(_, _)
is_schemaless_table(map, name) == name.s \in DOMAIN map /\ map[name.s] = {}
SubqueryOf(n) ==
    CASE n.k \in {"Subquery", "Exists"} -> n.a[1] [] n.k = "InSubquery" -> n.a[2] [] OTHER -> None
try_visit_expr(map, n) ==
    CASE n = None -> FALSE
      [] n.k \in {"List", "When"} -> \E i \in DOMAIN n.a : try_visit_expr(map, n.a[i])
      [] OTHER ->
            \/ \E i \in visit_expr_children(n) : try_visit_expr(map, n.a[i])
            \/ SubqueryOf(n) # None /\ validate_query(map, SubqueryOf(n))
validate_expr(map, n) == try_visit_expr(map, n)
validate_table_factor(map, f) == f.k = "Derived" /\ validate_query(map, f.a[1])
Relations(n) ==
    LET joins == n.a[2].a[2].a IN <<n.a[2].a[1]>> \o [i \in DOMAIN joins |-> joins[i].a[1]]
validate_mixed_join_wildcard_projection(map, n) ==
    LET tables == {i \in DOMAIN Relations(n) : Relations(n)[i].k = "Table"}
    IN  /\ Len(Relations(n)) > 1
        /\ \E i \in DOMAIN n.a[1].a : n.a[1].a[i].k = "Wildcard"
        /\ \E i, j \in tables : /\ is_schemaless_table(map, Relations(n)[i].a[1])
                                /\ ~is_schemaless_table(map, Relations(n)[j].a[1])
validate_select(map, n) ==
    LET joins == n.a[2].a[2].a
    IN  \/ validate_mixed_join_wildcard_projection(map, n)
        \/ \E i \in DOMAIN Relations(n) : validate_table_factor(map, Relations(n)[i])
        \/ \E i \in DOMAIN joins : validate_expr(map, joins[i].a[2]) \/ validate_expr(map, List(joins[i].a[3].a))
        \/ validate_expr(map, List(Projected(n) \o <<n.a[3], n.a[4], n.a[5]>>))
validate_query(map, n) ==
    \/ IF n.a[1].k = "Select" THEN validate_select(map, n.a[1]) ELSE validate_expr(map, n.a[1].a[1])
    \/ \E i \in DOMAIN n.a[2].a : validate_expr(map, n.a[2].a[i].a[1])
    \/ validate_expr(map, n.a[3]) \/ validate_expr(map, n.a[4])
validate_statement(map, n) ==
    LET Mixed(b) == IF b THEN Err("SchemalessMixedJoinWildcardProjection") ELSE n
    IN  CASE n.k = "Query" -> Mixed(validate_query(map, n))
          [] n.k = "Insert" ->
                IF n.a[2].a # <<>> /\ is_schemaless_table(map, n.a[1]) THEN Err("SchemalessInsertWithExplicitColumns")
                ELSE Mixed(validate_query(map, n.a[3]))
          [] n.k = "CreateTable" -> Mixed(n.a[3] # None /\ validate_query(map, n.a[3]))
          [] n.k = "Update" ->
                Mixed(\/ \E i \in DOMAIN n.a[2].a : validate_expr(map, n.a[2].a[i].a[1])
                      \/ validate_expr(map, n.a[3]))
          [] n.k = "Delete" -> Mixed(validate_expr(map, n.a[2]))
          [] OTHER -> n

-----------------------------------------------------------------------------
\* schemaless/query.rs: the rewriting, under a state [bare, aliases].
RECURSIVE transform_query(_, _), visit_mut_expr(_, _, _)
DocColumn == "_doc"
Lookup(doc, name) == N("ArrayIndex", "", <<doc, List(<<N("Literal", "quoted", <<Str(name)>>)>>)>>)
transform_query_expr(map, state, n) ==
    CASE n.k = "Identifier" -> IF state.bare THEN Lookup(Leaf("Identifier", DocColumn), n.s) ELSE n
      [] n.k = "CompoundIdentifier" ->
            IF n.a[1].s \in state.aliases
            THEN Lookup(N("CompoundIdentifier", "", <<n.a[1], Id(DocColumn)>>), n.a[2].s) ELSE n
      [] n.k \in {"Subquery", "Exists"} -> [n EXCEPT !.a[1] = transform_query(map, @)]
      [] n.k = "InSubquery" -> [n EXCEPT !.a[2] = transform_query(map, @)]
      [] OTHER -> n
visit_mut_expr(map, state, n) ==
    CASE n = None -> n
      [] n.k \in {"List", "When"} -> N(n.k, n.s, [i \in DOMAIN n.a |-> visit_mut_expr(map, state, n.a[i])])
      [] OTHER ->
            transform_query_expr(map, state,
                N(n.k, n.s, [i \in DOMAIN n.a |->
                    IF i \in visit_expr_children(n) THEN visit_mut_expr(map, state, n.a[i]) ELSE n.a[i]]))
collect_schemaless_aliases(map, n) ==
    UNION {{Relations(n)[i].a[1].s, AliasName(Relations(n)[i])} :
             i \in {j \in DOMAIN Relations(n) :
                      Relations(n)[j].k = "Table" /\ is_schemaless_table(map, Relations(n)[j].a[1])}}
transform_wildcard_projection(item, whole, aliases) ==
    CASE item.k = "Wildcard" /\ whole -> N("Expr", "", <<Leaf("Identifier", DocColumn), Id(DocColumn)>>)
      [] item.k = "QualifiedWildcard" /\ item.a[1].s \in aliases ->
            N("Expr", "", <<N("CompoundIdentifier", "", <<item.a[1], Id(DocColumn)>>), Id(DocColumn)>>)
      [] OTHER -> item
RewriteItem(map, state, whole, item) ==
    transform_wildcard_projection(
        IF item.k = "Expr" THEN [item EXCEPT !.a[1] = visit_mut_expr(map, state, @)] ELSE item,
        whole, state.aliases)
RewriteFactor(map, f) == IF f.k = "Derived" THEN [f EXCEPT !.a[1] = transform_query(map, @)] ELSE f
RewriteJoin(map, state, j) ==
    N("Join", j.s, <<RewriteFactor(map, j.a[1]), visit_mut_expr(map, state, j.a[2]),
                     [j.a[3] EXCEPT !.a = [i \in DOMAIN @ |-> visit_mut_expr(map, state, @[i])]]>>)
rewrite_select(map, n, state) ==
    LET root == n.a[2].a[1]
        joins == n.a[2].a[2].a
        items == n.a[1].a
        whole == state.bare /\ joins = <<>>
        asMap == /\ whole /\ Len(items) = 1
                 /\ \/ items[1].k = "Wildcard"
                    \/ items[1].k = "QualifiedWildcard" /\ items[1].a[1].s \in {root.a[1].s, AliasName(root)}
    IN  N("Select", n.s,
          <<IF asMap THEN Leaf("SchemalessMap", "")
            ELSE List([i \in DOMAIN items |-> RewriteItem(map, state, whole, items[i])]),
            N("TableWithJoins", "", <<RewriteFactor(map, root),
                                      List([i \in DOMAIN joins |-> RewriteJoin(map, state, joins[i])])>>),
            visit_mut_expr(map, state, n.a[3]), visit_mut_expr(map, state, n.a[4]),
            visit_mut_expr(map, state, n.a[5]), n.a[6]>>)
QueryRewriteState(map, body) ==
    IF body.k = "Select"
    THEN [bare |-> body.a[2].a[1].k = "Table" /\ is_schemaless_table(map, body.a[2].a[1].a[1]),
          aliases |-> collect_schemaless_aliases(map, body)]
    ELSE [bare |-> FALSE, aliases |-> {}]
transform_query(map, n) ==
    LET state == QueryRewriteState(map, n.a[1])
    IN  N("Query", n.s,
          <<IF n.a[1].k = "Select" THEN rewrite_select(map, n.a[1], state) ELSE n.a[1],
            List([i \in DOMAIN n.a[2].a |-> [n.a[2].a[i] EXCEPT !.a[1] = visit_mut_expr(map, state, @)]]),
            visit_mut_expr(map, state, n.a[3]), visit_mut_expr(map, state, n.a[4])>>)

\* schemaless.rs
transform_single_table_expr(map, n, name) ==
    LET schemaless == is_schemaless_table(map, name)
    IN  visit_mut_expr(map, [bare |-> schemaless, aliases |-> IF schemaless THEN {name.s} ELSE {}], n)
transform_statement(map, n) ==
    CASE n.k = "Query" -> transform_query(map, n)
      [] n.k = "Insert" ->
            N("Insert", "", <<n.a[1], IF is_schemaless_table(map, n.a[1]) THEN List(<<Id(DocColumn)>>) ELSE n.a[2],
                              transform_query(map, n.a[3])>>)
      [] n.k = "Update" ->
            N("Update", "", <<n.a[1], List([i \in DOMAIN n.a[2].a |->
                                [n.a[2].a[i] EXCEPT !.a[1] = transform_single_table_expr(map, @, n.a[1])]]),
                              transform_single_table_expr(map, n.a[3], n.a[1])>>)
      [] n.k = "Delete" -> N("Delete", "", <<n.a[1], transform_single_table_expr(map, n.a[2], n.a[1])>>)
      [] OTHER -> n
plan_schemaless(map, n) ==
    IF \A t \in DOMAIN map : map[t] # {} THEN n
    ELSE IF IsErr(validate_statement(map, n)) THEN validate_statement(map, n) ELSE transform_statement(map, n)
\* Planner::plan up to the passes that choose indexes, joins and slots.
plan_statement(storage, n) ==
    LET map == fetch_schema_map(storage, n)
    IN  IF IsErr(validate(map, n)) THEN validate(map, n) ELSE plan_schemaless(map, n)

-----------------------------------------------------------------------------
\* planner.rs: the query of a planner, applied to the subqueries of an expression (a mark here).
RECURSIVE subquery_expr(_)
PlannedQuery(n) == [n EXCEPT !.s = "planned"]
subquery_expr(n) ==
    CASE n.k = "Query" -> PlannedQuery(n)
      [] n.k = "None" \/ (n.k = "Function" /\ n.s \notin {"Cast", "Extract"}) -> n
      [] n.k \in {"Identifier", "CompoundIdentifier", "Literal", "Value", "TypedString", "Aggregate"} -> n
      [] n.k \in {"DataType", "DateTimeField"} -> n
      [] OTHER -> N(n.k, n.s, [i \in DOMAIN n.a |-> subquery_expr(n.a[i])])
=============================================================================
