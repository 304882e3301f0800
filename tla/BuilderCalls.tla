---------------------------- MODULE BuilderCalls ----------------------------
(***************************************************************************)
(* core/src/query_builder: what the nodes of the query builder build, and   *)
(* the calls that make them.  Every node builds twice: build_expr,          *)
(* build_select and build_query give the syntax tree the SQL front end      *)
(* gives, build_*_plan the plan straight away; the code writes both out.    *)
(* Arguments given as text are parsed and translated.                       *)
(***************************************************************************)
EXTENDS SqlTranslate, PlanSchemaless

\* What a node builds, by its kind; an argument given as text is the node of TextNode.
RECURSIVE Built(_)
TextNode(what, t) == N("text", what, t)

\* select with its child i set to e: the error of select comes first, then that of e.
SetChild(select, i, e) ==
    IF IsErr(select) THEN select ELSE IF IsErr(e) THEN e ELSE [select EXCEPT !.a[i] = e]
\* What each node sets in the query of the node before it.
set_selection(select, e) == SetChild(select, 3, e)
set_group_by(select, l) == SetChild(select, 4, l)
set_having(select, e) == SetChild(select, 5, e)
set_projection(select, l) == SetChild(select, 1, l)
set_order_by(query, l) == SetChild(query, 2, l)
set_limit(query, e) == SetChild(query, 3, e)
set_offset(query, e) == SetChild(query, 4, e)
set_offset_limit(query, e) == SetChild(query, 3, e)
\* The first error of a sequence of lists, or one list of all they hold.
Flatten(q) ==
    LET f[i \in 0 .. Len(q)] == IF i = 0 THEN <<>> ELSE f[i - 1] \o q[i].a
        l == List(q)
    IN  IF IsErr(l) THEN l ELSE List(f[Len(q)])

\* Leaves that build the same way for the tree and for the plan.
try_from_numeric(n) ==
    IF n.s \in {"F32", "F64", "Str"} /\ n.a[1].s = "NaN" THEN Err("FailedToParseNumeric")
    ELSE Leaf("Literal", n.a[1].s)
build_identifier(n) == IF Len(n.a) = 2 THEN N("CompoundIdentifier", "", n.a) ELSE Leaf("Identifier", n.s)
build_data_type(n) == IF n.s = "Text" THEN translate_data_type(parse_data_type(n.a)) ELSE n.a[1]
table_alias(x) == IF x = None THEN None ELSE N("Alias", x.s, <<List(<<>>)>>)
CountsRows(x) == x = N("CountText", "", <<Kw("*")>>)

-----------------------------------------------------------------------------
\* The syntax tree.
build_exprs(l) ==
    IF l.s = "Text" THEN Built(TextNode("exprs", l.a))
    ELSE List([i \in DOMAIN l.a |-> Built(l.a[i])])
build_function_field(x) ==
    CASE x.k \in {"None", "DateTimeField"} -> x
      [] x.k = "ExprList" -> build_exprs(x)
      [] x.k = "DataTypeNode" -> build_data_type(x)
      [] OTHER -> Built(x)
build_function(n) ==
    Mk("Function", n.s, [i \in DOMAIN Function[n.s] |->
        build_function_field(n.a[At(FunctionNode[n.s], BuildFunction[n.s][i])])])
build_count_arg_expr(x) == IF CountsRows(x) THEN Leaf("Wildcard", "") ELSE Built(x)
build_aggregate(n) ==
    Mk("Aggregate", n.s, <<IF n.s = "Count" THEN build_count_arg_expr(n.a[1]) ELSE Built(n.a[1]),
                           n.a[2]>>)
\* A text is taken for a query, and for a list when it is none.
build_in_text(neg, e, q, l) ==
    IF ~IsErr(q) THEN Mk("InSubquery", neg, <<e, q>>)
    ELSE Mk("InList", neg, <<e, Built(TextNode("exprs", l.a))>>)
build_in_list(neg, e, l) ==
    CASE l.k = "InList" -> Mk("InList", neg, <<e, build_exprs(l)>>)
      [] l.k = "InText" -> build_in_text(neg, e, Built(TextNode("query", l.a)), l)
      [] OTHER -> Mk("InSubquery", neg, <<e, Built(l)>>)
build_case(n) ==
    Mk("Case", "", <<Built(n.a[1]),
                     List([i \in DOMAIN n.a[2].a |->
                        Mk("When", "", <<Built(n.a[2].a[i].a[1]), Built(n.a[2].a[i].a[2])>>)]),
                     Built(n.a[3])>>)
build_expr(n) ==
    CASE n.k = "None" -> n
      [] n.k = "Expr" -> n.a[1]
      [] n.k \in {"SqlExpr", "CountText"} -> Built(TextNode("expr", n.a))
      [] n.k = "Identifier" -> build_identifier(n)
      [] n.k = "Numeric" -> try_from_numeric(n)
      [] n.k = "QuotedString" -> N("Literal", "quoted", n.a)
      [] n.k = "TypedString" -> n
      [] n.k \in {"Between", "Like", "ILike", "BinaryOp", "UnaryOp", "IsNull", "IsNotNull", "Nested"} ->
            Mk(n.k, n.s, [i \in DOMAIN n.a |-> Built(n.a[i])])
      [] n.k = "InList" -> build_in_list(n.s, Built(n.a[1]), n.a[2])
      [] n.k = "Function" -> build_function(n)
      [] n.k = "Aggregate" -> build_aggregate(n)
      [] n.k \in {"Exists", "Subquery"} -> Mk(n.k, n.s, <<Built(n.a[1])>>)
      [] n.k = "Case" -> build_case(n)

\* A column without an alias is labelled by its own text.
Labelled(e, label) == Mk("Expr", "", <<e, N("rendered", "", <<label>>)>>)
RenderedItem(e) == Labelled(e, e)
build_select_item(i) ==
    CASE i.k = "SelectItem" -> i.a[1]
      [] i.k = "ItemText" -> Built(TextNode("item", i.a))
      [] i.k = "ItemExpr" -> RenderedItem(Built(i.a[1]))
      [] i.k = "ItemAlias" -> Mk("Expr", "", <<Built(i.a[1]), Id(i.s)>>)
build_select_items(l) ==
    IF l.s = "Text" THEN Built(TextNode("items", l.a)) ELSE List([i \in DOMAIN l.a |-> build_select_item(l.a[i])])
build_order_by_expr(o) ==
    IF o.s = "Text" THEN Built(TextNode("order", o.a)) ELSE Mk("OrderByExpr", o.s, <<Built(o.a[1])>>)
build_order_by_exprs(l) ==
    IF l.s = "Text" THEN Built(TextNode("orders", l.a)) ELSE List([i \in DOMAIN l.a |-> build_order_by_expr(l.a[i])])

\* A table factor: <<name, the series' size or the derived query, alias, index>>.
build_relation(f) ==
    LET alias == table_alias(f.a[3])
    IN  CASE f.k = "Table" -> Mk("Table", "", <<f.a[1], alias>>)
          [] f.k = "Dictionary" -> Mk("Dictionary", f.s, <<alias_or_name(alias, f.a[1].s)>>)
          [] f.k = "Series" -> Mk("Series", "", <<alias_or_name(alias, f.a[1].s), Built(f.a[2])>>)
          [] f.k = "Derived" -> Mk("Derived", "", <<Built(f.a[2]), table_alias(f.a[1])>>)
build_select_root(n) ==
    IF n.a[1].a[4] # None THEN Err("IndexByRequiresPlan")
    ELSE Mk("Select", n.s, <<List(<<Leaf("Wildcard", "")>>),
            Mk("TableWithJoins", "", <<build_relation(n.a[1]), List(<<>>)>>), None, List(<<>>), None>>)
build_table_factor(j) == N("Table", "", <<j.a[2], table_alias(j.a[3])>>)
join_operator_with_constraint(j, c) == N("Join", j.s, <<build_table_factor(j), c>>)
\* select with one more join.
PushJoin(select, join) ==
    IF IsErr(select) THEN select ELSE [select EXCEPT !.a[2].a[2] = List(Append(@.a, join))]

RECURSIVE build_select(_)
build_select_with_constraint(j, c) ==
    IF IsErr(c) THEN c ELSE IF j.k = "HashJoinNode" THEN Err("HashJoinExecutorRequiresPlan")
    ELSE PushJoin(build_select(j.a[1]), join_operator_with_constraint(j, c))
build_projection(n) == Flatten([i \in DOMAIN n.a[2].a |-> build_select_items(n.a[2].a[i])])
build_select(n) ==
    CASE n.k = "SelectNode" -> build_select_root(n)
      [] n.k = "JoinNode" -> build_select_with_constraint(n, None)
      [] n.k = "JoinConstraintNode" -> build_select_with_constraint(n.a[1], Built(n.a[2]))
      [] n.k = "HashJoinNode" -> Err("HashJoinExecutorRequiresPlan")
      [] n.k = "FilterNode" -> set_selection(build_select(n.a[1]), Built(n.a[2]))
      [] n.k = "GroupByNode" -> set_group_by(build_select(n.a[1]), build_exprs(n.a[2]))
      [] n.k = "HavingNode" -> set_having(build_select(n.a[1]), Built(n.a[2]))
      [] n.k = "ProjectNode" -> set_projection(build_select(n.a[1]), build_projection(n))
build_values(n) == Mk("Values", "", <<List([i \in DOMAIN n.a |-> build_exprs(n.a[i])])>>)
QueryOf(body) == Mk("Query", "", <<body, List(<<>>), None, None>>)
build_query(n) ==
    CASE n.k = "QueryText" -> Built(TextNode("query", n.a))
      [] n.k = "ValuesNode" -> QueryOf(build_values(n))
      [] n.k = "OrderByNode" -> set_order_by(Built(n.a[1]), build_order_by_exprs(n.a[2]))
      [] n.k = "LimitNode" -> set_limit(Built(n.a[1]), Built(n.a[2]))
      [] n.k = "OffsetLimitNode" -> set_offset_limit(Built(n.a[1]), Built(n.a[2]))
      [] n.k = "OffsetNode" -> set_offset(Built(n.a[1]), Built(n.a[2]))
      [] OTHER -> QueryOf(build_select(n))
QueryNodes ==
    {"QueryText", "SelectNode", "JoinNode", "JoinConstraintNode", "HashJoinNode", "FilterNode", "GroupByNode",
     "HavingNode", "ProjectNode", "OrderByNode", "OffsetNode", "LimitNode", "OffsetLimitNode", "ValuesNode"}
Built(n) ==
    CASE n.k = "text" -> FromText(n.s, n.a)
      [] n.k = "OrderNode" -> build_order_by_expr(n)
      [] n.k \in QueryNodes -> build_query(n)
      [] OTHER -> build_expr(n)

(***************************************************************************)
(* core/src/query_builder: the build_*_plan half of the builder's nodes,    *)
(* and the statements, which only build a plan.  Two kinds of hint exist    *)
(* for a plan only: index_by and hash_executor.                             *)
(***************************************************************************)

RECURSIVE Planned(_)

build_exprs_plan(l) ==
    IF l.s = "Text" THEN Planned(TextNode("exprs", l.a))
    ELSE List([i \in DOMAIN l.a |-> Planned(l.a[i])])
build_function_field_plan(x) ==
    CASE x.k \in {"None", "DateTimeField"} -> x
      [] x.k = "ExprList" -> build_exprs_plan(x)
      [] x.k = "DataTypeNode" -> build_data_type(x)
      [] OTHER -> Planned(x)
build_function_plan(n) ==
    Mk("Function", n.s, [i \in DOMAIN FunctionPlan[n.s] |->
        build_function_field_plan(n.a[At(FunctionNode[n.s], BuildFunctionPlan[n.s][i])])])
build_count_arg_expr_plan(x) == IF CountsRows(x) THEN Leaf("Wildcard", "") ELSE Planned(x)
build_aggregate_plan(n) ==
    Mk("Aggregate", n.s, <<IF n.s = "Count" THEN build_count_arg_expr_plan(n.a[1])
                           ELSE Planned(n.a[1]), n.a[2], None>>)
build_in_text_plan(neg, e, q, l) ==
    IF ~IsErr(q) THEN Mk("InSubquery", neg, <<e, q>>)
    ELSE Mk("InList", neg, <<e, Planned(TextNode("exprs", l.a))>>)
build_in_list_plan(neg, e, l) ==
    CASE l.k = "InList" -> Mk("InList", neg, <<e, build_exprs_plan(l)>>)
      [] l.k = "InText" -> build_in_text_plan(neg, e, Planned(TextNode("query", l.a)), l)
      [] OTHER -> Mk("InSubquery", neg, <<e, Planned(l)>>)
\* Fault: the plan of CASE leaves the ELSE out.
CasePlanWithoutElse(n) ==
    Mk("Case", "", <<Planned(n.a[1]),
                     List([i \in DOMAIN n.a[2].a |-> Mk("When", "",
                        <<Planned(n.a[2].a[i].a[1]), Planned(n.a[2].a[i].a[2])>>)]), None>>)
build_case_plan(n) ==
    Mk("Case", "", <<Planned(n.a[1]),
                     List([i \in DOMAIN n.a[2].a |-> Mk("When", "",
                        <<Planned(n.a[2].a[i].a[1]), Planned(n.a[2].a[i].a[2])>>)]),
                     Planned(n.a[3])>>)
build_expr_plan(n) ==
    CASE n.k = "None" -> n
      [] n.k = "Expr" -> From(n.a[1])
      [] n.k \in {"SqlExpr", "CountText"} -> Planned(TextNode("expr", n.a))
      [] n.k = "Identifier" -> build_identifier(n)
      [] n.k = "Numeric" -> try_from_numeric(n)
      [] n.k = "QuotedString" -> N("Literal", "quoted", n.a)
      [] n.k = "TypedString" -> n
      [] n.k \in {"Between", "Like", "ILike", "BinaryOp", "UnaryOp", "IsNull", "IsNotNull", "Nested"} ->
            Mk(n.k, n.s, [i \in DOMAIN n.a |-> Planned(n.a[i])])
      [] n.k = "InList" -> build_in_list_plan(n.s, Planned(n.a[1]), n.a[2])
      [] n.k = "Function" -> build_function_plan(n)
      [] n.k = "Aggregate" -> build_aggregate_plan(n)
      [] n.k \in {"Exists", "Subquery"} -> Mk(n.k, n.s, <<Planned(n.a[1])>>)
      [] n.k = "Case" -> build_case_plan(n)

\* A column without an alias is labelled by its syntax tree, which a hint has not.
PlanHints == {"IndexByRequiresPlan", "HashJoinExecutorRequiresPlan"}
LabelError(e) == IF IsErr(e) /\ e.s \in PlanHints THEN Err("ProjectionLabelRequiresAlias") ELSE e
LabelledPlan(e, label) == IF IsErr(label) THEN label ELSE Labelled(e, label)
build_select_item_plan(i) ==
    CASE i.k = "SelectItem" -> From_SelectItem(i.a[1])
      [] i.k = "ItemText" -> Planned(TextNode("item", i.a))
      [] i.k = "ItemExpr" -> LabelledPlan(Planned(i.a[1]), LabelError(Built(i.a[1])))
      [] i.k = "ItemAlias" -> Mk("Expr", "", <<Planned(i.a[1]), Id(i.s)>>)
build_select_items_plan(l) ==
    IF l.s = "Text" THEN Planned(TextNode("items", l.a))
    ELSE List([i \in DOMAIN l.a |-> build_select_item_plan(l.a[i])])
build_order_by_expr_plan(o) ==
    IF o.s = "Text" THEN Planned(TextNode("order", o.a)) ELSE Mk("OrderByExpr", o.s, <<Planned(o.a[1])>>)
build_order_by_exprs_plan(l) ==
    IF l.s = "Text" THEN Planned(TextNode("orders", l.a))
    ELSE List([i \in DOMAIN l.a |-> build_order_by_expr_plan(l.a[i])])

build_index_item_plan(x) ==
    CASE x = None -> None
      [] x.k = "PrimaryKey" -> Mk("PrimaryKey", "", <<Planned(x.a[1])>>)
      [] x.k = "NonClustered" ->
            Mk("NonClustered", "", <<x.a[1], x.a[2],
                IF x.a[3] = None THEN None ELSE Mk("Cmp", x.a[3].s, <<Planned(x.a[3].a[1])>>)>>)
build_alias_or_name_plan(alias, name) == IF alias = None THEN N("Alias", name, <<List(<<>>)>>) ELSE alias
build_relation_plan(f, index) ==
    LET alias == table_alias(f.a[3])
    IN  CASE IsErr(index) -> index
          [] f.k = "Table" -> Mk("Table", "", <<f.a[1], alias, index>>)
          [] f.k = "Dictionary" -> Mk("Dictionary", f.s, <<build_alias_or_name_plan(alias, f.a[1].s)>>)
          [] f.k = "Series" ->
                Mk("Series", "", <<build_alias_or_name_plan(alias, f.a[1].s), Planned(f.a[2])>>)
          [] f.k = "Derived" -> Mk("Derived", "", <<Planned(f.a[2]), table_alias(f.a[1])>>)
build_select_root_plan(n) ==
    LET r == build_relation_plan(n.a[1], build_index_item_plan(n.a[1].a[4]))
    IN  Mk("Select", n.s, <<List(<<Leaf("Wildcard", "")>>), Mk("TableWithJoins", "", <<r, List(<<>>)>>),
                            None, List(<<>>), None, None>>)
build_table_factor_plan(j) == N("Table", "", <<j.a[2], table_alias(j.a[3]), None>>)
join_operator_plan_with_constraint(j, c, executor) ==
    N("Join", j.s, <<build_table_factor_plan(j), c, executor>>)
build_join_executor(h) ==
    Mk("Hash", "", <<Planned(h.a[2]), Planned(h.a[3]), Planned(h.a[4])>>)

RECURSIVE build_select_plan(_)
build_join_plan_with_constraint(j, c) ==
    PushJoin(build_select_plan(j.a[1]), join_operator_plan_with_constraint(j, c, Leaf("NestedLoop", "")))
PushHashJoin(select, j, c, executor) ==
    IF IsErr(select) THEN select ELSE IF IsErr(executor) THEN executor
    ELSE PushJoin(select, join_operator_plan_with_constraint(j, c, executor))
build_hash_join_plan_with_constraint(h, c) ==
    PushHashJoin(build_select_plan(h.a[1].a[1]), h.a[1], c, build_join_executor(h))
build_select_plan_with_constraint(j, c) ==
    IF IsErr(c) THEN c
    ELSE IF j.k = "HashJoinNode" THEN build_hash_join_plan_with_constraint(j, c)
    ELSE build_join_plan_with_constraint(j, c)
build_projection_plan(n) == Flatten([i \in DOMAIN n.a[2].a |-> build_select_items_plan(n.a[2].a[i])])
build_select_plan(n) ==
    CASE n.k = "SelectNode" -> build_select_root_plan(n)
      [] n.k \in {"JoinNode", "HashJoinNode"} -> build_select_plan_with_constraint(n, None)
      [] n.k = "JoinConstraintNode" -> build_select_plan_with_constraint(n.a[1], Planned(n.a[2]))
      [] n.k = "FilterNode" -> set_selection(build_select_plan(n.a[1]), Planned(n.a[2]))
      [] n.k = "GroupByNode" -> set_group_by(build_select_plan(n.a[1]), build_exprs_plan(n.a[2]))
      [] n.k = "HavingNode" -> set_having(build_select_plan(n.a[1]), Planned(n.a[2]))
      [] n.k = "ProjectNode" -> set_projection(build_select_plan(n.a[1]), build_projection_plan(n))
build_values_plan(n) == Mk("Values", "", <<List([i \in DOMAIN n.a |-> build_exprs_plan(n.a[i])])>>)
build_query_plan(n) ==
    CASE n.k = "QueryText" -> Planned(TextNode("query", n.a))
      [] n.k = "ValuesNode" -> QueryOf(build_values_plan(n))
      [] n.k = "OrderByNode" -> set_order_by(Planned(n.a[1]), build_order_by_exprs_plan(n.a[2]))
      [] n.k = "LimitNode" -> set_limit(Planned(n.a[1]), Planned(n.a[2]))
      [] n.k = "OffsetLimitNode" -> set_offset_limit(Planned(n.a[1]), Planned(n.a[2]))
      [] n.k = "OffsetNode" -> set_offset(Planned(n.a[1]), Planned(n.a[2]))
      [] OTHER -> QueryOf(build_select_plan(n))

-----------------------------------------------------------------------------
\* The statements.  A query node builds the statement that runs it.
build_column_def(c) == Built(TextNode("column_def", c.a))
build_assignment(x) ==
    IF x.k = "SetExpr" THEN Mk("Assignment", x.s, <<Planned(x.a[1])>>)
    ELSE Planned(TextNode("assignment", x.a))
build_column_list(l) ==
    IF l = None THEN List(<<>>) ELSE IF l.s = "Text" THEN parse_identifiers(l.a) ELSE List(l.a)
build_insert(n) == Mk("Insert", "", <<n.a[1].a[1], build_column_list(n.a[1].a[2]), Planned(n.a[2])>>)
build_delete(n) == Mk("Delete", "", <<n.a[1], Planned(n.a[2])>>)
Updates(table_name, assignments, selection) ==
    IF IsErr(selection) THEN selection ELSE Mk("Update", "", <<table_name, assignments, selection>>)
build_update(n) ==
    Updates(n.a[1], List([i \in DOMAIN n.a[3].a |-> build_assignment(n.a[3].a[i])]), Planned(n.a[2]))
build_create_table(n) ==
    From(Mk("CreateTable", n.s,
        <<n.a[1], IF n.a[2] = None THEN None ELSE List([i \in DOMAIN n.a[2].a |-> build_column_def(n.a[2].a[i])]),
          None, None, List(<<>>), None>>))
build_drop_table(n) == From(Mk("DropTable", n.s, <<List(<<n.a[1]>>), n.a[2]>>))
build_create_index(n) == Mk("CreateIndex", "", <<n.a[2], n.a[1], Built(n.a[3])>>)
build_drop_index(n) == N("DropIndex", "", <<n.a[2], n.a[1]>>)
build_alter_table(n, operation) == From(Mk("AlterTable", "", <<n.a[1], operation>>))
build_add_column(n) == build_alter_table(n, Mk("AddColumn", "", <<build_column_def(n.a[2])>>))
build_drop_column(n) == build_alter_table(n, N("DropColumn", n.s, <<n.a[2]>>))
build_rename_column(n) == build_alter_table(n, N("RenameColumn", "", <<n.a[2], n.a[3]>>))
build_rename_table(n) == build_alter_table(n, N("RenameTable", "", <<n.a[2]>>))
build_show_columns(n) == From(N("ShowColumns", "", n.a))

begin == From(Leaf("StartTransaction", ""))
commit == From(Leaf("Commit", ""))
rollback == From(Leaf("Rollback", ""))

build_statement(n) ==
    CASE n.k = "InsertSourceNode" -> build_insert(n)
      [] n.k = "DeleteNode" -> build_delete(n)
      [] n.k = "UpdateSetNode" -> build_update(n)
      [] n.k = "CreateTableNode" -> build_create_table(n)
      [] n.k = "DropTableNode" -> build_drop_table(n)
      [] n.k = "CreateIndexNode" -> build_create_index(n)
      [] n.k = "DropIndexNode" -> build_drop_index(n)
      [] n.k = "AddColumnNode" -> build_add_column(n)
      [] n.k = "DropColumnNode" -> build_drop_column(n)
      [] n.k = "RenameColumnNode" -> build_rename_column(n)
      [] n.k = "RenameTableNode" -> build_rename_table(n)
      [] n.k = "ShowColumnsNode" -> build_show_columns(n)
      [] n.k = "begin" -> begin
      [] n.k = "commit" -> commit
      [] n.k = "rollback" -> rollback
StatementNodes ==
    {"InsertSourceNode", "DeleteNode", "UpdateSetNode", "CreateTableNode", "DropTableNode",
     "CreateIndexNode", "DropIndexNode", "AddColumnNode", "DropColumnNode", "RenameColumnNode",
     "RenameTableNode", "ShowColumnsNode", "begin", "commit", "rollback"}
Planned(n) ==
    CASE n.k = "text" -> From(FromText(n.s, n.a))
      [] n.k \in QueryNodes -> build_query_plan(n)
      [] n.k \in StatementNodes -> build_statement(n)
      [] OTHER -> build_expr_plan(n)

(***************************************************************************)
(* core/src/query_builder: the functions and methods a program calls.  Each *)
(* gives the node the call returns.  For the nodes of a query, Prev is the  *)
(* enum of the nodes it can be called on and Methods what it offers next.   *)
(***************************************************************************)

\* Expressions: the functions that start one.
expr(t) == N("SqlExpr", "", t)
col(s, parts) == N("Identifier", s, Ids(parts))
num(variant, s) == N("Numeric", variant, <<Num(s)>>)
text(s) == N("QuotedString", "", <<Str(s)>>)
TypedString(type, s) == N("TypedString", "", <<Leaf("DataType", type), Str(s)>>)
date(s) == TypedString("Date", s)
from_expr(e) == N("Expr", "", <<e>>)
from_i64(s) == from_expr(Leaf("Literal", s))
from_bool(s) == from_expr(Leaf("Value", s))
value(s) == from_expr(Leaf("Value", s))
bytea(s) == value(s)
null == value("NULL")
subquery(q) == N("Subquery", "", <<q>>)
exists(q) == N("Exists", "false", <<q>>)
not_exists(q) == N("Exists", "true", <<q>>)

\* Operators on an expression, by the name of the method.
BinaryMethod ==
    [add |-> "Plus", sub |-> "Minus", mul |-> "Multiply", div |-> "Divide", modulo |-> "Modulo",
     concat |-> "StringConcat", gt |-> "Gt", lt |-> "Lt", gte |-> "GtEq", lte |-> "LtEq", eq |-> "Eq",
     neq |-> "NotEq", and |-> "And", or |-> "Or", bitwise_and |-> "BitwiseAnd",
     bitwise_shift_left |-> "BitwiseShiftLeft", bitwise_shift_right |-> "BitwiseShiftRight"]
binary_op(n, op, other) == N("BinaryOp", op, <<n, other>>)
UnaryMethod ==
    [plus |-> "Plus", minus |-> "Minus", negate |-> "Not", factorial |-> "Factorial",
     bitwise_not |-> "BitwiseNot"]
unary_op(n, op) == N("UnaryOp", op, <<n>>)
LikeMethod ==
    [like |-> <<"Like", "false">>, ilike |-> <<"ILike", "false">>, not_like |-> <<"Like", "true">>,
     not_ilike |-> <<"ILike", "true">>]
like(n, m, pattern) == N(LikeMethod[m][1], LikeMethod[m][2], <<n, pattern>>)
between(n, low, high) == N("Between", "false", <<n, low, high>>)
not_between(n, low, high) == N("Between", "true", <<n, low, high>>)
is_null(n) == N("IsNull", "", <<n>>)
is_not_null(n) == N("IsNotNull", "", <<n>>)
InListNode(kind, q) == IF kind = "Query" THEN q[1] ELSE N(kind, "", q)
in_list(n, l) == N("InList", "false", <<n, l>>)
not_in_list(n, l) == N("InList", "true", <<n, l>>)
nested(n) == N("Nested", "", <<n>>)
case(operand) == N("CaseNode", "", <<operand, List(<<>>)>>)
when_then(c, when, then) ==
    N("WhenThenNode", "", <<c.a[1], List(Append(c.a[2].a, N("When", "", <<when, then>>)))>>)
or_else(c, else) == N("Case", "", c.a \o <<else>>)
end(c) == N("Case", "", c.a \o <<None>>)

\* Aggregates, by the name of the function; every one is a method too.
AggregateFns ==
    [count |-> <<"Count", FALSE>>, count_distinct |-> <<"Count", TRUE>>, sum |-> <<"Sum", FALSE>>,
     sum_distinct |-> <<"Sum", TRUE>>, min |-> <<"Min", FALSE>>, min_distinct |-> <<"Min", TRUE>>,
     max |-> <<"Max", FALSE>>, max_distinct |-> <<"Max", TRUE>>, avg |-> <<"Avg", FALSE>>,
     avg_distinct |-> <<"Avg", TRUE>>, variance |-> <<"Variance", FALSE>>,
     variance_distinct |-> <<"Variance", TRUE>>, stdev |-> <<"Stdev", FALSE>>,
     stdev_distinct |-> <<"Stdev", TRUE>>]
aggregate(f, arg) == N("Aggregate", AggregateFns[f][1], <<arg, Flag(AggregateFns[f][2])>>)

\* A function: the constructor puts its arguments into the fields of the node; the method
\* of the same name calls it with the receiver among the arguments.
construct(f, args) ==
    LET row == Constructor[f]
    IN  N("Function", row[1], [j \in DOMAIN FunctionNode[row[1]] |->
            args[At(Tail(row), FunctionNode[row[1]][j])]])
method(f, self, others) ==
    LET at == At(Method[f], "self")
    IN  construct(f, SubSeq(others, 1, at - 1) \o <<self>> \o SubSeq(others, at, Len(others)))

ExprList(kind, q) == N("ExprList", kind, q)
asc(n) == N("OrderNode", "ASC", <<n>>)
desc(n) == N("OrderNode", "DESC", <<n>>)
OrderByExprNode(n) == N("OrderNode", "", <<n>>)
OrderByText(t) == N("OrderNode", "Text", t)
OrderByExprList(kind, q) == N("OrderBys", kind, q)
alias_as_expr(n, alias) == N("ItemAlias", alias, <<n>>)
SelectItemNode(kind, q) == N(kind, "", q)
SelectItemList(kind, q) == N("Items", kind, q)

-----------------------------------------------------------------------------
\* Queries.  The nodes a node can follow.
FilterPrev == {"SelectNode", "JoinNode", "JoinConstraintNode", "HashJoinNode"}
GroupByPrev == {"SelectNode", "JoinNode", "JoinConstraintNode", "HashJoinNode", "FilterNode"}
HavingPrev == {"GroupByNode"}
ProjectPrev ==
    {"SelectNode", "GroupByNode", "HavingNode", "JoinNode", "JoinConstraintNode", "HashJoinNode",
     "FilterNode"}
OrderByPrev ==
    {"SelectNode", "HavingNode", "GroupByNode", "FilterNode", "JoinNode", "JoinConstraintNode",
     "HashJoinNode", "ProjectNode", "ValuesNode"}
OffsetPrev ==
    {"SelectNode", "GroupByNode", "HavingNode", "JoinNode", "JoinConstraintNode", "HashJoinNode",
     "FilterNode", "OrderByNode", "ProjectNode", "ValuesNode"}
LimitPrev ==
    {"SelectNode", "GroupByNode", "HavingNode", "JoinNode", "JoinConstraintNode", "HashJoinNode",
     "FilterNode", "OrderByNode", "ProjectNode", "ValuesNode"}
OffsetLimitPrev == {"OffsetNode"}
JoinPrev == {"SelectNode", "JoinNode", "JoinConstraintNode", "HashJoinNode"}
JoinConstraintPrev == {"JoinNode", "HashJoinNode"}

\* The methods of a node.
Joins == {"join", "join_as", "left_join", "left_join_as"}
SelectMethods ==
    {"distinct", "filter", "group_by", "offset", "limit", "project", "order_by", "alias_as"} \cup Joins
JoinMethods ==
    {"on", "hash_executor", "project", "group_by", "offset", "limit", "filter", "order_by", "alias_as"}
        \cup Joins
JoinConstraintMethods ==
    {"project", "group_by", "offset", "limit", "filter", "order_by", "alias_as"} \cup Joins
HashJoinMethods ==
    {"hash_filter", "on", "project", "group_by", "offset", "limit", "filter", "order_by", "alias_as"}
        \cup Joins
FilterMethods == {"filter", "offset", "limit", "project", "group_by", "order_by", "alias_as"}
GroupByMethods == {"having", "offset", "limit", "project", "order_by", "alias_as"}
HavingMethods == {"offset", "limit", "project", "order_by", "alias_as"}
ProjectMethods == {"project", "order_by", "offset", "limit", "alias_as"}
OrderByMethods == {"offset", "limit", "alias_as"}
OffsetMethods == {"limit", "alias_as"}
LimitMethods == {"alias_as"}
OffsetLimitMethods == {"alias_as"}
ValuesMethods == {"order_by", "offset", "limit", "alias_as"}
Methods ==
    [SelectNode |-> SelectMethods, JoinNode |-> JoinMethods, JoinConstraintNode |-> JoinConstraintMethods,
     HashJoinNode |-> HashJoinMethods, FilterNode |-> FilterMethods, GroupByNode |-> GroupByMethods,
     HavingNode |-> HavingMethods, ProjectNode |-> ProjectMethods, OrderByNode |-> OrderByMethods,
     OffsetNode |-> OffsetMethods, LimitNode |-> LimitMethods, OffsetLimitNode |-> OffsetLimitMethods,
     ValuesNode |-> ValuesMethods]
Prev ==
    [filter |-> FilterPrev, group_by |-> GroupByPrev, having |-> HavingPrev, project |-> ProjectPrev,
     order_by |-> OrderByPrev, offset |-> OffsetPrev, limit |-> LimitPrev \cup OffsetLimitPrev,
     join |-> JoinPrev, join_as |-> JoinPrev, left_join |-> JoinPrev, left_join_as |-> JoinPrev,
     on |-> JoinConstraintPrev]
\* A second filter or project stays with the node of the first.
Extends == [filter |-> "FilterNode", project |-> "ProjectNode"]
Offers(n, m) ==
    /\ n.k \in DOMAIN Methods /\ m \in Methods[n.k]
    /\ (m \in DOMAIN Extends /\ n.k = Extends[m]) \/ (m \in DOMAIN Prev => n.k \in Prev[m])

\* A table factor: <<name, the series' size or the derived query, alias, index>>.
TableFactorNode(type, s, name, of, alias, index) == N(type, s, <<Id(name), of, alias, index>>)
table(name) == N("TableNameNode", name, <<>>)
series(size) == TableFactorNode("Series", "", "SERIES", size, None, None)
glue(dictionary) == TableFactorNode("Dictionary", dictionary, dictionary, None, None, None)
table_alias_as(t, alias) == TableFactorNode("Table", "", t.s, None, Id(alias), None)
index_by(t, index) == TableFactorNode("Table", "", t.s, None, None, index)
primary_key_eq(e) == N("PrimaryKey", "", <<e>>)
non_clustered(name, order, cmp) == N("NonClustered", "", <<Id(name), order, cmp>>)
cmp_expr(op, e) == N("Cmp", op, <<e>>)

table_select(t) == N("SelectNode", "", <<TableFactorNode("Table", "", t.s, None, None, None)>>)
factor_select(f) == N("SelectNode", "", <<f>>)
select_alone ==
    N("SelectNode", "", <<TableFactorNode("Series", "", "Series", from_i64("1"), None, None)>>)
values(rows) == N("ValuesNode", "", rows)
distinct(n) == N("SelectNode", "Distinct", n.a)
\* Fault: a second filter takes the place of the first.
FilterOverwrites(n, e) ==
    IF n.k = "FilterNode" THEN N("FilterNode", "", <<n.a[1], e>>) ELSE N("FilterNode", "", <<n, e>>)
filter(n, e) ==
    N("FilterNode", "", IF n.k = "FilterNode" THEN <<n.a[1], binary_op(n.a[2], "And", e)>> ELSE <<n, e>>)
group_by(n, l) == N("GroupByNode", "", <<n, l>>)
having(n, e) == N("HavingNode", "", <<n, e>>)
project(n, l) ==
    N("ProjectNode", "", IF n.k = "ProjectNode" THEN <<n.a[1], List(Append(n.a[2].a, l))>>
                         ELSE <<n, List(<<l>>)>>)
order_by(n, l) == N("OrderByNode", "", <<n, l>>)
offset(n, e) == N("OffsetNode", "", <<n, e>>)
limit(n, e) == N(IF n.k = "OffsetNode" THEN "OffsetLimitNode" ELSE "LimitNode", "", <<n, e>>)
JoinOperatorType(m) == IF m \in {"join", "join_as"} THEN "Inner" ELSE "LeftOuter"
join(n, m, name, alias) ==
    N("JoinNode", JoinOperatorType(m), <<n, Id(name), IF m \in {"join", "left_join"} THEN None ELSE Id(alias)>>)
on(n, e) == N("JoinConstraintNode", "", <<n, e>>)
hash_executor(n, key, val) == N("HashJoinNode", "", <<n, key, val, None>>)
hash_filter(h, e) ==
    [h EXCEPT !.a[4] = IF h.a[4] = None THEN e ELSE binary_op(h.a[4], "And", e)]
alias_as(n, alias) == TableFactorNode("Derived", "", alias, n, None, None)

-----------------------------------------------------------------------------
\* Statements.
delete(t) == N("DeleteNode", "", <<Id(t.s), None>>)
delete_filter(d, e) == [d EXCEPT !.a[2] = e]
update(t) == N("UpdateNode", "", <<Id(t.s), None>>)
update_filter(u, e) ==
    N("UpdateFilterNode", "", <<u.a[1], IF u.k = "UpdateNode" THEN e ELSE binary_op(u.a[2], "And", e)>>)
set(u, id, e) ==
    LET x == N("SetExpr", id, <<e>>)
    IN  N("UpdateSetNode", "", <<u.a[1], u.a[2], List(IF u.k = "UpdateSetNode" THEN Append(u.a[3].a, x) ELSE <<x>>)>>)
insert(t) == N("InsertNode", "", <<Id(t.s), None>>)
columns(i, l) == [i EXCEPT !.a[2] = l]
insert_values(i, rows) == N("InsertSourceNode", "", <<i, values(rows)>>)
as_select(i, q) == N("InsertSourceNode", "", <<i, q>>)
create_table(t, flag) == N("CreateTableNode", flag, <<Id(t.s), None>>)
create_table_add_column(c, text_) ==
    [c EXCEPT !.a[2] = IF c.a[2] = None THEN List(<<text_>>) ELSE List(Append(c.a[2].a, text_))]
drop_table(t, if_exists, cascade) == N("DropTableNode", if_exists, <<Id(t.s), Flag(cascade)>>)
create_index(t, name, order) == N("CreateIndexNode", "", <<Id(t.s), Id(name), order>>)
drop_index(t, name) == N("DropIndexNode", "", <<Id(t.s), Id(name)>>)
show_columns(t) == N("ShowColumnsNode", "", <<Id(t.s)>>)
add_column(t, text_) == N("AddColumnNode", "", <<Id(t.s), text_>>)
drop_column(t, if_exists, name) == N("DropColumnNode", if_exists, <<Id(t.s), Id(name)>>)
rename_column(t, old, new) == N("RenameColumnNode", "", <<Id(t.s), Id(old), Id(new)>>)
rename_table(t, new) == N("RenameTableNode", "", <<Id(t.s), Id(new)>>)

(***************************************************************************)
(* What a chain of query-builder calls says in SQL: the parser's tree of    *)
(* the statement it stands for.  This is the promise of the builder's       *)
(* documentation, not code: each call has the SQL of its name, and a        *)
(* compound operand is written in parentheses.                              *)
(***************************************************************************)

Atomic == {"Identifier", "CompoundIdentifier", "Number", "SingleQuotedString", "Boolean", "Null", "hex",
           "ph", "Nested", "Function", "Subquery", "TypedString", "Err"}
Operand(s) == IF s.k \in Atomic THEN s ELSE N("Nested", "", <<s>>)

SqlSymbol ==
    [add |-> "+", sub |-> "-", mul |-> "*", div |-> "/", modulo |-> "%", concat |-> "||", gt |-> ">",
     lt |-> "<", gte |-> ">=", lte |-> "<=", eq |-> "=", neq |-> "<>", and |-> "AND", or |-> "OR",
     bitwise_and |-> "&", bitwise_shift_left |-> "<<", bitwise_shift_right |-> ">>"]
SayBinary(symbol, a, b) == Mk("BinaryOp", OperatorOf(symbol), <<Operand(a), Operand(b)>>)
SqlUnary ==
    [plus |-> "Plus", minus |-> "Minus", negate |-> "Not", factorial |-> "PGPostfixFactorial",
     bitwise_not |-> "PGBitwiseNot"]
SayUnary(m, s) == Mk("UnaryOp", SqlUnary[m], <<Operand(s)>>)
SayParts(k, word, q) == Mk(k, word, [i \in DOMAIN q |-> Operand(q[i])])
SayLike(m, s, pattern) ==
    Mk(IF m \in {"like", "not_like"} THEN "Like" ELSE "ILike",
       IF m \in {"like", "ilike"} THEN "false" ELSE "true", <<Operand(s), Operand(pattern), None>>)

SqlNames ==
    [abs |-> "ABS", upper |-> "UPPER", lower |-> "LOWER", initcap |-> "INITCAP", ifnull |-> "IFNULL",
     nullif |-> "NULLIF", rand |-> "RAND", round |-> "ROUND", trunc |-> "TRUNC", coalesce |-> "COALESCE",
     concat |-> "CONCAT", concat_ws |-> "CONCAT_WS", asin |-> "ASIN", acos |-> "ACOS", atan |-> "ATAN",
     sin |-> "SIN", cos |-> "COS", tan |-> "TAN", pi |-> "PI", generate_uuid |-> "GENERATE_UUID",
     now |-> "NOW", current_date |-> "CURRENT_DATE", current_time |-> "CURRENT_TIME",
     current_timestamp |-> "CURRENT_TIMESTAMP", left |-> "LEFT", log |-> "LOG", log2 |-> "LOG2",
     log10 |-> "LOG10", ln |-> "LN", right |-> "RIGHT", reverse |-> "REVERSE", sign |-> "SIGN",
     skip |-> "SKIP", power |-> "POWER", sqrt |-> "SQRT", gcd |-> "GCD", lcm |-> "LCM",
     repeat |-> "REPEAT", replace |-> "REPLACE", lpad |-> "LPAD", rpad |-> "RPAD",
     degrees |-> "DEGREES", radians |-> "RADIANS", take |-> "TAKE", exp |-> "EXP", substr |-> "SUBSTR",
     ltrim |-> "LTRIM", rtrim |-> "RTRIM", divide |-> "DIV", modulo |-> "MOD", format |-> "FORMAT",
     to_date |-> "TO_DATE", to_timestamp |-> "TO_TIMESTAMP", to_time |-> "TO_TIME",
     find_idx |-> "FIND_IDX", ascii |-> "ASCII", chr |-> "CHR", md5 |-> "MD5", hex |-> "HEX",
     point |-> "POINT", get_x |-> "GET_X", get_y |-> "GET_Y", greatest |-> "GREATEST",
     calc_distance |-> "CALC_DISTANCE", length |-> "LENGTH", is_empty |-> "IS_EMPTY",
     last_day |-> "LAST_DAY", entries |-> "ENTRIES", keys |-> "KEYS", values |-> "VALUES"]
\* f called with the arguments q, in the order SQL has them.
SayCall(f, q) ==
    CASE f = "cast" -> Mk("Cast", "Cast", <<q[1], q[2], None>>)
      [] f = "extract" -> Mk("Extract", "", <<q[1], q[2]>>)
      [] f = "position" -> Mk("Position", "", <<Operand(q[2]), Operand(q[1])>>)
      [] f = "floor" -> Mk("Floor", "", <<q[1], None>>)
      [] f = "ceil" -> Mk("Ceil", "", <<q[1], None>>)
      [] OTHER -> Mk("Function", SqlNames[f], <<List(q), Flag(FALSE)>>)
SqlAggregates ==
    [Count |-> "COUNT", Sum |-> "SUM", Min |-> "MIN", Max |-> "MAX", Avg |-> "AVG", Variance |-> "VARIANCE",
     Stdev |-> "STDEV"]
SayAggregate(name, different, s) == Mk("Function", SqlAggregates[name], <<List(<<s>>), Flag(different)>>)

\* Queries.  What SQL has no words for, a hint or a float that is no number, stays unsaid.
Unsaid == Err("unsaid")
\* q changed by e into r, unless one of them cannot be said.
Said(q, e, r) == IF IsErr(q) THEN q ELSE IF IsErr(e) THEN e ELSE r
SayAlias(alias) == IF alias = None THEN None ELSE N("Alias", alias.s, <<List(<<>>)>>)
SayTable(name, alias, args) == N("Table", "", <<List(<<Id(name)>>), SayAlias(alias), args>>)
SaySelect(factor) ==
    Said(factor, None,
        N("Query", "", <<N("Select", "", <<List(<<Leaf("Wildcard", "")>>),
                List(IF factor = None THEN <<>> ELSE <<N("TableWithJoins", "", <<factor, List(<<>>)>>)>>),
                None, List(<<>>), None, List(<<>>)>>),
            List(<<>>), None, None, List(<<>>)>>))
SayAnd(a, b) == IF a = None THEN b ELSE SayBinary("AND", a, b)
SayDistinct(q) == Said(q, None, [q EXCEPT !.a[1].s = "Distinct"])
SayWhere(q, e) == Said(q, e, [q EXCEPT !.a[1].a[3] = SayAnd(@, e)])
SayGroupBy(q, l) == Said(q, l, [q EXCEPT !.a[1].a[4] = l])
SayHaving(q, e) == Said(q, e, [q EXCEPT !.a[1].a[5] = e])
SayProject(q, items, more) ==
    Said(q, items, [q EXCEPT !.a[1].a[1] = IF more THEN List(@.a \o items.a) ELSE items])
SayOrderBy(q, l) == Said(q, l, [q EXCEPT !.a[2] = l])
SayLimit(q, e) == Said(q, e, [q EXCEPT !.a[3] = e])
SayOffset(q, e) == Said(q, e, [q EXCEPT !.a[4] = e])
SayJoin(q, op, name, alias) ==
    Said(q, IF ~IsErr(q) /\ q.a[1].a[2].a = <<>> THEN Unsaid ELSE None, [q EXCEPT !.a[1].a[2].a[1].a[2] =
        List(Append(@.a, N("Join", op, <<SayTable(name, alias, None), None>>)))])
SayOn(q, e) ==
    Said(q, e, LET joins == q.a[1].a[2].a[1].a[2].a
               IN  [q EXCEPT !.a[1].a[2].a[1].a[2].a[Len(joins)].a[2] = e])
SayDerived(q, alias) == Said(q, None, N("Derived", "", <<q, SayAlias(Id(alias))>>))
SayValues(rows) == Said(rows, None, N("Query", "", <<N("Values", "", <<rows>>), List(<<>>), None, None, List(<<>>)>>))
Target(name) == N("TableWithJoins", "", <<SayTable(name, None, None), List(<<>>)>>)
=============================================================================
