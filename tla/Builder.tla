------------------------------ MODULE Builder ------------------------------
(***************************************************************************)
(* A program builds a statement call by call: it starts from a table, an    *)
(* expression or a query, and each call gives the next node.  node is what  *)
(* it holds, said the SQL that the calls so far stand for, as the parser    *)
(* would read it.  A statement written in SQL from the start has no node.   *)
(***************************************************************************)
EXTENDS BuilderCalls, SqlPrint, PlanSchemaless

CONSTANTS
    MaxExprCalls,   \* calls on an expression
    MaxQueryCalls,  \* calls on a query or a statement
    Atoms,          \* the expressions a program starts from: records [n, s]
    Few,            \* those it passes as further arguments
    Receivers,      \* those whose functions it calls
    Texts,          \* the texts it passes: a record of sets
    SqlExprs,       \* the expressions written in SQL
    Statements,     \* the statements written in SQL that hold no expression, or are refused
    Storages        \* the tables of the storage it may run on

VARIABLES node, said, calls
vars == <<node, said, calls>>

ExprKinds ==
    {"Expr", "SqlExpr", "Identifier", "Numeric", "QuotedString", "TypedString", "Between", "Like",
     "ILike", "BinaryOp", "UnaryOp", "IsNull", "IsNotNull", "InList", "Nested", "Function",
     "Aggregate", "Exists", "Subquery", "Case"}
IsExpr == node.k \in ExprKinds
IsQuery == node.k \in DOMAIN Methods
IsFactor == node.k \in {"Table", "Series", "Dictionary", "Derived"}
CanCall == IF IsExpr THEN calls < MaxExprCalls ELSE calls < MaxQueryCalls
Becomes(n, s) == node' = n /\ said' = s /\ calls' = calls + 1
\* A last call.
Ends(n, s) == node' = n /\ said' = s /\ calls' = MaxExprCalls + MaxQueryCalls

Pair(n, s) == [n |-> n, s |-> s]
ExprLists ==
    {Pair(ExprList("Exprs", <<x.n>>), List(<<x.s>>)) : x \in Few}
        \cup {Pair(ExprList("Text", t), parse_comma_separated_exprs(t)) : t \in Texts.exprs}
ItemList(n, s) == Pair(SelectItemList("Items", <<n>>), List(<<s>>))
SelectItemLists ==
    {ItemList(SelectItemNode("ItemExpr", <<x.n>>), Mk("UnnamedExpr", "", <<x.s>>)) : x \in Few}
        \cup {ItemList(alias_as_expr(x.n, "a"), Mk("ExprWithAlias", "", <<x.s, Id("a")>>)) : x \in Few}
        \cup {ItemList(SelectItemNode("ItemText", t), parse_select_item(t)) : t \in Texts.item}
        \cup {ItemList(SelectItemNode("SelectItem", <<Leaf("Wildcard", "")>>), Leaf("Wildcard", ""))}
        \cup {Pair(SelectItemList("Text", t), parse_select_items(t)) : t \in Texts.items}
Orders ==
    {Pair(OrderByExprNode(x.n), Mk("OrderBy", "", <<x.s>>)) : x \in Few}
        \cup {Pair(asc(x.n), Mk("OrderBy", "ASC", <<x.s>>)) : x \in Few}
        \cup {Pair(desc(x.n), Mk("OrderBy", "DESC", <<x.s>>)) : x \in Few}
        \cup {Pair(OrderByText(t), parse_order_by_expr(t)) : t \in Texts.order}
OrderLists ==
    {Pair(OrderByExprList("Orders", <<o.n>>), List(<<o.s>>)) : o \in Orders}
        \cup {Pair(OrderByExprList("Text", t), parse_order_by_exprs(t)) : t \in Texts.orders}

TableStart == Pair(table("Foo"), None)
QueryStarts ==
    {Pair(case(None), N("Case", "", <<None, List(<<>>), None>>)),
     Pair(select_alone, SaySelect(None)),
     Pair(series(from_i64("3")), SayTable("SERIES", None, List(<<Leaf("Number", "3")>>))),
     Pair(glue("GLUE_TABLES"), SayTable("GLUE_TABLES", None, None))}
        \cup {Pair(values(<<l.n>>), SayValues(List(<<l.s>>))) : l \in ExprLists}
TransactionStarts ==
    {Pair(Leaf("begin", ""), Leaf("StartTransaction", "")), Pair(Leaf("commit", ""), Leaf("Commit", "")),
     Pair(Leaf("rollback", ""), Leaf("Rollback", ""))}
\* A statement in SQL with the expression e in one of the places SQL has for it.
SqlQuery(items, from, where, group, having0, order, limit0) ==
    N("Query", "", <<N("Select", "", <<items, from, where, group, having0, List(<<>>)>>), order, limit0, None, List(<<>>)>>)
SqlStar == List(<<Leaf("Wildcard", "")>>)
SqlItem(e) == List(<<N("UnnamedExpr", "", <<e>>)>>)
SqlFrom(q) == List(<<N("TableWithJoins", "", <<SayTable("Foo", None, None), List(q)>>)>>)
SqlJoin(e) == N("Join", "LeftOuter", <<SayTable("Bar", Id("b"), None), e>>)
Empty == List(<<>>)
SqlStatements(e) ==
    LET set1 == List(<<N("Assignment", "ColumnName", <<List(<<Id("name")>>), e>>)>>)
        named(x) == List(<<Id(x)>>)
        row == N("Query", "", <<N("Values", "", <<List(<<List(<<e>>)>>)>>), Empty, None, None, Empty>>)
    IN  {SqlQuery(SqlItem(e), SqlFrom(<<>>), None, Empty, None, Empty, None),
         SqlQuery(SqlItem(e), SqlFrom(<<SqlJoin(e)>>), e, Empty, None, Empty, None),
         SqlQuery(SqlStar, SqlFrom(<<SqlJoin(e)>>), None, Empty, None, Empty, None),
         SqlQuery(SqlItem(e), SqlFrom(<<>>), None, List(<<e>>), e, List(<<N("OrderBy", "DESC", <<e>>)>>), e),
         SqlQuery(SqlStar, List(<<N("TableWithJoins", "", <<N("Derived", "", <<
                      SqlQuery(SqlStar, SqlFrom(<<>>), e, Empty, None, Empty, None), SayAlias(Id("d"))>>), Empty>>)>>),
                  None, Empty, None, Empty, None),
         row,
         N("Insert", "", <<named("Foo"), Empty, row, Empty>>),
         N("Insert", "", <<named("Foo"), named("id"), SqlQuery(SqlItem(e), SqlFrom(<<>>), e, Empty, None, Empty, None), Empty>>),
         N("Update", "", <<Target("Foo"), set1, e, Empty>>),
         N("Delete", "", <<List(<<Target("Foo")>>), e, Empty>>),
         N("CreateTable", "", <<named("New"), List(<<N("ColumnDef", "c", <<Kw("INT"), List(<<N("Option", "DEFAULT", <<e>>)>>)>>)>>),
                                None, None, Empty, None>>),
         N("CreateTable", "", <<named("New"), Empty, SqlQuery(SqlStar, SqlFrom(<<>>), e, Empty, None, Empty, None),
                                None, Empty, None>>),
         N("CreateIndex", "", <<named("idx"), named("Foo"), List(<<N("OrderBy", "ASC", <<e>>)>>)>>),
         N("CreateFunction", "", <<named("fn"), List(<<N("FunctionArg", "", <<Id("x"), Kw("INT"), e>>)>>), e>>)}
Starts == Atoms \cup {TableStart} \cup QueryStarts \cup TransactionStarts
Init ==
    /\ calls = 0
    /\ \/ \E x \in Starts : node = x.n /\ said = x.s
       \/ node = None /\ said \in Statements
       \/ \E e \in SqlExprs : node = None /\ said \in SqlStatements(e)

-----------------------------------------------------------------------------
\* Calls on an expression.
Binary ==
    \E m \in DOMAIN BinaryMethod, x \in Few :
        /\ IsExpr /\ CanCall
        /\ \/ Becomes(binary_op(node, BinaryMethod[m], x.n), SayBinary(SqlSymbol[m], said, x.s))
           \/ /\ calls = 0
              /\ Becomes(binary_op(x.n, BinaryMethod[m], node), SayBinary(SqlSymbol[m], x.s, said))
Unary ==
    \E m \in DOMAIN UnaryMethod :
        IsExpr /\ CanCall /\ Becomes(unary_op(node, UnaryMethod[m]), SayUnary(m, said))
IsNull ==
    /\ IsExpr /\ CanCall
    /\ \/ Becomes(is_null(node), SayParts("IsNull", "", <<said>>))
       \/ Becomes(is_not_null(node), SayParts("IsNotNull", "", <<said>>))
Nest == IsExpr /\ CanCall /\ Becomes(nested(node), Mk("Nested", "", <<said>>))
Between ==
    \E x, y \in Few :
        /\ IsExpr /\ CanCall
        /\ \/ Becomes(between(node, x.n, y.n), SayParts("Between", "false", <<said, x.s, y.s>>))
           \/ Becomes(not_between(x.n, node, y.n), SayParts("Between", "true", <<x.s, said, y.s>>))
Like ==
    \E m \in DOMAIN LikeMethod, x \in Few :
        IsExpr /\ CanCall /\ Becomes(like(node, m, x.n), SayLike(m, said, x.s))
InLists ==
    {Pair(InListNode("InList", <<x.n>>), List(<<x.s>>)) : x \in Few}
        \cup {Pair(InListNode("InText", t), parse_comma_separated_exprs(t)) : t \in Texts.exprs}
        \cup {Pair(InListNode("InText", t), parse_query(t)) : t \in Texts.query}
SayIn(neg, s, l) == Mk(IF l.k = "Query" THEN "InSubquery" ELSE "InList", neg, <<Operand(s), l>>)
InList ==
    \E l \in InLists :
        /\ IsExpr /\ CanCall
        /\ \/ Becomes(in_list(node, l.n), SayIn("false", said, l.s))
           \/ Becomes(not_in_list(node, l.n), SayIn("true", said, l.s))
\* case(operand).when_then(..).when_then(..).or_else(..): the two states in between build nothing.
Case ==
    \/ /\ IsExpr /\ CanCall
       /\ Becomes(case(node), Mk("Case", "", <<said, List(<<>>), None>>))
    \/ \E x, y \in Few :
        /\ node.k = "CaseNode" \/ (node.k = "WhenThenNode" /\ Len(node.a[2].a) < 2)
        /\ node' = when_then(node, x.n, y.n)
        /\ said' = Said(said, Mk("When", "", <<x.s, y.s>>),
                        [said EXCEPT !.a[2] = List(Append(@.a, Mk("When", "", <<x.s, y.s>>)))])
        /\ UNCHANGED calls
    \/ /\ node.k = "WhenThenNode"
       /\ \/ node' = end(node) /\ said' = said
          \/ \E x \in Few : node' = or_else(node, x.n) /\ said' = Said(said, x.s, [said EXCEPT !.a[3] = x.s])
       /\ UNCHANGED calls

\* What is passed for a parameter: the expression held goes to the first that takes one.
Passed(f, held, x) ==
    CASE f = "data_type" -> Pair(N("DataTypeNode", "Text", <<Kw("INT")>>), Kw("INT"))
      [] f = "field" -> Pair(Leaf("DateTimeField", "YEAR"), Kw("YEAR"))
      [] f = "exprs*" -> Pair(ExprList("Exprs", <<x.n, held.n>>), List(<<x.s, held.s>>))
      [] OTHER -> x
\* The sequence without its absent last arguments and with its lists opened.
SqlArgs(q) ==
    LET given == SelectSeq(q, LAMBDA x : x # None)
        f[i \in 0 .. Len(given)] ==
            IF i = 0 THEN <<>> ELSE f[i - 1] \o (IF given[i].k = "List" THEN given[i].a ELSE <<given[i]>>)
    IN  f[Len(given)]
FunctionCall ==
    \E f \in DOMAIN Constructor, x \in Few, all \in BOOLEAN :
        LET fields == Tail(Constructor[f])
            held == Pair(node, said)
            takes == {i \in DOMAIN fields : fields[i] \notin {"data_type", "field", "exprs*"}}
            first == IF takes = {} THEN 0 ELSE CHOOSE i \in takes : \A j \in takes : i <= j
            args == [i \in DOMAIN fields |->
                        IF i = first THEN held
                        ELSE IF fields[i] \in OptionalFields /\ ~all THEN Pair(None, None)
                        ELSE Passed(fields[i], held, x)]
        IN  /\ IsExpr /\ CanCall /\ Pair(node, said) \in Receivers
            /\ all \/ \E i \in DOMAIN fields : fields[i] \in OptionalFields
            /\ Becomes(construct(f, [i \in DOMAIN args |-> args[i].n]),
                       SayCall(f, SqlArgs([i \in DOMAIN args |-> args[i].s])))
MethodCall ==
    \E f \in DOMAIN Method, x \in Few :
        LET others == [i \in 1 .. (Len(Method[f]) - 1) |-> x]
            at == At(Method[f], "self")
            args == SubSeq(others, 1, at - 1) \o <<Pair(node, said)>> \o SubSeq(others, at, Len(others))
        IN  /\ IsExpr /\ CanCall /\ Pair(node, said) \in Receivers
            /\ \A i \in DOMAIN Constructor[f] : Constructor[f][i] \notin {"data_type", "field", "exprs*"}
            /\ Becomes(method(f, node, [i \in DOMAIN others |-> x.n]),
                       SayCall(f, [i \in DOMAIN args |-> args[i].s]))
AggregateCall ==
    \E f \in DOMAIN AggregateFns :
        /\ IsExpr /\ CanCall
        /\ Becomes(aggregate(f, node), SayAggregate(AggregateFns[f][1], AggregateFns[f][2], said))
\* count("*") counts the rows.
CountRows ==
    /\ IsExpr /\ calls = 0
    /\ Becomes(aggregate("count", N("CountText", "", <<Kw("*")>>)),
               SayAggregate("Count", FALSE, Leaf("Wildcard", "")))
\* The program passes a longer text.
GrowText ==
    \E op \in Texts.operator, t \in Texts.operand :
        /\ node.k = "SqlExpr" /\ CanCall
        /\ Becomes(expr(node.a \o op \o t), parse_expr(node.a \o op \o t))

-----------------------------------------------------------------------------
\* Calls on a table and on a query.
Indexes(x) ==
    {primary_key_eq(x.n), non_clustered("idx", None, None)}
        \cup {non_clustered("idx", order, cmp_expr(op, x.n)) :
                 op \in IndexOperator, order \in {None, Leaf("Asc", "true"), Leaf("Asc", "false")}}
MakeFactor ==
    /\ node = table("Foo") /\ calls = 0
    /\ \/ Becomes(table_alias_as(node, "f"), SayTable("Foo", Id("f"), None))
       \/ \E x \in Few : \E index \in Indexes(x) : Becomes(index_by(node, index), Unsaid)
Select ==
    \/ node = table("Foo") /\ Becomes(table_select(node), SaySelect(SayTable("Foo", None, None)))
    \/ IsFactor /\ CanCall /\ Becomes(factor_select(node), SaySelect(said))
Can(m) == Offers(node, m) /\ CanCall
Distinct == Can("distinct") /\ node.s = "" /\ Becomes(distinct(node), SayDistinct(said))
Filter == \E x \in Few : Can("filter") /\ Becomes(filter(node, x.n), SayWhere(said, x.s))
GroupBy == \E l \in ExprLists : Can("group_by") /\ Becomes(group_by(node, l.n), SayGroupBy(said, l.s))
Having == \E x \in Few : Can("having") /\ Becomes(having(node, x.n), SayHaving(said, x.s))
Project ==
    \E l \in SelectItemLists :
        Can("project") /\ Becomes(project(node, l.n), SayProject(said, l.s, node.k = "ProjectNode"))
OrderBy == \E l \in OrderLists : Can("order_by") /\ Becomes(order_by(node, l.n), SayOrderBy(said, l.s))
Offset == \E x \in Few : Can("offset") /\ Becomes(offset(node, x.n), SayOffset(said, x.s))
Limit == \E x \in Few : Can("limit") /\ Becomes(limit(node, x.n), SayLimit(said, x.s))
Join ==
    \E m \in Joins :
        /\ Can(m)
        /\ Becomes(join(node, m, "Bar", "b"),
                   SayJoin(said, JoinOperatorType(m), "Bar", join(node, m, "Bar", "b").a[3]))
On == \E x \in Few : Can("on") /\ Becomes(on(node, x.n), SayOn(said, x.s))
HashExecutor == \E x, y \in Few : Can("hash_executor") /\ Becomes(hash_executor(node, x.n, y.n), Unsaid)
HashFilter == \E x \in Few : Can("hash_filter") /\ Becomes(hash_filter(node, x.n), Unsaid)
AliasAs == Can("alias_as") /\ Becomes(alias_as(node, "d"), SayDerived(said, "d"))

\* A query inside an expression, and an expression in each clause of a query.
UseQuery ==
    \E x \in Few :
        /\ IsQuery /\ CanCall
        /\ \/ Ends(subquery(node), Mk("Subquery", "", <<said>>))
           \/ Ends(exists(node), Mk("Exists", "false", <<said>>))
           \/ Ends(not_exists(node), Mk("Exists", "true", <<said>>))
           \/ node.k # "ValuesNode" /\ Ends(in_list(x.n, InListNode("Query", <<node>>)), SayIn("false", x.s, said))
           \/ Ends(as_select(insert(table("Foo")), node),
                   Said(said, None, N("Insert", "", <<List(<<Id("Foo")>>), List(<<>>), said, List(<<>>)>>)))
Foo == table_select(table("Foo"))
SqlFoo == SaySelect(SayTable("Foo", None, None))
UseExpr ==
    /\ IsExpr /\ CanCall
    /\ \/ Ends(filter(Foo, node), SayWhere(SqlFoo, said))
       \/ Ends(project(Foo, SelectItemList("Items", <<SelectItemNode("ItemExpr", <<node>>)>>)),
               SayProject(SqlFoo, List(<<Mk("UnnamedExpr", "", <<said>>)>>), FALSE))
       \/ Ends(order_by(Foo, OrderByExprList("Orders", <<OrderByExprNode(node)>>)),
               SayOrderBy(SqlFoo, List(<<Mk("OrderBy", "", <<said>>)>>)))
       \/ Ends(factor_select(series(node)), SaySelect(Said(said, None, SayTable("SERIES", None, List(<<said>>)))))
       \/ Ends(create_index(table("Foo"), "idx", OrderByExprNode(node)),
               Mk("CreateIndex", "", <<List(<<Id("idx")>>), List(<<Id("Foo")>>),
                                       List(<<Mk("OrderBy", "", <<said>>)>>)>>))

-----------------------------------------------------------------------------
\* Statements.
SayDelete(e) == Mk("Delete", "", <<List(<<Target("Foo")>>), e, List(<<>>)>>)
Delete ==
    \/ node = table("Foo") /\ Becomes(delete(node), SayDelete(None))
    \* a second filter takes the place of the first
    \/ \E x \in Few : node.k = "DeleteNode" /\ CanCall /\ Becomes(delete_filter(node, x.n), SayDelete(x.s))
SayUpdate(q, e) == Mk("Update", "", <<Target("Foo"), q, e, List(<<>>)>>)
Assigned(id, e) == Mk("Assignment", "ColumnName", <<List(<<Id(id)>>), e>>)
Update ==
    \/ node = table("Foo") /\ Becomes(update(node), SayUpdate(List(<<>>), None))
    \/ \E x \in Few :
        /\ node.k \in {"UpdateNode", "UpdateFilterNode"} /\ CanCall
        /\ Becomes(update_filter(node, x.n), Said(said, x.s, [said EXCEPT !.a[3] = SayAnd(@, x.s)]))
    \/ \E x \in Few :
        /\ node.k \in {"UpdateNode", "UpdateFilterNode", "UpdateSetNode"} /\ CanCall
        /\ Becomes(set(node, "id", x.n), Said(said, x.s, [said EXCEPT !.a[2] = List(Append(@.a, Assigned("id", x.s)))]))
SayInsert(l, q) == Mk("Insert", "", <<List(<<Id("Foo")>>), l, q, List(<<>>)>>)
Insert ==
    \/ node = table("Foo") /\ Becomes(insert(node), SayInsert(List(<<>>), None))
    \/ \E t \in Texts.columns :
        /\ node.k = "InsertNode" /\ CanCall
        /\ Becomes(columns(node, N("ColumnList", "Text", t)), SayInsert(parse_identifiers(t), None))
    \/ \E l \in ExprLists :
        /\ node.k = "InsertNode" /\ CanCall
        /\ Becomes(insert_values(node, <<l.n>>), SayInsert(said.a[2], SayValues(List(<<l.s>>))))
CreateTable ==
    \/ \E flag \in {"", "IF NOT EXISTS"} :
        /\ node = table("Foo")
        /\ Becomes(create_table(node, flag),
                   N("CreateTable", flag, <<List(<<Id("Foo")>>), List(<<>>), None, None, List(<<>>), None>>))
    \/ \E t \in Texts.column_def :
        /\ node.k = "CreateTableNode" /\ CanCall
        /\ Becomes(create_table_add_column(node, N("ColumnDefNode", "", t)),
                   Said(said, parse_column_def(t), [said EXCEPT !.a[2] = List(Append(@.a, parse_column_def(t)))]))
AlterSaid(o) == Mk("AlterTable", "", <<List(<<Id("Foo")>>), List(<<o>>)>>)
Ddl ==
    /\ node = table("Foo")
    /\ \/ \E t \in Texts.column_def :
            Becomes(add_column(node, N("ColumnDefNode", "", t)), AlterSaid(Mk("AddColumn", "", <<parse_column_def(t)>>)))
       \/ \E flag \in {"", "IF EXISTS"} :
            \/ Becomes(drop_column(node, flag, "id"), AlterSaid(N("DropColumn", flag, <<Id("id")>>)))
            \/ \E cascade \in BOOLEAN :
                Becomes(drop_table(node, flag, cascade),
                        N("DropTable", flag, <<List(<<List(<<Id("Foo")>>)>>), Flag(cascade)>>))
       \/ Becomes(rename_column(node, "id", "key"), AlterSaid(N("RenameColumn", "", <<Id("id"), Id("key")>>)))
       \/ Becomes(rename_table(node, "Bar"), AlterSaid(N("RenameTable", "", <<List(<<Id("Bar")>>)>>)))
       \/ Becomes(drop_index(node, "idx"), N("DropIndex", "", <<List(<<List(<<Id("Foo"), Id("idx")>>)>>)>>))
       \/ Becomes(show_columns(node), N("ShowColumns", "", <<List(<<Id("Foo")>>)>>))
       \/ \E o \in Orders :
            Becomes(create_index(node, "idx", o.n),
                    Mk("CreateIndex", "", <<List(<<Id("idx")>>), List(<<Id("Foo")>>), List(<<o.s>>)>>))

Next ==
    \/ Binary \/ Unary \/ IsNull \/ Nest \/ Between \/ Like \/ InList \/ Case \/ FunctionCall
    \/ MethodCall \/ AggregateCall \/ CountRows \/ GrowText
    \/ MakeFactor \/ Select \/ Distinct \/ Filter \/ GroupBy \/ Having \/ Project \/ OrderBy \/ Offset
    \/ Limit \/ Join \/ On \/ HashExecutor \/ HashFilter \/ AliasAs \/ UseQuery \/ UseExpr
    \/ Delete \/ Update \/ Insert \/ CreateTable \/ Ddl
Spec == Init /\ [][Next]_vars

-----------------------------------------------------------------------------
SaidTree == IF IsErr(said) THEN said ELSE Translated(said)
SaidPlan == From(SaidTree)

\* The nodes build the same tree twice, once as the syntax tree (build_expr, build_select,
\* build_query) and once as a plan (build_*_plan).  Whatever the calls, the plan is the one
\* the conversion of the syntax tree gives, both are well-formed, and an error of one is the
\* error of the other; only index_by and hash_executor have a plan and no tree.
Twins(class, ast, plan) ==
    IF IsErr(ast)
    THEN IF ast.s \in PlanHints THEN IsErr(plan) \/ IsPlan(class, plan) ELSE plan = ast
    ELSE IsAst(class, ast) /\ IsPlan(class, plan) /\ plan = From(ast)
WellFormed(t) == IsErr(t) \/ (IsAst("Statement", t) /\ IsPlan("Statement", From(t)))
TwinBuildersAgree ==
    IF node = None THEN WellFormed(SaidTree)
    ELSE (IsExpr \/ IsQuery) => Twins(IF IsExpr THEN "Expr" ELSE "Query", Built(node), Planned(node))

\* Parentheses and the labels made up for a column left out.
RECURSIVE Normal(_)
Normal(n) ==
    IF n.k = "Nested" THEN Normal(n.a[1])
    ELSE IF n.k \in {"rendered", "column"} THEN Leaf("label", "")
    ELSE N(n.k, n.s, [i \in DOMAIN n.a |-> Normal(n.a[i])])

\* A chain of calls builds the plan of the SQL it stands for (parsed, translated, converted),
\* up to parentheses and labels, and what SQL refuses the builder refuses.
SameButParentheses(sql, plan) == IF IsErr(sql) THEN IsErr(plan) ELSE Normal(plan) = Normal(sql)
BuilderSaysSql ==
    (said # Unsaid /\ (IsExpr \/ IsQuery \/ node.k \in StatementNodes)) => SameButParentheses(SaidPlan, Planned(node))

\* What the text of a tree has to give back: a label is printed as an alias and a bound value
\* as a literal.
RECURSIVE Printed(_), Unprintable(_)
Printed(n) ==
    CASE n.k = "rendered" -> Id("label")
      [] n.k = "column" -> Id(n.s)
      [] n.k = "Value" /\ n.s \notin {"TRUE", "FALSE", "NULL", "00"} -> Leaf("Literal", n.s)
      [] OTHER -> N(n.k, n.s, [i \in DOMAIN n.a |-> Printed(n.a[i])])
\* Known gaps: || is printed as +, and the terms of ORDER BY without a comma.
Unprintable(n) ==
    \/ n.k = "BinaryOp" /\ n.s = "StringConcat"
    \/ n.k = "Query" /\ Len(n.a[2].a) > 1
    \/ \E i \in DOMAIN n.a : Unprintable(n.a[i])
IndexSchema(t) ==
    N("Schema", "", <<t.a[2], None, List(<<N("SchemaIndex", t.a[1].s, <<t.a[3].a[1], Leaf("Order", "Both")>>)>>),
                      None, List(<<>>), None>>)
SchemaOfTable(t) == N("Schema", "", <<t.a[1], t.a[2], List(<<>>), t.a[4], t.a[5], t.a[6]>>)

\* The words of a parsed text, and of a translated tree.
RECURSIVE SaidWords(_), Kept(_)
SaidWords(n) ==
    (IF n.k \in {"id", "str", "Identifier", "Number", "SingleQuotedString", "clause", "Alias"} THEN {n.s} ELSE {})
        \cup UNION {SaidWords(n.a[i]) : i \in DOMAIN n.a}
Kept(n) ==
    {n.s, to_uppercase(n.s), IF n.k = "Series" THEN "SERIES" ELSE ""}
        \cup UNION {Kept(n.a[i]) : i \in {j \in DOMAIN n.a : n.a[j].k # "rendered"}}

\* A text that is translated loses nothing: each name, number and string of it is in the tree,
\* and each clause the translation looks at and does not support is refused, never dropped (the
\* parser's fields it skips with `..`, as CREATE UNIQUE INDEX, are no part of said).  The text ToSql
\* prints of a translated tree, and the DDL a storage keeps of a table or of an index, reads
\* back as the same tree (the known gaps apart).
IsSchema(t) == (t.k = "CreateTable" /\ t.a[3] = None) \/ t.k = "CreateIndex"
DdlReadsBack(schema) == from_ddl(to_ddl(schema)) = Printed(schema)
TextReadsBack(t) ==
    CASE IsSchema(t) -> DdlReadsBack(IF t.k = "CreateTable" THEN SchemaOfTable(t) ELSE IndexSchema(t))
      [] IsExpr \/ t.k = "Query" ->
            FromText(IF IsExpr THEN "expr" ELSE "query",
                     IF IsExpr THEN to_sql(t) ELSE Query_to_sql(t)) = Printed(t)
      [] OTHER -> TRUE
TreeKept(t) == IsErr(t) \/ (SaidWords(said) \subseteq Kept(t) /\ (Unprintable(t) \/ TextReadsBack(t)))
TextKept == said # None => TreeKept(SaidTree)

-----------------------------------------------------------------------------
\* The nodes of a tree, with those of its subqueries or without; the hints of the builder, the
\* size of a SERIES and the text of a label are not looked at by any pass.
Unseen == {"PrimaryKey", "NonClustered", "Hash", "Series", "rendered"}
RECURSIVE Nodes(_), OwnNodes(_), Unplanned(_), TablesIn(_), Leftover(_, _, _)
Nodes(n) == {n} \cup UNION {Nodes(n.a[i]) : i \in {j \in DOMAIN n.a : n.a[j].k \notin Unseen}}
OwnNodes(n) == IF n.k = "Query" THEN {} ELSE {n} \cup UNION {OwnNodes(n.a[i]) : i \in DOMAIN n.a}
IsColumn(x) == x.k \in {"Identifier", "CompoundIdentifier"}
IsRead(x) == IsColumn(x) \/ x.k \in {"Query", "Aggregate"}
Changing(x) ==
    x.k = "Function" /\ x.s \in {"Now", "CurrentDate", "CurrentTime", "CurrentTimestamp", "Rand", "GenerateUuid", "Custom"}
Guards(x) == x.k \in {"IsNull", "IsNotNull"} \/ (x.k = "Function" /\ x.s \in {"Coalesce", "IfNull"})
Has(c, x) ==
    IF x.k = "Identifier" THEN x.s \in c.columns ELSE x.a[1].s = c.alias /\ x.a[2].s \in c.columns
\* A subquery the planner has not reached; it does not look into functions and aggregates.
Unplanned(n) ==
    IF n.k = "Query" THEN n.s # "planned"
    ELSE /\ ~(n.k = "Function" /\ n.s \notin {"Cast", "Extract"}) /\ n.k # "Aggregate"
         /\ \E i \in DOMAIN n.a : Unplanned(n.a[i])
PassesSeeExpr(p) ==
    LET all == Nodes(p)
        map == [t \in {"Foo", "Bar"} |-> {"id", IF t = "Foo" THEN "b" ELSE "name"}]
        scope(t) == update_context(map, NoContext, N("Table", "", <<Id(t), None, None>>))
        foo == scope("Foo")
        both == concat(scope("Bar"), foo)
        rewritten == visit_mut_expr(<<>>, [bare |-> TRUE, aliases |-> {"Foo"}], p)
    IN  /\ is_deterministic(p) = ~\E x \in all : IsRead(x) \/ Changing(x)
        /\ (is_deterministic(p) /\ ~may_return_null(p)) =>
              \/ \E x \in all : Guards(x)
              \/ \A x \in all : ~(x.k = "Value" /\ x.s = "NULL")
        /\ check_expr(foo, p) => check_expr(both, p)
        /\ check_expr(both, p) => \A x \in all : IsColumn(x) => Has(foo, x) \/ Has(scope("Bar"), x)
        /\ (\A x \in all : x.k # "Query" /\ (IsColumn(x) => Has(foo, x))) => check_expr(foo, p)
        /\ \A x \in OwnNodes(rewritten) :
              (x.k = "Identifier" => x.s = DocColumn) /\ (x.k = "CompoundIdentifier" /\ x.a[1].s = "Foo" => x.a[2].s = DocColumn)
        /\ ~Unplanned(subquery_expr(p))

\* The tables of a statement; known gap: not those that only an ORDER BY, a row of VALUES, the
\* size of a SERIES, an assignment or a hint of the builder names.
TablesIn(n) ==
    CASE n.k = "Table" -> {n.a[1].s}
      [] n.k \in {"OrderByExpr", "Values", "Assignment", "ColumnDef", "CreateFunction"} \cup Unseen -> {}
      [] OTHER -> UNION {TablesIn(n.a[i]) : i \in DOMAIN n.a}
\* The columns that name a field of a table without a schema; known gap: VALUES are left alone.
ScopeOf(map, n) ==
    LET without == {i \in DOMAIN Relations(n) : Relations(n)[i].k = "Table" /\ is_schemaless_table(map, Relations(n)[i].a[1])}
    IN  [bare |-> 1 \in without,
         names |-> UNION {{Relations(n)[i].a[1].s, AliasName(Relations(n)[i])} : i \in without}]
Leftover(map, scope, n) ==
    CASE n.k = "Identifier" -> IF scope.bare /\ n.s # DocColumn THEN {n} ELSE {}
      [] n.k = "CompoundIdentifier" -> IF n.a[1].s \in scope.names /\ n.a[2].s # DocColumn THEN {n} ELSE {}
      [] n.k \in {"Values", "Table"} \cup (Unseen \ {"Hash"}) -> {}
      [] n.k = "Query" /\ n.a[1].k = "Select" ->
            UNION {Leftover(map, ScopeOf(map, n.a[1]), n.a[i]) : i \in DOMAIN n.a}
      [] OTHER -> UNION {Leftover(map, scope, n.a[i]) : i \in DOMAIN n.a}
Ambiguous(storage, name, relations) ==
    \E i, j \in DOMAIN relations : i # j /\ \A r \in {i, j} :
        relations[r].k = "Table" /\ relations[r].a[1].s \in DOMAIN storage /\ name \in storage[relations[r].a[1].s]
ColumnsRewritten(map, single, p, planned) ==
    Leftover(map, [bare |-> single, names |-> IF single THEN {p.a[1].s} ELSE {}], planned) = {}
NamesOneColumn(storage, select) ==
    \A i \in DOMAIN Projected(select) :
        Projected(select)[i].k = "Identifier" => ~Ambiguous(storage, Projected(select)[i].s, Relations(select))
PassesSeeIn(storage, map, p, planned) ==
    /\ TablesIn(p) \cap DOMAIN storage \subseteq DOMAIN map
    /\ (~IsErr(planned) /\ p.k # "CreateTable") =>
          ColumnsRewritten(map, p.k \in {"Update", "Delete"} /\ is_schemaless_table(map, p.a[1]), p, planned)
    /\ (~IsErr(planned) /\ p.k = "Query" /\ p.a[1].k = "Select") => NamesOneColumn(storage, p.a[1])
PassesSeeStatement(p) ==
    \A storage \in Storages :
        PassesSeeIn(storage, fetch_schema_map(storage, p), p, plan_statement(storage, p))

\* Each pass over a plan reaches every expression it should: the columns an expression reads,
\* what makes it change from row to row or NULL, its subqueries, the tables whose schema a
\* statement needs, and the columns of a table without a schema, each of which becomes a lookup
\* in the document.  A column that two tables have is refused.
PassesSee(p) == IsErr(p) \/ IF IsExpr THEN PassesSeeExpr(p) ELSE PassesSeeStatement(p)
PlanPassesSeeAll ==
    (node = None \/ IsExpr \/ IsQuery \/ node.k \in StatementNodes) =>
        PassesSee(IF node = None THEN SaidPlan ELSE Planned(node))
=============================================================================
