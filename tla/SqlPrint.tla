------------------------------ MODULE SqlPrint ------------------------------
(***************************************************************************)
(* core/src/ast: how a tree prints as SQL text (ToSql), and the table       *)
(* definitions that storages keep as text (Schema::to_ddl and from_ddl).    *)
(* The text is the sequence of its tokens: blanks, line ends and the quotes *)
(* around a name are the tokenizer's business.                              *)
(***************************************************************************)
EXTENDS SqlTranslate
LOCAL INSTANCE SequencesExt

\* The texts of q one after another, with the token s between them.
Joined(q, s) ==
    FlattenSeq([i \in DOMAIN q |-> IF i = 1 THEN q[i] ELSE s \o q[i]])
Comma == <<Kw(",")>>
Parens(t) == <<Kw("(")>> \o t \o <<Kw(")")>>
Words(q) == [i \in DOMAIN q |-> Kw(q[i])]
Negated(n, q) == IF n.s = "true" THEN <<Kw("NOT")>> \o q ELSE q

DataTypeNames ==
    [Boolean |-> "BOOLEAN", Int8 |-> "INT8", Int16 |-> "INT16", Int32 |-> "INT32", Int |-> "INT",
     Int128 |-> "INT128", Uint8 |-> "UINT8", Uint16 |-> "UINT16", Uint32 |-> "UINT32",
     Uint64 |-> "UINT64", Uint128 |-> "UINT128", Float32 |-> "FLOAT32", Float |-> "FLOAT",
     Text |-> "TEXT", Bytea |-> "BYTEA", Inet |-> "INET", Date |-> "DATE",
     Timestamp |-> "TIMESTAMP", Time |-> "TIME", Interval |-> "INTERVAL", Uuid |-> "UUID",
     Map |-> "MAP", List |-> "LIST", Decimal |-> "DECIMAL", Point |-> "POINT"]
DataType_to_sql(d) == DataTypeNames[d.s]
UnaryOperator_to_sql(o) ==
    CASE o = "Plus" -> "+" [] o = "Minus" -> "-" [] o = "Not" -> "NOT"
      [] o = "Factorial" -> "!" [] o = "BitwiseNot" -> "~"
BinaryOperator_to_sql(o) ==
    CASE o = "StringConcat" -> "+"
      [] o = "BitwiseShiftLeft" -> "<<"
      [] o = "BitwiseShiftRight" -> ">>"
      [] OTHER -> Symbols[o]
Literal_to_sql(n) == IF n.s = "quoted" THEN n.a ELSE <<Num(n.s)>>
Value_to_sql(n) ==
    IF n.s \in {"TRUE", "FALSE", "NULL"} THEN <<Kw(n.s)>>
    ELSE IF n.s \in {"00", "odd"} THEN <<Leaf("hex", n.s)>> ELSE <<Num(n.s)>>

RECURSIVE to_sql(_), Query_to_sql(_)
SqlOf(q) == [i \in DOMAIN q |-> to_sql(q[i])]
ListSql(l) == Joined(SqlOf(l.a), Comma)
Opt(pre, n) == IF n = None THEN <<>> ELSE pre \o to_sql(n)

\* name(arguments): the fields the printing names, leaving out an absent Option.
Call(name, texts) ==
    <<IF name \in {"FLOOR", "CEIL"} THEN Kw(name) ELSE Id(name)>> \o Parens(Joined(texts, Comma))
Function_to_sql(n) ==
    LET row == ToSql[n.s]
        child(f) == n.a[At(Function[n.s], f)]
        given == SelectSeq(Tail(row), LAMBDA f : child(f) # None /\ child(f) # List(<<>>))
        text(f) == IF f \in ListFields THEN ListSql(child(f)) ELSE to_sql(child(f))
    IN  CASE n.s = "Cast" ->
                <<Kw("CAST")>> \o Parens(to_sql(n.a[1]) \o Words(<<"AS", DataType_to_sql(n.a[2])>>))
          [] n.s = "Custom" -> Call(n.a[1].s, SqlOf(n.a[2].a))
          [] n.s = "Trim" ->
                <<Kw("TRIM")>> \o Parens((IF n.a[3] = None THEN <<>> ELSE <<Kw(n.a[3].s)>>)
                    \o (IF n.a[2] = None THEN <<>> ELSE to_sql(n.a[2]) \o <<Kw("FROM")>>)
                    \o to_sql(n.a[1]))
          [] n.s = "Position" ->
                <<Kw("POSITION")>> \o Parens(to_sql(n.a[2]) \o <<Kw("IN")>> \o to_sql(n.a[1]))
          [] n.s = "Extract" ->
                <<Kw("EXTRACT")>> \o Parens(<<Kw(n.a[1].s), Kw("FROM")>> \o to_sql(n.a[2]))
          [] OTHER -> Call(row[1], [i \in DOMAIN given |-> text(given[i])])
to_sql_with_distinct(n) ==
    <<Id(CHOOSE f \in DOMAIN Aggregates : Aggregates[f] = n.s)>>
        \o Parens((IF n.a[2].s = "true" THEN <<Kw("DISTINCT")>> ELSE <<>>) \o to_sql(n.a[1]))

Case_to_sql(n) ==
    LET when(w) == <<Kw("WHEN")>> \o to_sql(w.a[1]) \o <<Kw("THEN")>> \o to_sql(w.a[2])
    IN  <<Kw("CASE")>> \o Opt(<<>>, n.a[1]) \o FlattenSeq([i \in DOMAIN n.a[2].a |-> when(n.a[2].a[i])])
            \o Opt(<<Kw("ELSE")>>, n.a[3]) \o <<Kw("END")>>
Interval_to_sql(n) ==
    <<Kw("INTERVAL")>> \o to_sql(n.a[1])
        \o (IF n.a[2] = None THEN <<>> ELSE <<Kw(n.a[2].s)>>)
        \o (IF n.a[3] = None THEN <<>> ELSE <<Kw("TO"), Kw(n.a[3].s)>>)
ArrayIndex_to_sql(n) ==
    to_sql(n.a[1])
        \o FlattenSeq([i \in DOMAIN n.a[2].a |-> <<Kw("[")>> \o to_sql(n.a[2].a[i]) \o <<Kw("]")>>])
Leaf_to_sql(n) ==
    CASE n.k = "Literal" -> Literal_to_sql(n)
      [] n.k = "Value" -> Value_to_sql(n)
      [] n.k = "TypedString" -> <<Kw(DataType_to_sql(n.a[1])), n.a[2]>>
      [] n.k = "Case" -> Case_to_sql(n)
      [] n.k = "Aggregate" -> to_sql_with_distinct(n)
      [] n.k = "Function" -> Function_to_sql(n)
      [] n.k = "InSubquery" ->
            to_sql(n.a[1]) \o Negated(n, <<Kw("IN")>> \o Parens(Query_to_sql(n.a[2])))
      [] n.k = "Exists" -> Negated(n, <<Kw("EXISTS")>> \o Parens(Query_to_sql(n.a[1])))
      [] n.k = "ArrayIndex" -> ArrayIndex_to_sql(n)
      [] n.k = "Array" -> <<Kw("[")>> \o ListSql(n.a[1]) \o <<Kw("]")>>
      [] n.k = "Subquery" -> Parens(Query_to_sql(n.a[1]))
      [] n.k = "Interval" -> Interval_to_sql(n)
      [] n.k = "Wildcard" -> <<Kw("*")>>
to_sql(n) ==
    CASE n.k = "Identifier" -> <<Id(n.s)>>
      [] n.k = "BinaryOp" ->
            to_sql(n.a[1]) \o <<Kw(BinaryOperator_to_sql(n.s))>> \o to_sql(n.a[2])
      [] n.k = "CompoundIdentifier" -> <<n.a[1], Kw("."), n.a[2]>>
      [] n.k = "IsNull" -> to_sql(n.a[1]) \o Words(<<"IS", "NULL">>)
      [] n.k = "IsNotNull" -> to_sql(n.a[1]) \o Words(<<"IS", "NOT", "NULL">>)
      [] n.k = "InList" -> to_sql(n.a[1]) \o Negated(n, <<Kw("IN")>> \o Parens(ListSql(n.a[2])))
      [] n.k = "Between" ->
            to_sql(n.a[1]) \o Negated(n, <<Kw("BETWEEN")>>) \o to_sql(n.a[2])
                \o <<Kw("AND")>> \o to_sql(n.a[3])
      [] n.k = "Like" -> to_sql(n.a[1]) \o Negated(n, <<Kw("LIKE")>>) \o to_sql(n.a[2])
      [] n.k = "ILike" -> to_sql(n.a[1]) \o Negated(n, <<Kw("ILIKE")>>) \o to_sql(n.a[2])
      [] n.k = "UnaryOp" ->
            IF n.s = "Factorial" THEN to_sql(n.a[1]) \o <<Kw(UnaryOperator_to_sql(n.s))>>
            ELSE <<Kw(UnaryOperator_to_sql(n.s))>> \o to_sql(n.a[1])
      [] n.k = "Nested" -> Parens(to_sql(n.a[1]))
      [] OTHER -> Leaf_to_sql(n)

TableAlias_to_sql(x) == <<Kw("AS"), Id(x.s)>>
TableFactor_to_sql(f) ==
    CASE f.k = "Table" -> <<f.a[1]>> \o (IF f.a[2] = None THEN <<>> ELSE TableAlias_to_sql(f.a[2]))
      [] f.k = "Derived" -> Parens(Query_to_sql(f.a[1])) \o TableAlias_to_sql(f.a[2])
      [] f.k = "Series" -> <<Id("SERIES")>> \o Parens(to_sql(f.a[2])) \o TableAlias_to_sql(f.a[1])
      [] f.k = "Dictionary" -> <<Id(f.s)>> \o TableAlias_to_sql(f.a[1])
JoinConstraint_to_sql(c) == Opt(<<Kw("ON")>>, c)
Join_to_sql(j) ==
    Words(IF j.s = "Inner" THEN <<"INNER", "JOIN">> ELSE <<"LEFT", "OUTER", "JOIN">>)
        \o TableFactor_to_sql(j.a[1]) \o JoinConstraint_to_sql(j.a[2])
TableWithJoins_to_sql(f) ==
    TableFactor_to_sql(f.a[1]) \o FlattenSeq([i \in DOMAIN f.a[2].a |-> Join_to_sql(f.a[2].a[i])])
\* A label prints as an alias, also the one made up from the text of the expression.
SelectItem_to_sql(n) ==
    CASE n.k = "Expr" ->
            to_sql(n.a[1]) \o <<Kw("AS"), IF n.a[2].k = "rendered" THEN Id("label") ELSE Id(n.a[2].s)>>
      [] n.k = "QualifiedWildcard" -> <<n.a[1], Kw("."), Kw("*")>>
      [] n.k = "Wildcard" -> <<Kw("*")>>
OrderByExpr_to_sql(o) == to_sql(o.a[1]) \o (IF o.s = "" THEN <<>> ELSE <<Kw(o.s)>>)
Select_to_sql(n) ==
    <<Kw("SELECT")>> \o (IF n.s = "Distinct" THEN <<Kw("DISTINCT")>> ELSE <<>>)
        \o Joined([i \in DOMAIN n.a[1].a |-> SelectItem_to_sql(n.a[1].a[i])], Comma)
        \o <<Kw("FROM")>> \o TableWithJoins_to_sql(n.a[2]) \o Opt(<<Kw("WHERE")>>, n.a[3])
        \o (IF n.a[4].a = <<>> THEN <<>> ELSE Words(<<"GROUP", "BY">>) \o ListSql(n.a[4]))
        \o Opt(<<Kw("HAVING")>>, n.a[5])
Values_to_sql(n) ==
    <<Kw("VALUES")>> \o Joined([i \in DOMAIN n.a[1].a |-> Parens(ListSql(n.a[1].a[i]))], Comma)
SetExpr_to_sql(n) == IF n.k = "Select" THEN Select_to_sql(n) ELSE Values_to_sql(n)
\* The terms of ORDER BY are printed one after another, without a comma.
Query_to_sql(n) ==
    SetExpr_to_sql(n.a[1])
        \o (IF n.a[2].a = <<>> THEN <<>>
            ELSE Words(<<"ORDER", "BY">>)
                     \o FlattenSeq([i \in DOMAIN n.a[2].a |-> OrderByExpr_to_sql(n.a[2].a[i])]))
        \o Opt(<<Kw("LIMIT")>>, n.a[3]) \o Opt(<<Kw("OFFSET")>>, n.a[4])

ColumnUniqueOption_to_sql(u) ==
    IF u = None THEN <<>> ELSE IF u.s = "UNIQUE" THEN <<Kw("UNIQUE")>> ELSE Words(<<"PRIMARY", "KEY">>)
\* Fault: the column's DEFAULT is not printed.
ColumnDefWithoutDefault(c) ==
    <<Id(c.s), Kw(DataType_to_sql(c.a[1]))>>
        \o Words(IF c.a[2].s = "true" THEN <<"NULL">> ELSE <<"NOT", "NULL">>)
        \o ColumnUniqueOption_to_sql(c.a[4])
        \o (IF c.a[5] = None THEN <<>> ELSE <<Kw("COMMENT"), c.a[5]>>)
\* ColumnDef: name <<data_type, nullable, default, unique, comment>>
ColumnDef_to_sql(c) ==
    <<Id(c.s), Kw(DataType_to_sql(c.a[1]))>>
        \o Words(IF c.a[2].s = "true" THEN <<"NULL">> ELSE <<"NOT", "NULL">>)
        \o Opt(<<Kw("DEFAULT")>>, c.a[3]) \o ColumnUniqueOption_to_sql(c.a[4])
        \o (IF c.a[5] = None THEN <<>> ELSE <<Kw("COMMENT"), c.a[5]>>)
ForeignKey_to_sql(f) ==
    <<Kw("CONSTRAINT"), f.a[4], Kw("FOREIGN"), Kw("KEY"), Kw("("), f.a[2], Kw(")"), Kw("REFERENCES"),
      f.a[1], Kw("("), f.a[3], Kw(")"), Kw("ON"), Kw("DELETE"), Kw(f.a[5].s), Kw("ON"), Kw("UPDATE"),
      Kw(f.a[6].s)>>

\* Schema: <<table_name, column_defs?, indexes, engine?, foreign_keys, comment?>>,
\* an index: name, order <<expr>>.
to_ddl(s) ==
    LET columns == [i \in DOMAIN s.a[2].a |-> ColumnDef_to_sql(s.a[2].a[i])]
        keys == [i \in DOMAIN s.a[5].a |-> ForeignKey_to_sql(s.a[5].a[i])]
        index(x) == <<Kw("CREATE"), Kw("INDEX"), Id(x.s), Kw("ON"), s.a[1]>>
                        \o Parens(to_sql(x.a[1])) \o <<Kw(";")>>
    IN  <<Kw("CREATE"), Kw("TABLE"), s.a[1]>>
            \o (IF s.a[2] = None THEN <<>> ELSE Parens(Joined(columns \o keys, Comma)))
            \o (IF s.a[4] = None THEN <<>> ELSE <<Kw("ENGINE"), Kw("="), s.a[4]>>)
            \o (IF s.a[6] = None THEN <<>> ELSE <<Kw("COMMENT"), Kw("="), s.a[6]>>) \o <<Kw(";")>>
            \o FlattenSeq([i \in DOMAIN s.a[3].a |-> index(s.a[3].a[i])])
SchemaIndexOf(c) ==
    IF c.k # "CreateIndex" THEN Err("CannotParseDDL")
    ELSE N("SchemaIndex", c.a[1].s, <<c.a[3].a[1], Leaf("Order", IF c.a[3].s = "ASC" THEN "Asc" ELSE "Both")>>)
SchemaOf(table, indexes) ==
    IF IsErr(indexes) THEN indexes
    ELSE IF IsErr(table) THEN table
    ELSE IF table.k # "CreateTable" THEN Err("CannotParseDDL")
    ELSE N("Schema", "", <<table.a[1], table.a[2], indexes, table.a[4], table.a[5], table.a[6]>>)
SchemaOfAll(translated) ==
    IF translated = <<>> THEN Err("CannotParseDDL")
    ELSE SchemaOf(translated[1], List([i \in 1 .. (Len(translated) - 1) |->
                                        IF IsErr(translated[i + 1]) THEN translated[i + 1]
                                        ELSE SchemaIndexOf(translated[i + 1])]))
SchemaOfStatements(statements) ==
    IF IsErr(statements) THEN statements
    ELSE SchemaOfAll([i \in DOMAIN statements.a |-> Translated(statements.a[i])])
from_ddl(ddl) == SchemaOfStatements(parse(ddl))
=============================================================================
