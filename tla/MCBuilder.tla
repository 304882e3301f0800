----------------------------- MODULE MCBuilder -----------------------------
EXTENDS Builder

\* Expressions, each with its SQL.
T(t) == Pair(expr(t), parse_expr(t))
ColId == Pair(col("id", <<"id">>), Leaf("Identifier", "id"))
ColTable == Pair(col("Foo.id", <<"Foo", "id">>), N("CompoundIdentifier", "", Ids(<<"Foo", "id">>)))
One1 == Pair(num("I64", "1"), Leaf("Number", "1"))
Sum == <<Id("a"), Kw("+"), Num("1")>>
Call2 == <<Id("ABS"), Kw("("), Id("id"), Kw(")")>>
\* The same as T(Sum), spelled out.
PairSum == Pair(expr(Sum), N("BinaryOp", "Plus", <<Leaf("Identifier", "a"), Leaf("Number", "1")>>))
MCFew == {ColTable, PairSum}
MCReceivers == {ColId, PairSum}
MCAtoms ==
    {ColId, ColTable, One1, T(Sum), T(Call2),
     Pair(col("a.b.c", <<"a", "b", "c">>), Leaf("Identifier", "a.b.c")),
     Pair(num("F64", "NaN"), Unsaid),
     Pair(text("x"), Leaf("SingleQuotedString", "x")),
     Pair(date("2024-01-01"), N("TypedString", "DATE", <<Str("2024-01-01")>>)),
     Pair(from_bool("TRUE"), Leaf("Boolean", "TRUE")),
     Pair(from_i64("7"), Leaf("Number", "7")),
     Pair(null, Leaf("Null", "")),
     Pair(bytea("00"), Leaf("hex", "00")),
     Pair(value("5"), Leaf("ph", "$1")),
     T(<<Kw("+")>>),
     T(<<Id("a"), Kw("."), Id("b"), Kw("."), Id("c")>>)}
MCTexts ==
    [exprs |-> {<<Num("1"), Kw(","), Id("id")>>},
     item |-> {<<Id("Foo"), Kw("."), Id("id")>>, <<Id("Foo"), Kw("."), Kw("*")>>},
     items |-> {<<Id("id"), Kw(","), Id("id"), Kw("AS"), Id("n")>>},
     order |-> {<<Id("id"), Kw("DESC")>>},
     orders |-> {<<Id("id"), Kw("DESC"), Kw(","), Id("name")>>},
     query |-> {<<Kw("SELECT"), Id("id"), Kw("FROM"), Id("Bar")>>},
     operator |-> {<<Kw("*")>>, <<Kw("AND")>>, <<Kw("="), Kw("-")>>},
     operand |-> {<<Id("b")>>, <<Kw("("), Id("b"), Kw(")")>>},
     columns |-> {<<Id("id"), Kw(","), Id("name")>>},
     column_def |-> {<<Id("id"), Kw("INT"), Kw("PRIMARY"), Kw("KEY")>>,
                     <<Id("name"), Kw("TEXT"), Kw("NULL"), Kw("DEFAULT"), Str("x"), Kw("UNIQUE")>>,
                     <<Id("bad"), Kw("CHAR")>>}]
MCParams == <<"5">>
\* Expressions in SQL, read from a text or given as the parser's tree.
Sub == <<Kw("("), Kw("SELECT"), Id("a"), Kw("FROM"), Id("Baz"), Kw("WHERE"), Id("Baz"), Kw("."), Id("id"),
         Kw("="), Id("b"), Kw(")")>>
SqlTexts ==
    {Sum, Sub,
     <<Id("Foo"), Kw("."), Id("id"), Kw("="), Id("b"), Kw("."), Id("id")>>,
     <<Kw("CASE"), Id("a"), Kw("WHEN"), Num("1"), Kw("THEN"), Id("b"), Kw("END")>>,
     <<Kw("CASE"), Kw("WHEN"), Id("a"), Kw("THEN"), Num("1"), Kw("ELSE"), Id("b"), Kw("END")>>,
     <<Kw("["), Id("a"), Kw(","), Num("1"), Kw("]"), Kw("["), Id("b"), Kw("]")>>,
     <<Kw("["), Kw("]")>>,
     <<Kw("INTERVAL"), Str("1-2"), Kw("YEAR"), Kw("TO"), Kw("MONTH")>>,
     <<Kw("INTERVAL"), Id("a"), Kw("DAY")>>, <<Kw("INTERVAL"), Num("1"), Kw("WEEK")>>,
     <<Kw("TRIM"), Kw("("), Kw("BOTH"), Id("a"), Kw("FROM"), Id("b"), Kw(")")>>,
     <<Kw("TRIM"), Kw("("), Id("a"), Kw(")")>>,
     <<Kw("POSITION"), Kw("("), Id("a"), Kw("IN"), Id("b"), Kw(")")>>,
     <<Kw("EXTRACT"), Kw("("), Kw("DAY"), Kw("FROM"), Id("a"), Kw(")")>>,
     <<Kw("CAST"), Kw("("), Id("a"), Kw("AS"), Kw("DECIMAL"), Kw(")")>>,
     <<Kw("CAST"), Kw("("), Id("a"), Kw("AS"), Kw("CHAR"), Kw(")")>>,
     <<Kw("FLOOR"), Kw("("), Id("a"), Kw(")")>>, <<Kw("CEIL"), Kw("("), Id("a"), Kw(")")>>,
     <<Kw("TIMESTAMP"), Str("2024-01-01")>>, <<Kw("CHAR"), Str("x")>>,
     <<Id("a"), Kw("NOT"), Kw("IN")>> \o <<Kw("(")>> \o Tail(Sub),
     <<Id("a"), Kw("IN"), Kw("("), Num("1"), Kw(","), Id("b"), Kw(")")>>,
     <<Kw("NOT"), Kw("EXISTS")>> \o Sub,
     <<Id("a"), Kw("NOT"), Kw("BETWEEN"), Num("1"), Kw("AND"), Id("b")>>,
     <<Id("a"), Kw("ILIKE"), Str("x%")>>, <<Id("a"), Kw("IS"), Kw("NOT"), Kw("NULL")>>,
     <<Kw("NOT"), Id("a"), Kw("AND"), Kw("~"), Id("b"), Kw("="), Kw("-"), Num("1"), Kw("!")>>,
     <<Id("a"), Kw("->"), Str("k")>>, <<Id("a"), Kw("||"), Str("k")>>, <<Leaf("ph", "$1")>>, <<Leaf("ph", "$2")>>,
     <<Leaf("ph", "?")>>, <<Leaf("hex", "odd")>>,
     <<Id("COUNT"), Kw("("), Kw("DISTINCT"), Id("a"), Kw(")")>>, <<Id("COUNT"), Kw("("), Kw("*"), Kw(")")>>,
     <<Id("COUNT"), Kw("("), Id("Foo"), Kw("."), Kw("*"), Kw(")")>>, <<Id("SUM"), Kw("("), Kw("*"), Kw(")")>>,
     <<Id("MAX"), Kw("("), Id("a"), Kw(")")>>, <<Id("AVG"), Kw("("), Kw(")")>>,
     <<Id("custom"), Kw("("), Id("a"), Kw(","), Id("b"), Kw(")")>>,
     <<Id("COALESCE"), Kw("(")>> \o Sub \o <<Kw(","), Id("a"), Kw(")")>>,
     <<Id("IFNULL"), Kw("("), Kw("NULL"), Kw(","), Num("1"), Kw(")")>>,
     <<Id("NULLIF"), Kw("("), Id("a"), Kw(")")>>}
ArgText == <<Id("a"), Num("1"), Id("b"), Str("x"), Id("c")>>
\* Each function with every number of arguments up to five.
Calls == {N("Function", f, <<List(SubSeq([i \in 1 .. 5 |-> parse_expr(<<ArgText[i]>>)], 1, n)), Flag(FALSE)>>) :
            f \in DOMAIN Translate, n \in 0 .. 5}
Unsupported ==
    {N("Like", "false", <<Leaf("Identifier", "a"), Leaf("Identifier", "b"), Leaf("clause", "ESCAPE")>>),
     N("Cast", "TryCast", <<Leaf("Identifier", "a"), Kw("INT"), None>>),
     N("Cast", "Cast", <<Leaf("Identifier", "a"), Kw("INT"), Leaf("clause", "FORMAT")>>),
     N("Subscript", "Slice", <<Leaf("Identifier", "a"), Leaf("Number", "1")>>),
     N("Floor", "", <<Leaf("Identifier", "a"), Leaf("clause", "TO DAY")>>),
     N("Ceil", "", <<Leaf("Identifier", "a"), Leaf("clause", "TO DAY")>>),
     N("Trim", "", <<Leaf("Identifier", "a"), None, None, Leaf("clause", "chars")>>),
     N("Collate", "", <<Leaf("Identifier", "a")>>)}
MCSqlExprs == {parse_expr(t) : t \in SqlTexts} \cup Calls \cup Unsupported
\* Statements in SQL that hold no expression, and those that are refused.
Dot(q) == List(Ids(q))
Extra(c) == List(<<Leaf("clause", c)>>)
SelFoo == N("Select", "", <<SqlStar, SqlFrom(<<>>), None, Empty, None, Empty>>)
SqlBody(body) == N("Query", "", <<body, Empty, None, None, Empty>>)
JoinBar(kind, constraint) == N("Join", kind, <<SayTable("Bar", None, None), constraint>>)
From1(factor) == SqlBody([SelFoo EXCEPT !.a[2] = List(<<N("TableWithJoins", "", <<factor, Empty>>)>>)])
Queries ==
    {[SqlBody(SelFoo) EXCEPT !.a[5] = Extra(c)] : c \in {"WITH", "FETCH", "FOR UPDATE"}}
        \cup {SqlBody([SelFoo EXCEPT !.a[6] = Extra(c)]) : c \in {"INTO", "WINDOW"}}
        \cup {SqlBody([SelFoo EXCEPT !.s = d]) : d \in {"", "Distinct", "DistinctOn"}}
        \cup {SqlBody([SelFoo EXCEPT !.a[2] = SqlFrom(<<JoinBar(k, c)>>)]) :
                 k \in {"Inner", "LeftOuter", "RightOuter"},
                 c \in {None, Leaf("Using", ""), Leaf("Natural", "")}}
        \cup {SqlBody([SelFoo EXCEPT !.a[1] = List(<<N("QualifiedWildcard", "", <<Dot(q)>>)>>)]) :
                 q \in {<<"Foo">>, <<"db", "Foo">>}}
        \cup {From1(f) : f \in {SayTable("GLUE_OBJECTS", None, None), SayTable("SERIES", None, List(<<>>)),
                                SayTable("SERIES", Id("s"), List(<<Leaf("Number", "3")>>)),
                                SayTable("SERIES", None, List(<<Leaf("Wildcard", "")>>)),
                                N("Table", "", <<Dot(<<"db", "Foo">>), None, None>>),
                                N("Derived", "", <<SqlBody(SelFoo), None>>),
                                N("Unnest", "", <<Dot(<<"Foo">>), None>>)}}
        \cup {SqlBody([SelFoo EXCEPT !.a[2] = List(@.a \o @.a)]), SqlBody([SelFoo EXCEPT !.a[2] = Empty]),
               SqlBody([SelFoo EXCEPT !.a[4] = Leaf("All", "")]), SqlBody(Leaf("SetOperation", "")),
               [SqlBody(SelFoo) EXCEPT !.a[2] = List(<<N("OrderBy", "NULLS", <<Leaf("Identifier", "id")>>)>>)],
               [SqlBody(SelFoo) EXCEPT !.a[2] = List(<<N("OrderBy", "", <<Leaf("Identifier", "id")>>),
                                                       N("OrderBy", "ASC", <<Leaf("Identifier", "b")>>)>>)]}
Writes ==
    LET row == SqlBody(N("Values", "", <<List(<<List(<<Leaf("Number", "1")>>)>>)>>))
        ins == N("Insert", "", <<Dot(<<"Foo">>), Dot(<<"id">>), row, Empty>>)
        assign == N("Assignment", "ColumnName", <<Dot(<<"id">>), Leaf("Number", "1")>>)
        upd == N("Update", "", <<Target("Foo"), List(<<assign>>), None, Empty>>)
        del == N("Delete", "", <<List(<<Target("Foo")>>), None, Empty>>)
        joined == N("TableWithJoins", "", <<SayTable("Foo", None, None), List(<<JoinBar("Inner", None)>>)>>)
        derived == N("TableWithJoins", "", <<N("Derived", "", <<SqlBody(SelFoo), None>>), Empty>>)
    IN  {ins, upd, del, [ins EXCEPT !.a[1] = Dot(<<"db", "Foo">>)], [ins EXCEPT !.a[3] = None],
         [upd EXCEPT !.a[1] = joined], [upd EXCEPT !.a[1] = derived],
         [upd EXCEPT !.a[2] = List(<<[assign EXCEPT !.s = "Tuple"]>>)],
         [upd EXCEPT !.a[2] = List(<<[assign EXCEPT !.a[1] = Dot(<<"Foo", "id">>)]>>)]}
            \cup {[ins EXCEPT !.a[4] = Extra(c)] :
                     c \in {"RETURNING", "ON CONFLICT", "alias", "PARTITION", "OVERWRITE", "TABLE"}}
            \cup {[upd EXCEPT !.a[4] = Extra(c)] : c \in {"FROM", "RETURNING"}}
            \cup {[del EXCEPT !.a[3] = Extra(c)] : c \in {"USING", "RETURNING", "ORDER BY", "LIMIT"}}
ColumnOf(type, options) == N("ColumnDef", "c", <<Kw(type), List(options)>>)
ColOption(o) == N("Option", o, <<>>)
Tables ==
    LET create == N("CreateTable", "", <<Dot(<<"New">>), List(<<ColumnOf("INT", <<>>)>>), None, None, Empty, None>>)
        key == N("ForeignKey", "", <<None, Dot(<<"id">>), Dot(<<"Foo">>), Dot(<<"id">>), Kw(""), Kw("RESTRICT")>>)
        alter(ops) == N("AlterTable", "", <<Dot(<<"Foo">>), List(ops)>>)
    IN  {[create EXCEPT !.a[2] = List(<<ColumnOf(t, <<>>)>>)] :
             t \in {"BOOLEAN", "INT8", "UINT128", "FLOAT32", "FLOAT", "MAP", "INET", "CHAR"}}
            \cup {[create EXCEPT !.a[2] = List(<<ColumnOf("INT", o)>>)] :
                 o \in {<<ColOption("NULL")>>, <<ColOption("NOT NULL"), ColOption("UNIQUE")>>, <<ColOption("PRIMARY KEY")>>,
                        <<ColOption("CHECK")>>, <<N("Option", "COMMENT", <<Str("x")>>)>>}}
            \cup {[create EXCEPT !.a[5] = List(<<k>>)] :
                 k \in {key, [key EXCEPT !.a[1] = Id("fk")], [key EXCEPT !.k = "Check"], [key EXCEPT !.a[2] = Empty],
                        [key EXCEPT !.a[5] = Kw("CASCADE")], [key EXCEPT !.a[3] = Dot(<<"db", "Foo">>)]}}
            \cup {[create EXCEPT !.s = "IF NOT EXISTS", !.a[4] = Id("memory"), !.a[6] = Str("x")],
                   [create EXCEPT !.a[2] = Empty, !.a[4] = Id("memory")],
                   [create EXCEPT !.a[1] = Dot(<<"db", "New">>)],
                   alter(<<N("AddColumn", "", <<ColumnOf("INT", <<>>)>>)>>), alter(<<Leaf("AddConstraint", "")>>),
                   alter(<<N("DropColumn", "", <<Id("id")>>), N("DropColumn", "", <<Id("name")>>)>>),
                   alter(<<N("RenameTable", "", <<Dot(<<"db", "New">>)>>)>>),
                   N("DropTable", "", <<List(<<Dot(<<"Foo">>), Dot(<<"db", "Bar">>)>>), Flag(FALSE)>>),
                   N("DropTable", "", <<List(<<Dot(<<"Foo">>), Dot(<<"Bar">>)>>), Flag(TRUE)>>),
                   N("DropFunction", "IF EXISTS", <<List(<<Dot(<<"fn">>)>>)>>)}
Others ==
    LET id == N("OrderBy", "", <<Leaf("Identifier", "id")>>)
        index(name, q) == N("CreateIndex", "", <<name, Dot(<<"Foo">>), List(q)>>)
        drop(q) == N("DropIndex", "", <<List(q)>>)
        show(q) == N("ShowVariable", "", <<List(q)>>)
        fn(arg, body) == N("CreateFunction", "OR REPLACE", <<Dot(<<"fn">>), List(<<N("FunctionArg", "", <<arg, Kw("INT"), None>>)>>), body>>)
    IN  {index(Dot(<<"idx">>), <<id>>), index(Dot(<<"idx">>), <<id, id>>), index(None, <<id>>), index(Dot(<<"primary">>), <<id>>),
         drop(<<Dot(<<"Foo", "idx">>)>>), drop(<<Dot(<<"idx">>)>>), drop(<<Dot(<<"Foo", "primary">>)>>),
         drop(<<Dot(<<"Foo", "idx">>), Dot(<<"Foo", "idx2">>)>>),
         show(<<Kw("version")>>), show(<<Kw("indexes"), Kw("FROM"), Id("Foo")>>), show(<<Id("other")>>),
         show(<<Kw("indexes")>>),
         Leaf("ShowTables", ""), Leaf("ShowFunctions", ""), Leaf("ShowTables", "LIKE"),
         N("ShowColumns", "", <<Dot(<<"Foo">>)>>), N("ShowColumns", "", <<Dot(<<"db", "Foo">>)>>),
         fn(Id("x"), Leaf("Number", "1")), fn(None, Leaf("Number", "1")), fn(Id("x"), None),
         Leaf("StartTransaction", ""), Leaf("Truncate", "")}
MCStatements == Queries \cup Writes \cup Tables \cup Others
MCStorages ==
    {[Foo |-> {"id", "name"}, Bar |-> {"id", "a"}, Baz |-> {"id", "a"}], [Foo |-> {}, Bar |-> {"id"}, Baz |-> {}],
     [Foo |-> {"id"}, Bar |-> {}], [Foo |-> {}, Baz |-> {"a"}]}
=============================================================================
