---------------------------- MODULE SqlTranslate ----------------------------
(***************************************************************************)
(* The part of the sqlparser crate (PostgreSqlDialect) that the front end   *)
(* relies on: a text, a sequence of tokens, is read into the parser's tree  *)
(* by precedence.  The crate is not in the repository; this is what         *)
(* parse_sql.rs asks of it.  A parse started at the token i gives the node  *)
(* n and the place i of the first token it did not read; parse_expr and its *)
(* kin never look at the tokens after that place.                           *)
(***************************************************************************)
EXTENDS SqlGrammar, FiniteSets

R(n, i) == [n |-> n, i |-> i]
Tok(t, i) == IF i \in DOMAIN t THEN t[i] ELSE Leaf("end", "")
Is(t, i, s) == i \in DOMAIN t /\ t[i].k = "kw" /\ t[i].s = s
\* The node at a place, provided the keyword s follows it, which is skipped.
Then(t, r, s) == IF Is(t, r.i, s) THEN R(r.n, r.i + 1) ELSE R(Err("parser"), r.i)

TypeNames == {"INT", "INTEGER", "TEXT", "BOOLEAN", "DATE", "TIMESTAMP", "TIME", "UUID",
              "FLOAT", "DECIMAL", "UINT8", "INTERVAL", "CHAR"}
FieldNames == {"YEAR", "MONTH", "DAY", "HOUR", "MINUTE", "SECOND", "WEEK"}
Symbols == [Or |-> "OR", And |-> "AND", Eq |-> "=", NotEq |-> "<>", Lt |-> "<", Gt |-> ">",
            LtEq |-> "<=", GtEq |-> ">=", BitwiseAnd |-> "&", PGBitwiseShiftLeft |-> "<<",
            PGBitwiseShiftRight |-> ">>", StringConcat |-> "||", Arrow |-> "->", Xor |-> "XOR",
            Plus |-> "+", Minus |-> "-", Multiply |-> "*", Divide |-> "/", Modulo |-> "%"]
Operators == {Symbols[o] : o \in DOMAIN Symbols}
OperatorOf(s) == CHOOSE o \in DOMAIN Symbols : Symbols[o] = s

Precedence(s) ==
    CASE s = "OR" -> 10 [] s = "AND" -> 20 [] s = "NOT" -> 30 [] s = "IS" -> 40
      [] s \in {"=", "<>", "<", ">", "<=", ">="} -> 50
      [] s \in {"IN", "BETWEEN", "LIKE", "ILIKE"} -> 60
      [] s \in {"&", "<<", ">>", "||", "->"} -> 70
      [] s = "XOR" -> 75 [] s \in {"+", "-"} -> 80 [] s \in {"*", "/", "%"} -> 90
      [] s = "!" -> 100 [] s = "[" -> 130
      [] OTHER -> 0
NextPrecedence(t, i) ==
    IF Tok(t, i).k # "kw" THEN 0
    ELSE IF Is(t, i, "NOT")
         THEN IF Tok(t, i + 1).s \in {"IN", "BETWEEN", "LIKE", "ILIKE"} THEN 60 ELSE 0
         ELSE Precedence(Tok(t, i).s)

\* The rule of the grammar read at the token i; x is what else the rule is given: a precedence,
\* the operand on the left, the kind of the things in a list.
RECURSIVE P(_, _, _, _)
PExpr(t, i, p) == P("expr", t, i, p)
PInfix(t, l, p) == P("infix", t, l, p)
PPrefix(t, i) == P("prefix", t, i, 0)
PSeq(t, i, what) == P("seq", t, i, what)
PQuery(t, i) == P("query", t, i, 0)
PWhens(t, i) == P("whens", t, i, 0)
PJoins(t, i) == P("joins", t, i, 0)
POptions(t, i) == P("options", t, i, 0)
PColumns(t, i, x) == P("columns", t, i, x)
PSelect(t, i) == P("select", t, i, 0)
PTable(t, i) == P("table", t, i, 0)
PFrom(t, i) == P("from", t, i, 0)
PItem(t, i, what) == P("item", t, i, what)
PCreateTable(t, i) == P("create table", t, i, 0)
PKeyword(t, i) == P("keyword", t, i, 0)
PSpecial(t, i, name) == P("special", t, i, name)
PColumnDef(t, i) == P("column def", t, i, 0)
PStatements(t, i) == P("statements", t, i, 0)

\* Comma separated things of one kind.
ItemRule(t, i, what) ==
    LET e == PExpr(t, i, 0)
        c == IF Tok(t, i).k = "id" /\ Is(t, i + 1, ".") /\ Is(t, i + 2, "*")
             THEN R(N("QualifiedWildcard", "", <<List(<<Tok(t, i)>>)>>), i + 3)
             ELSE IF Is(t, i, "*") THEN R(Leaf("Wildcard", ""), i + 1) ELSE e
    IN  CASE what = "expr" -> e
          [] what = "arg" -> c
          [] what = "item" ->
                IF c.n.k \in {"Wildcard", "QualifiedWildcard"} THEN c
                ELSE IF Is(t, e.i, "AS")
                     THEN R(Mk("ExprWithAlias", "", <<e.n, Tok(t, e.i + 1)>>), e.i + 2)
                     ELSE R(Mk("UnnamedExpr", "", <<e.n>>), e.i)
          [] what = "order" ->
                IF Is(t, e.i, "ASC") \/ Is(t, e.i, "DESC")
                THEN R(Mk("OrderBy", Tok(t, e.i).s, <<e.n>>), e.i + 1)
                ELSE R(Mk("OrderBy", "", <<e.n>>), e.i)
          [] what = "row" ->
                IF ~Is(t, i, "(") THEN R(Err("parser"), i)
                ELSE Then(t, PSeq(t, i + 1, "expr"), ")")
          [] what = "exprs" -> e
SeqRule(t, i, what) ==
    LET h == PItem(t, i, what)
        r == PSeq(t, h.i + 1, what)
    IN  IF IsErr(h.n) THEN h
        ELSE IF ~Is(t, h.i, ",") THEN R(List(<<h.n>>), h.i)
        ELSE IF IsErr(r.n) THEN r ELSE R(List(<<h.n>> \o r.n.a), r.i)

\* A bracketed list that may be empty, from the token after the opening bracket.
PBracket(t, i, what, close) ==
    IF Is(t, i, close) THEN R(List(<<>>), i + 1) ELSE Then(t, PSeq(t, i, what), close)

ExprRule(t, i, p) ==
    LET l == PPrefix(t, i) IN IF IsErr(l.n) THEN l ELSE PInfix(t, l, p)

\* The node k of the children a and of the last one, r.
PBuild(k, s, a, r) == R(Mk(k, s, Append(a, r.n)), r.i)
\* The operator after the operand l, negated when it was written with NOT.
PNegatable(t, l, neg, i) ==
    LET f == IF neg THEN "true" ELSE "false"
        x == PExpr(t, i + 1, 60)
        y == PExpr(t, x.i + 1, 60)
    IN  CASE Is(t, i, "BETWEEN") ->
                IF ~Is(t, x.i, "AND") THEN R(Err("parser"), x.i)
                ELSE R(Mk("Between", f, <<l, x.n, y.n>>), y.i)
          [] Is(t, i, "IN") ->
                IF ~Is(t, i + 1, "(") THEN R(Err("parser"), i)
                ELSE IF Is(t, i + 2, "SELECT") \/ Is(t, i + 2, "VALUES")
                     THEN PBuild("InSubquery", f, <<l>>, Then(t, PQuery(t, i + 2), ")"))
                     ELSE PBuild("InList", f, <<l>>, PBracket(t, i + 2, "expr", ")"))
          [] Is(t, i, "LIKE") -> R(Mk("Like", f, <<l, x.n, None>>), x.i)
          [] Is(t, i, "ILIKE") -> R(Mk("ILike", f, <<l, x.n, None>>), x.i)
          [] OTHER -> R(Err("parser"), i)
POnce(t, l, i, q) ==
    LET s == Tok(t, i).s
    IN  CASE s \in Operators -> PBuild("BinaryOp", OperatorOf(s), <<l>>, PExpr(t, i + 1, q))
          [] s = "!" -> R(Mk("UnaryOp", "PGPostfixFactorial", <<l>>), i + 1)
          [] s = "[" -> PBuild("Subscript", "Index", <<l>>, Then(t, PExpr(t, i + 1, 0), "]"))
          [] s = "IS" -> IF Is(t, i + 1, "NULL") THEN R(Mk("IsNull", "", <<l>>), i + 2)
                         ELSE R(Mk("IsNotNull", "", <<l>>), i + 3)
          [] OTHER -> PNegatable(t, l, s = "NOT", IF s = "NOT" THEN i + 1 ELSE i)
PMore(t, r, p) == IF IsErr(r.n) THEN r ELSE PInfix(t, r, p)
InfixRule(t, l, p) ==
    LET q == NextPrecedence(t, l.i)
    IN  IF q <= p THEN l ELSE PMore(t, POnce(t, l.n, l.i, q), p)

\* CASE [operand] WHEN .. THEN .. [ELSE ..] END, from its first WHEN.
WhensRule(t, i) ==
    LET w == PExpr(t, i + 1, 0)
        h == PExpr(t, w.i + 1, 0)
        r == PWhens(t, h.i)
    IN  IF ~Is(t, i, "WHEN") THEN R(List(<<>>), i)
        ELSE IF ~Is(t, w.i, "THEN") THEN R(Err("parser"), w.i)
        ELSE IF IsErr(r.n) THEN r
        ELSE R(List(<<Mk("When", "", <<w.n, h.n>>)>> \o r.n.a), r.i)
PCase(t, i) ==
    LET o == IF Is(t, i + 1, "WHEN") THEN R(None, i + 1) ELSE PExpr(t, i + 1, 0)
        w == PWhens(t, o.i)
        e == IF Is(t, w.i, "ELSE") THEN PExpr(t, w.i + 1, 0) ELSE R(None, w.i)
    IN  Then(t, R(Mk("Case", "", <<o.n, w.n, e.n>>), e.i), "END")

\* The calls with a syntax of their own, from the token after the opening parenthesis.
PTrimmed(t, w, x) ==
    IF Is(t, x.i, "FROM")
    THEN LET y == PExpr(t, x.i + 1, 0) IN R(Mk("Trim", "", <<y.n, w, x.n, None>>), y.i)
    ELSE R(Mk("Trim", "", <<x.n, w, None, None>>), x.i)
PTrim(t, i, w) == PTrimmed(t, w, PExpr(t, IF w = None THEN i ELSE i + 1, 0))
PCast(t, e) == R(Mk("Cast", "Cast", <<e.n, Tok(t, e.i + 1), None>>), e.i + 2)
PRounded(k, e) == R(Mk(k, "", <<e.n, None>>), e.i)
PPosition(t, p) == PBuild("Position", "", <<p.n>>, PExpr(t, p.i + 1, 0))
SpecialRule(t, i, name) ==
    Then(t, CASE name = "CAST" -> PCast(t, PExpr(t, i, 0))
              [] name = "EXTRACT" -> PBuild("Extract", "", <<Tok(t, i)>>, PExpr(t, i + 2, 0))
              [] name = "POSITION" -> PPosition(t, PExpr(t, i, 60))
              [] name = "TRIM" ->
                    PTrim(t, i, IF Tok(t, i).s \in {"BOTH", "LEADING", "TRAILING"} THEN Tok(t, i) ELSE None)
              [] name = "FLOOR" -> PRounded("Floor", PExpr(t, i, 0))
              [] name = "CEIL" -> PRounded("Ceil", PExpr(t, i, 0)), ")")
PCall(t, i) ==
    LET d == Is(t, i + 2, "DISTINCT")
        a == PBracket(t, IF d THEN i + 3 ELSE i + 2, "arg", ")")
    IN  R(Mk("Function", Tok(t, i).s, <<a.n, Flag(d)>>), a.i)

PInterval(t, v, lead, last) ==
    R(Mk("Interval", "", <<v.n, IF lead = 1 THEN Tok(t, v.i) ELSE None,
                           IF last = 2 THEN Tok(t, v.i + lead + 1) ELSE None>>), v.i + lead + last)
PIntervalTo(t, v, lead) == PInterval(t, v, lead, IF Is(t, v.i + lead, "TO") THEN 2 ELSE 0)
PIntervalOf(t, v) == PIntervalTo(t, v, IF Tok(t, v.i).s \in FieldNames THEN 1 ELSE 0)
IsQueryAt(t, i) == Is(t, i, "SELECT") \/ Is(t, i, "VALUES")
KeywordRule(t, i) ==
    LET s == Tok(t, i).s
    IN  CASE s \in {"TRUE", "FALSE"} -> R(Leaf("Boolean", s), i + 1)
          [] s = "NULL" -> R(Leaf("Null", ""), i + 1)
          [] s = "-" -> PBuild("UnaryOp", "Minus", <<>>, PExpr(t, i + 1, 90))
          [] s = "+" -> PBuild("UnaryOp", "Plus", <<>>, PExpr(t, i + 1, 90))
          [] s = "~" -> PBuild("UnaryOp", "PGBitwiseNot", <<>>, PExpr(t, i + 1, 80))
          [] s = "NOT" -> IF Is(t, i + 1, "EXISTS")
                          THEN PBuild("Exists", "true", <<>>, Then(t, PQuery(t, i + 3), ")"))
                          ELSE PBuild("UnaryOp", "Not", <<>>, PExpr(t, i + 1, 30))
          [] s = "EXISTS" -> PBuild("Exists", "false", <<>>, Then(t, PQuery(t, i + 2), ")"))
          [] s = "(" -> IF IsQueryAt(t, i + 1)
                        THEN PBuild("Subquery", "", <<>>, Then(t, PQuery(t, i + 1), ")"))
                        ELSE PBuild("Nested", "", <<>>, Then(t, PExpr(t, i + 1, 0), ")"))
          [] s = "[" -> PBuild("Array", "", <<>>, PBracket(t, i + 1, "expr", "]"))
          [] s = "CASE" -> PCase(t, i)
          [] s = "INTERVAL" /\ Tok(t, i + 1).k # "end" -> PIntervalOf(t, PPrefix(t, i + 1))
          [] s \in {"CAST", "EXTRACT", "POSITION", "TRIM", "FLOOR", "CEIL"}
                /\ Is(t, i + 1, "(") -> PSpecial(t, i + 2, s)
          [] s \in TypeNames /\ Tok(t, i + 1).k = "str" ->
                R(Mk("TypedString", s, <<Tok(t, i + 1)>>), i + 2)
          [] OTHER -> R(Err("parser"), i)
PrefixRule(t, i) ==
    LET k == Tok(t, i).k
    IN  CASE k = "id" ->
                IF Is(t, i + 1, "(") THEN PCall(t, i)
                ELSE IF Is(t, i + 1, ".") /\ Is(t, i + 3, ".")
                     THEN R(Mk("CompoundIdentifier", "", <<t[i], Tok(t, i + 2), Tok(t, i + 4)>>), i + 5)
                ELSE IF Is(t, i + 1, ".")
                     THEN R(Mk("CompoundIdentifier", "", <<t[i], Tok(t, i + 2)>>), i + 3)
                ELSE R(Leaf("Identifier", t[i].s), i + 1)
          [] k = "num" -> R(Leaf("Number", t[i].s), i + 1)
          [] k = "str" -> R(Leaf("SingleQuotedString", t[i].s), i + 1)
          [] k \in {"hex", "ph"} -> R(t[i], i + 1)
          [] k = "kw" -> PKeyword(t, i)
          [] OTHER -> R(Err("parser"), i)

\* An optional clause that starts with a keyword of n tokens.
PClause(t, i, s, n, what) ==
    IF ~Is(t, i, s) THEN R(IF what = "expr" THEN None ELSE List(<<>>), i)
    ELSE IF what = "expr" THEN PExpr(t, i + n, 0) ELSE PSeq(t, i + n, what)
PAlias(t, i) == IF Is(t, i, "AS") THEN R(Mk("Alias", Tok(t, i + 1).s, <<List(<<>>)>>), i + 2) ELSE R(None, i)
PName(t, i) ==
    IF Tok(t, i).k # "id" THEN R(Err("parser"), i)
    ELSE IF Is(t, i + 1, ".") THEN R(List(<<t[i], Tok(t, i + 2)>>), i + 3)
    ELSE R(List(<<t[i]>>), i + 1)
PAliased(k, n, args, a) == R(Mk(k, "", <<n, a.n>> \o args), a.i)
PDerived(t, q) == PAliased("Derived", q.n, <<>>, PAlias(t, q.i))
PTableArgs(t, n, g) == PAliased("Table", n.n, <<g.n>>, PAlias(t, g.i))
PNamedTable(t, n) == PTableArgs(t, n, IF Is(t, n.i, "(") THEN PBracket(t, n.i + 1, "arg", ")") ELSE R(None, n.i))
TableRule(t, i) ==
    IF Is(t, i, "(") THEN PDerived(t, Then(t, PQuery(t, i + 1), ")")) ELSE PNamedTable(t, PName(t, i))
JoinsRule(t, i) ==
    LET n == IF Is(t, i, "INNER") THEN 2 ELSE IF Is(t, i, "LEFT") THEN 3 ELSE 1
        op == IF Is(t, i, "LEFT") THEN "LeftOuter" ELSE IF Is(t, i, "CROSS") THEN "CrossJoin" ELSE "Inner"
        f == PTable(t, i + n)
        c == PClause(t, f.i, "ON", 1, "expr")
        r == PJoins(t, c.i)
    IN  IF Tok(t, i).s \notin {"JOIN", "INNER", "LEFT"} THEN R(List(<<>>), i)
        ELSE IF IsErr(r.n) THEN r
        ELSE R(List(<<Mk("Join", op, <<f.n, c.n>>)>> \o r.n.a), r.i)
FromRule(t, i) ==
    LET f == PTable(t, i + 1)
        j == PJoins(t, f.i)
    IN  IF ~Is(t, i, "FROM") THEN R(List(<<>>), i)
        ELSE R(List(<<Mk("TableWithJoins", "", <<f.n, j.n>>)>>), j.i)
SelectRule(t, i) ==
    LET d == Is(t, i + 1, "DISTINCT")
        p == PSeq(t, IF d THEN i + 2 ELSE i + 1, "item")
        f == PFrom(t, p.i)
        w == PClause(t, f.i, "WHERE", 1, "expr")
        g == PClause(t, w.i, "GROUP", 2, "exprs")
        h == PClause(t, g.i, "HAVING", 1, "expr")
    IN  R(Mk("Select", IF d THEN "Distinct" ELSE "", <<p.n, f.n, w.n, g.n, h.n, List(<<>>)>>), h.i)
QueryRule(t, i) ==
    LET v == PSeq(t, i + 1, "row")
        b == IF Is(t, i, "SELECT") THEN PSelect(t, i)
             ELSE IF Is(t, i, "VALUES") THEN R(Mk("Values", "", <<v.n>>), v.i)
             ELSE R(Err("parser"), i)
        o == PClause(t, b.i, "ORDER", 2, "order")
        l == PClause(t, o.i, "LIMIT", 1, "expr")
        f == PClause(t, l.i, "OFFSET", 1, "expr")
    IN  IF IsErr(b.n) THEN b ELSE R(Mk("Query", "", <<b.n, o.n, l.n, f.n, List(<<>>)>>), f.i)

\* The options of a column definition.
POptionNames == {"NULL", "NOT", "DEFAULT", "UNIQUE", "PRIMARY", "COMMENT", "CHECK"}
POption(t, i) ==
    CASE Is(t, i, "NOT") -> R(N("Option", "NOT NULL", <<>>), i + 2)
      [] Is(t, i, "PRIMARY") -> R(N("Option", "PRIMARY KEY", <<>>), i + 2)
      [] Is(t, i, "DEFAULT") -> LET d == PExpr(t, i + 1, 0) IN R(Mk("Option", "DEFAULT", <<d.n>>), d.i)
      [] Is(t, i, "COMMENT") -> R(N("Option", "COMMENT", <<Tok(t, i + 1)>>), i + 2)
      [] OTHER -> R(N("Option", Tok(t, i).s, <<>>), i + 1)
PCons(h, r) == IF IsErr(h.n) THEN h ELSE IF IsErr(r.n) THEN r ELSE R(List(<<h.n>> \o r.n.a), r.i)
PMoreOptions(t, o) == PCons(o, POptions(t, o.i))
OptionsRule(t, i) ==
    IF \E s \in POptionNames : Is(t, i, s) THEN PMoreOptions(t, POption(t, i)) ELSE R(N("List", "", <<>>), i)
ColumnDefRule(t, i) ==
    LET o == POptions(t, i + 2)
    IN  R(Mk("ColumnDef", Tok(t, i).s, <<Tok(t, i + 1), o.n>>), o.i)
\* CONSTRAINT name FOREIGN KEY (c) REFERENCES t (c) ON DELETE action ON UPDATE action
PForeignKey(t, i) ==
    R(N("ForeignKey", "", <<Tok(t, i + 1), List(<<Tok(t, i + 5)>>), List(<<Tok(t, i + 8)>>),
                            List(<<Tok(t, i + 10)>>), Tok(t, i + 14), Tok(t, i + 17)>>), i + 18)
\* The column or the key x joins those before it.
PColumn(t, x, acc) ==
    LET now == IF x.n.k = "ForeignKey" THEN <<acc[1], Append(acc[2], x.n)>> ELSE <<Append(acc[1], x.n), acc[2]>>
    IN  IF Is(t, x.i, ",") THEN PColumns(t, x.i + 1, now)
        ELSE Then(t, R(Mk("Columns", "", <<List(now[1]), List(now[2])>>), x.i), ")")
ColumnsRule(t, i, acc) ==
    PColumn(t, IF Is(t, i, "CONSTRAINT") THEN PForeignKey(t, i) ELSE PColumnDef(t, i), acc)
PSetting(t, i, s) == IF Is(t, i, s) THEN R(Tok(t, i + 2), i + 3) ELSE R(None, i)
PTableEnd(t, n, c, e, m) == R(Mk("CreateTable", "", <<n.n, c.n.a[1], None, e.n, c.n.a[2], m.n>>), m.i)
PTableSettings(t, n, c, e) == PTableEnd(t, n, c, e, PSetting(t, e.i, "COMMENT"))
PTableColumns(t, n, c) == IF IsErr(c.n) THEN c ELSE PTableSettings(t, n, c, PSetting(t, c.i, "ENGINE"))
PTableNamed(t, n) ==
    PTableColumns(t, n, IF Is(t, n.i, "(") THEN PColumns(t, n.i + 1, <<<<>>, <<>>>>)
                        ELSE R(N("Columns", "", <<N("List", "", <<>>), N("List", "", <<>>)>>), n.i))
CreateTableRule(t, i) == PTableNamed(t, PName(t, i))
PCreateIndex(t, i) ==
    LET n == PName(t, i)
        u == PName(t, n.i + 1)
        o == Then(t, PSeq(t, u.i + 1, "order"), ")")
    IN  R(Mk("CreateIndex", "", <<n.n, u.n, o.n>>), o.i)
PRest(s, r) == IF IsErr(r) THEN r ELSE List(<<s.n>> \o r.a)
PStatement(t, s) ==
    IF IsErr(s.n) THEN s.n ELSE IF ~Is(t, s.i, ";") THEN Err("parser") ELSE PRest(s, PStatements(t, s.i + 1))
StatementsRule(t, i) ==
    IF i > Len(t) THEN N("List", "", <<>>)
    ELSE PStatement(t, IF Is(t, i + 1, "TABLE") THEN PCreateTable(t, i + 2) ELSE PCreateIndex(t, i + 2))
PAssigned(t, n) ==
    IF Is(t, n.i, "=") THEN PBuild("Assignment", "ColumnName", <<n.n>>, PExpr(t, n.i + 1, 0)) ELSE R(Err("parser"), n.i)
P(rule, t, i, x) ==
    CASE rule = "expr" -> ExprRule(t, i, x)
      [] rule = "infix" -> InfixRule(t, i, x)
      [] rule = "prefix" -> PrefixRule(t, i)
      [] rule = "seq" -> SeqRule(t, i, x)
      [] rule = "query" -> QueryRule(t, i)
      [] rule = "whens" -> WhensRule(t, i)
      [] rule = "joins" -> JoinsRule(t, i)
      [] rule = "options" -> OptionsRule(t, i)
      [] rule = "columns" -> ColumnsRule(t, i, x)
      [] rule = "select" -> SelectRule(t, i)
      [] rule = "table" -> TableRule(t, i)
      [] rule = "from" -> FromRule(t, i)
      [] rule = "item" -> ItemRule(t, i, x)
      [] rule = "create table" -> CreateTableRule(t, i)
      [] rule = "keyword" -> KeywordRule(t, i)
      [] rule = "special" -> SpecialRule(t, i, x)
      [] rule = "column def" -> ColumnDefRule(t, i)
      [] rule = "assignment" -> PAssigned(t, PName(t, i))
      [] rule = "statements" -> StatementsRule(t, i)

\* What parse_sql.rs offers: each reads one thing from the start and stops.
parse(t) == P("statements", t, 1, 0)
parse_expr(t) == P("expr", t, 1, 0).n
parse_query(t) == P("query", t, 1, 0).n
parse_comma_separated_exprs(t) == P("seq", t, 1, "expr").n
parse_select_item(t) == P("item", t, 1, "item").n
parse_select_items(t) == P("seq", t, 1, "item").n
parse_order_by_expr(t) == P("item", t, 1, "order").n
parse_order_by_exprs(t) == P("seq", t, 1, "order").n
parse_column_def(t) == P("column def", t, 1, 0).n
parse_data_type(t) == Tok(t, 1)
parse_identifiers(t) == List(SelectSeq(t, LAMBDA x : x # Kw(",")))
\* The entry of parse_sql.rs for what a text is meant to be, by the rule it asks for.
Entries ==
    [expr |-> <<"expr", 0>>, query |-> <<"query", 0>>, exprs |-> <<"seq", "expr">>, item |-> <<"item", "item">>,
     items |-> <<"seq", "item">>, order |-> <<"item", "order">>, orders |-> <<"seq", "order">>,
     column_def |-> <<"column def", 0>>, assignment |-> <<"assignment", 0>>]
Parsed(what, t) == P(Entries[what][1], t, 1, Entries[what][2]).n

(***************************************************************************)
(* core/src/translate: the parser's tree becomes GlueSQL's own, or the      *)
(* statement is refused.  Params are the values bound to $1, $2, ...        *)
(***************************************************************************)

CONSTANT Params

OptionalFields == {"fill?", "chars?", "filter_chars?", "trim_where_field?", "count?", "start?",
                   "order?", "values?", "expr?"}
ListFields == {"exprs*"}

\* str::to_uppercase on the names the model uses.
Uppercase == [abs |-> "ABS", custom |-> "CUSTOM", series |-> "SERIES", primary |-> "PRIMARY",
              glue_tables |-> "GLUE_TABLES", version |-> "VERSION", indexes |-> "INDEXES"]
to_uppercase(s) == IF s \in DOMAIN Uppercase THEN Uppercase[s] ELSE s

translate_data_type(t) ==
    LET types == [BOOLEAN |-> "Boolean", INT |-> "Int", INTEGER |-> "Int", INT64 |-> "Int",
                  INT8 |-> "Int8", INT16 |-> "Int16", INT32 |-> "Int32", INT128 |-> "Int128",
                  UINT8 |-> "Uint8", UINT16 |-> "Uint16", UINT32 |-> "Uint32",
                  UINT64 |-> "Uint64", UINT128 |-> "Uint128", FLOAT32 |-> "Float32",
                  FLOAT64 |-> "Float", FLOAT |-> "Float", TEXT |-> "Text", BYTEA |-> "Bytea",
                  DATE |-> "Date", TIMESTAMP |-> "Timestamp", TIME |-> "Time",
                  INTERVAL |-> "Interval", UUID |-> "Uuid", DECIMAL |-> "Decimal",
                  MAP |-> "Map", LIST |-> "List", POINT |-> "Point", INET |-> "Inet"]
    IN  IF t.s \in DOMAIN types THEN Leaf("DataType", types[t.s])
        ELSE Err("UnsupportedDataType")

translate_datetime_field(f) ==
    IF f = None THEN None
    ELSE IF f.s \in {"YEAR", "MONTH", "DAY", "HOUR", "MINUTE", "SECOND"}
         THEN Leaf("DateTimeField", f.s) ELSE Err("UnsupportedDateTimeField")

translate_trim_where_field(f) == IF f = None THEN None ELSE Leaf("TrimWhereField", f.s)

translate_literal(v) ==
    CASE v.k = "Boolean" -> Leaf("Value", v.s)
      [] v.k = "Number" -> Leaf("Literal", v.s)
      [] v.k = "SingleQuotedString" -> N("Literal", "quoted", <<Str(v.s)>>)
      [] v.k = "hex" -> IF v.s = "odd" THEN Err("FailedToDecodeHexString") ELSE Leaf("Value", v.s)
      [] v.k = "Null" -> Leaf("Value", "NULL")
      [] OTHER -> Err("UnsupportedLiteral")

\* The index a placeholder names: $1 is the first parameter, $0 and ? are none.
PlaceholderIndex(s) == CASE s = "$1" -> 1 [] s = "$2" -> 2 [] OTHER -> 0
bind_placeholder(v) ==
    IF PlaceholderIndex(v.s) = 0 THEN Err("InvalidPlaceholder")
    ELSE IF PlaceholderIndex(v.s) > Len(Params) THEN Err("ParameterIndexOutOfRange")
    ELSE Leaf("Value", Params[PlaceholderIndex(v.s)])

UnaryOperators == [Plus |-> "Plus", Minus |-> "Minus", Not |-> "Not",
                   PGPostfixFactorial |-> "Factorial", PGBitwiseNot |-> "BitwiseNot"]
translate_unary_operator(o) == UnaryOperators[o]
translate_binary_operator(o) ==
    CASE o = "PGBitwiseShiftLeft" -> "BitwiseShiftLeft"
      [] o = "PGBitwiseShiftRight" -> "BitwiseShiftRight"
      [] OTHER -> o

translate_object_name(n) == IF Len(n.a) > 1 THEN Err("CompoundObjectNotSupported") ELSE n.a[1]

RECURSIVE Translated(_)
translate_exprs(q) == [i \in DOMAIN q |-> Translated(q[i])]

\* The refusal of the first clause of the list that a statement carries.
Refuse(found, unsupported, n) ==
    IF \E i \in DOMAIN found.a : found.a[i].s \in unsupported THEN Err("Unsupported") ELSE n

check_len_range(n, lo, hi, f) == IF n < lo \/ n > hi THEN Err("FunctionArgsLength") ELSE f

translate_trim(n) ==
    IF n.a[4] # None THEN Err("UnsupportedTrimChars")
    ELSE Mk("Function", "Trim", <<Translated(n.a[1]), Translated(n.a[3]),
                                  translate_trim_where_field(n.a[2])>>)
translate_floor(n) ==
    IF n.a[2] # None THEN Err("UnsupportedExpr")
    ELSE Mk("Function", "Floor", <<Translated(n.a[1])>>)
translate_ceil(n) ==
    IF n.a[2] # None THEN Err("UnsupportedExpr")
    ELSE Mk("Function", "Ceil", <<Translated(n.a[1])>>)
translate_position(n) ==
    Mk("Function", "Position", <<Translated(n.a[2]), Translated(n.a[1])>>)
translate_cast(n) ==
    IF n.s # "Cast" \/ n.a[3] # None THEN Err("CastNotSupported")
    ELSE Mk("Function", "Cast", <<Translated(n.a[1]), translate_data_type(n.a[2])>>)
translate_extract(n) ==
    Mk("Function", "Extract", <<translate_datetime_field(n.a[1]), Translated(n.a[2])>>)

Aggregates == [COUNT |-> "Count", SUM |-> "Sum", MIN |-> "Min", MAX |-> "Max", AVG |-> "Avg",
               VARIANCE |-> "Variance", STDEV |-> "Stdev"]
IsWildcard(n) == n.k \in {"Wildcard", "QualifiedWildcard"}
translate_count(args, distinct) ==
    check_len_range(Len(args), 1, 1,
        IF args[1].k = "QualifiedWildcard" THEN Err("QualifiedWildcardInCountNotSupported")
        ELSE Mk("Aggregate", "Count",
                <<IF IsWildcard(args[1]) THEN args[1] ELSE Translated(args[1]), distinct>>))
translate_aggregate_one_arg(name, args, distinct) ==
    check_len_range(Len(args), 1, 1,
        Mk("Aggregate", Aggregates[name], <<Translated(args[1]), distinct>>))

\* The named function of a row of the table: the argument of each of its fields.
translate_function_args(row, args) ==
    LET fields == Tail(row)
        v == row[1]
        lists == \E i \in DOMAIN fields : fields[i] \in ListFields
        required == Cardinality({i \in DOMAIN fields : fields[i] \notin OptionalFields \cup ListFields})
        low == IF v \in {"ConcatWs", "Greatest"} THEN 2 ELSE required
        field(f) == LET i == At(fields, f)
                    IN  IF f \in ListFields THEN List(translate_exprs(SubSeq(args, i, Len(args))))
                        ELSE IF i > Len(args) THEN None ELSE Translated(args[i])
    IN  check_len_range(Len(args), low, IF lists THEN Len(args) ELSE Len(fields),
            Mk("Function", v, [j \in DOMAIN Function[v] |-> field(Function[v][j])]))
translate_function(n) ==
    LET name == to_uppercase(n.s)
        args == n.a[1].a
    IN  IF name = "COUNT" THEN translate_count(args, n.a[2])
        ELSE IF \E i \in DOMAIN args : IsWildcard(args[i]) THEN Err("WildcardFunctionArgNotAccepted")
        ELSE IF name \in DOMAIN Aggregates THEN translate_aggregate_one_arg(name, args, n.a[2])
        ELSE IF name \in DOMAIN Translate THEN translate_function_args(Translate[name], args)
        ELSE Mk("Function", "Custom", <<Id(name), List(translate_exprs(args))>>)

\* The forms whose parts are translated one by one.
translate_parts(n) == Mk(n.k, n.s, translate_exprs(n.a))
translate_like(n) ==
    IF n.a[3] # None THEN Err("UnsupportedExpr")
    ELSE Mk(n.k, n.s, <<Translated(n.a[1]), Translated(n.a[2])>>)
translate_subscript(n) ==
    IF n.s # "Index" THEN Err("UnsupportedExpr")
    ELSE Mk("ArrayIndex", "", <<Translated(n.a[1]), List(<<Translated(n.a[2])>>)>>)
translate_interval(n) ==
    Mk("Interval", "", <<Translated(n.a[1]), translate_datetime_field(n.a[2]),
                         translate_datetime_field(n.a[3])>>)
translate_special_expr(n) ==
    CASE n.k = "Trim" -> translate_trim(n)
      [] n.k = "Floor" -> translate_floor(n)
      [] n.k = "Ceil" -> translate_ceil(n)
      [] n.k = "Subscript" -> translate_subscript(n)
      [] n.k = "Position" -> translate_position(n)
      [] n.k = "Interval" -> translate_interval(n)
      [] n.k = "Cast" -> translate_cast(n)
      [] n.k \in {"Exists", "Subquery", "Case", "When", "List", "Array"} -> translate_parts(n)
      [] OTHER -> Err("UnsupportedExpr")
translate_expr(n) ==
    CASE n.k \in {"None", "Err", "Identifier"} -> n
      [] n.k = "CompoundIdentifier" -> IF Len(n.a) = 2 THEN n ELSE Err("UnsupportedExpr")
      [] n.k \in {"IsNull", "IsNotNull", "InList", "InSubquery", "Between", "Nested"} ->
            translate_parts(n)
      [] n.k \in {"Like", "ILike"} -> translate_like(n)
      [] n.k = "BinaryOp" -> Mk("BinaryOp", translate_binary_operator(n.s), translate_exprs(n.a))
      [] n.k = "UnaryOp" -> Mk("UnaryOp", translate_unary_operator(n.s), translate_exprs(n.a))
      [] n.k = "Extract" -> translate_extract(n)
      [] n.k = "ph" -> bind_placeholder(n)
      [] n.k \in {"Boolean", "Number", "SingleQuotedString", "hex", "Null"} -> translate_literal(n)
      [] n.k = "TypedString" -> Mk("TypedString", "", <<translate_data_type(n)>> \o n.a)
      [] n.k = "Function" -> translate_function(n)
      [] OTHER -> translate_special_expr(n)

translate_order_by_expr(o) ==
    IF o.s = "NULLS" THEN Err("OrderByNullsFirstOrLastNotSupported")
    ELSE Mk("OrderByExpr", o.s, <<Translated(o.a[1])>>)
translate_order_by_exprs(l) == List([i \in DOMAIN l.a |-> translate_order_by_expr(l.a[i])])

\* The label of a column: its alias, the last part of a compound name, or the text itself.
translate_select_item(n) ==
    CASE n.k = "UnnamedExpr" ->
            Mk("Expr", "", <<Translated(n.a[1]),
                             IF n.a[1].k = "CompoundIdentifier"
                             THEN Leaf("column", n.a[1].a[Len(n.a[1].a)].s)
                             ELSE N("rendered", "", <<n.a[1]>>)>>)
      [] n.k = "ExprWithAlias" -> Mk("Expr", "", <<Translated(n.a[1]), n.a[2]>>)
      [] n.k = "QualifiedWildcard" -> Mk("QualifiedWildcard", "", <<translate_object_name(n.a[1])>>)
      [] OTHER -> n

alias_or_name(alias, name) == IF alias = None THEN N("Alias", name, <<List(<<>>)>>) ELSE alias
translate_table_alias(alias) == alias
Dictionaries == {"GLUE_OBJECTS", "GLUE_TABLES", "GLUE_INDEXES", "GLUE_TABLE_COLUMNS"}
translate_table_args(args) ==
    IF \E i \in DOMAIN args : IsWildcard(args[i]) THEN Err("WildcardFunctionArgNotAccepted")
    ELSE IF args = <<>> THEN Err("LackOfArgs") ELSE Translated(args[1])
translate_table_factor(f) ==
    LET name == translate_object_name(f.a[1])
        upper == to_uppercase(name.s)
        alias == translate_table_alias(f.a[2])
    IN  CASE f.k = "Derived" ->
                IF f.a[2] = None THEN Err("LackOfAlias")
                ELSE Mk("Derived", "", <<Translated(f.a[1]), f.a[2]>>)
          [] f.k = "Table" ->
                IF IsErr(name) THEN name
                ELSE IF upper = "SERIES" /\ f.a[3] # None
                THEN Mk("Series", "", <<alias_or_name(alias, upper), translate_table_args(f.a[3].a)>>)
                ELSE IF upper \in Dictionaries
                THEN Mk("Dictionary", upper, <<alias_or_name(alias, upper)>>)
                ELSE Mk("Table", "", <<name, alias>>)
          [] OTHER -> Err("UnsupportedQueryTableFactor")
translate_join(j) ==
    LET c == IF j.a[2].k \in {"Using", "Natural"} THEN Err("UnsupportedJoinConstraint")
             ELSE Translated(j.a[2])
        r == Mk("Join", j.s, <<translate_table_factor(j.a[1]), c>>)
    IN  IF j.s \notin {"Inner", "LeftOuter"} THEN Err("UnsupportedJoinOperator")
        ELSE IF IsErr(c) THEN c ELSE r
translate_table_with_joins(f) ==
    Mk("TableWithJoins", "", <<translate_table_factor(f.a[1]),
                               List([i \in DOMAIN f.a[2].a |-> translate_join(f.a[2].a[i])])>>)
NoTable ==
    N("TableWithJoins", "", <<N("Series", "", <<N("Alias", "Series", <<List(<<>>)>>),
                                                Leaf("Literal", "1")>>), List(<<>>)>>)

\* The first refusal of a SELECT, in the order of the code, or its translation.
translate_select(n) ==
    LET from == IF n.a[2].a = <<>> THEN NoTable ELSE translate_table_with_joins(n.a[2].a[1])
        items == List([i \in DOMAIN n.a[1].a |-> translate_select_item(n.a[1].a[i])])
        r == Mk("Select", n.s, <<items, from, Translated(n.a[3]), Translated(n.a[4]),
                                 Translated(n.a[5])>>)
    IN  Refuse(n.a[6], {"INTO", "WINDOW"},
            IF Len(n.a[2].a) > 1 THEN Err("TooManyTables")
            ELSE IF n.s = "DistinctOn" THEN Err("SelectDistinctOnNotSupported")
            ELSE IF IsErr(from) THEN from
            ELSE IF n.a[4].k = "All" THEN Err("UnsupportedGroupByAll")
            ELSE r)
translate_set_expr(n) ==
    CASE n.k = "Select" -> translate_select(n)
      [] n.k = "Values" -> translate_parts(n)
      [] OTHER -> Err("UnsupportedQuerySetExpr")
translate_query(n) ==
    Refuse(n.a[5], {"WITH", "FETCH", "FOR UPDATE"},
        Mk("Query", "", <<translate_set_expr(n.a[1]), translate_order_by_exprs(n.a[2]),
                          Translated(n.a[3]), Translated(n.a[4])>>))

\* One option of a column after another: [nullable, default, unique, comment].
ColumnOption(acc, o) ==
    CASE o.s = "NULL" -> acc
      [] o.s = "NOT NULL" -> [acc EXCEPT !.a[1] = Flag(FALSE)]
      [] o.s = "DEFAULT" -> Mk("Options", "", [acc.a EXCEPT ![2] = Translated(o.a[1])])
      [] o.s = "UNIQUE" -> [acc EXCEPT !.a[3] = Leaf("Unique", "UNIQUE")]
      [] o.s = "PRIMARY KEY" ->
            [acc EXCEPT !.a[1] = Flag(FALSE), !.a[3] = Leaf("Unique", "PRIMARY KEY")]
      [] o.s = "COMMENT" -> [acc EXCEPT !.a[4] = o.a[1]]
      [] OTHER -> Err("UnsupportedColumnOption")
RECURSIVE ColumnOptions(_, _)
ColumnOptions(acc, q) ==
    IF q = <<>> \/ IsErr(acc) THEN acc ELSE ColumnOptions(ColumnOption(acc, Head(q)), Tail(q))
translate_column_def(c) ==
    LET o == ColumnOptions(N("Options", "", <<Flag(TRUE), None, None, None>>), c.a[2].a)
    IN  IF IsErr(o) THEN o ELSE Mk("ColumnDef", c.s, <<translate_data_type(c.a[1])>> \o o.a)
translate_operate_function_arg(g) ==
    IF g.a[1] = None THEN Err("UnNamedFunctionArgNotSupported")
    ELSE Mk("Arg", g.a[1].s, <<translate_data_type(g.a[2]), Translated(g.a[3])>>)

translate_alter_table_operation(o) ==
    CASE o.k = "AddColumn" -> Mk("AddColumn", "", <<translate_column_def(o.a[1])>>)
      [] o.k \in {"DropColumn", "RenameColumn"} -> o
      [] o.k = "RenameTable" -> Mk("RenameTable", "", <<translate_object_name(o.a[1])>>)
      [] OTHER -> Err("UnsupportedAlterTableOperation")

translate_referential_action(r) ==
    IF r.s \in {"", "NO ACTION", "RESTRICT"} THEN Leaf("ReferentialAction", "NO ACTION")
    ELSE Err("UnsupportedConstraint")
\* A constraint without a name is named after its columns.
translate_foreign_key(f) ==
    LET column == f.a[2].a[1]
        table == translate_object_name(f.a[3])
        referred == f.a[4].a[1]
        name == IF f.a[1] = None THEN N("FK", "", <<column, table, referred>>) ELSE f.a[1]
    IN  IF f.k # "ForeignKey" THEN Err("UnsupportedConstraint")
        ELSE IF f.a[2].a = <<>> \/ f.a[4].a = <<>> THEN Err("UnreachableForeignKeyColumns")
        ELSE Mk("ForeignKey", "", <<table, column, referred, name,
                 translate_referential_action(f.a[5]), translate_referential_action(f.a[6])>>)

translate_table_with_join(t) ==
    IF t.a[2].a # <<>> THEN Err("JoinOnUpdateNotSupported")
    ELSE IF t.a[1].k = "Table" THEN translate_object_name(t.a[1].a[1])
    ELSE Err("UnsupportedTableFactor")
translate_assignment(x) ==
    IF x.s = "Tuple" THEN Err("TupleAssignmentOnUpdateNotSupported")
    ELSE IF Len(x.a[1].a) > 1 THEN Err("CompoundIdentOnUpdateNotSupported")
    ELSE Mk("Assignment", x.a[1].a[1].s, <<Translated(x.a[2])>>)

translate_insert(n) ==
    LET table == translate_object_name(n.a[1])
    IN  Refuse(n.a[4], {"RETURNING", "ON CONFLICT", "alias", "PARTITION", "OVERWRITE", "TABLE"},
            IF IsErr(table) THEN table
            ELSE IF n.a[3] = None THEN Err("DefaultValuesOnInsertNotSupported")
            ELSE Mk("Insert", "", <<table, n.a[2], Translated(n.a[3])>>))
translate_update(n) ==
    Refuse(n.a[4], {"FROM", "RETURNING"},
        Mk("Update", "", <<translate_table_with_join(n.a[1]),
                           List([i \in DOMAIN n.a[2].a |-> translate_assignment(n.a[2].a[i])]),
                           Translated(n.a[3])>>))
translate_delete(n) ==
    Refuse(n.a[3], {"USING", "RETURNING", "ORDER BY", "LIMIT"},
        Mk("Delete", "", <<translate_table_with_join(n.a[1].a[1]), Translated(n.a[2])>>))
translate_create_table(n) ==
    LET columns == List([i \in DOMAIN n.a[2].a |-> translate_column_def(n.a[2].a[i])])
        name == translate_object_name(n.a[1])
        keys == List([i \in DOMAIN n.a[5].a |-> translate_foreign_key(n.a[5].a[i])])
    IN  IF IsErr(columns) THEN columns
        ELSE IF IsErr(keys) /\ ~IsErr(name) THEN keys
        ELSE Mk("CreateTable", n.s, <<name, IF columns.a = <<>> THEN None ELSE columns,
                                      Translated(n.a[3]), n.a[4], keys, n.a[6]>>)
translate_alter_table(n) ==
    IF Len(n.a[2].a) > 1 THEN Err("UnsupportedMultipleAlterTableOperations")
    ELSE Mk("AlterTable", "", <<translate_object_name(n.a[1]),
                                translate_alter_table_operation(n.a[2].a[1])>>)
translate_names(l) == List([i \in DOMAIN l.a |-> translate_object_name(l.a[i])])
translate_create_index(n) ==
    LET name == translate_object_name(n.a[1])
    IN  IF Len(n.a[3].a) > 1 THEN Err("CompositeIndexNotSupported")
        ELSE IF n.a[1] = None THEN Err("UnsupportedUnnamedIndex")
        ELSE IF ~IsErr(name) /\ to_uppercase(name.s) = "PRIMARY" THEN Err("ReservedIndexName")
        ELSE Mk("CreateIndex", "", <<name, translate_object_name(n.a[2]),
                                     translate_order_by_expr(n.a[3].a[1])>>)
translate_drop_index(n) ==
    LET o == n.a[1].a[1].a
    IN  IF Len(n.a[1].a) > 1 THEN Err("TooManyParamsInDropIndex")
        ELSE IF Len(o) # 2 THEN Err("InvalidParamsInDropIndex")
        ELSE IF to_uppercase(o[2].s) = "PRIMARY" THEN Err("CannotDropPrimary")
        ELSE N("DropIndex", "", <<o[2], o[1]>>)
translate_show_variable(v) ==
    LET key == to_uppercase(v[1].s)
    IN  CASE Len(v) = 1 /\ key = "VERSION" -> Leaf("ShowVariable", "Version")
          [] Len(v) = 3 /\ key = "INDEXES" -> N("ShowIndexes", "", <<v[3]>>)
          [] OTHER -> Err("UnsupportedShowVariable")
translate_create_function(n) ==
    IF n.a[3] = None THEN Err("UnsupportedEmptyFunctionBody")
    ELSE Mk("CreateFunction", n.s,
            <<List([i \in DOMAIN n.a[2].a |-> translate_operate_function_arg(n.a[2].a[i])]),
              translate_object_name(n.a[1]), Translated(n.a[3])>>)
translate_with_params(n) ==
    CASE n.k = "Query" -> translate_query(n)
      [] n.k = "Insert" -> translate_insert(n)
      [] n.k = "Update" -> translate_update(n)
      [] n.k = "Delete" -> translate_delete(n)
      [] n.k = "CreateTable" -> translate_create_table(n)
      [] n.k = "AlterTable" -> translate_alter_table(n)
      [] n.k = "DropTable" -> Mk("DropTable", n.s, <<translate_names(n.a[1]), n.a[2]>>)
      [] n.k = "DropFunction" -> Mk("DropFunction", n.s, <<translate_names(n.a[1])>>)
      [] n.k = "CreateIndex" -> translate_create_index(n)
      [] n.k = "DropIndex" -> translate_drop_index(n)
      [] n.k \in {"StartTransaction", "Commit", "Rollback"} -> n
      [] n.k \in {"ShowTables", "ShowFunctions"} /\ n.s = "" ->
            Leaf("ShowVariable", IF n.k = "ShowTables" THEN "Tables" ELSE "Functions")
      [] n.k = "ShowVariable" -> translate_show_variable(n.a[1].a)
      [] n.k = "ShowColumns" -> Mk("ShowColumns", "", <<translate_object_name(n.a[1])>>)
      [] n.k = "CreateFunction" -> translate_create_function(n)
      [] OTHER -> Err("UnsupportedStatement")

\* The translation of a part of the parser's tree, by what it is.
Parts == {"None", "Err", "Identifier", "CompoundIdentifier", "IsNull", "IsNotNull", "InList", "InSubquery",
          "Between", "Nested", "Like", "ILike", "BinaryOp", "UnaryOp", "Extract", "ph", "Boolean", "Number",
          "SingleQuotedString", "hex", "Null", "TypedString", "Function", "Trim", "Floor", "Ceil",
          "Subscript", "Position", "Interval", "Cast", "Exists", "Subquery", "Case", "When", "List", "Array",
          "Collate"}
Translated(n) ==
    CASE n.k \in Parts -> translate_expr(n)
      [] n.k \in {"UnnamedExpr", "ExprWithAlias", "QualifiedWildcard", "Wildcard"} -> translate_select_item(n)
      [] n.k = "OrderBy" -> translate_order_by_expr(n)
      [] n.k = "ColumnDef" -> translate_column_def(n)
      [] n.k = "Assignment" -> translate_assignment(n)
      [] OTHER -> translate_with_params(n)
\* A text, read as what it is meant to be and translated.
FromText(what, t) == Translated(Parsed(what, t))
=============================================================================
