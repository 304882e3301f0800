------------------------------ MODULE MCQuery ------------------------------
(***************************************************************************)
(* Instances of Query: a table A(id PRIMARY KEY, x) with an index on x, and *)
(* a table B(id, y).  Only x and y hold Null.                               *)
(***************************************************************************)
EXTENDS Query

A == [name |-> "A", alias |-> "A", index |-> NoIndex]
B == [name |-> "B", alias |-> "B", index |-> NoIndex]
C == [name |-> "A", alias |-> "C", index |-> NoIndex]

id == Ident("id")
x == Ident("x")
y == Ident("y")
Aid == Compound("A", "id")
Ax == Compound("A", "x")
Bid == Compound("B", "id")
By == Compound("B", "y")

\* A table with n rows, numbered by its first column.
Tables(n, values) == {[i \in 1..n |-> <<i, f[i]>>] : f \in [1..n -> values]}

Database(a, b, indexes) ==
    [A |-> [cols |-> <<"id", "x">>, pk |-> "id", indexes |-> indexes, rows |-> a],
     B |-> [cols |-> <<"id", "y">>, pk |-> Null, indexes |-> <<>>, rows |-> b]]

IndexOn(order) == <<[expr |-> x, order |-> order]>>

Query1 ==
    [distinct |-> FALSE, projection |-> <<Wildcard>>, from |-> A, joins |-> <<>>,
     where |-> NoExpr, group_by |-> <<>>, having |-> NoExpr, order_by |-> <<>>,
     limit |-> Null, offset |-> Null, slots |-> <<>>]

Where(q, c) == [q EXCEPT !.where = c]
OrderBy(q, o) == [q EXCEPT !.order_by = o]
Page(q, limit, offset) == [q EXCEPT !.limit = limit, !.offset = offset]
Asc(e) == [x |-> e, asc |-> TRUE]
Desc(e) == [x |-> e, asc |-> FALSE]
Join(rel, op, on) == [rel |-> rel, op |-> op, on |-> on, exec |-> NestedLoop]
Eq(l, r) == BinaryOp("Eq", l, r)
Lt(l, r) == BinaryOp("Lt", l, r)
Gt(l, r) == BinaryOp("Gt", l, r)
Or(l, r) == BinaryOp("Or", l, r)

-----------------------------------------------------------------------------
(* One table, its index in every direction *)

Conditions ==
    {NoExpr, Eq(id, Lit(2)), Eq(Lit(2), Aid), And(Eq(x, Lit(1)), Nested(Eq(id, Lit(2)))),
     Eq(x, Lit(1)), Lt(x, Lit(2)), Gt(x, Lit(1)), BinaryOp("GtEq", Lit(1), x),
     BinaryOp("GtEq", x, Lit(2)), IsNull(x), IsNotNull(x), Eq(x, Lit(Null)),
     And(Nested(Gt(id, Lit(1))), BinaryOp("LtEq", Nested(x), Lit(1))),
     Or(Eq(id, Lit(1)), Eq(x, Lit(2)))}

Count(e) == Aggregate("COUNT", e, FALSE)
CountAll == Aggregate("COUNT*", Lit(1), FALSE)

Shapes ==
    {Query1,
     OrderBy(Query1, <<Asc(x)>>),
     Page(OrderBy(Query1, <<Desc(x), Asc(id)>>), 1, 1),
     Page(OrderBy(Query1, <<Asc(Lit(2)), Desc(x)>>), 2, Null),
     Page(OrderBy([Query1 EXCEPT !.distinct = TRUE, !.projection = <<Item(x, "x")>>],
                  <<Desc(x)>>), Null, 1),
     [Query1 EXCEPT !.projection = <<Item(CountAll, "n"), Item(Count(x), "c"),
                                     Item(Aggregate("SUM", x, FALSE), "s"),
                                     Item(Aggregate("MAX", id, FALSE), "m")>>],
     [Query1 EXCEPT !.projection = <<Item(x, "x"), Item(CountAll, "n"),
                                     Item(Aggregate("MIN", id, FALSE), "m")>>,
                    !.group_by = <<x>>, !.order_by = <<Asc(x)>>],
     [Query1 EXCEPT !.projection = <<Item(Aggregate("COUNT", x, TRUE), "d"),
                                     Item(Aggregate("SUM", x, TRUE), "s")>>,
                    !.having = Gt(CountAll, Lit(1))]}

OneTable ==
    [dbs     |-> {Database(a, <<>>, ix) :
                    a \in {<<>>} \union Tables(3, {Null, 1, 2}),
                    ix \in {<<>>} \union {IndexOn(o) : o \in {"Asc", "Desc", "Both"}}},
     queries |-> {Where(q, c) : q \in Shapes, c \in Conditions}]

-----------------------------------------------------------------------------
(* Two and three relations *)

JoinOn(op, on) == [Query1 EXCEPT !.joins = <<Join(B, op, on)>>]

Exists1(on, negated) ==
    Exists([Query1 EXCEPT !.from = B, !.where = on], negated)

JoinClauses ==
    {NoExpr, Eq(Aid, Bid), Eq(By, Ax), And(Gt(By, Lit(1)), Eq(Aid, Bid)),
     And(Gt(Ax, By), Nested(And(Eq(Bid, Aid), Eq(By, Lit(1))))),
     Or(Eq(Ax, By), Eq(Aid, Lit(1))), And(IsNull(By), Gt(Aid, Bid)), Eq(By, Lit(1)),
     And(Eq(Aid, Lit(1)), Eq(By, Ax)), And(Eq(By, Ax), Exists1(Eq(id, Lit(2)), FALSE))}

JoinConditions ==
    {NoExpr, Eq(id, Lit(1)), Eq(Aid, Lit(2)), IsNull(y), And(Eq(x, Lit(1)), IsNotNull(By))}

Correlated ==
    {Where(Query1, Exists1(Eq(By, Ax), FALSE)),
     Where(Query1, And(Exists1(And(Eq(By, Ax), Gt(Bid, Aid)), TRUE), Gt(x, Lit(1)))),
     Where([Query1 EXCEPT !.from = B],
           Exists([Query1 EXCEPT !.where = And(Eq(Aid, Lit(1)), Eq(Ax, By))], FALSE)),
     Where(JoinOn("LeftOuter", Eq(Bid, Aid)),
           Exists([Query1 EXCEPT !.from = C, !.where = Eq(Compound("C", "x"), By)], TRUE))}

Grouped ==
    {[JoinOn("LeftOuter", Eq(By, Aid)) EXCEPT
         !.projection = <<Item(Aid, "k"), Item(Count(By), "n")>>, !.group_by = <<Aid>>,
         !.order_by = <<Desc(Lit(2)), Asc(Lit(1))>>, !.limit = 1],
     [Query1 EXCEPT !.joins = <<Join(B, "LeftOuter", Eq(Bid, Ax)),
                                Join(C, "Inner", Eq(Compound("C", "id"), By))>>,
                    !.order_by = <<Asc(y)>>]}

Joins ==
    [dbs     |-> {Database(a, b, IndexOn("Both")) :
                    a \in Tables(2, {Null, 1, 2}), b \in {<<>>} \union Tables(2, {Null, 1, 2})},
     queries |-> {Where(JoinOn(op, on), c) : op \in {"Inner", "LeftOuter"},
                                             on \in JoinClauses, c \in JoinConditions}
                 \union Correlated \union Grouped]

MCCases == {OneTable, Joins}

-----------------------------------------------------------------------------
(* Index keys that end in a byte of 255 *)

CarryCases ==
    {[dbs     |-> {Database(a, <<>>, IndexOn("Both")) : a \in Tables(2, {254, 255, 256, 511})},
      queries |-> {Where(Query1, c) : c \in {Gt(x, Lit(254)), Gt(x, Lit(255))}}]}
=============================================================================
