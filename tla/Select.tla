------------------------------- MODULE Select -------------------------------
(***************************************************************************)
(* The SELECT executor of core/src/executor: rows are fetched from a       *)
(* relation, joined, filtered, aggregated, projected, sorted, made         *)
(* distinct and cut to a page.                                             *)
(*                                                                         *)
(* A query is a record shaped like QueryPlan and SelectPlan together.  An  *)
(* expression is a record with a field "e" naming the variant of ExprPlan. *)
(* A row context is a sequence of frames, the frame that get_value tries   *)
(* first at the front: RowContext's "next" and Bridge both append.         *)
(*                                                                         *)
(* Values are natural numbers and Null; a column holds values of one type. *)
(***************************************************************************)
EXTENDS Integers, Sequences, FiniteSets

LOCAL INSTANCE SequencesExt

CONSTANT
    Null            \* Value::Null, and a missing LIMIT, OFFSET or direction

VARIABLE
    db              \* table name -> [cols, pk, indexes, rows]

-----------------------------------------------------------------------------
(* Expressions *)

NoExpr == [e |-> "none"]
Lit(v) == [e |-> "lit", v |-> v]
Ident(c) == [e |-> "ident", ident |-> c]
Compound(a, c) == [e |-> "compound", alias |-> a, ident |-> c]
BinaryOp(op, l, r) == [e |-> "bin", op |-> op, l |-> l, r |-> r]
And(l, r) == BinaryOp("And", l, r)
IsNull(x) == [e |-> "isnull", x |-> x]
IsNotNull(x) == [e |-> "isnotnull", x |-> x]
Nested(x) == [e |-> "nested", x |-> x]
Exists(q, negated) == [e |-> "exists", q |-> q, negated |-> negated]
Aggregate(func, x, distinct) ==
    [e |-> "aggr", func |-> func, x |-> x, distinct |-> distinct]

Frame(rel, vals) ==
    [alias |-> rel.alias, cols |-> db[rel.name].cols, vals |-> vals]

HasColumn(frame, c) == Contains(frame.cols, c)
ColumnValue(frame, c) == frame.vals[SelectInSeq(frame.cols, LAMBDA d : d = c)]

\* RowContext::get_value: the first frame that has the column.
GetValue(ctx, c) ==
    ColumnValue(ctx[SelectInSeq(ctx, LAMBDA f : HasColumn(f, c))], c)

\* RowContext::get_alias_value: the first frame of that alias that has it.
GetAliasValue(ctx, a, c) ==
    ColumnValue(ctx[SelectInSeq(ctx, LAMBDA f : f.alias = a /\ HasColumn(f, c))], c)

\* The order of Key: Null is greater than every value.
KeyLess(a, b) == a # Null /\ (b = Null \/ a < b)

\* binary_op on two values that are not Null.
Apply(op, l, r) ==
    CASE op = "And"  -> l /\ r
      [] op = "Or"   -> l \/ r
      [] op = "Eq"   -> l = r
      [] op = "Lt"   -> l < r
      [] op = "LtEq" -> l <= r
      [] op = "Gt"   -> l > r
      [] op = "GtEq" -> l >= r

\* An operator with a Null side is Null.
BinaryValue(op, l, r) == IF l = Null \/ r = Null THEN Null ELSE Apply(op, l, r)

IsTrue(v) == v # Null /\ v

RECURSIVE Evaluate(_, _, _), SubqueryRows(_, _)

\* evaluate_inner: "aggregated" gives an aggregate its value by the slot that
\* plan_aggregate bound it to.
Evaluate(ctx, aggregated, x) ==
    CASE x.e = "lit"       -> x.v
      [] x.e = "ident"     -> GetValue(ctx, x.ident)
      [] x.e = "compound"  -> GetAliasValue(ctx, x.alias, x.ident)
      [] x.e = "nested"    -> Evaluate(ctx, aggregated, x.x)
      [] x.e = "isnull"    -> Evaluate(ctx, aggregated, x.x) = Null
      [] x.e = "isnotnull" -> Evaluate(ctx, aggregated, x.x) # Null
      [] x.e = "aggr"      -> aggregated[x.slot]
      [] x.e = "exists"    -> (SubqueryRows(x.q, ctx) # <<>>) # x.negated
      [] x.e = "bin"       ->
            BinaryValue(x.op, Evaluate(ctx, aggregated, x.l), Evaluate(ctx, aggregated, x.r))

\* check_expr of filter.rs: Null does not pass.  A missing clause passes.
CheckExpr(ctx, aggregated, x) ==
    x = NoExpr \/ IsTrue(Evaluate(ctx, aggregated, x))

\* The stable sort of slice::sort_by.
StableSort(s, Before(_, _)) ==
    LET Earlier(i, j) == Before(s[i], s[j]) \/ (~Before(s[j], s[i]) /\ i < j)
        order == SetToSortSeq(DOMAIN s, Earlier)
    IN  [n \in DOMAIN s |-> s[order[n]]]

Map(s, F(_)) == [n \in DOMAIN s |-> F(s[n])]

-----------------------------------------------------------------------------
(* Fetching the rows of a relation *)

NoIndex == [kind |-> "none"]

RECURSIVE Incr(_)

\* The closure incr on the big-endian bytes of a key: the last byte that is not
\* 255 grows by one, and the bytes of 255 behind it stay as they are.
Incr(v) == IF v % 256 < 255 THEN v + 1 ELSE Incr(v \div 256) * 256 + 255

\* IndexOperator on the ordered keys of the index tree, where Null comes last:
\* Gt is a range that starts at incr(key).
InRange(op, key, v) ==
    CASE op = "Eq"   -> key = v
      [] op = "Lt"   -> KeyLess(key, v)
      [] op = "LtEq" -> ~KeyLess(v, key)
      [] op = "Gt"   -> ~KeyLess(key, Incr(v))
      [] op = "GtEq" -> ~KeyLess(key, v)

\* scan_indexed_data: the rows in the order of their index keys, or in the
\* reverse order of the keys; the rows of one key keep their order.
ScanIndexedData(rel, ix) ==
    LET key(vals) == Evaluate(<<Frame(rel, vals)>>, <<>>, ix.expr)
        before(v, w) == IF ix.asc = FALSE THEN KeyLess(key(w), key(v))
                                          ELSE KeyLess(key(v), key(w))
        wanted(vals) ==
            ix.op = Null \/ InRange(ix.op, key(vals), Evaluate(<<>>, <<>>, ix.value))
    IN  StableSort(SelectSeq(db[rel.name].rows, wanted), before)

\* fetch_relation_rows of a table: by the index the planner put there.
FetchRelationRows(rel) ==
    LET table == db[rel.name]
        ix == rel.index
    IN  CASE ix.kind = "none" -> table.rows
          [] ix.kind = "scan" -> ScanIndexedData(rel, ix)
          [] ix.kind = "pk"   ->
                LET v == Evaluate(<<>>, <<>>, ix.expr)
                    pk == SelectInSeq(table.cols, LAMBDA c : c = table.pk)
                IN  SelectSeq(table.rows, LAMBDA vals : vals[pk] = v)

-----------------------------------------------------------------------------
(* Joining *)

NestedLoop == [kind |-> "nested"]

\* JoinExecutor::new: the rows of the hash map with their keys.  A row whose
\* key is Null, or that fails the clause on the relation alone, is left out.
HashedRows(join, outer) ==
    LET ctx(vals) == <<Frame(join.rel, vals)>> \o outer
        key(vals) == Evaluate(ctx(vals), <<>>, join.exec.key)
        kept(vals) == key(vals) # Null /\ CheckExpr(ctx(vals), <<>>, join.exec.where)
    IN  Map(SelectSeq(FetchRelationRows(join.rel), kept),
            LAMBDA vals : [key |-> key(vals), vals |-> vals])

\* The rows of the relation that a left row is tried against.
Candidates(join, left, outer) ==
    IF join.exec.kind = "nested"
    THEN FetchRelationRows(join.rel)
    ELSE LET v == Evaluate(left \o outer, <<>>, join.exec.value)
         IN  Map(SelectSeq(HashedRows(join, outer), LAMBDA h : h.key = v),
                 LAMBDA h : h.vals)

NullRow(rel) == Frame(rel, Map(db[rel.name].cols, LAMBDA c : Null))

\* One left row of join(): the candidates that pass the clause, or the row of
\* Nulls when the join is LEFT OUTER and none passed.
JoinLeftRow(join, left, outer) ==
    LET passes(vals) == CheckExpr(<<Frame(join.rel, vals)>> \o left \o outer, <<>>, join.on)
        joined == Map(SelectSeq(Candidates(join, left, outer), passes),
                      LAMBDA vals : <<Frame(join.rel, vals)>> \o left)
    IN  IF join.op = "LeftOuter" /\ joined = <<>>
        THEN <<<<NullRow(join.rel)>> \o left>>
        ELSE joined

\* Join::apply: the join clauses one after the other.
JoinRows(joins, rows, outer) ==
    FoldLeft(LAMBDA lefts, join :
                 FlattenSeq(Map(lefts, LAMBDA left : JoinLeftRow(join, left, outer))),
             rows, joins)

FilterRows(where, rows, outer) ==
    SelectSeq(rows, LAMBDA ctx : CheckExpr(ctx \o outer, <<>>, where))

-----------------------------------------------------------------------------
(* Aggregating *)

Add(a, b) == IF a = Null \/ b = Null THEN Null ELSE a + b

\* evaluate_cmp is None when a side is Null, and then the old value stays.
Smaller(a, b) == IF a # Null /\ b # Null /\ b < a THEN b ELSE a
Greater(a, b) == IF a # Null /\ b # Null /\ a < b THEN b ELSE a

Counts(aggr, v) == aggr.func = "COUNT*" \/ v # Null
IsCount(aggr) == aggr.func \in {"COUNT*", "COUNT"}

\* AggrValue::new: the state of a slot after its first row.
AggrNew(aggr, v) ==
    [value |-> v,
     count |-> IF Counts(aggr, v) THEN 1 ELSE 0,
     seen  |-> IF IsCount(aggr) /\ v = Null THEN {} ELSE {v}]

\* AggrValue::accumulate: a value a DISTINCT aggregate has seen is skipped.
Accumulate(aggr, s, v) ==
    IF aggr.distinct /\ v \in s.seen THEN s
    ELSE [value |-> CASE aggr.func = "SUM" -> Add(s.value, v)
                      [] aggr.func = "MIN" -> Smaller(s.value, v)
                      [] aggr.func = "MAX" -> Greater(s.value, v)
                      [] OTHER             -> s.value,
          count |-> s.count + (IF Counts(aggr, v) THEN 1 ELSE 0),
          seen  |-> IF IsCount(aggr) /\ v = Null THEN s.seen ELSE s.seen \union {v}]

\* AggrValue::export, and empty_value for a slot no row reached.
AggrExport(aggr, s) ==
    IF s = Null THEN IF IsCount(aggr) THEN 0 ELSE Null
    ELSE IF IsCount(aggr) THEN s.count ELSE s.value

AllEntries(ctx) == FlattenSeq(Map(Reverse(ctx), LAMBDA f : f.vals))

\* The value a row gives to an aggregate.
AggregateInput(aggr, ctx) ==
    IF aggr.func # "COUNT*" THEN Evaluate(ctx, <<>>, aggr.x)
    ELSE IF aggr.distinct THEN AllEntries(ctx) ELSE Null

NewGroup(key, slots, rep) == [key |-> key, rep |-> rep, vals |-> Map(slots, LAMBDA a : Null)]

\* State::apply, then State::accumulate for every slot of the group.
AddToGroup(slots, groups, key, ctx, outer) ==
    LET at == SelectInSeq(groups, LAMBDA g : g.key = key)
        grown == IF at = 0 THEN Append(groups, NewGroup(key, slots, ctx)) ELSE groups
        i == IF at = 0 THEN Len(grown) ELSE at
        input(n) == AggregateInput(slots[n], ctx \o outer)
        after(n) == IF grown[i].vals[n] = Null
                    THEN AggrNew(slots[n], input(n))
                    ELSE Accumulate(slots[n], grown[i].vals[n], input(n))
    IN  [grown EXCEPT ![i].rep  = IF @ = Null THEN ctx ELSE @,
                      ![i].vals = [n \in DOMAIN slots |-> after(n)]]

\* Grouping that starts without the one group of a query with no GROUP BY.
InitialGroupsNone(q) == <<>>

\* State::new: a query without GROUP BY has one group, even over no rows.
InitialGroups(q) ==
    IF q.group_by = <<>> THEN <<NewGroup(<<>>, q.slots, Null)>> ELSE <<>>

\* aggregate::apply and group_by_having.
AggregateRows(q, rows, outer) ==
    IF q.group_by = <<>> /\ q.slots = <<>>
    THEN Map(rows, LAMBDA ctx : [aggregated |-> <<>>, next |-> ctx])
    ELSE LET key(ctx) == Map(q.group_by, LAMBDA x : Evaluate(ctx \o outer, <<>>, x))
             groups == FoldLeft(LAMBDA gs, ctx : AddToGroup(q.slots, gs, key(ctx), ctx, outer),
                                InitialGroups(q), rows)
             export(g) ==
                 [aggregated |-> [n \in DOMAIN q.slots |-> AggrExport(q.slots[n], g.vals[n])],
                  next       |-> IF g.rep = Null THEN <<>> ELSE g.rep]
             pass(c) == CheckExpr(c.next \o outer, c.aggregated, q.having)
         IN  SelectSeq(Map(groups, export), pass)

-----------------------------------------------------------------------------
(* Projecting, sorting and paging *)

Wildcard == [item |-> "wildcard"]
Item(x, label) == [item |-> "expr", x |-> x, label |-> label]

\* fetch_labels: the columns of the relations in the order they are named.
Labels(q) ==
    LET rels == <<q.from>> \o Map(q.joins, LAMBDA j : j.rel)
        all == FlattenSeq(Map(rels, LAMBDA rel : db[rel.name].cols))
    IN  FlattenSeq(Map(q.projection, LAMBDA i : IF i = Wildcard THEN all ELSE <<i.label>>))

\* Project::apply on one row.
ProjectRow(q, c, outer) ==
    FlattenSeq(Map(q.projection,
                   LAMBDA i : IF i = Wildcard THEN AllEntries(c.next)
                              ELSE <<Evaluate(c.next \o outer, c.aggregated, i.x)>>))

\* The keys of Sort::apply: a number names a projected column; any other
\* expression sees the row first and the projected labels last.
SortKeys(q, c, vals, outer) ==
    LET labels == <<[alias |-> q.from.alias, cols |-> Labels(q), vals |-> vals]>>
        key(o) == IF o.x.e = "lit" /\ o.x.v # Null THEN vals[o.x.v]
                  ELSE Evaluate(c.next \o outer \o labels, c.aggregated, o.x)
    IN  Map(q.order_by, key)

\* sort_by: the first differing key decides, reversed when it is descending.
KeysBefore(order_by, a, b) ==
    \E n \in DOMAIN order_by :
        /\ \A k \in 1..(n - 1) : a[k] = b[k]
        /\ IF order_by[n].asc = FALSE THEN KeyLess(b[n], a[n]) ELSE KeyLess(a[n], b[n])

SortRows(q, contexts, outer) ==
    LET keyed == Map(contexts, LAMBDA c :
                         LET vals == ProjectRow(q, c, outer)
                         IN  [vals |-> vals, keys |-> SortKeys(q, c, vals, outer)])
        sorted == StableSort(keyed, LAMBDA a, b : KeysBefore(q.order_by, a.keys, b.keys))
    IN  Map(sorted, LAMBDA k : k.vals)

\* apply_distinct: the first of equal rows stays.
DistinctRows(q, rows) ==
    IF ~q.distinct THEN rows
    ELSE FoldLeft(LAMBDA kept, row : IF Contains(kept, row) THEN kept ELSE Append(kept, row),
                  <<>>, rows)

\* Limit::apply: skip the offset, then take the limit.
LimitRows(q, rows) ==
    LET offset == IF q.offset = Null THEN 0 ELSE q.offset
        rest == SubSeq(rows, offset + 1, Len(rows))
    IN  IF q.limit = Null \/ q.limit >= Len(rest) THEN rest ELSE SubSeq(rest, 1, q.limit)

FetchRows(q) == Map(FetchRelationRows(q.from), LAMBDA vals : <<Frame(q.from, vals)>>)

\* select_with_labels for the subquery of an EXISTS, which names one relation and
\* has neither groups nor a page: the rows it finds, before they are projected.
SubqueryRows(q, outer) == FilterRows(q.where, FetchRows(q), outer)
=============================================================================
