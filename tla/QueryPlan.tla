----------------------------- MODULE QueryPlan -----------------------------
(***************************************************************************)
(* The planners of core/src/plan that run before a SELECT is executed:     *)
(* plan_primary_key, plan_index (SledStorage only), plan_join and          *)
(* plan_aggregate.  Each rewrites the query: a condition that an index, a  *)
(* key lookup or a hash table answers leaves the WHERE or ON clause, and   *)
(* an ORDER BY expression that an index scan delivers leaves the list.     *)
(*                                                                         *)
(* A planning context is a sequence of [alias, cols].                      *)
(***************************************************************************)
EXTENDS Select

LOCAL INSTANCE SequencesExt

-----------------------------------------------------------------------------
(* Contexts and what can be evaluated in them *)

\* Planner::update_context puts a relation in front of the context.
Context(rel) == <<[alias |-> rel.alias, cols |-> db[rel.name].cols]>>

ContainsColumn(ctx, c) == \E n \in DOMAIN ctx : Contains(ctx[n].cols, c)
ContainsAlias(ctx, a) == \E n \in DOMAIN ctx : ctx[n].alias = a
ContainsAliasedColumn(ctx, a, c) ==
    \E n \in DOMAIN ctx : ctx[n].alias = a /\ Contains(ctx[n].cols, c)

RECURSIVE CheckEvaluable(_, _)

\* check_query, check_select and check_table_factor: every part of a subquery,
\* its own relations included, must be known to the context.
CheckQuery(ctx, q) ==
    LET rels == {q.from} \union {q.joins[n].rel : n \in DOMAIN q.joins}
        exprs == {i.x : i \in ToSet(q.projection) \ {Wildcard}}
                 \union {q.joins[n].on : n \in DOMAIN q.joins}
                 \union ToSet(q.group_by) \union {q.where, q.having}
                 \union {q.order_by[n].x : n \in DOMAIN q.order_by}
    IN  /\ \A rel \in rels : ContainsAlias(ctx, rel.alias)
        /\ \A x \in exprs : CheckEvaluable(ctx, x)

\* check_expr of evaluable.rs: every column of the expression is in the context.
CheckEvaluable(ctx, x) ==
    CASE x.e \in {"none", "lit"}                   -> TRUE
      [] x.e = "ident"                             -> ContainsColumn(ctx, x.ident)
      [] x.e = "compound"                          -> ContainsAliasedColumn(ctx, x.alias, x.ident)
      [] x.e \in {"nested", "isnull", "isnotnull"} -> CheckEvaluable(ctx, x.x)
      [] x.e = "bin"    -> CheckEvaluable(ctx, x.l) /\ CheckEvaluable(ctx, x.r)
      [] x.e = "exists" -> CheckQuery(ctx, x.q)
      [] x.e = "aggr"   -> CheckEvaluable(ctx, x.x)

\* Two optional conditions joined by AND.
MergeAnd(l, r) == IF l = NoExpr THEN r ELSE IF r = NoExpr THEN l ELSE And(l, r)

RECURSIVE PlanQuery(_, _, _), SubqueryExpr(_, _, _)

\* Planner::subquery_expr: the subqueries of an expression are planned too.
SubqueryExpr(planner, outer, x) ==
    CASE x.e \in {"nested", "isnull", "isnotnull"} ->
            [x EXCEPT !.x = SubqueryExpr(planner, outer, @)]
      [] x.e = "bin" -> [x EXCEPT !.l = SubqueryExpr(planner, outer, @),
                                  !.r = SubqueryExpr(planner, outer, @)]
      [] x.e = "exists" -> [x EXCEPT !.q = PlanQuery(planner, outer, @)]
      [] OTHER -> x

\* What a planner made of a condition: the index item it found, if any, and
\* the condition that remains.
Found(index, x) == [index |-> index, x |-> x]
NotFound(x) == [index |-> NoIndex, x |-> x]

-----------------------------------------------------------------------------
(* plan_primary_key *)


\* PrimaryKeyLookupCandidate::contains: the primary key of the first relation,
\* and no joined relation has a column that the name would find first.
IsPrimaryKey(q, x) ==
    LET pk == db[q.from.name].pk
        joined == {[alias |-> q.joins[n].rel.alias, cols |-> db[q.joins[n].rel.name].cols]
                     : n \in DOMAIN q.joins}
    IN  /\ pk # Null
        /\ \/ /\ x.e = "ident" /\ x.ident = pk
              /\ \A r \in joined : ~Contains(r.cols, pk)
           \/ /\ x.e = "compound" /\ x.alias = q.from.alias /\ x.ident = pk
              /\ \A r \in joined : ~(r.alias = x.alias /\ Contains(r.cols, pk))

LookupOf(q, key, value) == IsPrimaryKey(q, key) /\ CheckEvaluable(<<>>, value)

RECURSIVE PrimaryKeyExpr(_, _, _)

\* PrimaryKeyPlanner::expr: the first "key = value" of the conjunction becomes
\* a lookup and leaves the condition.
PrimaryKeyExpr(q, ctx, x) ==
    CASE x.e = "bin" /\ x.op = "Eq" /\ LookupOf(q, x.l, x.r) ->
            Found([kind |-> "pk", expr |-> x.r], NoExpr)
      [] x.e = "bin" /\ x.op = "Eq" /\ ~LookupOf(q, x.l, x.r) /\ LookupOf(q, x.r, x.l) ->
            Found([kind |-> "pk", expr |-> x.l], NoExpr)
      [] x.e = "bin" /\ x.op = "And" ->
            LET l == PrimaryKeyExpr(q, ctx, x.l)
                r == PrimaryKeyExpr(q, ctx, x.r)
            IN  IF l.index # NoIndex THEN Found(l.index, MergeAnd(l.x, x.r))
                ELSE Found(r.index, MergeAnd(l.x, r.x))
      [] x.e = "nested" ->
            LET n == PrimaryKeyExpr(q, ctx, x.x)
            IN  Found(n.index, IF n.x = NoExpr THEN NoExpr ELSE Nested(n.x))
      [] OTHER -> NotFound(SubqueryExpr("primary_key", ctx, x))

Contexts(q) == FoldLeft(LAMBDA ctx, j : Context(j.rel) \o ctx, Context(q.from), q.joins)

\* PrimaryKeyPlanner::select.
PlanPrimaryKey(outer, q) ==
    LET planned == PrimaryKeyExpr(q, Contexts(q) \o outer, q.where)
    IN  [q EXCEPT !.from.index = planned.index, !.where = planned.x]

-----------------------------------------------------------------------------
(* plan_index *)

RECURSIVE IsDeterministic(_), MayReturnNull(_)

\* is_deterministic: no column and no subquery.
IsDeterministic(x) ==
    CASE x.e \in {"nested", "isnull", "isnotnull"} -> IsDeterministic(x.x)
      [] x.e = "bin" -> IsDeterministic(x.l) /\ IsDeterministic(x.r)
      [] OTHER -> x.e = "lit"

\* may_return_null: only IS NULL and a literal certainly do not.
MayReturnNull(x) ==
    CASE x.e \in {"isnull", "isnotnull"} -> FALSE
      [] x.e = "lit" -> x.v = Null
      [] x.e = "nested" -> MayReturnNull(x.x)
      [] x.e = "bin" -> MayReturnNull(x.l) \/ MayReturnNull(x.r)
      [] OTHER -> TRUE

\* A value that an index is searched for.
IsIndexValue(x) == IsDeterministic(x) /\ ~MayReturnNull(x)

Scan(expr, asc, op, value) ==
    [kind |-> "scan", expr |-> expr, asc |-> asc, op |-> op, value |-> value]

\* Indexes::find.
HasIndex(rel, x) == \E ix \in ToSet(db[rel.name].indexes) : ix.expr = x

\* Indexes::find_ordered: an index made in the direction that is asked for.
HasOrdered(rel, o) ==
    \E ix \in ToSet(db[rel.name].indexes) :
        ix.expr = o.x /\ ix.order \in {"Both", IF o.asc = FALSE THEN "Desc" ELSE "Asc"}

ReverseOp(op) ==
    CASE op = "Gt" -> "Lt" [] op = "Lt" -> "Gt"
      [] op = "GtEq" -> "LtEq" [] op = "LtEq" -> "GtEq" [] op = "Eq" -> "Eq"

\* IndexPlanner::search_is_null: Null is the last key of an index.
SearchIsNull(rel, outer, x) ==
    IF HasIndex(rel, x.x)
    THEN Found(Scan(x.x, Null, IF x.e = "isnull" THEN "Eq" ELSE "Lt", Lit(Null)), NoExpr)
    ELSE NotFound(SubqueryExpr("index", outer, x))

RECURSIVE SearchIndexOp(_, _, _, _, _)

\* IndexPlanner::search_index_op: the index may be on either side.
SearchIndexOp(rel, outer, op, l, r) ==
    IF HasIndex(rel, l) /\ IsIndexValue(r) THEN Found(Scan(l, Null, op, r), NoExpr)
    ELSE IF HasIndex(rel, r) /\ IsIndexValue(l)
    THEN Found(Scan(r, Null, ReverseOp(op), l), NoExpr)
    ELSE IF l.e = "nested" THEN SearchIndexOp(rel, outer, op, l.x, r)
    ELSE IF r.e = "nested" THEN SearchIndexOp(rel, outer, op, l, r.x)
    ELSE NotFound(BinaryOp(op, SubqueryExpr("index", outer, l), SubqueryExpr("index", outer, r)))

RECURSIVE IndexExpr(_, _, _)

\* IndexPlanner::plan_index_expr.
IndexExpr(rel, outer, x) ==
    CASE x.e = "nested" -> IndexExpr(rel, outer, x.x)
      [] x.e \in {"isnull", "isnotnull"} -> SearchIsNull(rel, outer, x)
      [] x.e = "bin" /\ x.op = "And" ->
            LET l == IndexExpr(rel, outer, x.l)
                r == IndexExpr(rel, outer, x.r)
            IN  IF l.index # NoIndex THEN Found(l.index, MergeAnd(l.x, x.r))
                ELSE Found(r.index, MergeAnd(l.x, r.x))
      [] x.e = "bin" /\ x.op \in {"Gt", "Lt", "GtEq", "LtEq", "Eq"} ->
            SearchIndexOp(rel, outer, x.op, x.l, x.r)
      [] OTHER -> NotFound(SubqueryExpr("index", outer, x))

\* An index that takes the place of the first ORDER BY expression.
PlanIndexFirst(outer, q) ==
    LET first == Head(q.order_by)
    IN  IF q.from.index # NoIndex
        THEN [q EXCEPT !.where = SubqueryExpr("index", outer, @)]
        ELSE IF q.order_by # <<>> /\ HasOrdered(q.from, first)
        THEN [q EXCEPT !.from.index = Scan(first.x, first.asc, Null, NoExpr),
                       !.order_by = Tail(@)]
        ELSE LET planned == IndexExpr(q.from, outer, q.where)
             IN  [q EXCEPT !.from.index = planned.index, !.where = planned.x]

\* IndexPlanner::select: an index for the last ORDER BY expression comes
\* first, then one for the condition; a primary key lookup keeps its place.
PlanIndex(outer, q) ==
    LET last == Last(q.order_by)
    IN  IF q.from.index # NoIndex
        THEN [q EXCEPT !.where = SubqueryExpr("index", outer, @)]
        ELSE IF q.order_by # <<>> /\ HasOrdered(q.from, last)
        THEN [q EXCEPT !.from.index = Scan(last.x, last.asc, Null, NoExpr),
                       !.order_by = Front(@)]
        ELSE LET planned == IndexExpr(q.from, outer, q.where)
             IN  [q EXCEPT !.from.index = planned.index, !.where = planned.x]

-----------------------------------------------------------------------------
(* plan_join *)

RECURSIVE SplitConjuncts(_)

\* split_conjuncts.
SplitConjuncts(x) ==
    CASE x.e = "bin" /\ x.op = "And" -> SplitConjuncts(x.l) \o SplitConjuncts(x.r)
      [] x.e = "nested" -> SplitConjuncts(x.x)
      [] OTHER -> <<x>>

\* merge_conjuncts.
MergeConjuncts(xs) == FoldLeft(MergeAnd, NoExpr, xs)

\* match_hash_join_candidate: an equality with one side evaluable on the joined
\* relation, the key, and the other one on all relations, the value.
HashCandidates(keyctx, valuectx, x) ==
    IF x.e # "bin" \/ x.op # "Eq" THEN <<>>
    ELSE SelectSeq(<<[key |-> x.l, value |-> x.r], [key |-> x.r, value |-> x.l]>>,
                   LAMBDA c : /\ CheckEvaluable(keyctx, c.key)
                              /\ CheckEvaluable(valuectx, c.value))

\* find_evaluable: the conjuncts that ctx can evaluate, and the others.
FindEvaluable(ctx, xs) ==
    [evaluable |-> SelectSeq(xs, LAMBDA x : CheckEvaluable(ctx, x)),
     remainder |-> SelectSeq(xs, LAMBDA x : ~CheckEvaluable(ctx, x))]

\* plan_join_condition: the first candidate becomes the hash key.  Of the other
\* conjuncts, those after it first, the ones on the joined relation alone filter
\* the hash table and the others stay in the ON clause.
PlanJoinCondition(outer, inner, join) ==
    LET current == Context(join.rel)
        keyctx == current \o outer
        valuectx == current \o inner \o outer
        conjuncts == SplitConjuncts(join.on)
        at == SelectInSeq(conjuncts, LAMBDA x : HashCandidates(keyctx, valuectx, x) # <<>>)
        candidate == HashCandidates(keyctx, valuectx, conjuncts[at])[1]
        rest == SubSeq(conjuncts, at + 1, Len(conjuncts)) \o SubSeq(conjuncts, 1, at - 1)
        split == FindEvaluable(keyctx, rest)
        planned(ctx, x) == SubqueryExpr("join", ctx, x)
    IN  IF at = 0
        THEN [join EXCEPT !.on = planned(valuectx, MergeConjuncts(conjuncts))]
        ELSE [join EXCEPT
                !.exec = [kind |-> "hash", key |-> planned(keyctx, candidate.key),
                          value |-> planned(valuectx, candidate.value),
                          where |-> planned(keyctx, MergeConjuncts(split.evaluable))],
                !.on = planned(valuectx, MergeConjuncts(split.remainder))]

\* JoinPlanner::select and table_with_joins: every join is planned in the
\* context of the relations before it.
PlanJoin(outer, q) ==
    LET inner(n) == Contexts([q EXCEPT !.joins = SubSeq(@, 1, n - 1)])
        planned(n) == IF q.joins[n].on = NoExpr THEN q.joins[n]
                      ELSE PlanJoinCondition(outer, inner(n), q.joins[n])
    IN  [q EXCEPT !.joins = [n \in DOMAIN q.joins |-> planned(n)],
                  !.where = SubqueryExpr("join", Contexts(q) \o outer, @)]

-----------------------------------------------------------------------------
(* plan_aggregate *)

RECURSIVE AggregatesIn(_), BindExpr(_, _), PlanAggregate(_)

\* The aggregates of an expression, in the order visit_mut_expr meets them.
AggregatesIn(x) ==
    CASE x.e = "aggr" -> <<x>>
      [] x.e \in {"nested", "isnull", "isnotnull"} -> AggregatesIn(x.x)
      [] x.e = "bin" -> AggregatesIn(x.l) \o AggregatesIn(x.r)
      [] OTHER -> <<>>

\* The aggregates of an expression get the slot of the equal aggregate in the
\* list, and its subqueries are planned.
BindExpr(slots, x) ==
    CASE x.e = "aggr" ->
            [e |-> "aggr", func |-> x.func, x |-> x.x, distinct |-> x.distinct,
             slot |-> SelectInSeq(slots, LAMBDA a : a = x)]
      [] x.e \in {"nested", "isnull", "isnotnull"} -> [x EXCEPT !.x = BindExpr(slots, @)]
      [] x.e = "bin" -> [x EXCEPT !.l = BindExpr(slots, @), !.r = BindExpr(slots, @)]
      [] x.e = "exists" -> [x EXCEPT !.q = PlanAggregate(@)]
      [] OTHER -> x

\* plan_query and bind_select: equal aggregates of the projection, of HAVING
\* and of ORDER BY share a slot.
PlanAggregate(q) ==
    LET items == SelectSeq(q.projection, LAMBDA i : i # Wildcard)
        exprs == Map(items, LAMBDA i : i.x) \o <<q.having>> \o Map(q.order_by, LAMBDA o : o.x)
        slots == DistinctRows([distinct |-> TRUE], FlattenSeq(Map(exprs, AggregatesIn)))
        bind(x) == BindExpr(slots, x)
        executor(e) == IF e = NestedLoop THEN e
                       ELSE [e EXCEPT !.key = bind(@), !.value = bind(@), !.where = bind(@)]
    IN  [q EXCEPT
           !.projection = Map(@, LAMBDA i : IF i = Wildcard THEN i ELSE [i EXCEPT !.x = bind(@)]),
           !.joins = Map(@, LAMBDA j : [j EXCEPT !.on = bind(@), !.exec = executor(@)]),
           !.where = bind(@),
           !.group_by = Map(@, bind),
           !.having = bind(@),
           !.order_by = Map(@, LAMBDA o : [o EXCEPT !.x = bind(@)]),
           !.slots = slots]

\* The query method of the three planners.
PlanQuery(planner, outer, q) ==
    CASE planner = "primary_key" -> PlanPrimaryKey(outer, q)
      [] planner = "index"       -> PlanIndex(outer, q)
      [] planner = "join"        -> PlanJoin(outer, q)
=============================================================================
