------------------------------- MODULE Query -------------------------------
(***************************************************************************)
(* A SELECT from its plan to its answer: Planner::plan of SledStorage, the *)
(* planners in their order, then the stages of select_with_labels.  The    *)
(* answer is compared with what the query means, which is defined without  *)
(* plans, indexes, hash tables or row orders.                              *)
(***************************************************************************)
EXTENDS QueryPlan, Bags

LOCAL INSTANCE SequencesExt
LOCAL INSTANCE FiniteSetsExt

CONSTANT
    Cases           \* the databases, and the queries (as translate makes them)
                    \* that are asked of them: a set of [dbs, queries]

VARIABLES
    query,          \* the query as it was asked
    plan,           \* the query as planned so far
    phase,          \* the planner or stage that comes next
    rows            \* the output of the last stage

vars == <<db, query, plan, phase, rows>>

\* The planners of SledStorage::plan and the stages of select_with_labels.
Phases == <<"plan_primary_key", "plan_index", "plan_join", "plan_aggregate",
            "fetch", "join", "filter", "aggregate", "sort", "distinct", "limit", "done">>

NextPhase == Phases[SelectInSeq(Phases, LAMBDA p : p = phase) + 1]

Init ==
    /\ \E case \in Cases : db \in case.dbs /\ query \in case.queries
    /\ plan = query
    /\ phase = Phases[1]
    /\ rows = <<>>

\* A planner rewrites the plan.
Rewrite(p, planned) ==
    /\ phase = p
    /\ plan' = planned
    /\ phase' = NextPhase
    /\ UNCHANGED <<db, query, rows>>

\* A stage takes the rows of the one before it.
Stage(p, output) ==
    /\ phase = p
    /\ rows' = output
    /\ phase' = NextPhase
    /\ UNCHANGED <<db, query, plan>>

Next ==
    \/ Rewrite("plan_primary_key", PlanPrimaryKey(<<>>, plan))
    \/ Rewrite("plan_index", PlanIndex(<<>>, plan))
    \/ Rewrite("plan_join", PlanJoin(<<>>, plan))
    \/ Rewrite("plan_aggregate", PlanAggregate(plan))
    \/ Stage("fetch", FetchRows(plan))
    \/ Stage("join", JoinRows(plan.joins, rows, <<>>))
    \/ Stage("filter", FilterRows(plan.where, rows, <<>>))
    \/ Stage("aggregate", AggregateRows(plan, rows, <<>>))
    \/ Stage("sort", SortRows(plan, rows, <<>>))
    \/ Stage("distinct", DistinctRows(plan, rows))
    \/ Stage("limit", LimitRows(plan, rows))

Spec == Init /\ [][Next]_vars
-----------------------------------------------------------------------------
(* What a query means.  A match is a sequence of row numbers, one for each  *)
(* relation, with 0 for the row of Nulls of a LEFT JOIN.                    *)

Relation(n) == IF n = 1 THEN query.from ELSE query.joins[n - 1].rel

RowNumbers(n) == DOMAIN db[Relation(n).name].rows

MatchFrame(match, n) ==
    IF match[n] = 0 THEN NullRow(Relation(n))
    ELSE Frame(Relation(n), db[Relation(n).name].rows[match[n]])

MatchContext(match) == Reverse([n \in DOMAIN match |-> MatchFrame(match, n)])

\* The matches of the relations up to n, extended by relation n + 1.
Extended(matches, n) ==
    LET join == query.joins[n]
        orNull(S) == IF S = {} /\ join.op = "LeftOuter" THEN {0} ELSE S
        partners(m) == {k \in RowNumbers(n + 1) :
                          CheckExpr(MatchContext(Append(m, k)), <<>>, join.on)}
    IN  UNION {{Append(m, k) : k \in orNull(partners(m))} : m \in matches}

Joined == FoldLeft(Extended, {<<k>> : k \in RowNumbers(1)}, [n \in DOMAIN query.joins |-> n])

\* A range scan of an index also passes the rows whose key is Null, which the
\* index orders last (test-suite/src/index/null.rs expects it).
NullPassesScan(match) ==
    /\ plan.from.index.kind = "scan"
    /\ plan.from.index.op \in {"Gt", "GtEq"}
    /\ Evaluate(<<MatchFrame(match, 1)>>, <<>>, plan.from.index.expr) = Null
    /\ CheckExpr(MatchContext(match), <<>>, plan.where)

Matches == {m \in Joined : \/ CheckExpr(MatchContext(m), <<>>, query.where)
                           \/ NullPassesScan(m)}

Aggregated ==
    \/ query.group_by # <<>>
    \/ \E item \in ToSet(query.projection) \ {Wildcard} : AggregatesIn(item.x) # <<>>

\* The value of an aggregate over the inputs of a group: COUNT counts what is
\* not Null, SUM is Null as soon as a value is, MIN and MAX range over the
\* values that are not Null.
AggregateOf(aggr, input) ==
    LET inputs == Range(input)
        values == inputs \ {Null}
        counted == {m \in DOMAIN input : aggr.func = "COUNT*" \/ input[m] # Null}
    IN  CASE aggr.func \in {"COUNT*", "COUNT"} ->
                IF aggr.distinct THEN Cardinality({input[m] : m \in counted})
                ELSE Cardinality(counted)
          [] aggr.func = "SUM" ->
                IF inputs = {} \/ Null \in inputs THEN Null
                ELSE IF aggr.distinct THEN SumSet(inputs)
                ELSE MapThenSumSet(LAMBDA m : input[m], DOMAIN input)
          [] aggr.func \in {"MIN", "MAX"} /\ values = {} -> Null
          [] aggr.func = "MIN" -> CHOOSE v \in values : \A w \in values : v <= w
          [] aggr.func = "MAX" -> CHOOSE v \in values : \A w \in values : w <= v

RECURSIVE ValueOver(_, _)

\* The value of an expression for a group of matches.
ValueOver(members, x) ==
    CASE x.e = "aggr" ->
            AggregateOf(x, [m \in members |-> AggregateInput(x, MatchContext(m))])
      [] x.e = "bin" -> BinaryValue(x.op, ValueOver(members, x.l), ValueOver(members, x.r))
      [] OTHER -> Evaluate(IF members = {} THEN <<>>
                           ELSE MatchContext(CHOOSE m \in members : TRUE), <<>>, x)

\* The groups of matches that agree on their keys.
Classes(key) == {{m \in DOMAIN key : key[m] = k} : k \in Range(key)}

Groups ==
    IF query.group_by = <<>> THEN {Matches}
    ELSE Classes([m \in Matches |-> Map(query.group_by, LAMBDA x :
                                          Evaluate(MatchContext(m), <<>>, x))])

\* The sources of the answer's rows: groups that pass HAVING, or single matches.
Sources ==
    IF ~Aggregated THEN {{m} : m \in Matches}
    ELSE {g \in Groups : query.having = NoExpr \/ IsTrue(ValueOver(g, query.having))}

RowOf(source) ==
    FlattenSeq([n \in DOMAIN query.projection |->
                  IF query.projection[n] = Wildcard
                  THEN AllEntries(MatchContext(CHOOSE m \in source : TRUE))
                  ELSE <<ValueOver(source, query.projection[n].x)>>])

\* How often each row is in the answer of all sources.
Multiplicities(answers) ==
    [r \in Range(answers) |-> IF query.distinct THEN 1
                              ELSE Cardinality({s \in DOMAIN answers : answers[s] = r})]

\* The answer without its order and its page.
Meaning == Multiplicities([s \in Sources |-> RowOf(s)])

OrderKeys(row) ==
    LET labels == <<[alias |-> query.from.alias, cols |-> Labels(query), vals |-> row]>>
    IN  [n \in DOMAIN query.order_by |->
            IF query.order_by[n].x.e = "lit" THEN row[query.order_by[n].x.v]
            ELSE Evaluate(labels, <<>>, query.order_by[n].x)]

-----------------------------------------------------------------------------
(* Properties *)

\* A page has rows of the whole answer, and without a page all of them, each as
\* often as the query means it.
Answered(meaning) ==
    /\ ToBag(rows) \sqsubseteq meaning
    /\ query.limit = Null /\ query.offset = Null => ToBag(rows) = meaning


\* An aggregation has one row for each group of matches that passes HAVING, a
\* query without GROUP BY one even over no rows, and the slots that equal
\* aggregates share hold the aggregates of exactly that group.
AnswerGroups == phase = "done" /\ Aggregated => Answered(Meaning)

\* A row has its place in a page because enough rows of the whole answer may
\* come before it and enough may come after it.
Paged(meaning, keys) ==
    LET offset == IF query.offset = Null THEN 0 ELSE query.offset
        total == BagCardinality(meaning)
        rest == IF total > offset THEN total - offset ELSE 0
        before(r, s) == KeysBefore(query.order_by, keys[r], keys[s])
        size(S) == BagCardinality([r \in S |-> meaning[r]])
    IN  /\ Len(rows) = IF query.limit = Null \/ query.limit > rest THEN rest ELSE query.limit
        /\ \A i \in DOMAIN rows :
             /\ size({r \in DOMAIN meaning : before(r, rows[i])}) < offset + i
             /\ size({r \in DOMAIN meaning : before(rows[i], r)}) <= total - (offset + i)

Ordered(meaning) == Paged(meaning, [r \in DOMAIN meaning |-> OrderKeys(r)])

\* The answer is in the order of ORDER BY, also when the planner left that to
\* an index, and OFFSET and LIMIT cut the page out of that order.
AnswerPage == phase = "done" => Ordered(Meaning)
=============================================================================
