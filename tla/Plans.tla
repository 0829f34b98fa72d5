-------------------------------- MODULE Plans --------------------------------
(***************************************************************************)
(* Logical plans (plan/mod.rs) and what they answer.  A node has the nodes *)
(* it reads in `inputs`; its `rel` names the relation it produces.  A row  *)
(* gives each relation its values, as the expressions bound to them want   *)
(* it, and a subquery sees the row of the query around it.                 *)
(***************************************************************************)
EXTENDS Expressions, FiniteSets

CONSTANT Tables   \* the rows of each table

OneRow(rel) == [op |-> "one row", rel |-> rel, inputs |-> <<>>]
\* columns: the columns of the table that are read, in order.
Scan(rel, table, columns) ==
  [op |-> "scan", rel |-> rel, table |-> table, columns |-> columns, inputs |-> <<>>]
CteRef(rel, definition) ==
  [op |-> "cte", rel |-> rel, definition |-> definition, inputs |-> <<>>]
Filtered(rel, predicate, input) ==
  [op |-> "filter", rel |-> rel, predicate |-> predicate, inputs |-> <<input>>]
Project(rel, exprs, input) ==
  [op |-> "project", rel |-> rel, exprs |-> exprs, inputs |-> <<input>>]
\* fetch: no upper bound or one.
Limit(rel, skip, fetch, input) ==
  [op |-> "limit", rel |-> rel, skip |-> skip, fetch |-> fetch, inputs |-> <<input>>]
\* on: no condition or one.
Join(rel, type, on, left, right) ==
  [op |-> "join", rel |-> rel, type |-> type, on |-> on, inputs |-> <<left, right>>]
Aggregate(rel, groups, aggregates, input) ==
  [op |-> "aggregate", rel |-> rel, groups |-> groups, aggregates |-> aggregates,
   inputs |-> <<input>>]
\* arg: none for COUNT(*).
Agg(func, arg, distinct) == [func |-> func, arg |-> arg, distinct |-> distinct]
SubqueryAlias(rel, input) == [op |-> "alias", rel |-> rel, inputs |-> <<input>>]
\* directions: for each key, whether it ascends and whether its NULLs come first.
Sort(rel, keys, directions, input) ==
  [op |-> "sort", rel |-> rel, keys |-> keys, directions |-> directions, inputs |-> <<input>>]
Distinct(rel, input) == [op |-> "distinct", rel |-> rel, inputs |-> <<input>>]
SetOp(rel, kind, all, left, right) ==
  [op |-> "set", rel |-> rel, kind |-> kind, all |-> all, inputs |-> <<left, right>>]

\* kind: scalar, exists or in; value: what IN looks for; nullable: whether that
\* value or the column selected can be NULL.
Subquery(kind, negated, value, nullable, plan) ==
  [node |-> "subquery", kind |-> kind, negated |-> negated, value |-> value,
   nullable |-> nullable, plan |-> plan]

Input(p) == p.inputs[1]
preserves_left(type) == type \in {"left", "full"}
preserves_right(type) == type \in {"right", "full"}
is_filtering(type) == type \in {"semi", "anti"}

-----------------------------------------------------------------------------
(* The structure of expressions and plans.                                 *)

\* The expression around new operands, what BoundExpr::rewrite rebuilds.
WithOperands(e, s) ==
  CASE e.node = "binary" -> [e EXCEPT !.left = s[1], !.right = s[2]]
    [] e.node \in {"unary", "is null", "cast"} -> [e EXCEPT !.expr = s[1]]
    [] e.node = "between" -> [e EXCEPT !.expr = s[1], !.low = s[2], !.high = s[3]]
    [] e.node = "in" -> [e EXCEPT !.expr = s[1], !.list = Tail(s)]
    [] e.node = "like" ->
         [e EXCEPT !.expr = s[1], !.pattern = s[2], !.escape = SubSeq(s, 3, Len(s))]
    [] e.node = "case" ->
         [e EXCEPT !.whens = [i \in DOMAIN @ |-> <<s[2 * i - 1], s[2 * i]>>],
                   !.otherwise = SubSeq(s, 2 * Len(e.whens) + 1, Len(s))]
    [] OTHER -> e

\* for_each_expr: the expressions a node owns.
OwnExprs(p) ==
  CASE p.op = "filter" -> <<p.predicate>>
    [] p.op = "project" -> p.exprs
    [] p.op = "join" -> p.on
    [] p.op = "sort" -> p.keys
    [] p.op = "aggregate" ->
         p.groups \o FlattenSeq([i \in DOMAIN p.aggregates |-> p.aggregates[i].arg])
    [] OTHER -> <<>>

\* The node around new expressions of its own, what rewrite_expressions rebuilds.
RECURSIVE WithArgs(_, _)
WithArgs(aggregates, s) ==
  IF aggregates = <<>> THEN <<>>
  ELSE LET k == Len(Head(aggregates).arg)
       IN  <<[Head(aggregates) EXCEPT !.arg = SubSeq(s, 1, k)]>>
             \o WithArgs(Tail(aggregates), SubSeq(s, k + 1, Len(s)))

WithExprs(p, s) ==
  CASE p.op = "filter" -> [p EXCEPT !.predicate = s[1]]
    [] p.op = "project" -> [p EXCEPT !.exprs = s]
    [] p.op = "join" -> [p EXCEPT !.on = s]
    [] p.op = "sort" -> [p EXCEPT !.keys = s]
    [] p.op = "aggregate" ->
         [p EXCEPT !.groups = SubSeq(s, 1, Len(@)),
                   !.aggregates = WithArgs(@, SubSeq(s, Len(p.groups) + 1, Len(s)))]
    [] OTHER -> p

WithInputs(p, inputs) == [p EXCEPT !.inputs = inputs]

RECURSIVE split_conjuncts(_)
split_conjuncts(e) ==
  IF e.node = "binary" THEN IF e.op = "AND"
                            THEN split_conjuncts(e.left) \o split_conjuncts(e.right)
                            ELSE <<e>>
  ELSE <<e>>

\* and_all: no expression for no conjuncts.
and_all(parts) ==
  IF parts = <<>> THEN <<>> ELSE <<FoldLeft(And, Head(parts), Tail(parts))>>

\* `parts` in a filter above the plan, or the plan if there are none.
Under(rel, parts, p) == IF parts = <<>> THEN p ELSE Filtered(rel, and_all(parts)[1], p)

RECURSIVE has_subquery(_)
has_subquery(e) ==
  e.node = "subquery" \/ \E i \in DOMAIN Operands(e) : has_subquery(Operands(e)[i])

RECURSIVE find_subquery(_)
find_subquery(p) ==
  \/ \E i \in DOMAIN OwnExprs(p) : has_subquery(OwnExprs(p)[i])
  \/ \E i \in DOMAIN p.inputs : find_subquery(p.inputs[i])

\* Every relation an expression reads, and every one a plan's expressions read.
RECURSIVE relation_set(_), referenced_relations(_)
relation_set(e) ==
  CASE e.node = "column" -> {e.rel}
    [] e.node = "subquery" ->
         referenced_relations(e.plan) \cup UNION {relation_set(e.value[i]) : i \in DOMAIN e.value}
    [] OTHER -> UNION {relation_set(Operands(e)[i]) : i \in DOMAIN Operands(e)}
referenced_relations(p) ==
  UNION {relation_set(OwnExprs(p)[i]) : i \in DOMAIN OwnExprs(p)}
  \cup UNION {referenced_relations(p.inputs[i]) : i \in DOMAIN p.inputs}

RECURSIVE defined_relations(_)

\* Mutant of defined_relations: what a query groups by is not its own.
DefinedWithoutAggregates(p) ==
  (IF p.op \in {"scan", "alias"} THEN {p.rel} ELSE {})
  \cup UNION {defined_relations(p.inputs[i]) : i \in DOMAIN p.inputs}

\* A WITH binding defines no relation, nor does a set operation.
defined_relations(p) ==
  (IF p.op \in {"scan", "aggregate", "alias"} THEN {p.rel} ELSE {})
  \cup UNION {defined_relations(p.inputs[i]) : i \in DOMAIN p.inputs}

is_correlated(p) == referenced_relations(p) \ defined_relations(p) # {}

\* The relations whose columns can be read above the plan.
RECURSIVE relations(_)
relations(p) ==
  CASE p.op \in {"scan", "cte", "aggregate", "alias"} -> {p.rel}
    [] p.op \in {"one row", "project", "set"} -> {}
    [] OTHER -> UNION {relations(p.inputs[i]) : i \in DOMAIN p.inputs}

RECURSIVE Nodes(_)
Nodes(p) == <<p>> \o FlattenSeq([i \in DOMAIN p.inputs |-> Nodes(p.inputs[i])])

max_rel_id(p) == LET ids == {Nodes(p)[i].rel : i \in DOMAIN Nodes(p)}
                 IN  CHOOSE m \in ids : \A n \in ids : n <= m

-----------------------------------------------------------------------------
(* The relations of a plan's output, in order: which of their columns are  *)
(* there, of how many.                                                     *)

RECURSIVE Layout(_)
ColumnsOf(layout) == FoldLeft(LAMBDA n, item : n + Len(item.at), 0, layout)
Whole(rel, width) == [rel |-> rel, width |-> width, at |-> [i \in 1..width |-> i]]
Layout(p) ==
  CASE p.op = "one row" -> <<>>
    [] p.op = "scan" ->
         <<[Whole(p.rel, Len(Tables[p.table][1])) EXCEPT !.at = p.columns]>>
    [] p.op = "cte" -> <<Whole(p.rel, ColumnsOf(Layout(p.definition)))>>
    [] p.op = "project" -> <<Whole(p.rel, Len(p.exprs))>>
    [] p.op = "aggregate" -> <<Whole(p.rel, Len(p.groups) + Len(p.aggregates))>>
    [] p.op \in {"alias", "set"} -> <<Whole(p.rel, ColumnsOf(Layout(Input(p))))>>
    [] p.op = "join" ->
         IF is_filtering(p.type) THEN Layout(Input(p))
         ELSE Layout(Input(p)) \o Layout(p.inputs[2])
    [] OTHER -> Layout(Input(p))

\* A row's values in the order of the output.
Flat(row, layout) ==
  FlattenSeq([k \in DOMAIN layout |->
                [i \in DOMAIN layout[k].at |-> row[layout[k].rel][layout[k].at[i]]]])

\* The rel and values of a layout's items, all NULL.
Padding(layout) ==
  [rel \in {layout[k].rel : k \in DOMAIN layout} |->
     LET k == SelectInSeq(layout, LAMBDA item : item.rel = rel)
     IN  [i \in 1..layout[k].width |-> NULL]]

Beside(row, other) ==
  [rel \in DOMAIN row \cup DOMAIN other |-> IF rel \in DOMAIN row THEN row[rel] ELSE other[rel]]

-----------------------------------------------------------------------------
(* What a node makes of the rows of its inputs and of `own`, the values of *)
(* its expressions on each of them (on each pair of them, for a join).     *)

\* One aggregate over the values of its argument in a group.
Summary(agg, values) ==
  LET given == SelectSeq(values, LAMBDA v : v # NULL)
      counted == IF agg.distinct THEN SetToSeq(ToSet(given)) ELSE given
      sum == FoldLeft(LAMBDA a, b : a + b, 0, counted)
      best(Better(_, _)) ==
        CHOOSE v \in ToSet(counted) : \A w \in ToSet(counted) : ~Better(w, v)
  IN  CASE agg.func = "count" -> Len(counted)
        [] counted = <<>> -> NULL
        [] agg.func = "sum" -> sum
        [] agg.func = "avg" -> <<sum, Len(counted)>>
        [] agg.func = "min" -> best(LAMBDA a, b : a < b)
        [] OTHER -> best(LAMBDA a, b : a > b)

\* One row of values for each group: its keys, then its aggregates.
Groups(p, own) ==
  LET n == Len(p.groups)
      key == [i \in DOMAIN own |-> SubSeq(own[i], 1, n)]
      given == [i \in DOMAIN own |-> WithArgs(p.aggregates, SubSeq(own[i], n + 1, Len(own[i])))]
      arg(i, a) == IF given[i][a].arg = <<>> THEN True ELSE given[i][a].arg[1]
      keys == FoldLeft(LAMBDA seen, k : IF Contains(seen, k) THEN seen ELSE Append(seen, k),
                       IF n = 0 THEN <<<<>>>> ELSE <<>>, key)
      members(k) == SelectSeq([i \in DOMAIN own |-> i], LAMBDA i : key[i] = k)
      args(mine, a) == [j \in DOMAIN mine |-> arg(mine[j], a)]
  IN  [g \in DOMAIN keys |->
         keys[g] \o [a \in DOMAIN p.aggregates |-> Summary(p.aggregates[a], args(members(keys[g]), a))]]

\* The pairs of a join, all those of the first row of the left first.
Pairs(left, right) ==
  FlattenSeq([i \in DOMAIN left |-> [j \in DOMAIN right |-> Beside(left[i], right[j])]])

\* Pairs that match in the order of the left, then what a side preserves.
Joined(p, left, right, own) ==
  LET n == Len(right)
      pairs == Pairs(left, right)
      met == [k \in DOMAIN pairs |-> own[k] = <<>> \/ own[k] = <<True>>]
      matches(i) == SelectSeq([j \in 1..n |-> (i - 1) * n + j], LAMBDA k : met[k])
      padded == Padding(Layout(p.inputs[2]))
      of(i, matching) ==
        CASE p.type = "semi" -> IF matching = <<>> THEN <<>> ELSE <<left[i]>>
          [] p.type = "anti" -> IF matching = <<>> THEN <<left[i]>> ELSE <<>>
          [] matching = <<>> /\ preserves_left(p.type) -> <<Beside(left[i], padded)>>
          [] OTHER -> [k \in DOMAIN matching |-> pairs[matching[k]]]
      unmatched == SelectSeq([j \in 1..n |-> j],
                             LAMBDA j : \A i \in DOMAIN left : ~met[(i - 1) * n + j])
  IN  FlattenSeq([i \in DOMAIN left |-> of(i, matches(i))])
        \o (IF preserves_right(p.type)
            THEN [k \in DOMAIN unmatched |-> Beside(right[unmatched[k]], Padding(Layout(Input(p))))]
            ELSE <<>>)

Occurrences(s, v) == Cardinality({i \in DOMAIN s : s[i] = v})
\* The elements of s that stay: each as often as `times` says, the first ones.
Keeping(s, times(_)) ==
  LET kept == SelectSeq([i \in DOMAIN s |-> i],
                        LAMBDA i : Occurrences(SubSeq(s, 1, i), s[i]) <= times(s[i]))
  IN  [k \in DOMAIN kept |-> s[kept[k]]]
Lesser(a, b) == IF a < b THEN a ELSE b

Combined(p, left, right) ==
  LET once(v) == 1
      common(v) == IF ~Contains(right, v) THEN 0
                   ELSE IF p.all THEN Lesser(Occurrences(left, v), Occurrences(right, v)) ELSE 1
      excess(v) == IF p.all THEN Occurrences(left, v) - Occurrences(right, v)
                   ELSE IF Contains(right, v) THEN 0 ELSE 1
  IN  CASE p.kind = "union" -> IF p.all THEN left \o right ELSE Keeping(left \o right, once)
        [] p.kind = "intersect" -> Keeping(left, common)
        [] OTHER -> Keeping(left, excess)

\* By the first of the keys that tells two rows apart, ties as they came.
Sorted(rows, key, directions) ==
  LET earlier(v, w, d) == CASE v = NULL -> d.nulls_first [] w = NULL -> ~d.nulls_first
                            [] OTHER -> IF d.ascending THEN v < w ELSE w < v
      before(i, j) ==
        \/ key[i] = key[j] /\ i < j
        \/ \E k \in DOMAIN key[i] : /\ \A m \in 1..k - 1 : key[i][m] = key[j][m]
                                   /\ key[i][k] # key[j][k] /\ earlier(key[i][k], key[j][k], directions[k])
      order == SortSeq([i \in DOMAIN rows |-> i], before)
  IN  [i \in DOMAIN rows |-> rows[order[i]]]

\* The rows that some of `s`, one for each of them, are chosen for.
Chosen(rows, s, Good(_, _)) ==
  LET kept == SelectSeq([i \in DOMAIN rows |-> i], LAMBDA i : Good(s, i))
  IN  [k \in DOMAIN kept |-> rows[kept[k]]]

Slice(rows, skip, fetch) ==
  SubSeq(rows, skip + 1, IF fetch = <<>> THEN Len(rows) ELSE Lesser(skip + fetch[1], Len(rows)))

-----------------------------------------------------------------------------
(* What a plan answers: its rows, or RAISE.  `outer` is the row of the     *)
(* query around it, empty for a whole query.                               *)

Nowhere == [rel \in {} |-> 0]

\* The plans a node runs: a WITH binding is a query of its own.
Sources(p) == IF p.op = "cte" THEN <<p.definition>> ELSE p.inputs

FlatRows(rows, layout) == [i \in DOMAIN rows |-> Flat(rows[i], layout)]

Produced(p, outer, ins, own) ==
  LET flat == [k \in DOMAIN ins |-> FlatRows(ins[k], Layout(Sources(p)[k]))]
      named(s) == [i \in DOMAIN s |-> Beside([rel \in {p.rel} |-> s[i]], outer)]
  IN  CASE p.op = "one row" -> <<outer>>
        [] p.op = "scan" -> named(Tables[p.table])
        [] p.op \in {"cte", "alias"} -> named(flat[1])
        [] p.op = "limit" -> Slice(ins[1], p.skip, p.fetch)
        [] p.op = "filter" -> Chosen(ins[1], own, LAMBDA s, i : s[i] = <<True>>)
        [] p.op = "project" -> named(own)
        [] p.op = "aggregate" -> named(Groups(p, own))
        [] p.op = "sort" -> Sorted(ins[1], own, p.directions)
        [] p.op = "distinct" ->
             Chosen(ins[1], flat[1], LAMBDA s, i : Occurrences(SubSeq(s, 1, i), s[i]) = 1)
        [] p.op = "join" -> Joined(p, ins[1], ins[2], own)
        [] OTHER -> named(Combined(p, flat[1], flat[2]))

\* The expression that stands for a subquery once it has answered with `rows`.
SubqueryResult(e, rows) ==
  CASE rows = RAISE -> Literal(RAISE)
    [] e.kind = "exists" -> Literal(Bool((rows # <<>>) # e.negated))
    [] e.kind = "in" ->
         InList(e.value[1], [i \in DOMAIN rows |-> Literal(rows[i][1])], e.negated)
    [] OTHER -> Literal(CASE rows = <<>> -> NULL
                          [] Len(rows) = 1 -> rows[1][1]
                          [] OTHER -> RAISE)

FlatAnswer(rows, layout) == IF rows = RAISE THEN RAISE ELSE FlatRows(rows, layout)

RECURSIVE Answer(_, _), Resolved(_, _)

\* An expression with its subqueries answered for a row.
Resolved(e, row) ==
  IF e.node = "subquery"
  THEN SubqueryResult(e, FlatAnswer(Answer(e.plan, row), Layout(e.plan)))
  ELSE WithOperands(e, [i \in DOMAIN Operands(e) |-> Resolved(Operands(e)[i], row)])

ValuesAt(exprs, row) ==
  [k \in DOMAIN exprs |->
     Eval(IF has_subquery(exprs[k]) THEN Resolved(exprs[k], row) ELSE exprs[k], row)]

OwnValues(p, ins) ==
  LET rows == CASE OwnExprs(p) = <<>> /\ p.op \notin {"project", "aggregate", "join"} -> <<>>
                [] p.op = "join" -> Pairs(ins[1], ins[2])
                [] OTHER -> ins[1]
  IN  [i \in DOMAIN rows |-> ValuesAt(OwnExprs(p), rows[i])]

\* A row that cannot be computed fails the query.
Sound(p, outer, ins, own) ==
  IF \E i \in DOMAIN own : RAISE \in ToSet(own[i]) THEN RAISE ELSE Produced(p, outer, ins, own)

Continued(p, outer, ins) ==
  IF \E k \in DOMAIN ins : ins[k] = RAISE THEN RAISE
  ELSE Sound(p, outer, ins, OwnValues(p, ins))

\* A limit of no rows asks for none.
Answer(p, outer) ==
  IF p.op = "limit" /\ p.fetch = <<0>> THEN <<>>
  ELSE Continued(p, outer, [k \in DOMAIN Sources(p) |->
                              Answer(Sources(p)[k], IF p.op = "cte" THEN Nowhere ELSE outer)])

Values(p) == FlatAnswer(Answer(p, Nowhere), Layout(p))
\* How often each row is in the answer of a whole query.
Counted(rows) == IF rows = RAISE THEN RAISE ELSE ToBag(rows)
Outcome(p) == Counted(Values(p))
==============================================================================
