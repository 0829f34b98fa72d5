-------------------------------- MODULE Rules --------------------------------
(***************************************************************************)
(* The rules of optimizer/rules.  Those about filters and limits:          *)
(* predicate pushdown, outer joins made inner, limit pushdown, constant    *)
(* folding and predicate simplification.  Those that make joins and move   *)
(* them: subqueries that become semi or anti joins, and those that are run *)
(* instead (decorrelate.rs); an aggregate computed in part beneath a join  *)
(* (aggregate_pushdown.rs); the order of joins (join_reorder.rs).  A rule  *)
(* is given a node and an unused relation id, and answers with no node or  *)
(* the one to put in its place, or with the set of those when it has a     *)
(* choice: which is the cheaper is left open.                              *)
(***************************************************************************)
EXTENDS Plans

Changed(p, q) == IF q = p THEN <<>> ELSE <<q>>

-----------------------------------------------------------------------------
(* Predicate pushdown.                                                     *)

\* A conjunct goes to the side it reads alone, unless that side can be padded.
push_into_join(p, fresh) ==
  LET join == Input(p)
      conjuncts == split_conjuncts(p.predicate)
      only(e, k) == relation_set(e) # {} /\ relation_set(e) \subseteq relations(join.inputs[k])
      goes_left(e) == only(e, 1) /\ ~preserves_right(join.type)
      goes_right(e) == ~goes_left(e) /\ only(e, 2) /\ ~preserves_left(join.type)
      to_left == SelectSeq(conjuncts, goes_left)
      to_right == SelectSeq(conjuncts, goes_right)
      stay == SelectSeq(conjuncts, LAMBDA e : ~goes_left(e) /\ ~goes_right(e))
  IN  IF to_left \o to_right = <<>> THEN <<>>
      ELSE <<Under(p.rel, stay, WithInputs(join, <<Under(fresh, to_left, join.inputs[1]),
                                                   Under(fresh + 1, to_right, join.inputs[2])>>))>>

\* The condition on the rows the groups are made of, if it reads grouping keys only.
RECURSIVE substitute_group_keys(_, _)
substitute_group_keys(e, aggregate) ==
  LET under == [i \in DOMAIN Operands(e) |-> substitute_group_keys(Operands(e)[i], aggregate)]
  IN  CASE e.node = "column" ->
             IF e.rel = aggregate.rel /\ e.index \in DOMAIN aggregate.groups
             THEN <<aggregate.groups[e.index]>> ELSE <<>>
        [] e.node \in {"case", "subquery"} -> <<>>
        [] \E i \in DOMAIN under : under[i] = <<>> -> <<>>
        [] OTHER -> <<WithOperands(e, FlattenSeq(under))>>

\* A condition on grouping keys filters the rows, before they are grouped.
push_into_aggregate(p, fresh) ==
  LET aggregate == Input(p)
      conjuncts == split_conjuncts(p.predicate)
      moved(e) == substitute_group_keys(e, aggregate)
      push == FlattenSeq([i \in DOMAIN conjuncts |-> moved(conjuncts[i])])
      stay == SelectSeq(conjuncts, LAMBDA e : moved(e) = <<>>)
  IN  IF aggregate.groups = <<>> \/ push = <<>> THEN <<>>
      ELSE <<Under(p.rel, stay, WithInputs(aggregate, <<Under(fresh, push, Input(aggregate))>>))>>

\* Two filters in a row are one, the outer condition first.
predicate_pushdown(p, fresh) ==
  CASE p.op # "filter" -> <<>>
    [] Input(p).op = "filter" ->
         <<Under(p.rel, split_conjuncts(p.predicate) \o split_conjuncts(Input(p).predicate),
                 Input(Input(p)))>>
    [] Input(p).op = "join" -> push_into_join(p, fresh)
    [] Input(p).op = "aggregate" -> push_into_aggregate(p, fresh)
    [] OTHER -> <<>>

-----------------------------------------------------------------------------
(* Outer joins whose padded rows the filter above drops.                   *)

reads(e, rels) == relation_set(e) \cap rels # {}

\* The predicate is taken not to be true where every column of `rels` is NULL.
RECURSIVE rejects_nulls_from(_, _)
rejects_nulls_from(e, rels) ==
  CASE e.node = "binary" ->
         CASE e.op = "AND" ->
                rejects_nulls_from(e.left, rels) \/ rejects_nulls_from(e.right, rels)
           [] e.op = "OR" ->
                rejects_nulls_from(e.left, rels) /\ rejects_nulls_from(e.right, rels)
           [] OTHER -> e.op \in ComparisonOps /\ reads(e, rels)
    [] e.node = "between" -> ~e.negated /\ reads(e, rels)
    [] e.node = "in" -> reads(e.expr, rels)
    [] e.node = "like" -> reads(e.expr, rels) \/ reads(e.pattern, rels)
    [] e.node = "is null" -> e.negated /\ reads(e.expr, rels)
    [] e.node = "unary" ->
         /\ e.op = "NOT" /\ e.expr.node = "is null"
         /\ ~e.expr.negated /\ reads(e.expr, rels)
    [] OTHER -> e.node = "literal" /\ e.value \in {False, NULL}

\* Mutant of Demoted: a full join keeps the side whose padding is rejected.
DemotedBackwards(type, rejects_left, rejects_right) ==
  CASE type = "left" /\ rejects_right -> "inner"
    [] type = "right" /\ rejects_left -> "inner"
    [] type = "full" /\ rejects_left /\ rejects_right -> "inner"
    [] type = "full" /\ rejects_left -> "right"
    [] type = "full" /\ rejects_right -> "left"
    [] OTHER -> type

\* What rejecting the padding of a side leaves of an outer join: rows padded on
\* one side are the unmatched rows of the other.
Demoted(type, rejects_left, rejects_right) ==
  CASE type = "left" /\ rejects_right -> "inner"
    [] type = "right" /\ rejects_left -> "inner"
    [] type = "full" /\ rejects_left /\ rejects_right -> "inner"
    [] type = "full" /\ rejects_left -> "left"
    [] type = "full" /\ rejects_right -> "right"
    [] OTHER -> type

outer_to_inner(p) ==
  IF p.op # "filter" THEN <<>>
  ELSE LET join == Input(p)
           rejects(k) == rejects_nulls_from(p.predicate, relations(join.inputs[k]))
       IN  IF join.op # "join" THEN <<>>
           ELSE Changed(p, WithInputs(p, <<[join EXCEPT !.type = Demoted(@, rejects(1), rejects(2))]>>))

\* A projection neither drops nor reorders rows: the limit goes beneath it.
limit_pushdown(p) ==
  IF p.op # "limit" THEN <<>>
  ELSE IF Input(p).op # "project" THEN <<>>
  ELSE <<WithInputs(Input(p), <<WithInputs(p, Input(p).inputs)>>)>>

-----------------------------------------------------------------------------
(* Constant folding.                                                       *)

\* TRUE AND x is x; FALSE AND x is FALSE if x cannot raise; dually for OR.
simplify(e) ==
  LET neutral == Literal(Bool(e.op = "AND"))
      absorbing == Literal(Bool(e.op # "AND"))
  IN  CASE e.node = "unary" ->
             IF e.op # "NOT" THEN <<>>
             ELSE IF e.expr.node # "unary" THEN <<>>
             ELSE IF e.expr.op = "NOT" THEN <<e.expr.expr>> ELSE <<>>
        [] e.node # "binary" -> <<>>
        [] e.op \notin LogicalOps -> <<>>
        [] e.left = neutral -> <<e.right>>
        [] e.right = neutral -> <<e.left>>
        [] e.left = absorbing /\ ~CanRaise(e.right) -> <<absorbing>>
        [] e.right = absorbing /\ ~CanRaise(e.left) -> <<absorbing>>
        [] OTHER -> <<>>

\* No value if evaluating fails: the failure keeps its place.
try_evaluate(e) == LET v == Eval(e, [rel \in {} |-> 0]) IN IF v = RAISE THEN <<>> ELSE <<Literal(v)>>

RECURSIVE fold(_)
fold(e) ==
  LET rebuilt == WithOperands(e, [i \in DOMAIN Operands(e) |-> fold(Operands(e)[i])])
      constant == ~has_subquery(rebuilt) /\ relation_set(rebuilt) = {}
      folded == IF simplify(rebuilt) # <<>> THEN simplify(rebuilt)
                ELSE IF constant THEN try_evaluate(rebuilt) ELSE <<>>
  IN  IF folded = <<>> THEN rebuilt ELSE folded[1]

\* Mutant of constant_folding: an expression that folds to itself counts as folded.
FoldAgain(p) ==
  CASE p.op = "filter" /\ p.predicate.node = "literal" ->
         IF p.predicate.value = True THEN <<Input(p)>> ELSE <<Limit(p.rel, 0, <<0>>, Input(p))>>
    [] p.op \in {"filter", "project", "join", "aggregate"} ->
         <<WithExprs(p, [i \in DOMAIN OwnExprs(p) |-> fold(OwnExprs(p)[i])])>>
    [] OTHER -> <<>>

\* A filter of TRUE is its input; of FALSE or NULL, a limit of no rows.
constant_folding(p) ==
  CASE p.op = "filter" /\ p.predicate.node = "literal" ->
         IF p.predicate.value = True THEN <<Input(p)>> ELSE <<Limit(p.rel, 0, <<0>>, Input(p))>>
    [] p.op \in {"filter", "project", "join", "aggregate"} ->
         Changed(p, WithExprs(p, [i \in DOMAIN OwnExprs(p) |-> fold(OwnExprs(p)[i])]))
    [] OTHER -> <<>>

-----------------------------------------------------------------------------
(* Predicate simplification: the interval each column is confined to.      *)

flip(op) ==
  CASE op = "<" -> ">" [] op = "<=" -> ">=" [] op = ">" -> "<" [] op = ">=" -> "<=" [] OTHER -> op

\* A comparison of a column and a literal, the column on the left: none or one.
comparison(e) ==
  LET value(x) == x.node = "literal" /\ x.value # NULL
  IN  CASE e.node # "binary" -> <<>>
        [] e.op \notin ComparisonOps -> <<>>
        [] e.left.node = "column" /\ value(e.right) ->
             <<[column |-> e.left, op |-> e.op, value |-> e.right.value]>>
        [] e.right.node = "column" /\ value(e.left) ->
             <<[column |-> e.right, op |-> flip(e.op), value |-> e.left.value]>>
        [] OTHER -> <<>>

Lower == {">", ">=", "="}
Upper == {"<", "<=", "="}

Tighter(side, candidate, current) ==
  \/ CompareOp(IF side = Lower THEN ">" ELSE "<", candidate.value, current.value) = "true"
  \/ /\ CompareOp("=", candidate.value, current.value) = "true"
     /\ ~candidate.inclusive /\ current.inclusive

\* The tightest bound of a side the conjuncts put on a column, and which one did.
Bound(side, column, conjuncts) ==
  LET tighten(current, i) ==
        LET c == comparison(conjuncts[i])[1]
            candidate == [value |-> c.value, inclusive |-> c.op \in {"=", ">=", "<="}, from |-> i]
        IN  IF CanRaise(conjuncts[i]) \/ comparison(conjuncts[i]) = <<>> THEN current
            ELSE IF c.column # column \/ c.op \notin side THEN current
            ELSE IF current = <<>> THEN <<candidate>>
            ELSE IF Tighter(side, candidate, current[1]) THEN <<candidate>> ELSE current
  IN  FoldLeft(tighten, <<>>, [i \in DOMAIN conjuncts |-> i])

is_empty(lower, upper) ==
  IF lower = <<>> \/ upper = <<>> THEN FALSE
  ELSE \/ CompareOp(">", lower[1].value, upper[1].value) = "true"
       \/ /\ CompareOp("=", lower[1].value, upper[1].value) = "true"
          /\ ~(lower[1].inclusive /\ upper[1].inclusive)

\* Rebuilds an AND chain, to the right.
conjoin(parts) == FoldRight(And, Front(parts), Last(parts))

\* A conjunct is dropped only if it gave a bound that another is tighter than.
predicate_simplification(p) ==
  IF p.op # "filter" THEN <<>>
  ELSE LET conjuncts == split_conjuncts(p.predicate)
           bounding == {i \in DOMAIN conjuncts :
                          IF CanRaise(conjuncts[i]) \/ comparison(conjuncts[i]) = <<>> THEN FALSE
                          ELSE comparison(conjuncts[i])[1].op \in Lower \cup Upper}
           columns == {comparison(conjuncts[i])[1].column : i \in bounding}
           of(c) == Bound(Lower, c, conjuncts) \o Bound(Upper, c, conjuncts)
           surviving == UNION {{b.from : b \in ToSet(of(c))} : c \in columns}
           kept == SelectSeq([i \in DOMAIN conjuncts |-> i],
                             LAMBDA i : i \notin bounding \/ i \in surviving)
       IN  IF Len(conjuncts) < 2 THEN <<>>
           ELSE IF \E c \in columns : is_empty(Bound(Lower, c, conjuncts), Bound(Upper, c, conjuncts))
           THEN <<[p EXCEPT !.predicate = Literal(False)]>>
           ELSE IF Len(kept) = Len(conjuncts) THEN <<>>
           ELSE <<[p EXCEPT !.predicate = conjoin([k \in DOMAIN kept |-> conjuncts[kept[k]]])]>>

-----------------------------------------------------------------------------
(* Subqueries: of a WHERE clause, as joins.                                *)

\* large: more rows are expected than MATERIALIZE_THRESHOLD.
is_rewritable(e, large) ==
  IF e.node # "subquery" THEN FALSE
  ELSE CASE e.kind = "scalar" -> FALSE
         [] e.kind = "exists" -> is_correlated(e.plan)
         [] e.kind = "in" -> /\ ~(e.negated /\ e.nullable)
                             /\ is_correlated(e.plan) \/ large

contains_barrier(p) ==
  \E i \in DOMAIN Nodes(p) : Nodes(p)[i].op \in {"aggregate", "limit"}

\* The plan without the conditions that read the query around it, and those.
RECURSIVE extract_correlated(_, _)
extract_correlated(p, outer) ==
  LET under == [i \in DOMAIN p.inputs |-> extract_correlated(p.inputs[i], outer)]
      rebuilt == WithInputs(p, [i \in DOMAIN under |-> under[i].plan])
      lifted == FlattenSeq([i \in DOMAIN under |-> under[i].lifted])
      reads_outer(e) == relation_set(e) \cap outer # {}
      conjuncts == split_conjuncts(p.predicate)
  IN  IF p.op # "filter" THEN [plan |-> rebuilt, lifted |-> lifted]
      ELSE [plan |-> Under(p.rel, SelectSeq(conjuncts, LAMBDA e : ~reads_outer(e)), Input(rebuilt)),
            lifted |-> lifted \o SelectSeq(conjuncts, reads_outer)]

\* The subquery's projection is stripped, so that the join can read beneath it.
build_semi_join(e, input, fresh) ==
  LET outer == defined_relations(input)
      projects == e.plan.op = "project"
      body == IF projects THEN Input(e.plan) ELSE e.plan
      extracted == extract_correlated(body, outer)
      joined(conditions) ==
        <<Join(fresh, IF e.negated THEN "anti" ELSE "semi", and_all(conditions),
               input, extracted.plan)>>
  IN  CASE is_correlated(body) /\ contains_barrier(body) -> <<>>
        [] is_correlated(extracted.plan) -> <<>>
        [] e.kind = "exists" -> joined(extracted.lifted)
        [] ~projects -> <<>>
        [] relation_set(e.plan.exprs[1]) \cap outer # {} -> <<>>
        [] OTHER -> joined(Append(extracted.lifted, Binary("=", e.value[1], e.plan.exprs[1])))

\* Only the first conjunct that could become a join is tried.
decorrelate(p, fresh, large) ==
  IF p.op # "filter" THEN <<>>
  ELSE LET conjuncts == split_conjuncts(p.predicate)
           i == SelectInSeq(conjuncts, LAMBDA e : is_rewritable(e, large))
           join == build_semi_join(conjuncts[i], Input(p), fresh)
       IN  IF i = 0 THEN <<>>
           ELSE IF join = <<>> THEN <<>>
           ELSE <<Under(p.rel, RemoveAt(conjuncts, i), join[1])>>

-----------------------------------------------------------------------------
(* Everything else is run.                                                 *)

\* The first subquery of some expressions, and the expressions without it.
RECURSIVE FirstSubquery(_), WithoutFirst(_, _)
FirstSubquery(es) ==
  LET e == es[SelectInSeq(es, LAMBDA x : has_subquery(x))]
  IN  IF e.node = "subquery" THEN e ELSE FirstSubquery(Operands(e))
WithoutFirst(es, v) ==
  LET i == SelectInSeq(es, LAMBDA x : has_subquery(x))
  IN  [es EXCEPT ![i] = IF @.node = "subquery" THEN v
                        ELSE WithOperands(@, WithoutFirst(Operands(@), v))]

HoldsSubquery(p) == \E i \in DOMAIN OwnExprs(p) : has_subquery(OwnExprs(p)[i])

\* The node once its first subquery came to `v`; none on an error, which a scalar
\* subquery of several rows is.
evaluate_subqueries(p, v) ==
  IF v = Literal(RAISE) THEN <<>> ELSE <<WithExprs(p, WithoutFirst(OwnExprs(p), v))>>

-----------------------------------------------------------------------------
(* Aggregate pushdown.                                                     *)

\* The join keys if the condition consists of equalities of columns: none or all.
equi_columns(on) ==
  LET conjuncts == split_conjuncts(on)
      equality(c) == IF c.node # "binary" THEN FALSE
                     ELSE c.op = "=" /\ c.left.node = "column" /\ c.right.node = "column"
  IN  IF \E i \in DOMAIN conjuncts : ~equality(conjuncts[i]) THEN <<>>
      ELSE [i \in DOMAIN conjuncts |-> <<conjuncts[i].left, conjuncts[i].right>>]

\* What combines the partial results of an aggregate.
Combining(func) == IF func = "count" THEN "sum" ELSE func

\* The expression over the partial aggregate's columns for its join keys.
RECURSIVE rewrite_columns(_, _, _)
rewrite_columns(e, rel, side_groups) ==
  IF e.node = "column" /\ Contains(side_groups, e)
  THEN Column(rel, SelectInSeq(side_groups, LAMBDA g : g = e))
  ELSE WithOperands(e, [i \in DOMAIN Operands(e) |-> rewrite_columns(Operands(e)[i], rel, side_groups)])

\* p aggregates an inner join; its input k can be aggregated before joining if
\* every aggregate reads only that, and the groups and the keys can be told apart.
push_into(p, k, fresh) ==
  LET join == Input(p)
      equi == equi_columns(join.on[1])
      rels(side) == relations(join.inputs[side])
      reads_side(e) == relation_set(e) # {} /\ relation_set(e) \subseteq rels(k)
      reads_other(e) == relation_set(e) \subseteq rels(3 - k)
      pushed == SelectSeq(p.groups, reads_side)
      keys == [i \in DOMAIN equi |-> equi[i][k]]
      side_groups == FoldLeft(LAMBDA gs, key : IF Contains(gs, key) THEN gs ELSE Append(gs, key),
                              pushed, keys)
      decomposable(a) == /\ ~a.distinct /\ a.func # "avg"
                         /\ a.arg = <<>> \/ reads_side(a.arg[1])
      partial == Aggregate(fresh, side_groups, p.aggregates, join.inputs[k])
      group(i) == IF reads_side(p.groups[i])
                  THEN Column(fresh, Len(SelectSeq(SubSeq(p.groups, 1, i), reads_side)))
                  ELSE p.groups[i]
      combined(i) == Agg(Combining(p.aggregates[i].func),
                         <<Column(fresh, Len(side_groups) + i)>>, FALSE)
  IN  IF \/ p.aggregates = <<>>
         \/ \E i \in DOMAIN p.aggregates : ~decomposable(p.aggregates[i])
         \/ \E i \in DOMAIN p.groups : ~reads_side(p.groups[i]) /\ ~reads_other(p.groups[i])
         \/ \E i \in DOMAIN keys : ~reads_side(keys[i])
      THEN <<>>
      ELSE <<Aggregate(p.rel, [i \in DOMAIN p.groups |-> group(i)],
                       [i \in DOMAIN p.aggregates |-> combined(i)],
                       [join EXCEPT !.on = <<rewrite_columns(@[1], fresh, side_groups)>>,
                                    !.inputs[k] = partial])>>

\* Either side, as far as the partial aggregate is expected to pay.
aggregate_pushdown(p, fresh) ==
  IF p.op # "aggregate" THEN {}
  ELSE IF Input(p).op # "join" THEN {}
  ELSE IF Input(p).type # "inner" \/ Input(p).on = <<>> THEN {}
  ELSE IF equi_columns(Input(p).on[1]) = <<>> THEN {}
  ELSE UNION {ToSet(push_into(p, k, fresh)) : k \in 1..2}

-----------------------------------------------------------------------------
(* Join order.                                                             *)

is_reorderable(p) == p.op = "join" /\ p.type \in {"inner", "cross"}

\* A region of inner joins: what it joins, and on which conditions.
RECURSIVE Atoms(_), Conditions(_)
Atoms(p) == IF ~is_reorderable(p) THEN <<p>> ELSE Atoms(p.inputs[1]) \o Atoms(p.inputs[2])
Conditions(p) ==
  IF ~is_reorderable(p) THEN <<>>
  ELSE Conditions(p.inputs[1]) \o Conditions(p.inputs[2])
         \o FlattenSeq([i \in DOMAIN p.on |-> split_conjuncts(p.on[i])])

\* Mutant of join_candidate: a condition is placed where it reads a side, though
\* it may read what is joined later.
JoinCandidateUncovered(left, right, conditions, fresh) ==
  LET applies(c) == /\ relation_set(c) \cap relations(left) # {}
                    /\ relation_set(c) \cap relations(right) # {}
      applicable == SelectSeq(conditions, applies)
  IN  Join(fresh, IF applicable = <<>> THEN "cross" ELSE "inner", and_all(applicable), left, right)

\* A condition belongs to the join that first brings together all it reads.
\* A join's own id is read nowhere: those of one region share it.
join_candidate(left, right, conditions, fresh) ==
  LET applies(c) == /\ relation_set(c) \cap relations(left) # {}
                    /\ relation_set(c) \cap relations(right) # {}
                    /\ relation_set(c) \subseteq relations(left) \cup relations(right)
      applicable == SelectSeq(conditions, applies)
  IN  Join(fresh, IF applicable = <<>> THEN "cross" ELSE "inner", and_all(applicable), left, right)

\* Every way to join the atoms of S, what dp and greedy choose from.
RECURSIVE Trees(_, _, _, _)
Trees(atoms, S, conditions, fresh) ==
  IF \E i \in S : S = {i} THEN {atoms[i] : i \in S}
  ELSE UNION {{join_candidate(l, r, conditions, fresh) :
                 l \in Trees(atoms, T, conditions, fresh),
                 r \in Trees(atoms, S \ T, conditions, fresh)} : T \in (SUBSET S) \ {{}, S}}

\* A condition on one atom only is kept in a filter above the tree.
reorder(p, fresh) ==
  LET atoms == Atoms(p)
      touched(c) == {i \in DOMAIN atoms : relations(atoms[i]) \cap relation_set(c) # {}}
      leftovers == SelectSeq(Conditions(p), LAMBDA c : Cardinality(touched(c)) = 1)
  IN  {Under(fresh, leftovers, tree) : tree \in Trees(atoms, DOMAIN atoms, Conditions(p), fresh)}

\* Each region is reordered as a whole, or left and the regions within tried.
RECURSIVE Reorderings(_, _)
Reorderings(p, fresh) ==
  (IF is_reorderable(p) THEN reorder(p, fresh) ELSE {})
  \cup CASE Len(p.inputs) = 0 -> {p}
         [] Len(p.inputs) = 1 -> {WithInputs(p, <<l>>) : l \in Reorderings(Input(p), fresh)}
         [] OTHER -> {WithInputs(p, <<l, r>>) : l \in Reorderings(p.inputs[1], fresh),
                                                r \in Reorderings(p.inputs[2], fresh)}

join_reorder(p, fresh) == Reorderings(p, fresh) \ {p}
==============================================================================
