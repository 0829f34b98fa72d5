------------------------------ MODULE Optimizer ------------------------------
(***************************************************************************)
(* The optimizer (optimizer/mod.rs): the first rule that applies anywhere  *)
(* in the plan, bottom up, is applied, until none does.  Engine::optimize  *)
(* then runs the plan, unless a subquery could not be removed.             *)
(***************************************************************************)
EXTENDS Rules

CONSTANTS
  Workloads,        \* sets of bound plans, each with policies
  MaxApplications   \* the cap on rule applications

VARIABLES
  query,      \* the plan as it was bound
  expected,   \* what it answers
  plan,       \* current
  next,       \* ids: past every relation of the plan
  steps,      \* how many rules were applied
  status,     \* running, done, refused, failed or truncated
  policy      \* what the options and the estimates decide

vars == <<query, expected, plan, next, steps, status, policy>>

\* optimizing: the rules that are not mandatory are tried; large: a subquery is
\* expected to exceed MATERIALIZE_THRESHOLD; pushes and reorders: how often the
\* costs favour a partial aggregate and another join order still.
Policies(optimizing, large, pushes, reorders) ==
  [optimizing : optimizing, large : large, pushes : pushes, reorders : reorders]

-----------------------------------------------------------------------------
(* Subexpressions computed once (common_subexpression.rs).                 *)

MinSize == 3

RECURSIVE size(_)
size(e) == 1 + FoldLeft(LAMBDA n, x : n + size(x), 0, Operands(e))

hoistable(e) == e.node \notin {"column", "literal", "subquery", "case"} /\ size(e) >= MinSize

RECURSIVE count_candidates(_)

\* Every occurrence of a subexpression that is evaluated whenever e is.
count_candidates(e) ==
  (IF hoistable(e) THEN <<e>> ELSE <<>>)
  \o CASE e.node = "case" -> <<>>
       [] e.node = "binary" /\ e.op \in LogicalOps -> count_candidates(e.left)
       [] OTHER -> FlattenSeq([i \in DOMAIN Operands(e) |-> count_candidates(Operands(e)[i])])

RECURSIVE collect_columns(_)
collect_columns(e) ==
  IF e.node = "column" THEN <<e>>
  ELSE FlattenSeq([i \in DOMAIN Operands(e) |-> collect_columns(Operands(e)[i])])

\* The distinct elements of a sequence: the order of the new columns, by name in
\* the code, is read nowhere.
Once(s) ==
  FoldLeft(LAMBDA seen, x : IF Contains(seen, x) THEN seen ELSE Append(seen, x), <<>>, s)

\* The expression over a projection of `slots`, the outermost match first.
RECURSIVE Over(_, _, _)
Over(e, slots, rel) ==
  IF Contains(slots, e) THEN Column(rel, SelectInSeq(slots, LAMBDA s : s = e))
  ELSE WithOperands(e, [i \in DOMAIN Operands(e) |-> Over(Operands(e)[i], slots, rel)])

\* A projection beneath carries what is repeated and the columns still read.
common_subexpression(p, fresh) ==
  IF p.op # "project" THEN <<>>
  ELSE LET all(F(_)) == FlattenSeq([i \in DOMAIN p.exprs |-> F(p.exprs[i])])
           counted == all(LAMBDA e : count_candidates(e))
           repeated == Once(SelectSeq(counted, LAMBDA e : Occurrences(counted, e) >= 2))
           slots == Once(all(LAMBDA e : collect_columns(e))) \o repeated
           over(s) == [i \in DOMAIN p.exprs |-> Over(p.exprs[i], s, fresh)]
           read == all(LAMBDA e : collect_columns(Over(e, slots, fresh)))
           used == SelectSeq([i \in DOMAIN slots |-> i], LAMBDA i : Contains(read, Column(fresh, i)))
           kept == [k \in DOMAIN used |-> slots[used[k]]]
       IN  IF Len(p.exprs) < 2 \/ repeated = <<>> THEN <<>>
           ELSE <<Project(p.rel, over(kept), Project(fresh, kept, Input(p)))>>

-----------------------------------------------------------------------------
(* Scans that read only what is wanted (projection_pushdown.rs).           *)

RECURSIVE columns_of(_)
columns_of(e) ==
  CASE e.node = "column" -> {<<e.rel, e.index>>}
    [] e.node = "subquery" -> UNION {columns_of(e.value[i]) : i \in DOMAIN e.value}
    [] OTHER -> UNION {columns_of(Operands(e)[i]) : i \in DOMAIN Operands(e)}

\* Every column any expression of the plan reads.
collect_required(p) ==
  LET nodes == Nodes(p)
  IN  UNION {UNION {columns_of(OwnExprs(nodes[n])[i]) : i \in DOMAIN OwnExprs(nodes[n])} :
               n \in DOMAIN nodes}

RECURSIVE prune(_, _)
prune(p, required) ==
  IF p.op # "scan" THEN WithInputs(p, [i \in DOMAIN p.inputs |-> prune(p.inputs[i], required)])
  ELSE LET wanted == {c[2] : c \in {r \in required : r[1] = p.rel}}
       IN  IF Cardinality(wanted) >= Len(p.columns) THEN p
           ELSE [p EXCEPT !.columns = SetToSortSeq(wanted, <)]

projection_pushdown(p) ==
  LET pruned == prune(p, collect_required(p)) IN IF pruned = p THEN <<>> ELSE <<pruned>>

-----------------------------------------------------------------------------
(* What the rules offer at a node: the first that applies.                 *)

Offer(rule, plans) == {[rule |-> rule, plan |-> q] : q \in plans}
First(offers) == LET some == SelectSeq(offers, LAMBDA o : o # {})
                 IN  IF some = <<>> THEN {} ELSE Head(some)

\* What the rules are given: the first id that is free, and the policy.
Context(fresh, decided) == [next |-> fresh, policy |-> decided]
InContext(p, decided) == Context(max_rel_id(p) + 1, decided)

Spent(decided, rule) ==
  CASE rule = "aggregate_pushdown" -> [decided EXCEPT !.pushes = @ - 1]
    [] rule = "join_reorder" -> [decided EXCEPT !.reorders = @ - 1]
    [] OTHER -> decided

After(ctx, rule) == Context(ctx.next + 2, Spent(ctx.policy, rule))

RECURSIVE optimize(_, _, _)

\* What a subquery that reads nothing outside it comes to. It is optimized first, by
\* every rule, for those nested in it; what could not be done about one is forgotten,
\* and the operators built for the plan refuse it.
evaluate(e, ctx) ==
  LET plans == optimize(e.plan, InContext(e.plan, [ctx.policy EXCEPT !.optimizing = TRUE]), 0)
  IN  {IF find_subquery(q) THEN Literal(RAISE) ELSE SubqueryResult(e, Values(q)) : q \in plans}

Evaluated(p, plans) ==
  IF plans = {} THEN Offer("failed", {p}) ELSE Offer("evaluate_subqueries", plans)

\* A subquery that Decorrelate left where it is and that depends on the row.
subqueries(p, ctx) ==
  IF ~HoldsSubquery(p) THEN {}
  ELSE LET e == FirstSubquery(OwnExprs(p))
       IN  IF is_correlated(e.plan) THEN Offer("refused", {p})
           ELSE UNION {Evaluated(p, ToSet(evaluate_subqueries(p, v))) : v \in evaluate(e, ctx)}

mandatory_rules(p, ctx) ==
  First(<<Offer("decorrelate", ToSet(decorrelate(p, ctx.next, ctx.policy.large))), subqueries(p, ctx)>>)

optional_rules(p, is_root, ctx) ==
  First(<<Offer("constant_folding", ToSet(constant_folding(p))),
          Offer("predicate_simplification", ToSet(predicate_simplification(p))),
          Offer("outer_to_inner", ToSet(outer_to_inner(p))),
          Offer("predicate_pushdown", ToSet(predicate_pushdown(p, ctx.next))),
          Offer("limit_pushdown", ToSet(limit_pushdown(p))),
          IF ctx.policy.pushes = 0 THEN {} ELSE Offer("aggregate_pushdown", aggregate_pushdown(p, ctx.next)),
          IF ~is_root \/ ctx.policy.reorders = 0 THEN {} ELSE Offer("join_reorder", join_reorder(p, ctx.next)),
          Offer("common_subexpression", ToSet(common_subexpression(p, ctx.next))),
          IF ~is_root THEN {} ELSE Offer("projection_pushdown", ToSet(projection_pushdown(p)))>>)

RECURSIVE apply_once(_, _, _)
apply_once(p, is_root, ctx) ==
  LET first == IF Len(p.inputs) < 1 THEN {} ELSE apply_once(p.inputs[1], FALSE, ctx)
      second == IF Len(p.inputs) < 2 THEN {} ELSE apply_once(p.inputs[2], FALSE, ctx)
      with(k, o) == [o EXCEPT !.plan = [p EXCEPT !.inputs[k] = o.plan]]
  IN  First(<<{with(1, o) : o \in first}, {with(2, o) : o \in second}, mandatory_rules(p, ctx),
              IF ctx.policy.optimizing THEN optional_rules(p, is_root, ctx) ELSE {}>>)

\* ctx.error is set.
IsError(offer) == offer.rule \in {"refused", "failed"}

\* Mutant of optimize: a subquery is run as it was bound.
optimize_nothing(p, ctx, applied) == {p}

\* Optimizer::optimize in one go: the plans it may end with, its error dropped.
optimize(p, ctx, applied) ==
  LET offers == IF applied = MaxApplications THEN {} ELSE apply_once(p, TRUE, ctx)
  IN  IF offers = {} THEN {p}
      ELSE UNION {IF IsError(o) THEN {p} ELSE optimize(o.plan, After(ctx, o.rule), applied + 1) :
                    o \in offers}

-----------------------------------------------------------------------------
Init ==
  /\ \E k \in DOMAIN Workloads : query \in Workloads[k].queries /\ policy \in Workloads[k].policies
  /\ expected = Outcome(query)
  /\ plan = query
  /\ next = InContext(query, policy).next
  /\ steps = 0 /\ status = "running"

Offers == apply_once(plan, TRUE, Context(next, policy))

\* One rule, one step of the trace.
Rewrite ==
  /\ status = "running"
  /\ \E o \in Offers :
       /\ ~IsError(o)
       /\ plan' = o.plan
       /\ next' = After(Context(next, policy), o.rule).next
       /\ policy' = Spent(policy, o.rule)
  /\ steps' = steps + 1
  /\ status' = IF steps' >= MaxApplications THEN "truncated" ELSE status
  /\ UNCHANGED <<query, expected>>

\* ctx.error: the query is answered with it.
Refuse ==
  /\ status = "running"
  /\ \E o \in Offers : IsError(o) /\ status' = o.rule
  /\ UNCHANGED <<query, expected, plan, next, steps, policy>>

Fixpoint ==
  /\ status = "running"
  /\ Offers = {}
  /\ status' = "done"
  /\ UNCHANGED <<query, expected, plan, next, steps, policy>>

Next == Rewrite \/ Refuse \/ Fixpoint

Spec == Init /\ [][Next]_vars

-----------------------------------------------------------------------------
(* Properties.                                                             *)

\* The columns available above a plan, and whether each expression reads only
\* those beneath it (or of `outer`, the row of the query around a subquery).
Available(p) ==
  UNION {{<<Layout(p)[k].rel, i>> : i \in ToSet(Layout(p)[k].at)} : k \in DOMAIN Layout(p)}

RECURSIVE Resolves(_, _), ExprResolves(_, _)
ExprResolves(e, columns) ==
  CASE e.node = "column" -> <<e.rel, e.index>> \in columns
    [] e.node = "subquery" -> /\ Resolves(e.plan, columns)
                              /\ \A i \in DOMAIN e.value : ExprResolves(e.value[i], columns)
    [] OTHER -> \A i \in DOMAIN Operands(e) : ExprResolves(Operands(e)[i], columns)
Resolves(p, outer) ==
  LET beneath == outer \cup UNION {Available(p.inputs[i]) : i \in DOMAIN p.inputs}
  IN  /\ \A i \in DOMAIN p.inputs : Resolves(p.inputs[i], outer)
      /\ \A i \in DOMAIN OwnExprs(p) : ExprResolves(OwnExprs(p)[i], beneath)

\* No rewrite, and no order of rewrites, leaves an expression that reads a column
\* a rule has pruned, moved or renamed away beneath it, nor two relations of one
\* name (with_children, prune, rewrite_columns, RelIdAllocator).
ColumnsResolve ==
  LET named == SelectSeq(Nodes(plan), LAMBDA n : n.op \in {"scan", "aggregate", "project"})
  IN  /\ Resolves(plan, {})
      /\ \A i, j \in DOMAIN named : named[i].rel = named[j].rel => i = j

\* Every plan on the way answers the query as it was bound: the same rows as often,
\* with no error that was not there (evaluator_agreement.rs runs every query both
\* ways to find a rule that changes an answer).
AnswerKept == expected # RAISE /\ status \notin {"refused", "failed"} => Outcome(plan) = expected

\* The relations a plan reads from the query around it, wherever it is nested.
RECURSIVE FreeOf(_), FreeOfExpr(_)
FreeOfExpr(e) ==
  CASE e.node = "column" -> {e.rel}
    [] e.node = "subquery" -> FreeOf(e.plan) \cup UNION {FreeOfExpr(e.value[i]) : i \in DOMAIN e.value}
    [] OTHER -> UNION {FreeOfExpr(Operands(e)[i]) : i \in DOMAIN Operands(e)}
FreeOf(p) ==
  (UNION {FreeOfExpr(OwnExprs(p)[i]) : i \in DOMAIN OwnExprs(p)}
     \ {c[1] : c \in UNION {Available(p.inputs[i]) : i \in DOMAIN p.inputs}})
  \cup UNION {FreeOf(p.inputs[i]) : i \in DOMAIN p.inputs}

RECURSIVE SubqueriesIn(_)
SubqueriesIn(e) == IF e.node = "subquery" THEN <<e>>
                   ELSE FlattenSeq([i \in DOMAIN Operands(e) |-> SubqueriesIn(Operands(e)[i])])

SubqueriesOf(p) ==
  UNION {UNION {ToSet(SubqueriesIn(OwnExprs(Nodes(p)[n])[i])) : i \in DOMAIN OwnExprs(Nodes(p)[n])} :
           n \in DOMAIN Nodes(p)}

\* A query is refused only for a subquery that does read a row around it: one that
\* does not is supported anywhere (the hint of Engine::optimize), at any depth.
OnlyTheCorrelatedIsRefused ==
  status = "refused" => \E e \in SubqueriesOf(plan) : FreeOf(e.plan) # {}

\* A subquery that reads no row around it fails only as it would when run as it was
\* bound: those nested in it are resolved first (the comment in evaluate), but for a
\* scalar one that reads its rows, which no rule can do anything about.
SubqueriesAreEvaluated ==
  status = "failed" =>
    \E e \in SubqueriesOf(plan) :
      /\ FreeOf(e.plan) = {}
      /\ \/ SubqueryResult(e, Values(e.plan)) = Literal(RAISE)
         \/ \E s \in SubqueriesOf(e.plan) : s.kind = "scalar" /\ FreeOf(s.plan) # {}

\* The rules come to an end, whatever the order they meet in, before the cap that
\* is there for rules undoing one another; and then no subquery is left for an
\* executor that cannot run one.
ReachesAFixpoint == status # "truncated" /\ (status = "done" => ~find_subquery(plan))
==============================================================================
