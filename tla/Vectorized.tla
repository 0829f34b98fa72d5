------------------------------ MODULE Vectorized ------------------------------
(***************************************************************************)
(* The evaluator queries run on, expr/vector.rs: a batch at a time, every  *)
(* node one column.  A bitmap is the set of its positions that are set; a  *)
(* column that needs no validity bitmap has all of its positions valid.    *)
(* What a column holds where it is not valid is filler, and the kernels    *)
(* read it like any other value.                                           *)
(***************************************************************************)
EXTENDS Expressions, FiniteSets

Filler == 0

\* A column, dense: a slot for every row, and which of them are valid.
ColumnOf(slots, valid) == [slots |-> slots, valid |-> valid, typed |-> TRUE]
Bools(n, bits, valid) == ColumnOf([i \in 1..n |-> Bool(i \in bits)], valid)
\* ColumnData::Null: rows of no type.
Nulls(n) == [ColumnOf([i \in 1..n |-> NULL], {}) EXCEPT !.typed = FALSE]

ValueAt(col, i) == IF i \in col.valid THEN col.slots[i] ELSE NULL
LengthOf(col) == Len(col.slots)

\* ColumnBuilder: append the values, a NULL with its filler.
Build(values) ==
  ColumnOf([i \in DOMAIN values |-> IF values[i] = NULL THEN Filler ELSE values[i]],
           {i \in DOMAIN values : values[i] # NULL})

-----------------------------------------------------------------------------
(* Batches: physical columns and the positions that are live, in order.    *)

Rows(batch) == Len(batch.selection)

\* Selection::select: the live positions that `keep` names, of the same columns.
Filter(batch, keep) ==
  [batch EXCEPT !.selection = [i \in DOMAIN keep |-> batch.selection[keep[i]]]]

\* Column::slice and Column::take, through the selection.
TakeColumn(batch, at) ==
  LET col == batch.columns[at]
      live == batch.selection
  IN  [col EXCEPT !.slots = [i \in DOMAIN live |-> @[live[i]]],
                  !.valid = {i \in DOMAIN live : live[i] \in @}]

\* EvalContext: where in the batch each column of a relation is; 0 is "pruned".
Projected(rel, width, projection) ==
  [width |-> Len(projection),
   rels |-> <<[rel |-> rel,
               at |-> [i \in 1..width |->
                         IF i \in ToSet(projection)
                         THEN CHOOSE p \in DOMAIN projection : projection[p] = i ELSE 0]]>>]

\* Two relations side by side, a join's output.
Concat(l, r) ==
  [width |-> l.width + r.width,
   rels |-> l.rels \o [k \in DOMAIN r.rels |->
              [r.rels[k] EXCEPT !.at = [i \in DOMAIN @ |->
                                          IF @[i] = 0 THEN 0 ELSE @[i] + l.width]]]]

Position(ctx, rel, index) ==
  LET k == SelectInSeq(ctx.rels, LAMBDA r : r.rel = rel) IN ctx.rels[k].at[index]

\* compile(): the same tree with every column resolved to a position.
RECURSIVE Compile(_, _)
Compile(e, ctx) ==
  LET all(es) == [i \in DOMAIN es |-> Compile(es[i], ctx)]
  IN  CASE e.node = "column" -> [node |-> "column", at |-> Position(ctx, e.rel, e.index)]
        [] e.node = "literal" -> e
        [] e.node = "binary" ->
             [e EXCEPT !.left = Compile(e.left, ctx), !.right = Compile(e.right, ctx)]
        [] e.node \in {"unary", "is null", "cast"} -> [e EXCEPT !.expr = Compile(e.expr, ctx)]
        [] e.node = "between" -> [e EXCEPT !.expr = Compile(e.expr, ctx),
                                           !.low = Compile(e.low, ctx),
                                           !.high = Compile(e.high, ctx)]
        [] e.node = "in" -> [e EXCEPT !.expr = Compile(e.expr, ctx), !.list = all(e.list)]
        [] e.node = "like" -> [e EXCEPT !.expr = Compile(e.expr, ctx),
                                        !.pattern = Compile(e.pattern, ctx),
                                        !.escape = all(e.escape)]
        [] e.node = "case" -> [e EXCEPT !.whens = [i \in DOMAIN e.whens |-> all(e.whens[i])],
                                        !.otherwise = all(e.otherwise)]

-----------------------------------------------------------------------------
(* Kernels.  A column is RAISE when its evaluation ended in an error.      *)

ConstantColumn(v, n) == IF v = NULL THEN Nulls(n) ELSE ColumnOf([i \in 1..n |-> v], 1..n)

\* The machine's comparison of two slots: a NaN is unequal, and neither less nor more.
Holds(op, a, b) ==
  IF NaN \in {a, b} THEN op = "<>" ELSE CompareOp(op, a, b) = "true"

Unordered(col) == {i \in DOMAIN col.slots : col.slots[i] = NaN}

\* `column OP constant`: only the column's own NaN make an answer unknown.
CompareScalar(col, op, v) ==
  LET n == LengthOf(col)
  IN  IF v = NULL THEN Bools(n, {}, {})
      ELSE Bools(n, {i \in 1..n : Holds(op, col.slots[i], v)}, col.valid \ Unordered(col))

\* Without a kernel, here for a column of nothing but NULLs, by value.
CompareOperands(op, l, r) ==
  LET n == LengthOf(l)
  IN  IF ~(l.typed /\ r.typed)
      THEN Bools(n, {i \in 1..n : Comparison(op, ValueAt(l, i), ValueAt(r, i)) = True},
                 l.valid \cap r.valid)
      ELSE Bools(n, {i \in 1..n : Holds(op, l.slots[i], r.slots[i])},
                 (l.valid \cap r.valid) \ (Unordered(l) \cup Unordered(r)))

Flip(op) ==
  CASE op = "<" -> ">" [] op = "<=" -> ">=" [] op = ">" -> "<" [] op = ">=" -> "<="
    [] OTHER -> op

\* Three-valued NOT: flip the values, keep the validity.
NegateColumn(col) ==
  IF ~col.typed THEN col ELSE [col EXCEPT !.slots = [i \in DOMAIN @ |-> Negate(@[i])]]

BoolBits(col) == {i \in DOMAIN col.slots : col.slots[i] = True}

\* A FALSE of either side settles AND, a TRUE settles OR, whatever the other is.
BooleanOp(op, l, r) ==
  LET n == LengthOf(l)
      lv == BoolBits(l)
      rv == BoolBits(r)
      both == l.valid \cap r.valid
  IN  IF op = "AND"
      THEN Bools(n, lv \cap rv, both \cup (l.valid \ lv) \cup (r.valid \ rv))
      ELSE Bools(n, lv \cup rv, both \cup (l.valid \cap lv) \cup (r.valid \cap rv))

\* Nothing is raised on behalf of a row that is NULL.
ArithmeticColumns(type, op, l, r) ==
  LET live == l.valid \cap r.valid
      n == LengthOf(l)
      at == [i \in 1..n |-> IF i \in live THEN ArithmeticOf(type, op, l.slots[i], r.slots[i])
                            ELSE Filler]
  IN  IF ~(l.typed /\ r.typed) THEN Nulls(n)
      ELSE IF RAISE \in ToSet(at) THEN RAISE
      ELSE ColumnOf(at, live)

\* Unary minus runs over the filler too, which is 0 and cannot overflow.
MinusColumn(type, col) ==
  LET at == [i \in DOMAIN col.slots |-> UnaryOf("-", type, col.slots[i])]
  IN  IF ~col.typed THEN col
      ELSE IF RAISE \in ToSet(at) THEN RAISE
      ELSE [col EXCEPT !.slots = at]

-----------------------------------------------------------------------------
(* eval_node.                                                              *)

RECURSIVE EvalNode(_, _)

\* The rows where a predicate is TRUE; RAISE if it raises.
EvalPredicate(e, batch) ==
  LET col == EvalNode(e, batch)
  IN  IF col = RAISE THEN RAISE
      ELSE SetToSortSeq(BoolBits(col) \cap col.valid, <)

\* Mutant of EvalConjunction: the right side over the whole batch whenever rows are left.
EvalConjunctionEagerly(e, batch) ==
  LET l == EvalNode(e.left, batch)
      r == EvalNode(e.right, batch)
  IN  IF RAISE \in {l, r} THEN RAISE ELSE BooleanOp(e.op, l, r)

\* The right side runs only over the rows the left leaves undecided, unless it
\* cannot raise and enough rows are left for the whole batch to be cheaper.
EvalConjunction(e, batch) ==
  LET n == Rows(batch)
      l == EvalNode(e.left, batch)
  IN  IF l = RAISE THEN RAISE
      ELSE LET decided == IF e.op = "AND" THEN l.valid \ BoolBits(l)
                          ELSE l.valid \cap BoolBits(l)
               keep == SetToSortSeq(1..n \ decided, <)
               worth_narrowing == CanRaise(e.right) \/ Len(keep) * 2 < n
           IN  IF keep = <<>> THEN Bools(n, BoolBits(l), l.valid)
               ELSE IF ~worth_narrowing \/ Len(keep) = n
               THEN LET r == EvalNode(e.right, batch)
                    IN  IF r = RAISE THEN RAISE ELSE BooleanOp(e.op, l, r)
               ELSE LET sub == EvalNode(e.right, Filter(batch, keep))
                        at(S) == {keep[j] : j \in S}
                    IN  IF sub = RAISE THEN RAISE
                        ELSE BooleanOp(e.op, l,
                               Bools(n, at(BoolBits(sub) \cap sub.valid), at(sub.valid)))

CompareColumns(op, left, right, batch) ==
  IF left.node = "column" /\ right.node = "literal"
  THEN CompareScalar(TakeColumn(batch, left.at), op, right.value)
  ELSE IF left.node = "literal" /\ right.node = "column"
  THEN CompareScalar(TakeColumn(batch, right.at), Flip(op), left.value)
  ELSE LET l == EvalNode(left, batch)
           r == EvalNode(right, batch)
       IN  IF RAISE \in {l, r} THEN RAISE ELSE CompareOperands(op, l, r)

\* An item that is NULL in some row of the batch makes every row of it unmatched
\* unknown; a NULL that is a literal has the same effect and is not compared.
EvalInListColumns(e, batch) ==
  LET n == Rows(batch)
      value == EvalNode(e.expr, batch)
      item(i) == e.list[i]
      column == [i \in DOMAIN e.list |-> EvalNode(item(i), batch)]
      null == {i \in DOMAIN e.list : item(i).node = "literal" /\ item(i).value = NULL}
      equal(i) == IF item(i).node = "literal"
                  THEN CompareScalar(value, "=", item(i).value)
                  ELSE CompareOperands("=", value, column[i])
      matched == UNION {BoolBits(equal(i)) \cap equal(i).valid : i \in DOMAIN e.list \ null}
      list_has_null == null # {} \/ \E i \in DOMAIN e.list : column[i].valid # 1..n
  IN  IF e.list = <<>> THEN Bools(n, IF e.negated THEN 1..n ELSE {}, 1..n)
      ELSE IF value = RAISE \/ RAISE \in ToSet(column) THEN RAISE
      ELSE Bools(n, IF e.negated THEN 1..n \ matched ELSE matched,
                 value.valid \cap (IF list_has_null THEN matched ELSE 1..n))

EvalLikeRows(e, batch) ==
  LET columns == [i \in DOMAIN Operands(e) |-> EvalNode(Operands(e)[i], batch)]
      result == [i \in 1..Rows(batch) |->
                   LikeOf(ValueAt(columns[1], i), ValueAt(columns[2], i),
                          [k \in 1..Len(columns) - 2 |-> ValueAt(columns[k + 2], i)],
                          e.negated)]
  IN  IF RAISE \in ToSet(columns) THEN RAISE
      ELSE IF RAISE \in ToSet(result) THEN RAISE
      ELSE Build(result)

EvalCastRows(e, batch) ==
  LET col == EvalNode(e.expr, batch)
      result == [i \in 1..Rows(batch) |-> CastOf(ValueAt(col, i), e.from, e.to)]
  IN  IF col = RAISE THEN RAISE
      ELSE IF RAISE \in ToSet(result) THEN RAISE
      ELSE Build(result)

\* The branches of a CASE in order, each over the rows no earlier one took; what
\* is left takes the ELSE.  The result is each row's value, or RAISE.
RECURSIVE EvalBranches(_, _, _, _, _)
EvalBranches(whens, otherwise, batch, remaining, result) ==
  LET over(e, rows) ==
        LET col == EvalNode(e, Filter(batch, rows))
        IN  IF col = RAISE THEN RAISE
            ELSE [i \in DOMAIN result |->
                    IF i \in ToSet(rows)
                    THEN ValueAt(col, CHOOSE k \in DOMAIN rows : rows[k] = i)
                    ELSE result[i]]
  IN  IF remaining = <<>> \/ (whens = <<>> /\ otherwise = <<>>) THEN result
      ELSE IF whens = <<>> THEN over(otherwise[1], remaining)
      ELSE LET local == EvalPredicate(Head(whens)[1], Filter(batch, remaining))
           IN  IF local = RAISE THEN RAISE
               ELSE LET taken == [k \in DOMAIN local |-> remaining[local[k]]]
                        filled == IF taken = <<>> THEN result ELSE over(Head(whens)[2], taken)
                    IN  IF filled = RAISE THEN RAISE
                        ELSE EvalBranches(Tail(whens), otherwise, batch,
                               SelectSeq(remaining, LAMBDA r : r \notin ToSet(taken)), filled)

EvalCaseRows(e, batch) ==
  LET n == Rows(batch)
      result == EvalBranches(e.whens, e.otherwise, batch, [i \in 1..n |-> i],
                             [i \in 1..n |-> NULL])
  IN  IF result = RAISE THEN RAISE ELSE Build(result)

EvalNode(e, batch) ==
  LET n == Rows(batch)
  IN  CASE e.node = "column" -> TakeColumn(batch, e.at)
        [] e.node = "literal" -> ConstantColumn(e.value, n)
        [] e.node = "binary" /\ e.op \in LogicalOps -> EvalConjunction(e, batch)
        [] e.node = "binary" /\ e.op \in ComparisonOps ->
             CompareColumns(e.op, e.left, e.right, batch)
        [] e.node = "binary" ->
             LET l == EvalNode(e.left, batch)
                 r == EvalNode(e.right, batch)
             IN  IF RAISE \in {l, r} THEN RAISE ELSE ArithmeticColumns(e.type, e.op, l, r)
        [] e.node = "between" ->
             LET ge == CompareColumns(">=", e.expr, e.low, batch)
                 le == CompareColumns("<=", e.expr, e.high, batch)
                 inside == BooleanOp("AND", ge, le)
             IN  IF RAISE \in {ge, le} THEN RAISE
                 ELSE IF e.negated THEN NegateColumn(inside) ELSE inside
        [] e.node = "in" -> EvalInListColumns(e, batch)
        [] e.node = "like" -> EvalLikeRows(e, batch)
        [] e.node = "case" -> EvalCaseRows(e, batch)
        [] e.node = "cast" -> EvalCastRows(e, batch)
        [] OTHER ->
             LET col == EvalNode(e.expr, batch)
             IN  CASE col = RAISE -> RAISE
                   [] e.node = "is null" ->
                        Bools(n, IF e.negated THEN col.valid ELSE 1..n \ col.valid, 1..n)
                   [] e.op = "NOT" -> NegateColumn(col)
                   [] e.op = "-" -> MinusColumn(e.type, col)
                   [] OTHER -> col
-----------------------------------------------------------------------------
(* One evaluation of an expression over a batch, by both evaluators.       *)

CONSTANT Jobs   \* the inputs, as a sequence of sets of one form each

VARIABLES
  job,     \* the input
  result   \* what came of it, as a sequence: empty before it ran

vars == <<job, result>>

Init ==
  /\ \E k \in DOMAIN Jobs : job \in Jobs[k]
  /\ result = <<>>

Evaluate ==
  /\ result = <<>>
  /\ result' = LET e == Compile(job.expr, job.ctx)
               IN  <<[column |-> EvalNode(e, job.batch),
                      kept |-> IF job.predicate THEN EvalPredicate(e, job.batch) ELSE <<>>]>>
  /\ UNCHANGED job

Next == Evaluate
Spec == Init /\ [][Next]_vars

-----------------------------------------------------------------------------
\* The reference evaluator's row: each relation's columns through the layout.
RowOf(i) ==
  [rel \in {job.ctx.rels[k].rel : k \in DOMAIN job.ctx.rels} |->
     [c \in 1..job.widths[rel] |->
        LET at == Position(job.ctx, rel, c)
        IN  IF at = 0 THEN NULL ELSE ValueAt(TakeColumn(job.batch, at), i)]]

Reference == [i \in 1..Rows(job.batch) |-> Eval(job.expr, RowOf(i))]

\* tests/evaluator_agreement.rs: the same value in every row, and an error of
\* one evaluator is an error of the other.
EvaluatorsAgree ==
  \A k \in DOMAIN result :
    IF RAISE \in ToSet(Reference) THEN result[k].column = RAISE
    ELSE /\ result[k].column # RAISE
         /\ [i \in 1..Rows(job.batch) |-> ValueAt(result[k].column, i)] = Reference
         /\ job.predicate =>
              result[k].kept = SelectSeq([i \in 1..Rows(job.batch) |-> i],
                                      LAMBDA i : Reference[i] = True)

\* What rewrites and narrowing rely on: an expression raises only if it says so.
RaisesOnlyIfItCan ==
  \A k \in DOMAIN result : result[k].column = RAISE => CanRaise(job.expr)
==============================================================================
