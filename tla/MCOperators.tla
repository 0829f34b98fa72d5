------------------------------ MODULE MCOperators ------------------------------
(***************************************************************************)
(* Small plans for every operator, with batches of two rows.               *)
(*                                                                         *)
(* Joins: up to three left and two or three right rows, by one key or two, *)
(* NULLs and NaN among them, in no known order or sorted with NULLs first  *)
(* or last on either side, ascending or descending (where a merge join is  *)
(* out of step and has only to end); the algorithm is left to build_join   *)
(* or forced, the residual TRUE of every pair or of some.  Sorts: three    *)
(* rows of two columns; for a top-N, limits from no row to all.            *)
(* Aggregates: up to four rows, arriving grouped or not, and sums that     *)
(* overflow.  Set operations: three rows a side, so that a key has several *)
(* copies on each and a batch ends between them.  Windows: up to three     *)
(* rows in two partitions, or four in one, with ties.                      *)
(***************************************************************************)
EXTENDS Operators

MCNumber == 1..2
MCRepresentable == -8..8
MCInt64 == -6..6

By(columns, ascending, nulls_first) ==
  [i \in DOMAIN columns |->
     [column |-> columns[i], ascending |-> ascending, nulls_first |-> nulls_first]]

UpTo(n, S) == UNION {[1..k -> S] : k \in 0..n}
OneColumn(values, n) == UpTo(n, {<<v>> : v \in values})

Residuals ==
  {(0..3) \X (0..3), {p \in (0..3) \X (0..3) : (p[1] + p[2]) % 2 = 0}}

Equi(n, bare) == [i \in 1..n |-> [left |-> i, right |-> i, bare |-> bare]]

Cases(types, lefts, rights, left_order, right_order, equi, algorithm) ==
  {[kind |-> "join", type |-> type, left |-> a, right |-> b, left_order |-> left_order,
    right_order |-> right_order, equi |-> equi, residual |-> residual,
    algorithm |-> algorithm] :
     type \in types, a \in {s \in lefts : Arrives(s, left_order)},
     b \in {s \in rights : Arrives(s, right_order)}, residual \in Residuals}

Keyed == JoinType \ {"cross"}
Ascending == {By(<<1>>, TRUE, nulls_first) : nulls_first \in BOOLEAN}

\* A few inputs by two columns, sorted on both.
TwoColumns ==
  {<<<<1, NULL>>, <<1, 1>>, <<2, 1>>>>, <<<<1, 1>>, <<1, 2>>, <<2, NULL>>>>,
   <<<<NULL, 1>>, <<1, 2>>>>, <<>>}

SortedJoins ==
  UNION {Cases(Keyed, {s \in OneColumn({1, 2, NULL}, 3) : Len(s) = 3 => s[1] = s[2]},
               OneColumn({1, NULL}, 2) \cup {<<<<1>>, <<1>>, <<2>>>>},
               lo, ro, Equi(1, TRUE), "Auto") :
           lo \in Ascending, ro \in Ascending}

\* Both sides in descending order, and NaN where a merge join meets it.
DescendingJoins(lefts, rights) ==
  UNION {Cases(Keyed, lefts, rights, order, order, Equi(1, TRUE), "Auto") :
           order \in {By(<<1>>, FALSE, nulls_first) : nulls_first \in BOOLEAN}}

OutOfStepJoins ==
  DescendingJoins(OneColumn({1, 2, NaN}, 2), OneColumn({1, 2, NULL}, 2))
  \cup Cases(Keyed, {<<<<2>>, <<NaN>>>>, <<<<NaN>>, <<1>>>>}, {<<<<NaN>>, <<2>>, <<NULL>>>>, <<<<1>>>>},
             <<>>, <<>>, Equi(1, TRUE), "ForceMergeJoin")

UnsortedJoins ==
  UNION {Cases(Keyed, {<<>>, <<<<2>>, <<1>>, <<1>>>>, <<<<NaN>>, <<1>>, <<NULL>>>>},
               {<<>>, <<<<1>>, <<2>>, <<1>>>>, <<<<2>>, <<NULL>>, <<2>>>>},
               <<>>, <<>>, equi, "Auto") :
           equi \in {<<>>, Equi(1, TRUE), Equi(1, FALSE)}}

ForcedJoins ==
  UNION {Cases(Keyed, {<<>>, <<<<2>>, <<1>>, <<1>>>>, <<<<2>>, <<NULL>>, <<2>>>>},
               {<<>>, <<<<1>>, <<2>>, <<1>>>>, <<<<NULL>>, <<2>>>>},
               <<>>, <<>>, Equi(1, TRUE), algorithm) :
           algorithm \in {"ForceMergeJoin", "ForceNestedLoop"}}

TwoColumnJoins ==
  UNION {Cases(Keyed, TwoColumns, TwoColumns, order, order, Equi(2, TRUE), "Auto") :
           order \in {<<>>, By(<<1, 2>>, TRUE, TRUE), By(<<2, 1>>, TRUE, TRUE)}}

CrossJoins == Cases({"cross"}, OneColumn({1}, 3), OneColumn({1}, 2), <<>>, <<>>, <<>>, "Auto")

\* Sort keys: one column either way, or two that disagree on direction.
SortKeys ==
  {By(<<1>>, ascending, nulls_first) : ascending \in BOOLEAN, nulls_first \in BOOLEAN}
  \cup {By(<<1>>, TRUE, TRUE) \o By(<<2>>, FALSE, FALSE)}

Sorts ==
  {[kind |-> "sort", input |-> input, keys |-> keys] :
     input \in UpTo(3, {1, 2, NULL, NaN} \X {1, 2}), keys \in SortKeys}

TopNs ==
  {[kind |-> "top-n", input |-> input, keys |-> keys, limit |-> limit] :
     input \in UpTo(3, {1, 2, NULL} \X {1}) \cup UpTo(3, {1, NULL} \X {1, 2})
              \cup UpTo(4, {1, 2} \X {1}),
     keys \in SortKeys, limit \in 0..3}

Grouping(inputs, group_by, order, bare, forcing, funcs, column, distincts, integer) ==
  {[kind |-> "aggregate", input |-> input, order |-> order, group_by |-> group_by,
    bare |-> bare, func |-> func, column |-> column, distinct |-> distinct,
    integer |-> integer, forced |-> forced] :
     input \in {i \in inputs : Arrives(i, order)}, forced \in forcing, func \in funcs,
     distinct \in distincts}

GroupInputs ==
  UpTo(3, {1, 2, NULL} \X {1, NULL}) \cup UpTo(2, {1, NULL} \X {1, 2}) \cup UpTo(4, {1, NULL} \X {2})

Aggregates ==
  UNION {Grouping(GroupInputs, <<1>>, order, TRUE, BOOLEAN, {"sum"}, 2, BOOLEAN, TRUE) :
           order \in {<<>>, By(<<1, 2>>, FALSE, FALSE), By(<<2, 1>>, TRUE, TRUE)}}
  \cup Grouping(UpTo(3, {1, NaN} \X {1, NaN, NULL}), <<1>>, <<>>, TRUE, {FALSE},
                {"avg", "min", "max"}, 2, {FALSE}, FALSE)
  \cup Grouping(UpTo(3, {1} \X {1, 2, NULL}), <<>>, <<>>, TRUE, BOOLEAN,
                AggregateFunction, 2, {FALSE}, TRUE)
  \cup Grouping(UpTo(3, {1, NULL} \X {1, NULL}), <<1>>, By(<<1>>, TRUE, TRUE), FALSE, {FALSE},
                {"count"}, 0, {FALSE}, FALSE)

Sets ==
  {[kind |-> "set", op |-> op, all |-> all, left |-> l, right |-> r] :
     op \in {"union", "intersect", "except"}, all \in BOOLEAN,
     l \in OneColumn({1, NULL}, 3) \cup OneColumn({1, 2, NaN}, 2),
     r \in OneColumn({1, NULL}, 3)}

Distincts == {[kind |-> "distinct", left |-> l] : l \in OneColumn({1, NULL, NaN}, 4)}

Frames ==
  {[units |-> "range", start |-> -Unbounded, end |-> 0],
   [units |-> "range", start |-> 0, end |-> Unbounded],
   [units |-> "rows", start |-> -Unbounded, end |-> Unbounded],
   [units |-> "rows", start |-> -1, end |-> 0],
   [units |-> "rows", start |-> 1, end |-> 2],
   [units |-> "rows", start |-> -2, end |-> -1]}

WholePartition == [units |-> "rows", start |-> -Unbounded, end |-> Unbounded]

Windows(inputs, partition_by, order_by, funcs, column, offset, default, frames) ==
  {[kind |-> "window", input |-> input, partition_by |-> partition_by, order_by |-> order_by,
    func |-> func, column |-> column, offset |-> offset, default |-> default, frame |-> frame] :
     input \in inputs, func \in funcs, frame \in frames}

\* No sum of these is too large: one saturates where an aggregate fails.
WindowInputs == UpTo(3, {1, NULL} \X {1, 2, NULL})

Windowed ==
  UNION {Windows(WindowInputs, <<1>>, By(<<2>>, ascending, ascending),
                 {"row_number", "rank", "dense_rank"}, 0, 0, 0, {WholePartition}) :
           ascending \in BOOLEAN}
  \cup Windows(WindowInputs, <<1>>, By(<<2>>, TRUE, TRUE), {"sum"}, 2, 0, 0, Frames)
  \cup Windows(UpTo(4, {1} \X {1, 2}), <<>>, By(<<2>>, TRUE, TRUE), {"count"}, 0, 0, 0, Frames)
  \cup Windows(UpTo(3, {1, 2} \X {1, 2}), <<1>>, <<>>, {"count", "avg", "min", "max"}, 2, 0, 0,
               {WholePartition})
  \cup UNION {Windows(UpTo(3, {1} \X {1, 2, NULL} \X {2}), <<1>>, By(<<2>>, TRUE, FALSE),
                      {"lag", "lead"}, 2, offset, default, {WholePartition}) :
                offset \in {0, 3}, default \in {0, 1}}

MCInputs(kind) ==
  CASE kind = "join" ->
         SortedJoins \cup OutOfStepJoins \cup UnsortedJoins \cup ForcedJoins \cup TwoColumnJoins
           \cup CrossJoins
    [] kind = "sort" -> Sorts
    [] kind = "top-n" -> TopNs
    [] kind = "aggregate" -> Aggregates
    [] kind = "set" -> Sets
    [] kind = "distinct" -> Distincts
    [] kind = "window" -> Windowed

\* Joins of two sides sorted in descending order, and nothing else.
MCDescending(kind) ==
  IF kind = "join" THEN DescendingJoins(OneColumn({1, 2}, 2), OneColumn({1, 2}, 2)) ELSE {}
================================================================================
