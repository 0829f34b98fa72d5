-------------------------------- MODULE Sorting --------------------------------
(***************************************************************************)
(* The operators that put their whole input in order.  exec/sort.rs:       *)
(* SortExec returns it sorted, TopNExec keeps the rows a LIMIT above the   *)
(* sort can still return in a heap of that many.  exec/window.rs: the      *)
(* input is sorted by partition and order keys, cut into partitions and    *)
(* peer groups, and a function computed for each row over its partition or *)
(* its frame.  Functions of one window do not touch each other, so a plan  *)
(* has one.                                                                *)
(***************************************************************************)
EXTENDS Operator, FiniteSetsExt

VARIABLE heap   \* the rows of the input a top-N holds

Sort ==
  [kind : {"sort"}, input : Seq(Row), keys : Seq(OrderKey)]

\* limit is skip + fetch of the limit above.
TopN ==
  [kind : {"top-n"}, input : Seq(Row), keys : Seq(OrderKey), limit : Nat]

\* A row has the columns of the keys.  No key of a top-N is NaN, which its heap
\* takes for a tie and the sort it replaces does not.
ASSUME SortAssumption ==
  \A kind \in {"sort", "top-n"} : \A p \in Inputs(kind) :
    /\ p \in Sort \cup TopN
    /\ \A r \in DOMAIN p.input, k \in DOMAIN p.keys :
         LET value == p.input[r][p.keys[k].column]
         IN  value \in Datum /\ (p.kind = "top-n" => value # NaN)

\* SortExec::build.
SortBuild ==
  /\ plan.kind = "sort"
  /\ ~ built
  /\ built' = TRUE
  /\ at' = Len(plan.input)
  /\ rows' = sort(plan.input, plan.keys)
  /\ UNCHANGED <<emitted, heap, operatorVars>>

\* The heap orders two values as types::compare does, and takes for a tie what
\* that does not order.
CompareHeapKey(a, b, spec) ==
  IF NaN \in {a, b} /\ NULL \notin {a, b} THEN "equal" ELSE CompareKey(a, b, spec)

compare_key_values(a, b) ==
  Lexicographic([i \in DOMAIN plan.keys |->
    LET column == plan.keys[i].column
    IN  CompareHeapKey(plan.input[a][column], plan.input[b][column], plan.keys[i])])

\* Mutant of Worst: the heap is upside down.
Worst_best(candidates) ==
  {w \in candidates : \A o \in candidates : compare_key_values(o, w) # "less"}

\* What a binary heap may have at its top: of rows that tie, any.
Worst(candidates) ==
  {w \in candidates : \A o \in candidates : compare_key_values(o, w) # "greater"}

Admits(row, worst) == compare_key_values(row, worst) = "less"

\* One row of the loop in TopNExec::build; a heap of no places admits nothing.
TopNRow ==
  /\ plan.kind = "top-n"
  /\ ~ built
  /\ at < Len(plan.input)
  /\ at' = at + 1
  /\ IF Cardinality(heap) < plan.limit THEN heap' = heap \cup {at'}
     ELSE IF heap = {} THEN UNCHANGED heap
     ELSE \E worst \in Worst(heap) :
            heap' = IF Admits(at', worst) THEN (heap \ {worst}) \cup {at'} ELSE heap
  /\ UNCHANGED <<builtVars, operatorVars>>

\* Mutant of Drained: the rows are left as they came off the heap.
Drained_not_reversed(order) ==
  \A i \in DOMAIN order : order[i] \in Worst({order[k] : k \in i..Len(order)})

\* The heap gives up its worst row first, and the rows are reversed.
Drained(order) == \A i \in DOMAIN order : order[i] \in Worst({order[k] : k \in 1..i})

TopNBuilt ==
  /\ plan.kind = "top-n"
  /\ ~ built
  /\ at = Len(plan.input)
  /\ built' = TRUE
  /\ rows' \in {order \in SetToSeqs(heap) : Drained(order)}
  /\ UNCHANGED <<at, emitted, heap, operatorVars>>

SortStep ==
  \/ SortBuild
  \/ TopNRow
  \/ TopNBuilt
  \/ plan.kind \in {"sort", "top-n"} /\ (EmitBuilt \/ EndBuilt) /\ UNCHANGED heap
-----------------------------------------------------------------------------
Tied(a, b) == compare_rows(plan.input[a], plan.input[b], plan.keys) = "equal"

\* The first rows of the sorted input, but for the choice among rows that tie.
IsTop(order, n) ==
  LET sorted == sort(SubSeq(plan.input, 1, n), plan.keys)
  IN  /\ Len(order) <= Len(sorted)
      /\ Cardinality(ToSet(order)) = Len(order)
      /\ \A i \in DOMAIN order : order[i] \in 1..n /\ Tied(order[i], sorted[i])

(***************************************************************************)
(* A sort returns its input in stable order.  A top-N returns rows that    *)
(* tie with the first rows of that order, one for one, as a LIMIT above    *)
(* the sort would: the heap is "only an optimization".                     *)
(***************************************************************************)
SortReturnsTheAnswer ==
  CASE plan.kind = "sort" ->
         /\ IsPrefix(out, sort(plan.input, plan.keys))
         /\ status = "done" => Len(out) = Len(plan.input)
    [] plan.kind = "top-n" ->
         /\ IsTop(out, Len(plan.input))
         /\ status = "done" => Len(out) = Lesser(plan.limit, Len(plan.input))
    [] OTHER -> TRUE

(***************************************************************************)
(* The heap of a top-N holds, after every row, as many rows as the limit   *)
(* asks for, and the best of those read: whatever it gave up could not     *)
(* have been returned.  (TopNExec's comment: only the rows "that could     *)
(* still make the cut".)                                                   *)
(***************************************************************************)
HeapHoldsTheBest ==
  plan.kind = "top-n" =>
    /\ Cardinality(heap) = Lesser(plan.limit, at)
    /\ \A kept \in heap, lost \in (1..at) \ heap :
         compare_rows(plan.input[lost], plan.input[kept], plan.keys) # "less"

-----------------------------------------------------------------------------
(* Windows.  Positions below are places in the sorted order.                *)

\* Unbounded is farther than any row.
Unbounded == 1000000

\* A bound as rows after the current one.
Frame == [units : {"rows", "range"}, start : Int, end : Int]

WindowPlan ==
  [kind : {"window"}, input : Seq(Row),
   partition_by : Seq(Nat \ {0}), order_by : Seq(OrderKey),
   func : {"row_number", "rank", "dense_rank", "lag", "lead", "count", "sum", "avg",
           "min", "max"},
   column : Nat,                  \* the first argument; 0 for COUNT(*)
   offset : Nat, default : Nat,   \* the others' columns; 0 when not given
   frame : Frame]

\* A row has the columns the window is sorted by.
ASSUME WindowAssumption ==
  \A p \in Inputs("window") :
    /\ p \in WindowPlan
    /\ Held(p.input, ToSet(p.partition_by) \cup {k.column : k \in ToSet(p.order_by)}) \subseteq Datum

Of(row, column) == plan.input[row][column]

\* A key column changes value between two rows: NULL is one value.
changes(a, b, columns) ==
  \E i \in DOMAIN columns :
    LET x == Of(a, columns[i])
        y == Of(b, columns[i])
    IN  {x, y} # {NULL} /\ Compare(x, y) # "equal"

OrderColumns == [i \in DOMAIN plan.order_by |-> plan.order_by[i].column]

\* Mutant of Specs: the order keys come first.
Specs_order_first == plan.order_by \o sorted_on(plan.partition_by)

Specs == sorted_on(plan.partition_by) \o plan.order_by

\* Where the run of rows without a change that a position is in starts.
StartOf(order, p, columns) ==
  CHOOSE s \in 1..p :
    /\ s = 1 \/ changes(order[s - 1], order[s], columns)
    /\ \A q \in s + 1..p : ~ changes(order[q - 1], order[q], columns)

PartitionStart(order, p) == StartOf(order, p, plan.partition_by)
PeerStart(order, p) == StartOf(order, p, plan.partition_by \o OrderColumns)

PartitionOf(order, p) ==
  {q \in DOMAIN order : PartitionStart(order, q) = PartitionStart(order, p)}

PeerEnd(order, p) ==
  CHOOSE e \in p..Len(order) :
    /\ e = Len(order) \/ PeerStart(order, e + 1) # PeerStart(order, p)
    /\ PeerStart(order, e) = PeerStart(order, p)

\* frame_bounds: under RANGE the current row is all its peers.
FrameOf(order, p) ==
  LET range == plan.frame.units = "range"
      from == (IF range THEN PeerStart(order, p) ELSE p) + plan.frame.start
      to == (IF range THEN PeerEnd(order, p) ELSE p) + plan.frame.end
  IN  {q \in PartitionOf(order, p) : from <= q /\ q <= to}

\* saturating_add, row by row.
Saturate(n) ==
  IF n \in Int64 THEN n
  ELSE IF n > Max(Int64) THEN Max(Int64) ELSE Min(Int64)

SaturatedSum(values) == FoldLeft(LAMBDA total, v : Saturate(total + v), 0, values)

Replaces(v, best) ==
  IF best = NULL THEN TRUE
  ELSE Compare(v, best) = (IF plan.func = "min" THEN "less" ELSE "greater")

\* accumulate: NULLs are ignored.
accumulate(order, frame) ==
  LET inside == SelectSeq([q \in DOMAIN order |-> q], LAMBDA q : q \in frame)
      values == SelectSeq([i \in DOMAIN inside |-> Of(order[inside[i]], plan.column)],
                          LAMBDA v : v # NULL)
  IN  CASE plan.func = "count" -> Len(values)
        [] values = <<>> -> NULL
        [] plan.func = "sum" -> SaturatedSum(values)
        [] plan.func = "avg" -> <<SaturatedSum(values), Len(values)>>
        [] OTHER -> FoldLeft(LAMBDA best, v : IF Replaces(v, best) THEN v ELSE best, NULL, values)

\* LAG and LEAD: the distance is read from the partition's first row.
Shifted(order, p) ==
  LET partition == PartitionOf(order, p)
      given == IF plan.offset = 0 THEN NULL
               ELSE Of(order[PartitionStart(order, p)], plan.offset)
      offset == IF given = NULL THEN 1 ELSE given
      target == IF plan.func = "lag" THEN p - offset ELSE p + offset
  IN  IF target \in partition THEN Of(order[target], plan.column)
      ELSE IF plan.default = 0 THEN NULL ELSE Of(order[p], plan.default)

\* compute_partition, for one position.
Computed(order, p) ==
  LET start == PartitionStart(order, p)
  IN  CASE plan.func = "row_number" -> p - start + 1
        [] plan.func = "rank" -> PeerStart(order, p) - start + 1
        [] plan.func = "dense_rank" -> Cardinality({PeerStart(order, q) : q \in start..p})
        [] plan.func \in {"lag", "lead"} -> Shifted(order, p)
        [] plan.column = 0 -> Cardinality(FrameOf(order, p))
        [] OTHER -> accumulate(order, FrameOf(order, p))

\* WindowExec::build.
WindowBuild ==
  /\ ~ built
  /\ built' = TRUE
  /\ at' = Len(plan.input)
  /\ \E order \in {sort(plan.input, Specs)} :
       rows' = [p \in DOMAIN order |-> [row |-> order[p], value |-> Computed(order, p)]]
  /\ UNCHANGED <<emitted, operatorVars>>

WindowStep ==
  /\ plan.kind = "window"
  /\ WindowBuild \/ EmitBuilt \/ EndBuilt
-----------------------------------------------------------------------------
\* What SQL says of two rows, from their values alone.
SamePartition(a, b) ==
  Columns(plan.input[a], plan.partition_by) = Columns(plan.input[b], plan.partition_by)

Before(a, b) == compare_rows(plan.input[a], plan.input[b], plan.order_by) = "less"

\* Of two rows of one partition; peers keep the order of the input.
Precedes(a, b) == SamePartition(a, b) /\ (Before(a, b) \/ (~ Before(b, a) /\ a < b))

PlaceOf(row) == Cardinality({r \in DOMAIN plan.input : Precedes(r, row)}) + 1

ValueOf(row) ==
  LET partition == {r \in DOMAIN plan.input : SamePartition(r, row)}
      earlier == {r \in partition : Before(r, row)}
      distance == IF plan.offset = 0 THEN 1 ELSE Of(row, plan.offset)
      target == PlaceOf(row) + (IF plan.func = "lag" THEN -distance ELSE distance)
      framed ==
        {r \in partition :
           IF plan.frame.units = "rows"
           THEN PlaceOf(r) - PlaceOf(row) \in plan.frame.start..plan.frame.end
           ELSE /\ plan.frame.start = 0 => ~ Before(r, row)
                /\ plan.frame.end = 0 => ~ Before(row, r)}
      present == {r \in framed : Of(r, plan.column) # NULL}
      values == {Of(r, plan.column) : r \in present}
      total == MapThenSumSet(LAMBDA r : Of(r, plan.column), present)
  IN  CASE plan.func = "row_number" -> PlaceOf(row)
        [] plan.func = "rank" -> Cardinality(earlier) + 1
        [] plan.func = "dense_rank" ->
             Cardinality({Columns(plan.input[r], OrderColumns) : r \in earlier}) + 1
        [] plan.func \in {"lag", "lead"} ->
             IF target \in 1..Cardinality(partition)
             THEN Of(CHOOSE r \in partition : PlaceOf(r) = target, plan.column)
             ELSE IF plan.default = 0 THEN NULL ELSE Of(row, plan.default)
        [] plan.column = 0 -> Cardinality(framed)
        [] plan.func = "count" -> Cardinality(present)
        [] present = {} -> NULL
        [] plan.func = "sum" -> total
        [] plan.func = "avg" -> <<total, Cardinality(present)>>
        [] plan.func = "min" -> Min(values)
        [] OTHER -> Max(values)

\* Partitions come one after the other, each in its own order.
ComesInOrder(returned) ==
  \A k \in DOMAIN returned :
    LET mine == {j \in 1..k : SamePartition(returned[j], returned[k])}
    IN  /\ mine = k - Cardinality(mine) + 1..k
        /\ PlaceOf(returned[k]) = Cardinality(mine)

(***************************************************************************)
(* Each row comes back once, partition by partition in the window's order, *)
(* with what the function means for it: the sorted positions, peer groups  *)
(* and frame bounds of the code against the values they stand for.         *)
(***************************************************************************)
WindowReturnsTheAnswer ==
  plan.kind = "window" =>
    /\ ComesInOrder([i \in DOMAIN out |-> out[i].row])
    /\ \A i \in DOMAIN out : out[i].value = ValueOf(out[i].row)
    /\ Cardinality({out[i].row : i \in DOMAIN out}) = Len(out)
    /\ status = "done" => Len(out) = Len(plan.input)
================================================================================
