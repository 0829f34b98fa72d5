------------------------------- MODULE Grouping -------------------------------
(***************************************************************************)
(* The operators that tell rows apart by a key.  exec/aggregate.rs: a hash *)
(* aggregate reads everything and keeps a group for each key; a streaming  *)
(* one relies on rows of a group arriving together, and keeps a single     *)
(* group open.  exec/setop.rs: DISTINCT, and UNION, INTERSECT and EXCEPT   *)
(* in their distinct and their ALL forms.  All but UNION count the right   *)
(* input before they stream the left one.                                  *)
(***************************************************************************)
EXTENDS Operator, FiniteSetsExt

VARIABLES
  groups,     \* finished groups: all of them, or those not yet returned
  open,       \* the group being accumulated, in a sequence of at most one
  input_ended

groupVars == <<groups, open, input_ended>>

AggregateFunction == {"count", "sum", "avg", "min", "max"}

\* column 0 is the * of COUNT(*).
Aggregate ==
  [kind : {"aggregate"}, input : Seq(Row), order : Seq(OrderKey),
   group_by : Seq(Nat \ {0}), bare : BOOLEAN,
   func : AggregateFunction, column : Nat, distinct : BOOLEAN, integer : BOOLEAN,
   forced : BOOLEAN]

\* A row has the columns grouped by, aggregated and ordered by, and of the values
\* of the first two no two that differ have the same key, as two decimals might that
\* do not fit.  The binder takes a * of COUNT alone, and not COUNT(DISTINCT *).
ASSUME AggregateAssumption ==
  \A p \in Inputs("aggregate") :
    LET told_apart == Held(p.input, ToSet(p.group_by) \cup ({p.column} \ {0}))
    IN  /\ p \in Aggregate
        /\ told_apart \subseteq Datum
        /\ \A a, b \in told_apart : KeyValue(a) = KeyValue(b) => a = b
        /\ Held(p.input, {key.column : key \in ToSet(p.order)}) \subseteq Datum
        /\ p.column = 0 => p.func = "count" /\ ~ p.distinct

\* build_node's choice: forced, or groups that arrive together, which they do
\* when there is only one.
streams ==
  \/ plan.forced
  \/ plan.bare /\ satisfies(plan.order, plan.group_by)

\* The rows as they arrive; forcing sorts them first.
Arriving ==
  IF plan.forced /\ plan.group_by # <<>> THEN sort(plan.input, sorted_on(plan.group_by))
  ELSE [i \in DOMAIN plan.input |-> i]

GroupValues(row) == Columns(plan.input[row], plan.group_by)

\* keys_equal, and what the hash table is looked up by.
Same(group, row) == HashKey(group.key) = HashKey(GroupValues(row))
-----------------------------------------------------------------------------
\* One record for every kind of accumulator: none of them uses all of it.
Accumulator == [n |-> 0, sum |-> 0, best |-> NULL, seen |-> {}]

NewGroup(values) == [key |-> values, acc |-> Accumulator]

Plus(a, b) == IF NaN \in {a, b} THEN NaN ELSE a + b

\* What compares with nothing never displaces the best so far.
Displaces(v, best) ==
  \/ best = NULL
  \/ Compare(v, best) = (IF plan.func = "min" THEN "less" ELSE "greater")

\* Mutant of Ignored: DISTINCT is forgotten.
Ignored_not_distinct(acc, v) == v = NULL

Ignored(acc, v) ==
  \/ v = NULL
  \/ plan.distinct /\ plan.func \notin {"min", "max"} /\ KeyValue(v) \in acc.seen

\* Accumulator::update with the value of a row, or with the row itself.
update(acc, row) ==
  IF plan.column = 0 THEN [acc EXCEPT !.n = @ + 1]
  ELSE LET v == plan.input[row][plan.column]
       IN  IF Ignored(acc, v) THEN acc
           ELSE [n |-> acc.n + 1,
                 sum |-> Plus(acc.sum, v),
                 best |-> IF Displaces(v, acc.best) THEN v ELSE acc.best,
                 seen |-> acc.seen \cup {KeyValue(v)}]

\* checked_add.
Overflowed(acc) == plan.func = "sum" /\ plan.integer /\ acc.sum \notin Int64

finish(acc) ==
  CASE plan.func = "count" -> acc.n
    [] plan.func = "sum" -> IF acc.n = 0 THEN NULL ELSE acc.sum
    [] plan.func = "avg" -> IF acc.n = 0 THEN NULL ELSE <<acc.sum, acc.n>>
    [] OTHER -> acc.best

Finished(some) == [i \in DOMAIN some |-> [key |-> some[i].key, value |-> finish(some[i].acc)]]
-----------------------------------------------------------------------------
\* HashAggregateExec::build up to its loop: without a GROUP BY the one group
\* exists before any row is read.
HashOpen ==
  /\ ~ streams
  /\ ~ built
  /\ built' = TRUE
  /\ groups' = IF plan.group_by = <<>> THEN <<NewGroup(<<>>)>> ELSE <<>>
  /\ UNCHANGED <<at, rows, emitted, open, input_ended, operatorVars>>

\* One row of the loop.
HashRow ==
  LET row == at + 1
      known == {i \in DOMAIN groups : Same(groups[i], row)}
      table == IF known = {} THEN Append(groups, NewGroup(GroupValues(row))) ELSE groups
      i == IF known = {} THEN Len(table) ELSE CHOOSE k \in known : TRUE
      acc == update(table[i].acc, row)
  IN  /\ ~ streams
      /\ built
      /\ at < Len(plan.input)
      /\ at' = row
      /\ groups' = [table EXCEPT ![i].acc = acc]
      /\ status' = IF Overflowed(acc) THEN "failed" ELSE status
      /\ UNCHANGED <<builtVars, open, input_ended, plan, out>>

HashEmit ==
  LET end == Lesser(emitted + BatchSize, Len(groups))
  IN  /\ ~ streams
      /\ built
      /\ at = Len(plan.input)
      /\ out' = out \o Finished(SubSeq(groups, emitted + 1, end))
      /\ emitted' = end
      /\ status' = IF emitted = Len(groups) THEN "done" ELSE status
      /\ UNCHANGED <<at, built, rows, groupVars, plan>>
-----------------------------------------------------------------------------
\* One row of a batch: the groups ready and open after it.
GroupRow(state, row) ==
  LET same == state.open # <<>> /\ Same(state.open[1], row)
      base == IF same THEN state.open[1] ELSE NewGroup(GroupValues(row))
  IN  [ready |-> IF same THEN state.ready ELSE state.ready \o state.open,
       open |-> <<[base EXCEPT !.acc = update(@, row)]>>]

\* The condition of the loop in fill().
FillingGroups == Len(groups) < BatchSize /\ ~ input_ended

\* A batch of n rows.
StreamBatch(n) ==
  /\ streams
  /\ FillingGroups
  /\ at + n <= Len(plan.input)
  /\ at' = at + n
  /\ \E arriving \in {Arriving} :
       LET states[i \in 0..n] ==
             IF i = 0 THEN [ready |-> groups, open |-> open]
             ELSE GroupRow(states[i - 1], arriving[at + i])
       IN  /\ groups' = states[n].ready
           /\ open' = states[n].open
           /\ status' = IF \E i \in 1..n : Overflowed(states[i].open[1].acc) THEN "failed" ELSE status
  /\ UNCHANGED <<builtVars, input_ended, plan, out>>

\* What the end of the input finishes.
LastGroup ==
  IF open # <<>> THEN open
  ELSE IF plan.group_by = <<>> THEN <<NewGroup(<<>>)>> ELSE <<>>

StreamEnd ==
  /\ streams
  /\ FillingGroups
  /\ at = Len(plan.input)
  /\ input_ended' = TRUE
  /\ groups' = groups \o LastGroup
  /\ open' = <<>>
  /\ UNCHANGED <<rowVars, operatorVars>>

\* next() once fill() returns.
StreamEmit ==
  LET take == Lesser(Len(groups), BatchSize)
  IN  /\ streams
      /\ ~ FillingGroups
      /\ out' = out \o Finished(SubSeq(groups, 1, take))
      /\ groups' = SubSeq(groups, take + 1, Len(groups))
      /\ status' = IF groups = <<>> THEN "done" ELSE status
      /\ UNCHANGED <<rowVars, open, input_ended, plan>>

AggregateStep ==
  /\ plan.kind = "aggregate"
  /\ \/ HashOpen \/ HashRow \/ HashEmit
     \/ \E n \in 1..BatchSize : StreamBatch(n)
     \/ StreamEnd \/ StreamEmit
-----------------------------------------------------------------------------
\* The groups of the rows in the order their first rows arrive.
FirstSeen(arriving) ==
  LET new == {i \in DOMAIN plan.input :
                \A k \in 1..i - 1 : GroupValues(arriving[k]) # GroupValues(arriving[i])}
      first == InOrderOf(new, {p \in new \X new : p[1] <= p[2]})
  IN  IF plan.group_by = <<>> THEN <<(<<>>)>>
      ELSE [i \in DOMAIN first |-> GroupValues(arriving[first[i]])]

\* The * of COUNT(*) has no value, and none that is left out.
Argument(row) == IF plan.column = 0 THEN NULL ELSE plan.input[row][plan.column]

Taken(some) == {r \in some : plan.column = 0 \/ Argument(r) # NULL}

\* The values of some rows, each with its row unless DISTINCT tells only values apart.
Chosen(some) == {<<IF plan.distinct THEN 0 ELSE r, Argument(r)>> : r \in Taken(some)}

Second(pair) == pair[2]

Total(pairs) ==
  IF \E p \in pairs : p[2] = NaN THEN NaN ELSE MapThenSumSet(Second, pairs)

\* The aggregate of a group by what the function means, order left out of it.
\* Among values a NaN is one of, any that none beats is a minimum.
IsAggregateOf(key, value) ==
  LET members == {r \in DOMAIN plan.input : GroupValues(r) = key}
      chosen == Chosen(members)
      beats == IF plan.func = "min" THEN "less" ELSE "greater"
  IN  IF plan.func = "count" THEN value = Cardinality(chosen)
      ELSE IF chosen = {} THEN value = NULL
      ELSE CASE plan.func = "sum" -> value = Total(chosen)
             [] plan.func = "avg" -> value = <<Total(chosen), Cardinality(chosen)>>
             [] OTHER -> /\ \E p \in chosen : p[2] = value
                         /\ \A p \in chosen : Compare(p[2], value) # beats

(***************************************************************************)
(* Hash or streaming, an aggregate returns each group once, in the order   *)
(* its first row arrives, with what the function means for its rows; and   *)
(* one group over no rows when there is no GROUP BY.                       *)
(***************************************************************************)
AggregateReturnsTheAnswer ==
  plan.kind = "aggregate" =>
    /\ \E arriving \in {Arriving} :
         LET keys == FirstSeen(arriving)
         IN  /\ IsPrefix([i \in DOMAIN out |-> out[i].key], keys)
             /\ status = "done" => Len(out) = Len(keys)
    /\ \A i \in DOMAIN out : IsAggregateOf(out[i].key, out[i].value)

-----------------------------------------------------------------------------
(* Duplicates and set operations.                                           *)

VARIABLES
  seen,        \* the keys of the rows returned, where each is returned once
  counts,      \* copies of a key the right input has left, or NotCounted
  left_done,
  right_read   \* how many rows of the right input a UNION read

setVars == <<seen, counts, left_done, right_read>>

Distinct == [kind : {"distinct"}, left : Seq(Row)]

SetOp ==
  [kind : {"set"}, op : {"union", "intersect", "except"}, all : BOOLEAN,
   left : Seq(Row), right : Seq(Row)]

\* What stands in the columns of rows.
ValuesIn(input) == UNION {ToSet(row) : row \in ToSet(input)}

\* A row has a column, and values that differ have different keys: a decimal
\* whose rescaling overflows might have the key of another.
ASSUME SetAssumption ==
  \A kind \in {"distinct", "set"} : \A p \in Inputs(kind) :
    LET rows_read == IF p.kind = "distinct" THEN p.left ELSE p.left \o p.right
    IN  /\ p \in Distinct \cup SetOp
        /\ \A r \in DOMAIN rows_read : rows_read[r] # <<>>
        /\ \A a, b \in ValuesIn(rows_read) : KeyValue(a) = KeyValue(b) => a = b

\* No function from keys.
NotCounted == [key \in {<<>>} |-> 0]

LeftRowKey(r) == HashKey(plan.left[r])
RightRowKey(r) == HashKey(plan.right[r])

Copies(key, keys) == Cardinality({i \in DOMAIN keys : keys[i] = key})

CopiesLeft(key, some) == IF key \in DOMAIN some THEN some[key] ELSE 0

\* ensure_counts.
CountRight ==
  LET keys == [r \in DOMAIN plan.right |-> RightRowKey(r)]
  IN  /\ plan.kind = "set"
      /\ plan.op # "union"
      /\ counts = NotCounted
      /\ counts' = [key \in Range(keys) |-> Copies(key, keys)]
      /\ UNCHANGED <<seen, left_done, right_read, rowVars, operatorVars>>

Counted == plan.kind = "set" /\ plan.op # "union" => counts # NotCounted

\* The first row of a batch with a key that was not returned before.
IsNew(keys, i) ==
  /\ keys[i] \notin seen
  /\ \A k \in 1..i - 1 : keys[k] # keys[i]

\* How many of a batch's rows up to this one have its key.
Copy(keys, i) == Cardinality({k \in 1..i : keys[k] = keys[i]})

\* SetOpExec::keep: each right copy is paired with, or cancels, one left copy.
Survives(keys, i) ==
  IF plan.kind = "distinct" THEN IsNew(keys, i)
  ELSE LET copies == CopiesLeft(keys[i], counts)
       IN  CASE plan.op = "union" -> plan.all \/ IsNew(keys, i)
             [] plan.op = "intersect" ->
                  IF plan.all THEN Copy(keys, i) <= copies ELSE copies > 0 /\ IsNew(keys, i)
             [] plan.op = "except" ->
                  IF plan.all THEN Copy(keys, i) > copies ELSE copies = 0 /\ IsNew(keys, i)

Kept(keys) == {i \in DOMAIN keys : Survives(keys, i)}

ReturnsEachOnce == plan.kind = "distinct" \/ ~ plan.all

\* Mutant of CountedDown: the copies a batch used up are not taken off.
CountedDown_not(keys) == counts

CountedDown(keys) ==
  IF ReturnsEachOnce \/ plan.op = "union" THEN counts
  ELSE [key \in DOMAIN counts |->
          IF Copies(key, keys) < counts[key] THEN counts[key] - Copies(key, keys) ELSE 0]

\* One batch of either input, by the keys of its rows and where they stand.
Keep(keys, places) ==
  /\ out' = out \o Those(places, {places[i] : i \in Kept(keys)})
  /\ seen' = IF ReturnsEachOnce THEN seen \cup {keys[i] : i \in Kept(keys)} ELSE seen
  /\ counts' = CountedDown(keys)

\* A batch of n rows of the left input; with nothing kept, the loop goes on.
LeftBatch(n) ==
  /\ Counted /\ ~ left_done
  /\ at + n <= Len(plan.left)
  /\ at' = at + n
  /\ Keep([i \in 1..n |-> LeftRowKey(at + i)], [i \in 1..n |-> <<at + i, 0>>])
  /\ UNCHANGED <<left_done, right_read, builtVars, plan, status>>

LeftEnd ==
  /\ plan.kind = "set"
  /\ Counted /\ ~ left_done
  /\ at = Len(plan.left)
  /\ left_done' = TRUE
  /\ UNCHANGED <<seen, counts, right_read, rowVars, operatorVars>>

ReadsRight == plan.kind = "set" /\ plan.op = "union"

RightBatch(n) ==
  /\ left_done /\ ReadsRight
  /\ right_read + n <= Len(plan.right)
  /\ right_read' = right_read + n
  /\ Keep([i \in 1..n |-> RightRowKey(right_read + i)], [i \in 1..n |-> <<0, right_read + i>>])
  /\ UNCHANGED <<left_done, rowVars, plan, status>>

SetEnd ==
  /\ IF plan.kind = "distinct" THEN at = Len(plan.left)
     ELSE left_done /\ (ReadsRight => right_read = Len(plan.right))
  /\ status' = "done"
  /\ UNCHANGED <<setVars, rowVars, plan, out>>

SetStep ==
  /\ plan.kind \in {"distinct", "set"}
  /\ \/ CountRight
     \/ \E n \in 1..BatchSize : LeftBatch(n) \/ RightBatch(n)
     \/ LeftEnd \/ SetEnd
-----------------------------------------------------------------------------
RowOf(place) == IF place[2] = 0 THEN plan.left[place[1]] ELSE plan.right[place[2]]

\* Copies of a row an answer has when l and r rows of the inputs are it.
Wanted(l, r) ==
  IF plan.kind = "distinct" THEN Lesser(l, 1)
  ELSE LET many == CASE plan.op = "union" -> l + r
                     [] plan.op = "intersect" -> Lesser(l, r)
                     [] plan.op = "except" /\ plan.all -> IF l > r THEN l - r ELSE 0
                     [] plan.op = "except" /\ ~ plan.all -> IF r = 0 THEN l ELSE 0
       IN  IF plan.all THEN many ELSE Lesser(many, 1)

(***************************************************************************)
(* Of every row, as the tuple of its values, what was returned has as many *)
(* copies as the operation owes for the rows read so far: "min(left,       *)
(* right)" and "max(0, left - right)" for the multiset forms, one for the  *)
(* others.  A DISTINCT or a set operation under a LIMIT need not read on.  *)
(***************************************************************************)
SetStreamsTheAnswer ==
  plan.kind \in {"distinct", "set"} =>
    LET right == IF plan.kind = "distinct" THEN <<>>
                 ELSE IF plan.op = "union" THEN SubSeq(plan.right, 1, right_read)
                 ELSE plan.right
        left == SubSeq(plan.left, 1, at)
        returned == [i \in DOMAIN out |-> RowOf(out[i])]
    IN  /\ \A row \in Range(left) \cup Range(right) :
             Copies(row, returned) = Wanted(Copies(row, left), Copies(row, right))
        /\ Cardinality(ToSet(out)) = Len(out)
        /\ status = "done" => at = Len(plan.left) /\ (ReadsRight => right_read = Len(plan.right))
================================================================================
