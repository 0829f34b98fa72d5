------------------------------- MODULE ZoneMap -------------------------------
(***************************************************************************)
(* exec/prune.rs: what a row group's per-column statistics and bloom       *)
(* filters say about a predicate without reading a value, and how          *)
(* storage/rowgroup.rs computes that metadata from a column.               *)
(*                                                                         *)
(* A column of a row group is a function from 1..n to Datum.               *)
(***************************************************************************)
EXTENDS SqlValues, FiniteSets, Sequences

CONSTANTS
  Class,    \* the value classes of types::value_class
  HashBits  \* HashBits[c][v]: the filter bits of value v in class c

ASSUME HashAssumption ==
  HashBits \in [Class -> [Number \cup {NaN} -> SUBSET Nat]]

\* A null count that was never recorded (None); a bound never recorded is NULL.
Unrecorded == -1

Certainty == {"AlwaysFalse", "AlwaysTrue", "Unknown"}

ColumnStats == [min : Datum, max : Datum, null_count : Nat \cup {Unrecorded}]

Rows(col) == DOMAIN col
Valid(col) == {i \in Rows(col) : col[i] # NULL}

Lowest(S) == CHOOSE x \in S : \A y \in S : x <= y
Highest(S) == CHOOSE x \in S : \A y \in S : x >= y

(***************************************************************************)
(* Column::min_max takes the first valid value as incumbent and replaces   *)
(* it by any value that compares strictly beyond it.  A NaN never compares, *)
(* so it is skipped, except in first place, where nothing replaces it.     *)
(***************************************************************************)
min_max(col) ==
  LET numbers == {col[i] : i \in Valid(col)} \ {NaN}
  IN  IF Valid(col) = {} THEN [min |-> NULL, max |-> NULL]
      ELSE IF col[Lowest(Valid(col))] = NaN THEN [min |-> NaN, max |-> NaN]
      ELSE [min |-> Lowest(numbers), max |-> Highest(numbers)]

\* ColumnStats::compute, what a row group built in memory carries.
compute(col) ==
  [min |-> min_max(col).min,
   max |-> min_max(col).max,
   null_count |-> Cardinality(Rows(col) \ Valid(col))]

\* The hashes build_bloom inserts: every valid value's, the column's own class.
build_bloom(col, class) ==
  UNION {HashBits[class][col[i]] : i \in Valid(col)}

not(c) ==
  IF c = "AlwaysFalse" THEN "AlwaysTrue"
  ELSE IF c = "AlwaysTrue" THEN "AlwaysFalse" ELSE "Unknown"

\* The And arm of prune::evaluate; both sides are always evaluated.
and(l, r) ==
  IF "AlwaysFalse" \in {l, r} THEN "AlwaysFalse"
  ELSE IF {l, r} = {"AlwaysTrue"} THEN "AlwaysTrue" ELSE "Unknown"

\* The Or arm.
or(l, r) ==
  IF "AlwaysTrue" \in {l, r} THEN "AlwaysTrue"
  ELSE IF {l, r} = {"AlwaysFalse"} THEN "AlwaysFalse" ELSE "Unknown"

\* Mutant of WithoutBounds: bounds not recorded are taken for an all-NULL column.
WithoutBounds_assumed(s, n) == "AlwaysFalse"

\* No bounds is "all NULL" only when the null count says so.
WithoutBounds(s, n) ==
  IF s.null_count = n THEN "AlwaysFalse" ELSE "Unknown"

\* With v compared to the group's bounds, when no row can pass ...
NoRowPasses(op, vmin, vmax, same) ==
  \/ op = ">"  /\ vmax # "less"
  \/ op = ">=" /\ vmax = "greater"
  \/ op = "<"  /\ vmin # "greater"
  \/ op = "<=" /\ vmin = "less"
  \/ op = "="  /\ (vmin = "less" \/ vmax = "greater")
  \/ op = "<>" /\ same /\ vmin = "equal"

\* Mutant of EveryRowPasses: equality looks at the smallest value only.
EveryRowPasses_min(op, vmin, vmax, same) ==
  \/ op = ">"  /\ vmin = "less"
  \/ op = ">=" /\ vmin # "greater"
  \/ op = "<"  /\ vmax = "greater"
  \/ op = "<=" /\ vmax # "less"
  \/ op = "="  /\ vmin = "equal"
  \/ op = "<>" /\ (vmin = "less" \/ vmax = "greater")

\* ... and when every non-NULL row does.
EveryRowPasses(op, vmin, vmax, same) ==
  \/ op = ">"  /\ vmin = "less"
  \/ op = ">=" /\ vmin # "greater"
  \/ op = "<"  /\ vmax = "greater"
  \/ op = "<=" /\ vmax # "less"
  \/ op = "="  /\ same /\ vmin = "equal"
  \/ op = "<>" /\ (vmin = "less" \/ vmax = "greater")

compare_bounds(op, s, v, n) ==
  LET vmin == Compare(v, s.min)
      vmax == Compare(v, s.max)
      same == Compare(s.min, s.max) = "equal"
  IN  IF v = NULL THEN "AlwaysFalse"
      ELSE IF NULL \in {s.min, s.max} THEN WithoutBounds(s, n)
      ELSE IF "none" \in {vmin, vmax} THEN "Unknown"
      ELSE IF NoRowPasses(op, vmin, vmax, same) THEN "AlwaysFalse"
      ELSE IF EveryRowPasses(op, vmin, vmax, same) /\ s.null_count = 0
           THEN "AlwaysTrue"
      ELSE "Unknown"

BetweenCertainty(s, lo, hi, negated, n) ==
  LET inside == and(compare_bounds(">=", s, lo, n), compare_bounds("<=", s, hi, n))
  IN  IF negated THEN not(inside) ELSE inside

\* Only the positive form is looked at; NOT IN falls through to Unknown.
InListCertainty(s, items, negated, n) ==
  IF negated THEN "Unknown"
  ELSE IF NULL \in {s.min, s.max} THEN WithoutBounds(s, n)
  ELSE IF \A v \in items : \/ v = NULL
                           \/ Compare(v, s.min) = "less"
                           \/ Compare(v, s.max) = "greater"
       THEN "AlwaysFalse" ELSE "Unknown"

\* An unrecorded null count equals neither 0 nor n, and proves nothing.
IsNullCertainty(s, negated, n) ==
  IF s.null_count = 0 THEN IF negated THEN "AlwaysTrue" ELSE "AlwaysFalse"
  ELSE IF s.null_count = n THEN IF negated THEN "AlwaysFalse" ELSE "AlwaysTrue"
  ELSE "Unknown"

\* BloomFilter::might_contain: NULL is never a member.
might_contain(filter, v, class) ==
  v # NULL /\ HashBits[class][v] \subseteq filter

\* Mutant of absent: an equal value of another class is looked up by its own hash.
absent_any_class(filter, columnClass, lit) ==
  ~ might_contain(filter, lit.value, lit.class)

\* prune::absent: a literal of another class hashes differently from an equal
\* column value, so its absence proves nothing.
absent(filter, columnClass, lit) ==
  /\ lit.class = columnClass
  /\ ~ might_contain(filter, lit.value, lit.class)

\* bloom_rejects on a positive, non-empty IN list of literals.
InListRejected(filter, columnClass, items) ==
  /\ items # {}
  /\ \A lit \in items : lit.value = NULL \/ absent(filter, columnClass, lit)

-----------------------------------------------------------------------------
(* prune::evaluate and prune::bloom_rejects walk a predicate bottom-up     *)
(* over the metadata of one row group.  Here the walk is a stack machine:  *)
(* a leaf pushes its verdicts, a connective replaces the verdicts of its   *)
(* operands.  Any predicate is some sequence of these steps, in postorder. *)
(* Beside the verdicts each entry carries what the verdicts speak about:   *)
(* the predicate's value on every row of the group.                        *)

CONSTANTS
  Scanned,     \* the columns of the scanned relation
  ClassOf,    \* the value class of each column's type
  RowCounts,  \* the sizes of the row groups considered
  Stats,      \* the column statistics a file may carry
  Literals,   \* the literals a predicate may mention: [class, value]
  ItemLists,  \* the IN lists: sets of literals
  MaxDepth    \* bound: operands waiting on the stack

VARIABLES
  num_rows, \* RowGroup.num_rows
  group,   \* the row group's values, by column; the walk never reads them
  stats,   \* RowGroup.stats
  blooms,  \* RowGroup.blooms: a set of bits, or NoFilter
  stack    \* the predicates evaluated and not yet consumed by a connective

walkVars == <<num_rows, group, stats, blooms, stack>>

NoFilter == {-1}

ASSUME EvalAssumption ==
  /\ ClassOf \in [Scanned -> Class]
  /\ RowCounts \subseteq Nat
  /\ \A lit \in Literals : /\ lit.value \in Datum
                           /\ lit.value # NULL => lit.class \in Class
                           /\ lit.value = NULL => lit.class \notin Class
  /\ \A items \in ItemLists : items \subseteq Literals
  /\ Stats \subseteq ColumnStats
  /\ MaxDepth \in Nat

(***************************************************************************)
(* What the statistics of a row group promise about a column.  Those the   *)
(* engine computes do; those of a Parquet footer are believed to.          *)
(***************************************************************************)
Describes(s, col) ==
  /\ s.null_count \in {Unrecorded, Cardinality(Rows(col) \ Valid(col))}
  /\ \A i \in Rows(col) : col[i] \in Number =>
       /\ s.min \in Number => s.min <= col[i]
       /\ s.max \in Number => s.max >= col[i]

\* RowGroup::new: computed statistics, and a bloom filter where the column is
\* distinct enough for one to be worth its bytes.
InMemory(g) ==
  /\ stats = [c \in Scanned |-> compute(g[c])]
  /\ \E filtered \in SUBSET Scanned :
       blooms = [c \in Scanned |-> IF c \in filtered
                                   THEN build_bloom(g[c], ClassOf[c]) ELSE NoFilter]

\* RowGroup::pending: whatever statistics the file carries, no filter.
Pending(g) ==
  /\ stats \in [Scanned -> Stats]
  /\ \A c \in Scanned : Describes(stats[c], g[c])
  /\ blooms = [c \in Scanned |-> NoFilter]

WalkInit ==
  /\ num_rows \in RowCounts
  /\ group \in [Scanned -> [1..num_rows -> Datum]]
  /\ InMemory(group) \/ Pending(group)
  /\ stack = <<>>

Push(certainty, rejected, truth) ==
  /\ Len(stack) < MaxDepth
  /\ stack' = Append(stack, [certainty |-> certainty, rejected |-> rejected,
                             truth |-> truth])
  /\ UNCHANGED <<num_rows, group, stats, blooms>>

\* A Boolean literal; "unknown" is the literal NULL.
Literal(b) ==
  Push(IF b = "true" THEN "AlwaysTrue" ELSE "AlwaysFalse", FALSE,
       [i \in 1..num_rows |-> b])

EqRejected(op, c, lit) ==
  /\ op = "="
  /\ blooms[c] # NoFilter
  /\ absent(blooms[c], ClassOf[c], lit)

\* column <op> literal
Comparison(op, c, lit) ==
  Push(compare_bounds(op, stats[c], lit.value, num_rows), EqRejected(op, c, lit),
       [i \in 1..num_rows |-> CompareOp(op, group[c][i], lit.value)])

flip(op) ==
  IF op = "<" THEN ">" ELSE IF op = "<=" THEN ">="
  ELSE IF op = ">" THEN "<" ELSE IF op = ">=" THEN "<=" ELSE op

\* literal <op> column
Mirrored(op, c, lit) ==
  Push(compare_bounds(flip(op), stats[c], lit.value, num_rows), EqRejected(op, c, lit),
       [i \in 1..num_rows |-> CompareOp(op, lit.value, group[c][i])])

IsNull(c, negated) ==
  Push(IsNullCertainty(stats[c], negated, num_rows), FALSE,
       [i \in 1..num_rows |-> IsNullTruth(group[c][i], negated)])

Between(c, lo, hi, negated) ==
  Push(BetweenCertainty(stats[c], lo.value, hi.value, negated, num_rows), FALSE,
       [i \in 1..num_rows |-> BetweenTruth(group[c][i], lo.value, hi.value, negated)])

InList(c, items, negated) ==
  LET values == {lit.value : lit \in items}
  IN  Push(InListCertainty(stats[c], values, negated, num_rows),
           /\ ~ negated
           /\ blooms[c] # NoFilter
           /\ InListRejected(blooms[c], ClassOf[c], items),
           [i \in 1..num_rows |-> InListTruth(group[c][i], values, negated)])

\* Casts, LIKE, arithmetic, another relation's columns: nothing is known.
Opaque(truth) == Push("Unknown", FALSE, truth)

Top == stack[Len(stack)]
Under == stack[Len(stack) - 1]

Not ==
  /\ stack # <<>>
  /\ stack' = [stack EXCEPT ![Len(stack)] =
       [certainty |-> not(Top.certainty), rejected |-> FALSE,
        truth |-> [i \in 1..num_rows |-> three_valued_not(Top.truth[i])]]]
  /\ UNCHANGED <<num_rows, group, stats, blooms>>

\* Replace the two operands on top by their combination.
Combine(certainty, rejected, truth) ==
  /\ stack' = [i \in 1..Len(stack) - 1 |->
       IF i = Len(stack) - 1
       THEN [certainty |-> certainty, rejected |-> rejected, truth |-> truth]
       ELSE stack[i]]
  /\ UNCHANGED <<num_rows, group, stats, blooms>>

\* One filtered-out conjunct rejects the group ...
And ==
  /\ Len(stack) >= 2
  /\ Combine(and(Under.certainty, Top.certainty), Under.rejected \/ Top.rejected,
       [i \in 1..num_rows |-> three_valued_and(Under.truth[i], Top.truth[i])])

\* ... one filtered-out disjunct does not.
Or ==
  /\ Len(stack) >= 2
  /\ Combine(or(Under.certainty, Top.certainty), FALSE,
       [i \in 1..num_rows |-> three_valued_or(Under.truth[i], Top.truth[i])])

WalkNext ==
  \/ \E b \in Tri : Literal(b)
  \/ \E op \in ComparisonOps, c \in Scanned, lit \in Literals :
       Comparison(op, c, lit) \/ Mirrored(op, c, lit)
  \/ \E c \in Scanned, negated \in BOOLEAN :
       \/ IsNull(c, negated)
       \/ \E lo, hi \in Literals : Between(c, lo, hi, negated)
       \/ \E items \in ItemLists : InList(c, items, negated)
  \/ \E truth \in [1..num_rows -> Tri] : Opaque(truth)
  \/ Not
  \/ And
  \/ Or

WalkSpec == WalkInit /\ [][WalkNext]_walkVars
-----------------------------------------------------------------------------
\* The verdicts on the stack are verdicts, the truths cover the group's rows.
WalkTypeOK ==
  /\ num_rows \in RowCounts
  /\ group \in [Scanned -> [1..num_rows -> Datum]]
  /\ stats \in [Scanned -> ColumnStats]
  /\ blooms \in [Scanned -> SUBSET Int]
  /\ stack \in Seq([certainty : Certainty, rejected : BOOLEAN,
                    truth : [1..num_rows -> Tri]])

(***************************************************************************)
(* Skipping a row group never loses a row: whatever the predicate, when    *)
(* the zone map says AlwaysFalse (row_group_can_match is false) no row of  *)
(* the group makes the predicate TRUE.                                     *)
(***************************************************************************)
NeverTrue(e) == \A i \in DOMAIN e.truth : e.truth[i] # "true"
NeverFalse(e) == \A i \in DOMAIN e.truth : e.truth[i] # "false"

ZoneMapKeepsEveryMatch ==
  \A k \in DOMAIN stack : stack[k].certainty = "AlwaysFalse" => NeverTrue(stack[k])

(***************************************************************************)
(* Nor does a bloom filter: a group bloom_rejects rejects holds no row     *)
(* that makes the predicate TRUE.                                          *)
(***************************************************************************)
BloomKeepsEveryMatch ==
  \A k \in DOMAIN stack : stack[k].rejected => NeverTrue(stack[k])

(***************************************************************************)
(* The reading of AlwaysTrue under which NOT is sound: no row is FALSE.    *)
(* NULLs and NaN may make a row UNKNOWN under an AlwaysTrue verdict.       *)
(***************************************************************************)
AlwaysTrueRefutesFalse ==
  \A k \in DOMAIN stack : stack[k].certainty = "AlwaysTrue" => NeverFalse(stack[k])
==============================================================================
