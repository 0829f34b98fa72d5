------------------------------- MODULE Operator -------------------------------
(***************************************************************************)
(* What the operators of exec/ have in common.  One is built for a plan,   *)
(* hands its caller a batch of rows whenever it is asked, and ends.  Rows  *)
(* of an input are known by their position in it.                          *)
(***************************************************************************)
EXTENDS SqlValues, Sequences, SequencesExt, FiniteSets

CONSTANTS
  Inputs(_),   \* the plans of a kind to consider, each with the rows of its inputs
  BatchSize

Kinds == {"join", "sort", "top-n", "aggregate", "distinct", "set", "window"}

ASSUME BatchAssumption == BatchSize \in Nat \ {0}

ASSUME KindAssumption == \A kind \in Kinds : \A p \in Inputs(kind) : p.kind = kind

VARIABLES
  plan,    \* what is fixed when the operator is built
  out,     \* the rows returned so far
  status   \* running, done, or failed with an error

operatorVars == <<plan, out, status>>

Row == Seq(Datum)

\* The columns a list of keys names, of one row.
Columns(row, columns) == [i \in DOMAIN columns |-> row[columns[i]]]

\* What the rows of an input have in some columns.
Held(input, columns) == {input[r][c] : r \in DOMAIN input, c \in columns}

\* Ascending with NULLs first, as exec/mod.rs::sorted_on has it.
sorted_on(columns) ==
  [i \in DOMAIN columns |-> [column |-> columns[i], ascending |-> TRUE, nulls_first |-> TRUE]]

OperatorInit ==
  /\ \E kind \in Kinds : plan \in Inputs(kind)
  /\ out = <<>>
  /\ status = "running"

\* An error from an input, or from an expression, ends the stream.
Fail ==
  /\ status = "running"
  /\ status' = "failed"
  /\ UNCHANGED <<plan, out>>
-----------------------------------------------------------------------------
(* How exec/sort.rs orders rows, and what exec/ordering.rs concludes from  *)
(* the order two inputs arrive in; how exec/key.rs tells rows apart.  A    *)
(* row is a tuple of values.                                               *)

CONSTANTS
  DecimalShift,   \* what KeyValue::of multiplies a decimal by to reach scale 18
  Representable   \* the 128-bit integers

ASSUME RowKeyAssumption ==
  /\ DecimalShift \in Nat \ {0}
  /\ Representable \subseteq Int

OrderKey == [column : Nat \ {0}, ascending : BOOLEAN, nulls_first : BOOLEAN]

Ordering == {"less", "equal", "greater"}

reverse(ordering) ==
  IF ordering = "less" THEN "greater"
  ELSE IF ordering = "greater" THEN "less" ELSE "equal"

\* The first of several comparisons that is not a tie decides.
Lexicographic(orderings) ==
  LET apart == {i \in DOMAIN orderings : orderings[i] # "equal"}
  IN  IF apart = {} THEN "equal" ELSE orderings[Min(apart)]

\* Of two values that are not NULL; a NaN is larger than everything.
compare_values(a, b) ==
  IF NaN \notin {a, b} THEN Compare(a, b)
  ELSE IF a = b THEN "equal"
  ELSE IF b = NaN THEN "less" ELSE "greater"

\* The direction does not move a NULL, nulls_first does.
CompareKey(a, b, spec) ==
  IF NULL \notin {a, b}
  THEN IF spec.ascending THEN compare_values(a, b) ELSE reverse(compare_values(a, b))
  ELSE IF a = b THEN "equal"
  ELSE IF (a = NULL) = spec.nulls_first THEN "less" ELSE "greater"

compare_rows(x, y, specs) ==
  Lexicographic([i \in DOMAIN specs |->
                   CompareKey(x[specs[i].column], y[specs[i].column], specs[i])])

\* The members of a set, one after the other: upTo has the pairs of them in which
\* the first comes before the second, or is the second.
InOrderOf(S, upTo) ==
  LET placed == {<<e, Cardinality({o \in S : <<o, e>> \in upTo})>> : e \in S}
  IN  [i \in 1..Cardinality(S) |-> (CHOOSE p \in placed : p[2] = i)[1]]

\* The members of a sequence that are in a set, in the order they are in.
Those(s, kept) ==
  LET places == {i \in DOMAIN s : s[i] \in kept}
      order == InOrderOf(places, {p \in places \X places : p[1] <= p[2]})
  IN  [i \in 1..Cardinality(places) |-> s[order[i]]]

\* SortExec: the row numbers of the input in output order; the sort is stable.
StableOrder(input, specs) ==
  {p \in (DOMAIN input) \X (DOMAIN input) :
     LET ordering == compare_rows(input[p[1]], input[p[2]], specs)
     IN  ordering = "less" \/ (ordering = "equal" /\ p[1] <= p[2])}

sort(input, specs) == InOrderOf(DOMAIN input, StableOrder(input, specs))

\* What an operator that reports an ordering promises of its rows.
Arrives(rows, specs) ==
  \A i \in 1..Len(rows) - 1 : compare_rows(rows[i], rows[i + 1], specs) # "greater"

\* An ordering by more keys is an ordering by the first of them.
satisfies(have, want) ==
  /\ Len(want) <= Len(have)
  /\ \A i \in DOMAIN want : have[i].column = want[i]

directions_match(left, right, n) ==
  /\ n <= Len(left) /\ n <= Len(right)
  /\ \A i \in 1..n : /\ left[i].ascending = right[i].ascending
                     /\ left[i].nulls_first = right[i].nulls_first
-----------------------------------------------------------------------------
(* The hashable form of a value, by which rows are grouped, joined and told *)
(* apart.  NULL is the same key as NULL and NaN as NaN; a join looks at     *)
(* unmatchable() first.                                                    *)

\* A decimal is rescaled, and left alone when that overflows.
KeyValue(v) ==
  IF v \notin {NULL, NaN} /\ v * DecimalShift \in Representable
  THEN v * DecimalShift ELSE v

HashKey(values) == [i \in DOMAIN values |-> KeyValue(values[i])]

\* A join key that never matches: NULL = NULL is unknown, NaN = NaN false.
unmatchable(values) == \E i \in DOMAIN values : values[i] \in {NULL, NaN}
-----------------------------------------------------------------------------
(* An operator over one input: how far it has read, and, where it has to   *)
(* read everything before it returns anything, the rows it then returns a  *)
(* batch at a time.                                                        *)

CONSTANT Int64   \* the integers a sum of integers can be

ASSUME Int64Assumption == Int64 \subseteq Int

VARIABLES
  at,        \* how many rows were read
  built,
  rows,      \* what was built, in the order it is returned
  emitted    \* how many of them were returned

builtVars == <<built, rows, emitted>>
rowVars == <<at, builtVars>>

RowInit ==
  /\ at = 0
  /\ built = FALSE
  /\ rows = <<>>
  /\ emitted = 0

Lesser(a, b) == IF a < b THEN a ELSE b

\* next() of an operator whose rows are built.
EmitBuilt ==
  LET end == Lesser(emitted + BatchSize, Len(rows))
  IN  /\ built
      /\ emitted < Len(rows)
      /\ out' = out \o SubSeq(rows, emitted + 1, end)
      /\ emitted' = end
      /\ UNCHANGED <<at, built, rows, plan, status>>

EndBuilt ==
  /\ built
  /\ emitted = Len(rows)
  /\ status' = "done"
  /\ UNCHANGED <<rowVars, plan, out>>
===============================================================================
