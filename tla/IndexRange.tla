------------------------------ MODULE IndexRange ------------------------------
(***************************************************************************)
(* exec/index.rs: the interval of an indexed column that a conjunction     *)
(* confines it to.  A conjunct compares a column with a literal; its       *)
(* "exact" field says whether literal() accepts it, being of the column's  *)
(* value class.                                                            *)
(***************************************************************************)
EXTENDS SqlValues, Sequences

Bound == [kind : {"unbounded"}, value : {NULL}]
         \cup [kind : {"included", "excluded"}, value : Datum \ {NULL}]

Unbounded == [kind |-> "unbounded", value |-> NULL]
Included(v) == [kind |-> "included", value |-> v]
Excluded(v) == [kind |-> "excluded", value |-> v]

\* Keep whichever bound admits fewer rows; on a tie the exclusive one.
Tightens(bound, candidate, looser) ==
  LET ordering == Compare(bound.value, candidate.value)
  IN  \/ bound.kind = "unbounded"
      \/ ordering = looser
      \/ ordering = "equal" /\ candidate.kind = "excluded"

tighten_lower(range, candidate) ==
  IF Tightens(range.lower, candidate, "less")
  THEN [range EXCEPT !.lower = candidate] ELSE range

tighten_upper(range, candidate) ==
  IF Tightens(range.upper, candidate, "greater")
  THEN [range EXCEPT !.upper = candidate] ELSE range

apply(op, v, range) ==
  IF op = "=" THEN tighten_upper(tighten_lower(range, Included(v)), Included(v))
  ELSE IF op = "<" THEN tighten_upper(range, Excluded(v))
  ELSE IF op = "<=" THEN tighten_upper(range, Included(v))
  ELSE IF op = ">" THEN tighten_lower(range, Excluded(v))
  ELSE IF op = ">=" THEN tighten_lower(range, Included(v))
  ELSE range

\* Mutant of narrow: a conjunct on any column narrows the range.
narrow_any_column(range, conjunct, column) ==
  IF conjunct.exact /\ conjunct.value # NULL
  THEN apply(conjunct.op, conjunct.value, range) ELSE range

\* narrow: each conjunct on the column tightens the range on its own; a NULL
\* or a literal of another class is left to the filter.
narrow(range, conjunct, column) ==
  IF conjunct.column = column /\ conjunct.exact /\ conjunct.value # NULL
  THEN apply(conjunct.op, conjunct.value, range) ELSE range

Whole == [lower |-> Unbounded, upper |-> Unbounded]

\* extract_range: after[k] is the range once the first k conjuncts are in.
extract_range(conjuncts, column) ==
  LET after[k \in 0..Len(conjuncts)] ==
        IF k = 0 THEN Whole ELSE narrow(after[k - 1], conjuncts[k], column)
  IN  after[Len(conjuncts)]

\* Which keys a range admits, for keys that have an order.
Admits(range, key) ==
  /\ \/ range.lower.kind = "unbounded"
     \/ range.lower.value < key
     \/ range.lower.kind = "included" /\ range.lower.value = key
  /\ \/ range.upper.kind = "unbounded"
     \/ range.upper.value > key
     \/ range.upper.kind = "included" /\ range.upper.value = key

\* Filter: what FilterExec above the scan keeps.
Satisfies(row, conjuncts) ==
  \A i \in DOMAIN conjuncts :
    CompareOp(conjuncts[i].op, row[conjuncts[i].column], conjuncts[i].value) = "true"
===============================================================================
