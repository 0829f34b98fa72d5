------------------------------ MODULE SqlValues ------------------------------
(***************************************************************************)
(* The values a column holds and SQL's three-valued logic over them, as    *)
(* types.rs and expr/mod.rs compute them.  A string orders, for every      *)
(* property of this project, like a number of its own order.               *)
(***************************************************************************)
EXTENDS Integers

CONSTANTS
  Number,   \* the comparable values of a column
  NULL,     \* the SQL NULL
  NaN       \* a float that is ordered with nothing, itself included

ASSUME ValuesAssumption ==
  /\ Number \subseteq Int
  /\ NULL \notin Int
  /\ NaN \notin Int
  /\ NULL # NaN

Datum == Number \cup {NULL, NaN}

\* The comparison operators of the parser's BinaryOperator.
ComparisonOps == {"=", "<>", "<", "<=", ">", ">="}

\* An Option<bool>: "unknown" stands for None.
Tri == {"true", "false", "unknown"}

\* types::compare: None, here "none", when either side is NULL or NaN.
Compare(a, b) ==
  IF {a, b} \cap {NULL, NaN} # {} THEN "none"
  ELSE IF a < b THEN "less"
  ELSE IF a = b THEN "equal"
  ELSE "greater"

\* Whether an operator holds of operands in this order.
Accepts(op, ordering) ==
  \/ op \in {"=", "<=", ">="} /\ ordering = "equal"
  \/ op \in {"<", "<=", "<>"} /\ ordering = "less"
  \/ op \in {">", ">=", "<>"} /\ ordering = "greater"

\* expr::scalar::compare_op: None flows through as UNKNOWN.
CompareOp(op, l, r) ==
  LET ordering == Compare(l, r)
  IN  IF ordering = "none" THEN "unknown"
      ELSE IF Accepts(op, ordering) THEN "true" ELSE "false"

\* A single FALSE settles a conjunction even when the other side is UNKNOWN.
three_valued_and(l, r) ==
  IF "false" \in {l, r} THEN "false"
  ELSE IF {l, r} = {"true"} THEN "true" ELSE "unknown"

three_valued_or(l, r) ==
  IF "true" \in {l, r} THEN "true"
  ELSE IF {l, r} = {"false"} THEN "false" ELSE "unknown"

three_valued_not(v) ==
  IF v = "true" THEN "false" ELSE IF v = "false" THEN "true" ELSE "unknown"

\* x BETWEEN lo AND hi is x >= lo AND x <= hi, its NULL behaviour included.
BetweenTruth(x, lo, hi, negated) ==
  LET inside == three_valued_and(CompareOp(">=", x, lo), CompareOp("<=", x, hi))
  IN  IF negated THEN three_valued_not(inside) ELSE inside

\* x IN (items): an empty list settles it, and without a match a NULL in the
\* list turns FALSE into UNKNOWN.
InListTruth(x, items, negated) ==
  LET found == \E v \in items : Compare(x, v) = "equal"
      tri == IF found THEN "true"
             ELSE IF NULL \in items THEN "unknown" ELSE "false"
      positive == IF items = {} THEN "false"
                  ELSE IF x = NULL THEN "unknown" ELSE tri
  IN  IF negated THEN three_valued_not(positive) ELSE positive

IsNullTruth(x, negated) ==
  IF (x = NULL) # negated THEN "true" ELSE "false"
==============================================================================
