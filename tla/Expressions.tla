----------------------------- MODULE Expressions -----------------------------
(***************************************************************************)
(* Bound expressions and their meaning: the reference evaluator of         *)
(* expr/scalar.rs, one row at a time.  A row gives each relation its       *)
(* values, so a column is found by the relation and index it was bound to. *)
(* Integers have Width bits and floats are whole numbers and NaN; texts    *)
(* are numbers of their own order, LIKE a relation between them.           *)
(***************************************************************************)
EXTENDS SqlValues, Sequences, SequencesExt

CONSTANTS
  RAISE,     \* an evaluation that ended in an error
  Width,     \* the bits of an integer
  Likeness,  \* the pairs of a text and a pattern it matches
  Escapes    \* the texts of one character

ASSUME ExpressionsAssumption ==
  /\ RAISE \notin Int \cup {NULL, NaN}
  /\ Width \in Nat \ {0}

\* FALSE compares less than TRUE: a boolean is its number.
False == 0
True == 1
Bool(b) == IF b THEN True ELSE False

Column(rel, index) == [node |-> "column", rel |-> rel, index |-> index]
Literal(v) == [node |-> "literal", value |-> v]
Binary(op, l, r) == [node |-> "binary", op |-> op, left |-> l, right |-> r, type |-> "int"]
FloatBinary(op, l, r) == [Binary(op, l, r) EXCEPT !.type = "float"]
Unary(op, e) == [node |-> "unary", op |-> op, expr |-> e, type |-> "int"]
IsNull(e, negated) == [node |-> "is null", expr |-> e, negated |-> negated]
Between(e, low, high, negated) ==
  [node |-> "between", expr |-> e, low |-> low, high |-> high, negated |-> negated]
InList(e, list, negated) ==
  [node |-> "in", expr |-> e, list |-> list, negated |-> negated]
Like(e, pattern, escape, negated) ==
  [node |-> "like", expr |-> e, pattern |-> pattern, escape |-> escape, negated |-> negated]
\* whens: pairs of a condition and a result; otherwise: no expression or one.
Case(whens, otherwise) ==
  [node |-> "case", whens |-> whens, otherwise |-> otherwise, type |-> "int"]
Cast(e, from, to) == [node |-> "cast", expr |-> e, from |-> from, to |-> to]

LogicalOps == {"AND", "OR"}
ArithmeticOps == {"+", "-", "*", "/", "%"}
And(l, r) == Binary("AND", l, r)

\* Every expression directly under e.
Operands(e) ==
  CASE e.node \in {"column", "literal"} -> <<>>
    [] e.node = "binary" -> <<e.left, e.right>>
    [] e.node \in {"unary", "is null", "cast"} -> <<e.expr>>
    [] e.node = "between" -> <<e.expr, e.low, e.high>>
    [] e.node = "in" -> <<e.expr>> \o e.list
    [] e.node = "like" -> <<e.expr, e.pattern>> \o e.escape
    [] e.node = "case" -> FlattenSeq(e.whens) \o e.otherwise
    [] OTHER -> <<>>

-----------------------------------------------------------------------------
(* Values.                                                                 *)

AsBool(v) == IF v = NULL THEN "unknown" ELSE IF v = True THEN "true" ELSE "false"
FromTri(t) == IF t = "unknown" THEN NULL ELSE Bool(t = "true")
Negate(v) == FromTri(three_valued_not(AsBool(v)))
Comparison(op, l, r) == FromTri(CompareOp(op, l, r))

Fits(n) == -2^(Width - 1) <= n /\ n < 2^(Width - 1)
Checked(n) == IF Fits(n) THEN n ELSE RAISE

Magnitude(n) == IF n < 0 THEN -n ELSE n
\* Division truncates toward zero; the remainder has the sign of the dividend.
Quotient(a, b) ==
  LET q == Magnitude(a) \div Magnitude(b) IN IF (a < 0) = (b < 0) THEN q ELSE -q
Remainder(a, b) == a - b * Quotient(a, b)

\* checked_rem overflows with the quotient, though the remainder would be 0.
IntArithmetic(op, a, b) ==
  CASE op = "+" -> Checked(a + b)
    [] op = "-" -> Checked(a - b)
    [] op = "*" -> Checked(a * b)
    [] b = 0 -> RAISE
    [] Checked(Quotient(a, b)) = RAISE -> RAISE
    [] op = "/" -> Quotient(a, b)
    [] OTHER -> Remainder(a, b)

\* SQL raises on a zero divisor in floating point too, whatever is divided.
FloatArithmetic(op, a, b) ==
  CASE op \in {"/", "%"} /\ b = 0 -> RAISE
    [] NaN \in {a, b} -> NaN
    [] op = "+" -> a + b
    [] op = "-" -> a - b
    [] op = "*" -> a * b
    [] op = "/" -> Quotient(a, b)
    [] OTHER -> Remainder(a, b)

ArithmeticOf(type, op, a, b) ==
  IF NULL \in {a, b} THEN NULL
  ELSE IF type = "int" THEN IntArithmetic(op, a, b) ELSE FloatArithmetic(op, a, b)

UnaryOf(op, type, v) ==
  CASE op = "NOT" -> Negate(v)
    [] v = NULL \/ op = "+" -> v
    [] type = "int" -> Checked(-v)
    [] OTHER -> IF v = NaN THEN NaN ELSE -v

\* types::cast_scalar, between the types modelled here.
CastOf(v, from, to) ==
  CASE v = NULL -> NULL
    [] to = "int" /\ from = "bool" -> v
    [] to = "int" -> IF v = NaN THEN RAISE ELSE Checked(v)
    [] to = "bool" /\ from = "int" -> Bool(v # 0)
    [] to = "float" /\ from = "int" -> v
    [] from = to -> v
    [] OTHER -> RAISE

LikeOf(text, pattern, escape, negated) ==
  IF NULL \in {text, pattern} \cup ToSet(escape) THEN NULL
  ELSE IF \E i \in DOMAIN escape : escape[i] \notin Escapes THEN RAISE
  ELSE Bool((<<text, pattern>> \in Likeness) # negated)

-----------------------------------------------------------------------------
(* scalar::eval.                                                           *)

RECURSIVE Eval(_, _)

EvalAll(es, row) == [i \in DOMAIN es |-> Eval(es[i], row)]

EvalBinary(e, row) ==
  LET l == Eval(e.left, row)
  IN  IF l = RAISE THEN RAISE
      ELSE IF (e.op = "AND" /\ l = False) \/ (e.op = "OR" /\ l = True) THEN l
      ELSE LET r == Eval(e.right, row)
           IN  CASE r = RAISE -> RAISE
                 [] e.op = "AND" -> FromTri(three_valued_and(AsBool(l), AsBool(r)))
                 [] e.op = "OR" -> FromTri(three_valued_or(AsBool(l), AsBool(r)))
                 [] e.op \in ComparisonOps -> Comparison(e.op, l, r)
                 [] OTHER -> ArithmeticOf(e.type, e.op, l, r)

EvalBetween(e, row) ==
  LET v == EvalAll(Operands(e), row)
  IN  IF RAISE \in ToSet(v) THEN RAISE
      ELSE FromTri(BetweenTruth(v[1], v[2], v[3], e.negated))

\* A NULL value settles the answer before the items are looked at.
EvalInList(e, row) ==
  LET v == Eval(e.expr, row)
      items == EvalAll(e.list, row)
  IN  CASE e.list = <<>> -> Bool(e.negated)
        [] v \in {NULL, RAISE} -> v
        [] RAISE \in ToSet(items) -> RAISE
        [] OTHER -> FromTri(InListTruth(v, ToSet(items), e.negated))

EvalLike(e, row) ==
  LET v == EvalAll(Operands(e), row)
  IN  IF RAISE \in ToSet(v) THEN RAISE
      ELSE LikeOf(v[1], v[2], SubSeq(v, 3, Len(v)), e.negated)

RECURSIVE EvalCase(_, _, _)
EvalCase(whens, otherwise, row) ==
  IF whens = <<>>
  THEN IF otherwise = <<>> THEN NULL ELSE Eval(otherwise[1], row)
  ELSE LET condition == Eval(Head(whens)[1], row)
       IN  IF condition = RAISE THEN RAISE
           ELSE IF condition = True THEN Eval(Head(whens)[2], row)
           ELSE EvalCase(Tail(whens), otherwise, row)

Eval(e, row) ==
  CASE e.node = "literal" -> e.value
    [] e.node = "column" -> row[e.rel][e.index]
    [] e.node = "binary" -> EvalBinary(e, row)
    [] e.node = "between" -> EvalBetween(e, row)
    [] e.node = "in" -> EvalInList(e, row)
    [] e.node = "like" -> EvalLike(e, row)
    [] e.node = "case" -> EvalCase(e.whens, e.otherwise, row)
    [] OTHER ->
         LET v == Eval(e.expr, row)
         IN  CASE v = RAISE -> RAISE
               [] e.node = "is null" -> Bool((v = NULL) # e.negated)
               [] e.node = "unary" -> UnaryOf(e.op, e.type, v)
               [] e.node = "cast" -> CastOf(v, e.from, e.to)

-----------------------------------------------------------------------------
(* What is known of an expression without a row.                           *)

RECURSIVE CanRaise(_)

\* Mutant of CanRaise: a minus sign is taken for harmless, though -(-2) has no room.
CanRaiseUnsigned(e) ==
  \/ e.node \in {"cast", "subquery"}
  \/ e.node = "binary" /\ e.op \in ArithmeticOps
  \/ e.node = "like" /\ e.escape # <<>>
  \/ \E i \in DOMAIN Operands(e) : CanRaise(Operands(e)[i])

\* BoundExpr::can_raise and CompiledExpr::can_raise: yes unless it is certain.
CanRaise(e) ==
  \/ e.node \in {"cast", "subquery"}
  \/ e.node = "binary" /\ e.op \in ArithmeticOps
  \/ e.node = "unary" /\ e.op = "-"
  \/ e.node = "like" /\ e.escape # <<>>
  \/ \E i \in DOMAIN Operands(e) : CanRaise(Operands(e)[i])
==============================================================================
