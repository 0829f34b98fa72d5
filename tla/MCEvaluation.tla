---------------------------- MODULE MCEvaluation -----------------------------
(***************************************************************************)
(* Predicates answered on decoded columns, by the two evaluators, and on   *)
(* encoded ones.  Evaluators and encodings share no state: in a behaviour  *)
(* one of them moves and the other rests.                                  *)
(***************************************************************************)
EXTENDS Vectorized, Encodings

VARIABLE subject  \* which of the two moves

EvaluationInit ==
  \/ subject = "expression" /\ Init /\ EncodingInit /\ type = "integer"
  \/ /\ subject = "column" /\ EncodingInit
     /\ job = CHOOSE j \in Jobs[1] : TRUE
     /\ result = <<>>

EvaluationNext ==
  /\ UNCHANGED subject
  /\ \/ subject = "expression" /\ Next /\ UNCHANGED encodingVars
     \/ subject = "column" /\ EncodingNext /\ UNCHANGED vars

EvaluationSpec == EvaluationInit /\ [][EvaluationNext]_<<subject, vars, encodingVars>>

MCNumber == -8..7
-----------------------------------------------------------------------------
(* Expressions two levels deep over a batch of two relations: integers a   *)
(* and b, floats f and g with NaN, a boolean p, all with NULLs, in four    *)
(* rows of which any subset is live.                                       *)

MCLikeness == {<<0, 0>>, <<1, 1>>, <<0, 2>>, <<1, 2>>}
MCEscapes == {1}

\* The batch: t's columns a, b and p, then u's f and g; t's third column is pruned.
Context == Concat(Projected("t", 4, <<1, 2, 4>>), Projected("u", 2, <<1, 2>>))
Data ==
  <<Build(<<-2, 0, 1, NULL>>), Build(<<-1, 1, NULL, 0>>),
    Build(<<True, False, NULL, True>>),
    Build(<<0, NaN, 1, NULL>>), Build(<<0, 1, NaN, NaN>>)>>

a == Column("t", 1)
b == Column("t", 2)
p == Column("t", 4)
f == Column("u", 1)
g == Column("u", 2)

Numbers == {a, b, Literal(0), Literal(1), Literal(NULL)}
Divisions == {Binary("/", Literal(-2), b), Binary("%", a, b), Binary("+", a, b),
              Binary("-", b, a), Binary("*", a, Literal(-1)), Unary("-", a), Unary("+", b)}
Floats == {f, FloatBinary("/", g, f), FloatBinary("*", f, g), Cast(a, "int", "float")}
Comparisons ==
  {Binary(op, l, r) : op \in ComparisonOps, l \in Numbers, r \in Numbers}
  \cup {Binary(op, l, r) : op \in {"=", "<", ">="}, l \in Divisions, r \in Numbers}
  \cup {Binary(op, l, r) : op \in ComparisonOps, l \in {f, g}, r \in {f, g, Literal(0), Literal(NULL)}}
  \cup {Binary(op, p, q) : op \in ComparisonOps, q \in {p, Literal(True), Literal(False)}}
Guards ==
  {p, Literal(NULL), Literal(False), Binary("<>", b, Literal(0)), Binary("<", a, Literal(0)),
   Binary(">", Binary("/", a, b), Literal(0)), Binary(">=", f, g),
   IsNull(a, FALSE), IsNull(p, TRUE), Unary("NOT", p), Unary("NOT", Binary("=", b, Literal(0)))}
Logical ==
  {Binary(op, l, r) : op \in LogicalOps, l \in Guards, r \in Guards}
  \cup {Unary("NOT", Binary(op, l, r)) : op \in LogicalOps, l \in Guards, r \in Guards}
Lists ==
  {<<>>, <<Literal(0)>>, <<Literal(NULL)>>, <<Literal(-2), Literal(NULL)>>,
   <<Literal(0), Literal(1)>>}
Tests ==
  {InList(e, list, n) : e \in {a, b, f, Binary("+", a, b)}, list \in Lists, n \in BOOLEAN}
  \cup {Between(e, l, h, n) : e \in {a, b, Binary("/", a, b)}, l \in {Literal(-1), b, Literal(NULL)},
                               h \in {Literal(1), a}, n \in BOOLEAN}
  \cup {Like(e, t, esc, n) : e \in {a, Literal(0)}, t \in {b, Literal(2), Literal(NULL)},
                             esc \in {<<>>, <<Literal(1)>>, <<b>>}, n \in BOOLEAN}
Cases ==
  {Case(<<<<c, x>>>>, o) : c \in Guards, x \in {Literal(1), Binary("/", a, b)}, o \in {<<>>, <<a>>}}
  \cup {Case(<<<<c, x>>, <<d, b>>>>, <<Binary("%", Literal(1), b)>>) :
          c \in Guards, d \in Guards, x \in {Literal(NULL), a}}
Casts == {Cast(e, "float", "int") : e \in {f, FloatBinary("*", g, Literal(-2))}}
         \cup {Cast(e, "int", "bool") : e \in {a, b}} \cup {Cast(p, "bool", "int")}

AllLive == {SetToSortSeq(S, <) : S \in SUBSET (1..4)}

Job(exprs, live, predicate) ==
  {[expr |-> e, ctx |-> Context, widths |-> [t |-> 4, u |-> 2], predicate |-> predicate,
    batch |-> [columns |-> Data, selection |-> s]] : e \in exprs, s \in live}

MCJobs ==
  <<Job(Divisions \cup Floats \cup Casts \cup Cases, AllLive, FALSE),
    Job(Comparisons \cup Logical \cup Tests, AllLive, TRUE)>>
-----------------------------------------------------------------------------
(* Integers and words of four bits, blocks of two values: values straddle  *)
(* words, a block's range reaches from the smallest integer, and the       *)
(* widest spans are refused.  Runs pay from two rows each on.              *)

MCType == {"integer", "text", "float"}
MCCells ==
  [t \in MCType |->
     CASE t = "integer" -> {-8, -5, -1, 0, 2, 3, NULL}
       [] t = "text" -> {1, 2, 3, NULL}
       [] t = "float" -> {0, 1, NaN, NULL}]

MCLiterals ==
  {[own |-> TRUE, value |-> v] : v \in {-8, -4, -1, 1, 2, 3, NULL}}
  \cup {[own |-> FALSE, value |-> 1]}
==============================================================================
