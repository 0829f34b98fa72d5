---------------------------- MODULE MCOptimizer -----------------------------
(***************************************************************************)
(* Bound queries over three tables of two or three rows with NULLs, each   *)
(* family for the rules that meet in it.  Relation ids grow from the       *)
(* leaves to the top, as Binder::new_rel gives them out.                   *)
(***************************************************************************)
EXTENDS Optimizer

MCTables == [t |-> <<<<0, 1>>, <<1, 2>>, <<2, NULL>>>>,
             u |-> <<<<1, 1>>, <<NULL, 2>>, <<1, 0>>>>,
             v |-> <<<<0>>, <<1>>>>]

T == Scan(1, "t", <<1, 2>>)
U == Scan(2, "u", <<1, 2>>)
V == Scan(3, "v", <<1>>)
Q == Scan(4, "u", <<1, 2>>)
a == Column(1, 1)
b == Column(1, 2)
x == Column(2, 1)
y == Column(2, 2)
p == Column(3, 1)
N(v) == Literal(v)
Or(l, r) == Binary("OR", l, r)
Eq(l, r) == Binary("=", l, r)
Top(exprs, input) == Project(20, exprs, input)
Where(condition, input) == Filtered(15, condition, input)

\* Folding and intervals, with divisions that only a guard keeps from raising.
Divided == Binary(">", Binary("/", N(2), a), N(0))
Plain ==
  {Binary(">", b, N(0)), Binary(">=", b, N(1)), Binary("<", N(1), b), Binary("<=", b, N(1)),
   Eq(b, N(1)), Binary("<>", b, N(1)), Binary("<>", a, N(0)), Divided, IsNull(b, FALSE)}
Constant == {N(True), N(False), N(NULL), Eq(N(1), Binary("+", N(0), N(1))),
             Unary("NOT", Unary("NOT", Eq(b, N(2)))), Eq(Binary("/", N(1), N(0)), N(1))}
Filters ==
  {Top(<<a, b>>, Where(And(c, d), T)) : c \in Plain, d \in Plain}
  \cup {Top(<<a>>, Where(Binary(op, c, d), T)) :
          op \in LogicalOps, c \in Constant \cup {Divided}, d \in Constant \cup {Eq(b, N(1))}}

\* Outer joins beneath filters that may or may not reject the padding.
OverJoin ==
  {Eq(y, N(1)), Binary("<", b, N(2)), IsNull(x, FALSE), IsNull(y, TRUE), Unary("NOT", IsNull(b, FALSE)),
   Or(Eq(y, N(1)), Eq(b, N(2))), Or(Eq(y, N(1)), Binary(">", x, N(0))),
   Between(y, N(0), N(1), FALSE), Between(y, N(0), b, TRUE), InList(b, <<N(1), y>>, FALSE),
   InList(y, <<N(1)>>, TRUE), Binary("<", b, y), Eq(N(1), N(1)),
   Case(<<<<IsNull(y, FALSE), N(True)>>>>, <<>>)}
OuterJoins ==
  {Top(<<b, y>>, Where(c, Join(10, type, <<on>>, T, U))) :
     type \in {"inner", "left", "right", "full"}, on \in {Eq(a, x), Eq(a, N(1))},
     c \in {And(c, d) : c \in OverJoin, d \in {Eq(N(0), N(0)), Binary(">", b, N(0)), IsNull(x, FALSE)}}}

\* HAVING over keys and aggregates, and WHERE beneath it.
G(i) == Column(12, i)
Havings ==
  {Top(<<G(1), G(2)>>, Filtered(13, And(c, d),
         Aggregate(12, g, <<Agg("count", <<>>, FALSE), Agg("sum", <<b>>, FALSE)>>, i))) :
     c \in {Eq(G(1), N(1)), Binary(">", G(1), N(0)), IsNull(G(1), FALSE)},
     d \in {Eq(G(2), N(1)), Binary("<", G(2), G(1)), InList(G(1), <<N(1), N(2)>>, FALSE),
            Case(<<<<Eq(G(1), N(1)), N(True)>>>>, <<N(False)>>)},
     g \in {<<a>>, <<Binary("+", a, N(1))>>, <<b>>}, i \in {T, Where(Binary("<>", a, N(0)), T)}}

\* Three tables, joined in the order of the query or not at all.
Three ==
  {Top(<<b, y, p>>, Filtered(14, c, Join(11, "inner", on, Join(10, "cross", <<>>, T, U), V))) :
     on \in {<<Eq(a, p)>>, <<And(Eq(a, p), Eq(p, N(1)))>>, <<Eq(Binary("+", a, p), y)>>},
     c \in {Eq(a, x), And(Eq(x, p), Binary("<", b, N(2))), Eq(Binary("+", a, p), y)}}
  \cup {Top(<<b, y, p>>, Join(11, "inner", <<Eq(x, p)>>, Join(10, type, <<Eq(a, x)>>, T, U), V)) :
          type \in {"inner", "left"}}

\* Aggregates over joins, with groups of either side.
J(i) == Column(12, i)
Aggregates ==
  {Top(<<J(Len(g) + 1)>>, Aggregate(12, g, <<f>>, Join(10, "inner", <<on>>, T, U))) :
     on \in {Eq(a, x), And(Eq(a, x), Eq(b, y))},
     g \in {<<a>>, <<b>>, <<y>>, <<b, y>>, <<Binary("+", b, y)>>},
     f \in {Agg("count", <<>>, FALSE), Agg("count", <<b>>, FALSE), Agg("sum", <<y>>, FALSE),
            Agg("min", <<b>>, FALSE), Agg("max", <<y>>, TRUE), Agg("avg", <<b>>, FALSE),
            Agg("sum", <<Binary("+", a, b)>>, FALSE)}}

\* Subqueries of every kind: inner plans have ids below those around them.
Inner(conditions, exprs) == Project(8, exprs, Under(7, conditions, U))
InnerConditions ==
  {<<>>, <<Eq(y, N(2))>>, <<Eq(x, a)>>, <<Eq(x, a), Binary(">", y, N(0))>>, <<Binary("<", y, b)>>,
   <<Eq(N(0), N(1))>>}
InWhere ==
  {Subquery("exists", n, <<>>, TRUE, Inner(c, <<N(1)>>)) : n \in BOOLEAN, c \in InnerConditions}
  \cup {Subquery("in", n, <<v>>, TRUE, Inner(c, <<w>>)) :
          n \in BOOLEAN, v \in {a, b}, w \in {x, y}, c \in InnerConditions}
  \cup {Subquery("exists", FALSE, <<>>, TRUE, q) :
          q \in {Limit(9, 0, <<1>>, Inner(<<Eq(x, a)>>, <<N(1)>>)),
                 Project(8, <<Column(6, 1)>>,
                         Aggregate(6, <<>>, <<Agg("max", <<y>>, FALSE)>>, Under(5, <<Eq(x, a)>>, U)))}}
  \cup {Binary(op, b, Subquery("scalar", FALSE, <<>>, TRUE, Inner(c, <<y>>))) :
          op \in {"=", ">"}, c \in InnerConditions}
  \cup {Binary("<", b, Subquery("scalar", FALSE, <<>>, TRUE,
          Project(8, <<Column(6, 1)>>, Aggregate(6, <<>>, <<Agg("max", <<y>>, FALSE)>>, U))))}
Subqueries ==
  {Top(<<a, b>>, Where(c, T)) : c \in InWhere}
  \cup {Top(<<a, b>>, Where(And(c, d), T)) :
          c \in {Subquery("in", TRUE, <<a>>, FALSE, Inner(<<>>, <<y>>)),
                 Subquery("exists", FALSE, <<>>, TRUE, Inner(<<Eq(x, a)>>, <<N(1)>>))},
          d \in {Eq(b, N(2)), Subquery("exists", TRUE, <<>>, TRUE,
                 Project(6, <<N(1)>>, Filtered(5, Eq(Column(4, 2), b), Q)))}}

\* Subqueries of subqueries. That of the middle query reads a column of it or none,
\* and needs no run, a run, a join, or what only a join could do.
Innermost == Project(6, <<N(1)>>, Filtered(5, Binary(">", y, N(0)), V))
Nested ==
  {Eq(y, Subquery("scalar", FALSE, <<>>, FALSE, Project(6, <<N(2)>>, OneRow(5)))),
   Eq(y, Subquery("scalar", FALSE, <<>>, TRUE, Limit(7, 0, <<1>>, Project(6, <<y>>, V)))),
   Subquery("in", FALSE, <<y>>, TRUE, Project(6, <<N(2)>>, V))}
  \cup {Subquery("exists", n, <<>>, TRUE, Innermost) : n \in BOOLEAN}
Holding(nested) ==
  {And(Binary(">", b, N(0)), Subquery("exists", n, <<>>, TRUE, Inner(c, <<N(1)>>))) :
     n \in BOOLEAN, c \in {<<nested>>, <<nested, Eq(x, a)>>}}
  \cup {Subquery("in", n, <<b>>, TRUE, Inner(<<nested>>, <<x>>)) : n \in BOOLEAN}
  \cup {Eq(b, Subquery("scalar", FALSE, <<>>, TRUE, Inner(<<nested>>, <<x>>)))}
InSubqueries == UNION {{Top(<<a, b>>, Where(c, T)) : c \in Holding(nested)} : nested \in Nested}

\* The same, of a subquery that reads its own table.
OwnColumns ==
  {Top(<<a, b>>, Where(Subquery("exists", FALSE, <<>>, TRUE,
     Inner(<<Subquery("in", FALSE, <<y>>, TRUE, Project(6, <<p>>, V))>>, <<N(1)>>)), T))}

\* Projections that repeat themselves, in places that may not be evaluated.
Sum == Binary("+", a, b)
Quot == Binary("/", N(2), a)
Shared ==
  {Top(<<e, f>>, i) :
     e \in {Sum, Binary("*", Sum, Sum), Case(<<<<Binary("<>", a, N(0)), Quot>>>>, <<Sum>>)},
     f \in {Sum, Binary("-", Binary("*", Sum, Sum), N(1)),
            And(Binary("<>", a, N(0)), Binary(">", Quot, N(0))),
            Case(<<<<Eq(a, N(0)), Sum>>>>, <<Quot>>), b},
     i \in {T, Where(Binary("<", a, N(2)), T)}}

\* Limits, sorts, duplicates, set operations and the names of derived tables.
D(i) == Column(9, i)
Shapes ==
  {Limit(21, s, <<f>>, Top(<<b, e>>, Sort(16, <<a>>, <<[ascending |-> TRUE, nulls_first |-> FALSE]>>, T))) :
     s \in 0..1, f \in 0..2, e \in {N(1), Binary("+", b, b)}}
  \cup {Top(<<D(1)>>, Where(c, SubqueryAlias(9, Project(8, <<b, a>>, T)))) :
          c \in {Eq(D(1), N(1)), And(N(True), Binary("<", D(1), D(2)))}}
  \cup {Top(<<D(1), y>>, Where(Eq(D(2), N(1)), Join(10, "left", <<Eq(D(2), x)>>,
          SubqueryAlias(9, Distinct(8, Project(7, <<b, a>>, T))), U)))}
  \cup {SetOp(21, kind, all, Project(19, <<a>>, Where(Eq(b, N(1)), T)), Project(18, <<x>>, U)) :
          kind \in {"union", "intersect", "except"}, all \in BOOLEAN}
  \cup {Top(<<D(1)>>, CteRef(9, Project(8, <<y>>, U)))}
  \cup {Top(<<Binary("+", N(1), N(1))>>, OneRow(1))}

\* Queries in which the rules feed one another: grouped outer joins beneath HAVING,
\* a subquery among the conditions of a region of joins, sums that repeat over groups.
Composed ==
  {Top(<<Binary("+", Binary("+", G(1), G(2)), N(1)), Binary("*", Binary("+", G(1), G(2)), N(2))>>,
       Filtered(13, And(c, d), Aggregate(12, <<g>>, <<Agg(f, <<b>>, FALSE)>>,
         Under(11, w, Join(10, type, <<Eq(a, x)>>, T, U))))) :
     c \in {Eq(G(1), N(1)), Binary(">", G(2), N(0))}, d \in {Eq(N(1), N(1)), IsNull(G(1), TRUE)},
     g \in {x, b}, f \in {"count", "sum"}, type \in {"inner", "left", "full"},
     w \in {<<>>, <<Binary("<", b, N(2)), Or(Eq(N(1), N(2)), Eq(b, N(1)))>>}}
  \cup {Top(<<b, p>>, Filtered(14, And(s, c), Join(11, "cross", <<>>, Join(10, "inner", <<Eq(a, p)>>, T, V), Q))) :
           s \in {Subquery("exists", n, <<>>, TRUE, Inner(<<Eq(x, a), Binary("<", y, p)>>, <<N(1)>>)) : n \in BOOLEAN}
                  \cup {Subquery("in", FALSE, <<b>>, TRUE, Inner(<<Eq(y, Column(4, 2))>>, <<x>>))},
           c \in {Eq(Column(4, 1), a), Binary("<", Column(4, 2), N(2))}}

Work(queries, optimizing, large, pushes, reorders) ==
  [queries |-> queries, policies |-> Policies(optimizing, large, pushes, reorders)]
On == {TRUE}
Off == {FALSE}
MCWorkloads ==
  <<Work(Filters, On, Off, {0}, {0}), Work(OuterJoins, On, Off, {0}, {0}),
    Work(Havings, On, Off, {0}, {0}), Work(Three, On, Off, {0}, {0, 1}),
    Work(Aggregates, On, Off, {0, 1, 2}, {0, 1}), Work(Subqueries \cup InSubqueries, BOOLEAN, BOOLEAN, {0}, {0, 1}),
    Work(Shared, On, Off, {0}, {0}), Work(Shapes, BOOLEAN, Off, {0}, {0}),
    Work(Composed, On, Off, {0, 1}, {0, 1})>>

\* An outer join beneath a comparison with a value that is given for NULL.
Tolerant == {Top(<<b, y>>, Where(Eq(Case(<<<<IsNull(y, FALSE), N(0)>>>>, <<y>>), N(0)),
                                 Join(10, "left", <<Eq(a, x)>>, T, U)))}
MCTolerant == <<Work(Tolerant, On, Off, {0}, {0})>>

MCNested == <<Work(OwnColumns, On, Off, {0}, {0})>>
=============================================================================
