------------------------------ MODULE MCReading ------------------------------
(* Reading: every expression of two levels of operators and some of three,    *)
(* statements with each of their clauses, every short line of tokens, and     *)
(* statements over two tables that can be bound, or nearly.                   *)
EXTENDS Reading

X == Node("name", <<"x">>, <<>>)
Y == Node("name", <<"y">>, <<>>)
One == Node("literal", <<"1">>, <<>>)
Item(e) == Node("item", <<>>, <<e, List(<<>>)>>)
Relation(name) == Node("relation", <<>>, <<Node("name", <<name>>, <<>>), List(<<>>)>>)
Named(factor, alias) == Node("relation", <<>>, <<factor, List(<<Node("name", <<alias>>, <<>>)>>)>>)
Listed(parts) == Node("from", <<>>, parts)
Selected(words, items, from, where, group, having) ==
  Node("select", words, <<List(items), List(from), List(where), List(group), List(having)>>)
Of(body) == Node("query", <<>>, <<List(<<>>), body, List(<<>>), List(<<>>), List(<<>>)>>)
Select(e) == Of(Selected(<<>>, <<Item(e)>>, <<>>, <<>>, <<>>, <<>>))
Query == Select(One)

-----------------------------------------------------------------------------
Infixes == {"OR", "AND", "=", "||", "-", "*"}
Infixed(L, R) == {Node("binary", <<op>>, <<l, r>>) : op \in Infixes, l \in L, r \in R}
Singles(L) == {Node("unary", <<op>>, <<e>>) : op \in {"NOT", "-"}, e \in L}
              \cup {Node("IS NULL", <<>>, <<e>>) : e \in L}
Postfixed(L, R) ==
  {Node("BETWEEN", <<>>, <<e, low, high>>) : e \in L, low \in R, high \in R}
  \cup {Node("LIKE", <<"LIKE">>, <<e, r>>) : e \in L, r \in R}
  \cup {Node("IN", <<"NOT">>, <<e, r>>) : e \in L, r \in R}
Built(L, R) == Infixed(L, R) \cup Singles(L) \cup Postfixed(L, R)

Leaves == {X}
Level1 == Built(Leaves, Leaves)
           \cup {Node("EXISTS", <<>>, <<Query>>), Node("IS NULL", <<"NOT">>, <<X>>),
                 Node("LIKE", <<"NOT", "ILIKE">>, <<X, Y, One>>), Node("IN query", <<>>, <<X, Query>>)}
Level2 == Infixed(Leaves \cup Level1, Leaves \cup Level1) \cup Singles(Level1)
          \cup Postfixed(Leaves, Leaves \cup Level1) \cup Postfixed(Level1, Leaves)
\* On either side of an operator, two more.
Level3 == Built(Singles(Level1), {X}) \cup Infixed({X}, Singles(Level1))
Enclosed ==
  {Node("CASE", <<>>, <<List(o), List(<<X, Y>> \o more), List(d)>>) :
     o \in {<<>>, <<X>>}, more \in {<<>>, <<Y, One>>}, d \in {<<>>, <<One>>}}
  \cup {Node("CAST", type, <<X>>) : type \in {<<"INT">>, <<"DATE">>, <<"DECIMAL", "2", "1">>}}
  \cup {Node("query value", <<>>, <<Query>>), Node("name", <<"t", "x">>, <<>>)}
Expressions == {Select(Grouped(e)) : e \in Leaves \cup Level1 \cup Level2 \cup Level3 \cup Enclosed}

-----------------------------------------------------------------------------
Orders == {Node("order", words, <<X>>) : words \in {<<>>, <<"DESC">>, <<"ASC", "FIRST">>, <<"LAST">>}}
Bounds == {Node("bound", words, <<>>) : words \in {<<"UNBOUNDED", "PRECEDING">>, <<"CURRENT", "ROW">>}}
          \cup {Node("bound", <<"FOLLOWING">>, <<One>>)}
Over(partition, order, frame) ==
  List(<<Node("over", <<>>, <<List(partition), List(order), List(frame)>>)>>)
Calls ==
  {Node("function", <<"f">> \o d, <<List(args), List(<<>>)>>) :
     d \in {<<>>, <<"DISTINCT">>}, args \in {<<>>, <<X>>, <<X, One>>, <<Node("wildcard", <<>>, <<>>)>>}}
  \cup {Node("function", <<"f">>, <<List(<<X>>), Over(partition, order, frame)>>) :
     partition \in {<<>>, <<X>>}, order \in {<<>>} \cup {<<o>> : o \in Orders},
     frame \in {<<>>} \cup {<<Node("frame", <<"ROWS">>, <<s, e>>)>> : s \in Bounds, e \in Bounds}}

Condition == <<Node("ON", <<>>, <<Node("binary", <<"=">>, <<X, Y>>)>>)>>
Joins ==
  {Node("join", <<kind>>, <<Relation("u"), List(on)>>) :
     kind \in {"INNER", "LEFT", "FULL"}, on \in {Condition, <<Node("USING", <<>>, <<X, Y>>)>>}}
  \cup {Node("join", <<"CROSS">>, <<Named(Query, "u"), List(<<>>)>>)}
Froms == {Listed(<<r>> \o joins) : r \in {Relation("t"), Named(Relation("t").parts[1], "f"), Named(Query, "f")},
                                   joins \in {<<>>} \cup {<<j>> : j \in Joins} \cup {<<j, k>> : j \in Joins, k \in Joins}}
Selects ==
  {Selected(d, <<Item(X)>> \o more, from, where, group, having) :
     d \in {<<>>, <<"DISTINCT">>},
     more \in {<<>>, <<Node("wildcard", <<"f">>, <<>>)>>, <<Node("item", <<>>, <<Y, List(<<X>>)>>)>>},
     from \in {<<>>, <<Listed(<<Relation("t")>>)>>, <<Listed(<<Relation("t")>>), Listed(<<Relation("u")>>)>>},
     where \in {<<>>, <<X>>}, group \in {<<>>, <<X, Y>>}, having \in {<<>>, <<X>>}}
Set(op, l, r) == Node("set", op, <<l, r>>)
Bodies ==
  LET s == Selected(<<>>, <<Item(X)>>, <<Listed(<<Relation("t")>>)>>, <<>>, <<>>, <<>>)
      ops == {<<"UNION">>, <<"UNION", "ALL">>, <<"INTERSECT">>, <<"EXCEPT">>}
  IN  {Set(op, s, s) : op \in ops} \cup {Set(op, Set(o, s, s), s) : op \in ops, o \in ops}
Withs == {<<>>} \cup {<<Node("cte", <<"t">>, <<List(columns), Query>>)>> : columns \in {<<>>, <<X>>, <<X, Y>>}}
Queries ==
  {Node("query", <<>>, <<List(with), body, List(order), List(limit), List(offset)>>) :
     with \in Withs, body \in Bodies,
     order \in {<<>>} \cup {<<o, Node("order", <<"DESC", "LAST">>, <<Y>>)>> : o \in Orders},
     limit \in {<<>>, <<One>>}, offset \in {<<>>, <<One>>}}
Clauses == {Select(c) : c \in Calls} \cup {Of(s) : s \in Selects} \cup Queries
           \cup {Of(Selected(<<>>, <<Item(X)>>, <<f>>, <<>>, <<>>, <<>>)) : f \in Froms}

-----------------------------------------------------------------------------
\* Statements over two tables of the same columns, for the binder.
MCSchemas == [t |-> <<Field("x", "int", FALSE), Field("y", "int", TRUE)>>,
              u |-> <<Field("x", "int", TRUE), Field("y", "int", FALSE)>>]
MCTables == [t |-> <<<<1, NULL>>, <<2, 1>>, <<2, 0>>>>, u |-> <<<<1, 1>>, <<NULL, 2>>>>]
MCLikeness == {}
MCEscapes == {}

Num(n) == Node("literal", <<n>>, <<>>)
ColumnIn(table, column) == Node("name", <<table, column>>, <<>>)
Op(op, l, r) == Node("binary", <<op>>, <<l, r>>)
As(e, alias) == Node("item", <<>>, <<e, List(<<Node("name", <<alias>>, <<>>)>>)>>)
Star(words) == Node("wildcard", words, <<>>)
Call(words, arg) == Node("function", words, <<List(<<arg>>), List(<<>>)>>)
Rows == Call(<<"count">>, Star(<<>>))
T == Relation("t")
U == Relation("u")
F == Named(T.parts[1], "f")
On(kind, relation, e) == Node("join", <<kind>>, <<relation, List(<<Node("ON", <<>>, <<e>>)>>)>>)
Crossed(relation) == Node("join", <<"CROSS">>, <<relation, List(<<>>)>>)
Key(e, words) == Node("order", words, <<e>>)
Asked(with, body, order, limit, offset) ==
  Node("query", <<>>, <<List(with), body, List(order), List(limit), List(offset)>>)
Plain(items, from, where) == Selected(<<>>, items, from, where, <<>>, <<>>)
Sub(items, from, where) == Of(Plain(items, from, where))
Whose(relation) == <<Listed(<<relation>>)>>

\* Queries beneath, which read their own rows, those of the query around, or both.
Beneaths ==
  {Sub(<<Item(item)>>, Whose(relation), where) :
     item \in {X, ColumnIn("t", "y")}, relation \in {U, F, T},
     where \in {<<>>, <<Op("=", X, ColumnIn("t", "x"))>>, <<Op("<", ColumnIn("u", "x"), ColumnIn("f", "x"))>>}}
Nestings ==
  {Node("EXISTS", <<"NOT">>, <<q>>) : q \in Beneaths}
  \cup {Node("IN query", words, <<X, q>>) : words \in {<<>>, <<"NOT">>}, q \in Beneaths}
  \cup {Op("=", ColumnIn("t", "y"), Node("query value", <<>>, <<q>>)) : q \in Beneaths}
\* One beneath another: the innermost reads the outermost.
Deep == {Node("EXISTS", <<>>, <<Sub(<<Item(One)>>, Whose(U), <<Node("IN query", <<>>, <<e, q>>)>>)>>) :
           e \in {X, ColumnIn("t", "x")}, q \in Beneaths}

Sides ==
  {<<>>, Whose(T), Whose(F), <<Listed(<<T>>), Listed(<<U>>)>>, <<Listed(<<T>>), Listed(<<U, Crossed(F)>>)>>}
  \cup {<<Listed(<<T, On(kind, U, c)>>)>> : kind \in {"INNER", "LEFT", "RIGHT", "FULL"},
          c \in {Op("=", ColumnIn("t", "x"), ColumnIn("u", "x")), Op("<", X, Y)}}
  \cup {<<Listed(<<T, On(kind, U, Op("=", ColumnIn("t", "y"), ColumnIn("u", "x"))),
                   On("LEFT", F, Op("=", ColumnIn("f", "x"), ColumnIn("u", "y")))>>)>> : kind \in {"LEFT", "FULL"}}
  \cup {Whose(Named(Sub(<<As(Y, "x"), Item(X)>>, Whose(T), <<>>), "f"))}
Wheres == {<<>>, <<Node("BETWEEN", <<>>, <<X, ColumnIn("t", "y"), Num("2")>>)>>,
           <<Node("IN", <<"NOT">>, <<ColumnIn("t", "y"), X, One, Num("2")>>)>>,
           <<Op("<", ColumnIn("t", "x"), ColumnIn("u", "y"))>>, <<Node("IS NULL", <<>>, <<ColumnIn("u", "y")>>)>>,
           <<Op("=", X, One)>>, <<Node("literal", <<"NULL">>, <<>>)>>}
Lists == {<<Item(X)>>, <<Star(<<>>)>>, <<Star(<<"u">>), Item(ColumnIn("t", "x"))>>, <<As(Y, "x"), Item(Op("-", X, One))>>,
          <<Item(Node("CASE", <<>>, <<List(<<X>>), List(<<One, Y>>), List(<<Num("2")>>)>>))>>,
          <<Item(Node("CASE", <<>>, <<List(<<>>), List(<<Op("<", X, Y), X>>), List(<<>>)>>))>>}
Sorts == {<<>>, <<Key(X, <<>>)>>, <<Key(Num("2"), <<"DESC">>), Key(One, <<>>)>>, <<Key(Y, <<"FIRST">>)>>,
            <<Key(Op("-", X, One), <<"DESC", "LAST">>)>>}
Nothing == Node("literal", <<"NULL">>, <<>>)
\* A string among numbers is read as one, or refused.
Digit == Num("'1'")
Word == Num("'s'")
Strung ==
  {Op(op, l, r) : op \in {"=", "<", "-"}, l \in {X, Digit, Word}, r \in {Y, Digit, Nothing}}
  \cup {Node("BETWEEN", <<>>, <<e, low, high>>) : e \in {X, Digit}, low \in {Digit, Word, Y}, high \in {Digit, Num("2")}}
  \cup {Node("IN", words, <<e, v, w>>) : words \in {<<>>, <<"NOT">>}, e \in {X, Digit}, v \in {Digit, Word}, w \in {Y, Num("2"), Nothing}}
  \cup {Node("CASE", <<>>, <<List(o), List(<<Digit, X>>), List(<<Y>>)>>) : o \in {<<>>, <<X>>, <<Digit>>, <<Op("=", X, Y)>>}}
Quoted == {Sub(<<Item(e), Item(Digit)>>, Whose(T), <<>>) : e \in Strung}
Asks ==
  {Of(Plain(items, from, where)) : items \in Lists, from \in Sides, where \in Wheres}
  \cup {Asked(<<>>, Selected(d, items, from, <<>>, <<>>, <<>>), order, limit, <<Num("1")>>) :
          d \in {<<>>, <<"DISTINCT">>}, items \in Lists, order \in Sorts, limit \in {<<>>, <<Num("2")>>},
          from \in {Whose(T), Whose(F), <<Listed(<<T>>), Listed(<<U>>)>>}}
  \cup {Sub(<<Item(X)>>, Whose(T), <<e>>) : e \in Nestings \cup Deep}
  \cup {Sub(<<Item(e)>>, Whose(T), <<>>) : e \in Nestings}

Summaries == {Rows, Call(<<"sum">>, Y), Call(<<"count", "DISTINCT">>, ColumnIn("t", "x")),
              Call(<<"min">>, Op("-", X, One))}
Groupings ==
  {Asked(<<>>, Selected(<<>>, items, Whose(T), <<>>, group, having), order, <<>>, <<>>) :
     items \in {<<Item(f)>> : f \in Summaries}
              \cup {<<Item(g), As(Op("-", f, One), "f")>> : g \in {X, Y, Nested(Op("-", X, One))}, f \in Summaries},
     group \in {<<>>, <<ColumnIn("t", "x")>>, <<X, Y>>, <<Op("-", X, One)>>},
     having \in {<<>>, <<Op("<", One, Rows)>>, <<Op("=", X, Call(<<"min">>, X))>>, <<Op("<", One, One)>>},
     order \in {<<>>, <<Key(One, <<"DESC">>)>>, <<Key(Rows, <<>>)>>}}

Arms == {Plain(<<Item(X)>>, Whose(T), <<>>), Plain(<<Item(Y)>>, Whose(U), <<>>),
         Plain(<<Item(Nothing)>>, <<>>, <<>>), Plain(<<Star(<<>>)>>, Whose(U), <<>>)}
Unions ==
  {Asked(<<>>, Set(o, l, r), order, <<>>, <<>>) :
     o \in {<<"UNION">>, <<"UNION", "ALL">>, <<"INTERSECT">>, <<"EXCEPT">>}, l \in Arms, r \in Arms,
     order \in {<<>>, <<Key(X, <<"DESC">>)>>, <<Key(One, <<>>)>>}}
With(name, columns, query) == Node("cte", <<name>>, <<List(columns), query>>)
Definitions == {Of(arm) : arm \in Arms} \cup {Sub(<<Item(X), Item(Y)>>, Whose(F), <<>>)}
Shared ==
  {Asked(<<With(name, columns, q)>> \o more, Plain(<<Star(<<>>)>>, from, <<>>), <<>>, <<>>, <<>>) :
     name \in {"t", "f"}, columns \in {<<>>, <<Y>>, <<Y, X>>}, q \in Definitions,
     more \in {<<>>, <<With("u", <<>>, Sub(<<Item(Y)>>, Whose(T), <<>>))>>},
     from \in {Whose(T), <<Listed(<<T>>), Listed(<<U>>)>>, Whose(Relation("f"))}}
  \cup {Asked(<<With("f", <<>>, q)>>,
              Plain(<<Item(X)>>, Whose(T), <<Node("EXISTS", <<>>, <<Sub(<<Item(X)>>, Whose(Relation("f")), <<e>>)>>)>>),
              <<>>, <<>>, <<>>) :
          q \in Definitions, e \in {Op("=", ColumnIn("f", "x"), ColumnIn("t", "x")), Op("=", Y, ColumnIn("t", "y"))}}
Bindings == Asks \cup Quoted \cup Groupings \cup Unions \cup Shared

MCStatements == Expressions \cup Clauses \cup Bindings
Alphabet == {"x", "1", "NOT", "-", "=", "AND", "BETWEEN", "IN", "IS", "NULL", "(", ")", ",", "DATE", "'s'"}
Operators == {"x", "-", "=", "AND", "BETWEEN", "("}
Decimals == {<<"CAST", "(", "x", "AS", "DECIMAL">> \o args \o <<")">> :
               args \in {<<"(", p, ")">> : p \in Numbers} \cup {<<"(", p, ",", s, ")">> : p, s \in Numbers}}
MCLines == {<<"SELECT">> \o s : s \in Decimals}
           \cup {<<"SELECT">> \o s : s \in UNION {[1..n -> Alphabet] : n \in 0..3} \cup [1..4 -> Operators]}
==============================================================================
