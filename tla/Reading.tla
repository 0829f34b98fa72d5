------------------------------- MODULE Reading -------------------------------
(***************************************************************************)
(* A statement is parsed and bound (lib.rs: Engine::bound_plan): one that   *)
(* was written from a tree, and one that is any line of tokens.             *)
(***************************************************************************)
EXTENDS Binder

-----------------------------------------------------------------------------
(* The text of a statement, written from its tree: what the parser has to   *)
(* read back. Parentheses are nodes of the tree (Expr::Nested); Grouped     *)
(* adds the ones that the levels of the operators call for.                 *)

RECURSIVE Text(_), Separated(_)
Separated(parts) ==
  IF parts = <<>> THEN <<>>
  ELSE Text(Head(parts)) \o IF Len(parts) = 1 THEN <<>> ELSE <<",">> \o Separated(Tail(parts))
After(words, list) == IF list.parts = <<>> THEN <<>> ELSE words \o Separated(list.parts)
Bracketed(text) == <<"(">> \o text \o <<")">>
Texts(parts) == FlattenSeq([i \in DOMAIN parts |-> Text(parts[i])])

PostfixText(n) ==
  LET lhs == Text(n.parts[1])
      part(i) == Text(n.parts[i])
  IN  CASE n.kind = "IS NULL" -> lhs \o <<"IS">> \o n.words \o <<"NULL">>
        [] n.kind = "BETWEEN" -> lhs \o n.words \o <<"BETWEEN">> \o part(2) \o <<"AND">> \o part(3)
        [] n.kind = "IN" -> lhs \o n.words \o <<"IN">> \o Bracketed(Separated(Tail(n.parts)))
        [] n.kind = "IN query" -> lhs \o n.words \o <<"IN">> \o Bracketed(part(2))
        [] n.kind = "LIKE" -> lhs \o n.words \o part(2) \o IF Len(n.parts) = 2 THEN <<>> ELSE <<"ESCAPE">> \o part(3)

RECURSIVE WhenText(_)
WhenText(parts) ==
  IF parts = <<>> THEN <<>>
  ELSE <<"WHEN">> \o Text(parts[1]) \o <<"THEN">> \o Text(parts[2]) \o WhenText(SubSeq(parts, 3, Len(parts)))

ExprText(n) ==
  LET part(i) == Text(n.parts[i])
  IN  CASE n.kind = "literal" -> n.words
        [] n.kind = "name" -> [i \in 1..(2 * Len(n.words) - 1) |-> IF i % 2 = 1 THEN n.words[(i + 1) \div 2] ELSE "."]
        [] n.kind = "binary" -> part(1) \o n.words \o part(2)
        [] n.kind = "unary" -> n.words \o part(1)
        [] n.kind \in {"nested", "query value"} -> Bracketed(part(1))
        [] n.kind = "EXISTS" -> n.words \o <<"EXISTS">> \o Bracketed(part(1))
        [] n.kind = "CASE" -> <<"CASE">> \o Texts(n.parts[1].parts) \o WhenText(n.parts[2].parts)
                              \o After(<<"ELSE">>, n.parts[3]) \o <<"END">>
        [] n.kind = "CAST" /\ n.words = <<"DATE">> /\ n.parts[1].words \in {<<s>> : s \in Strings} ->
             <<"DATE">> \o part(1)
        [] n.kind = "CAST" -> <<"CAST">> \o Bracketed(part(1) \o <<"AS">> \o
             <<n.words[1]>> \o IF Len(n.words) = 1 THEN <<>>
                              ELSE Bracketed(<<n.words[2]>> \o FlattenSeq([i \in 1..Len(n.words) - 2 |-> <<",", n.words[i + 2]>>])))
        [] n.kind = "function" ->
             <<n.words[1]>> \o Bracketed(Tail(n.words) \o Separated(n.parts[1].parts)) \o Texts(n.parts[2].parts)
        [] n.kind = "over" -> <<"OVER">> \o Bracketed(After(<<"PARTITION", "BY">>, n.parts[1])
                              \o After(<<"ORDER", "BY">>, n.parts[2]) \o Texts(n.parts[3].parts))
        [] n.kind = "frame" -> n.words \o <<"BETWEEN">> \o part(1) \o <<"AND">> \o part(2)
        [] n.kind = "bound" -> Texts(n.parts) \o n.words
        [] OTHER -> PostfixText(n)

Text(n) ==
  LET part(i) == Text(n.parts[i])
  IN  CASE n.kind = "query" -> After(<<"WITH">>, n.parts[1]) \o part(2) \o After(<<"ORDER", "BY">>, n.parts[3])
                               \o After(<<"LIMIT">>, n.parts[4]) \o After(<<"OFFSET">>, n.parts[5])
        [] n.kind = "cte" -> n.words \o (IF n.parts[1].parts = <<>> THEN <<>> ELSE Bracketed(Separated(n.parts[1].parts)))
                             \o <<"AS">> \o Bracketed(part(2))
        [] n.kind = "set" -> part(1) \o n.words \o part(2)
        [] n.kind = "select" -> <<"SELECT">> \o n.words \o Separated(n.parts[1].parts) \o After(<<"FROM">>, n.parts[2])
                                \o After(<<"WHERE">>, n.parts[3]) \o After(<<"GROUP", "BY">>, n.parts[4])
                                \o After(<<"HAVING">>, n.parts[5])
        [] n.kind = "wildcard" -> IF n.words = <<>> THEN <<"*">> ELSE n.words \o <<".", "*">>
        [] n.kind = "item" -> part(1) \o Texts(n.parts[2].parts)
        [] n.kind = "order" -> part(1) \o
             FlattenSeq([i \in DOMAIN n.words |->
                           IF n.words[i] \in {"FIRST", "LAST"} THEN <<"NULLS", n.words[i]>> ELSE <<n.words[i]>>])
        [] n.kind = "relation" ->
             (IF n.parts[1].kind = "name" THEN part(1) ELSE Bracketed(part(1))) \o Texts(n.parts[2].parts)
        [] n.kind = "from" -> Texts(n.parts)
        [] n.kind = "join" -> n.words \o <<"JOIN">> \o part(1) \o Texts(n.parts[2].parts)
        [] n.kind = "ON" -> <<"ON">> \o part(1)
        [] n.kind = "USING" -> <<"USING">> \o Bracketed(Separated(n.parts))
        [] OTHER -> ExprText(n)

-----------------------------------------------------------------------------
(* The levels of the operators (the table above the binding powers), every  *)
(* binary operator associating to the left.                                 *)

Postfix == {"IS NULL", "BETWEEN", "IN", "IN query", "LIKE"}
Level(n) == CASE n.kind = "binary" -> Infix[n.words[1]]
              [] n.kind = "unary" -> IF n.words[1] = "NOT" THEN BP_NOT ELSE BP_UNARY
              [] n.kind \in Postfix -> BP_COMPARE
              [] OTHER -> BP_UNARY + 1
Nested(n) == Node("nested", <<>>, <<n>>)
From(n, level) == IF Level(n) < level THEN Nested(n) ELSE n
\* Two forms reach further than their level: what follows BETWEEN x AND is read up to
\* the next AND or OR, though the table puts BETWEEN with the comparisons, and NOT
\* before EXISTS is part of it, though NOT is looser.
Left(n, level) == IF n.kind = "BETWEEN" /\ level >= BP_COMPARE THEN Nested(n) ELSE From(n, level)
Denied(n) == IF Head(Text(n)) = "EXISTS" THEN Nested(n) ELSE From(n, BP_NOT)

RECURSIVE Grouped(_)
Grouped(n) ==
  LET part(i) == Grouped(n.parts[i])
      from(i, level) == From(part(i), level)
      left == Left(part(1), Level(n))
      all == [i \in DOMAIN n.parts |-> part(i)]
      parts == CASE n.kind = "binary" -> <<left, from(2, Level(n) + 1)>>
                 [] n.kind = "unary" -> <<IF n.words[1] = "NOT" THEN Denied(part(1)) ELSE from(1, BP_UNARY)>>
                 [] n.kind = "BETWEEN" -> <<left, from(2, BP_AND + 1), from(3, BP_AND + 1)>>
                 [] n.kind = "LIKE" -> <<left>> \o [i \in 1..(Len(n.parts) - 1) |-> from(i + 1, BP_COMPARE + 1)]
                 [] n.kind \in Postfix -> <<left>> \o Tail(all)
                 [] OTHER -> all
  IN  [n EXCEPT !.parts = parts]
-----------------------------------------------------------------------------
(* What a statement means, read off its tree.  Names stay names here: a     *)
(* place is where an expression stands, with the rows in sight of each query *)
(* around it, the innermost last, the queries WITH names, and the places of  *)
(* the rows of its group.  A table is given as the set of what it may be: of *)
(* none, if computing it raises.                                            *)

Seen(name, columns, values) == [name |-> name, columns |-> columns, values |-> values]
Outside == [frames |-> <<>>, named |-> <<>>, members |-> <<>>]
Inside(place, frame) == [place EXCEPT !.frames = Append(@, frame), !.members = <<>>]
Alone(place) == [place EXCEPT !.frames = <<>>, !.members = <<>>]
RowsOf(tables) == IF tables = {} THEN RAISE ELSE (CHOOSE t \in tables : TRUE).rows

\* A name stands for the one column called so in the nearest query that has any.
RECURSIVE Denoted(_, _)
Denoted(frames, words) ==
  IF frames = <<>> THEN RAISE
  ELSE LET here == Last(frames)
           called == {j \in DOMAIN here : Len(words) = 1 \/ here[j].name = words[1]}
           named(j) == {i \in DOMAIN here[j].columns : here[j].columns[i] = Last(words)}
           hits == UNION {{j} \X named(j) : j \in called}
       IN  CASE hits = {} -> Denoted(Front(frames), words)
             [] Cardinality(hits) = 1 -> CHOOSE v \in {here[h[1]].values[h[2]] : h \in hits} : TRUE
             [] OTHER -> RAISE

RECURSIVE Closed(_, _), Meaning(_, _)

ValueOf(n, place) == Eval(Closed(n, place), Nowhere)
Valued(ns, places) ==
  LET values == [i \in DOMAIN places |-> [k \in DOMAIN ns |-> ValueOf(ns[k], places[i])]]
  IN  IF \E i \in DOMAIN values : RAISE \in ToSet(values[i]) THEN {} ELSE {values}

\* An aggregate is over the rows of the group.
Total(n, members) ==
  LET arg == n.parts[1].parts[1]
      values == [i \in DOMAIN members |-> IF arg.kind = "wildcard" THEN True ELSE ValueOf(arg, members[i])]
  IN  IF RAISE \in ToSet(values) THEN RAISE ELSE Summary(Agg(n.words[1], <<>>, Len(n.words) = 2), values)

\* The expression with a value in the place of every name, aggregate and query.
Closed(n, place) ==
  LET closed(parts) == [i \in DOMAIN parts |-> Closed(parts[i], place)]
  IN  CASE n.kind = "literal" -> bind_literal(n).expr
        [] n.kind = "name" -> Literal(Denoted(place.frames, n.words))
        [] n.kind = "column" -> Literal(Last(place.frames)[n.words[1]].values[n.words[2]])
        [] n.kind = "nested" -> Closed(n.parts[1], place)
        [] n.kind = "function" -> Literal(Total(n, place.members))
        [] n.kind \in {"EXISTS", "IN query", "query value"} ->
             SubqueryResult([kind |-> SubqueryKind(n), negated |-> n.words # <<>>, value |-> closed(Front(n.parts))],
                            RowsOf(Meaning(Last(n.parts), place)))
        [] n.kind = "CASE" -> Shaped(n, closed(n.parts[1].parts \o n.parts[2].parts \o n.parts[3].parts))
        [] OTHER -> Shaped(n, closed(n.parts))

\* FROM: the rows side by side, and a row of NULLs.
Source(n, place) ==
  LET name == n.parts[1].words[1]
      binding == IF n.parts[2].parts = <<>> THEN name ELSE n.parts[2].parts[1].words[1]
      given == SelectSeq(place.named, LAMBDA w : w.name = name)
      tables == CASE n.parts[1].kind = "query" -> Meaning(n.parts[1], Alone(place))
                  [] given # <<>> -> Last(given).tables
                  [] OTHER -> {[columns |-> [i \in DOMAIN Schemas[name] |-> Schemas[name][i].name],
                                rows |-> Tables[name]]}
      source(t) == [blank |-> <<Seen(binding, t.columns, [i \in DOMAIN t.columns |-> NULL])>>,
                    rows |-> [i \in DOMAIN t.rows |-> <<Seen(binding, t.columns, t.rows[i])>>]]
  IN  {source(t) : t \in tables}

\* Every pair the condition is TRUE of, and what is left over of a side that is kept.
Met(truth) == truth \in {<<>>, <<True>>}
Beneath(l, r, kind, on, place) ==
  LET n == Len(r.rows)
      pairs == FlattenSeq([i \in DOMAIN l.rows |-> [j \in 1..n |-> l.rows[i] \o r.rows[j]]])
      sides(truth) ==
        LET met(i, j) == Met(truth[(i - 1) * n + j])
            of(i) == SelectSeq([j \in 1..n |-> j], LAMBDA j : met(i, j))
            left(i) == IF of(i) = <<>> /\ kind \in {"LEFT", "FULL"} THEN <<l.rows[i] \o r.blank>>
                       ELSE [k \in DOMAIN of(i) |-> pairs[(i - 1) * n + of(i)[k]]]
            over == IF kind \notin {"RIGHT", "FULL"} THEN <<>>
                    ELSE SelectSeq([j \in 1..n |-> j], LAMBDA j : \A i \in DOMAIN l.rows : ~met(i, j))
        IN  [blank |-> l.blank \o r.blank,
             rows |-> FlattenSeq([i \in DOMAIN l.rows |-> left(i)])
                      \o [k \in DOMAIN over |-> l.blank \o r.rows[over[k]]]]
  IN  {sides(truth) : truth \in Valued(on, [k \in DOMAIN pairs |-> Inside(place, pairs[k])])}

RECURSIVE ItemRows(_, _), FromRows(_, _)
ItemRows(parts, place) ==
  IF Len(parts) = 1 THEN Source(parts[1], place)
  ELSE LET join == Last(parts)
           on == IF join.parts[2].parts = <<>> THEN <<>> ELSE join.parts[2].parts[1].parts
       IN  Then(ItemRows(Front(parts), place), LAMBDA l :
           Then(Source(join.parts[1], place), LAMBDA r : Beneath(l, r, join.words[1], on, place)))
FromRows(items, place) ==
  CASE items = <<>> -> {[blank |-> <<>>, rows |-> <<<<>>>>]}
    [] Len(items) = 1 -> ItemRows(items[1].parts, place)
    [] OTHER -> Then(FromRows(Front(items), place), LAMBDA l :
                Then(ItemRows(Last(items).parts, place), LAMBDA r : Beneath(l, r, "CROSS", <<>>, place)))

\* The rows of each group, at the place of its first; one group where nothing is grouped by.
Gathered(keys, places, nowhere) ==
  LET groups(key) ==
        LET firsts == Chosen([i \in DOMAIN key |-> i], key, LAMBDA s, i : \A j \in 1..i - 1 : s[j] # s[i])
            group(f) == [places[f] EXCEPT !.members = Chosen(places, key, LAMBDA s, i : s[i] = s[f])]
        IN  IF keys = <<>> THEN <<[nowhere EXCEPT !.members = places]>>
            ELSE [g \in DOMAIN firsts |-> group(firsts[g])]
  IN  {groups(key) : key \in Valued(keys, places)}

\* The expressions of the SELECT and what their columns are called.
Outputs(items, blank) ==
  LET all(j) == [i \in DOMAIN blank[j].columns |->
                   [ast |-> Node("column", <<j, i>>, <<>>), name |-> blank[j].columns[i]]]
      called(n) == CASE n.parts[2].parts # <<>> -> n.parts[2].parts[1].words[1]
                     [] Unnested(n.parts[1]).kind = "name" -> Last(Unnested(n.parts[1]).words)
                     [] OTHER -> ""
      outputs(n) ==
        IF n.kind = "wildcard"
        THEN FlattenSeq([j \in DOMAIN blank |-> IF n.words \in {<<>>, <<blank[j].name>>} THEN all(j) ELSE <<>>])
        ELSE <<[ast |-> n.parts[1], name |-> called(n)]>>
  IN  FlattenSeq([i \in DOMAIN items |-> outputs(items[i])])

\* A line is a row of the answer and the place it was computed in.
Kept(places, truths) == Chosen(places, truths, LAMBDA s, i : Met(s[i]))
Selection(s, place) ==
  Then(FromRows(s.parts[2].parts, place), LAMBDA from :
  LET outputs == Outputs(s.parts[1].parts, from.blank)
      all == [i \in DOMAIN from.rows |-> Inside(place, from.rows[i])]
      lines(rows, places) == [i \in DOMAIN rows |-> [row |-> rows[i], place |-> places[i]]]
      once(rows, places) == Chosen(lines(rows, places), rows, LAMBDA r, i : \A j \in 1..i - 1 : r[j] # r[i])
  IN  Then(Valued(s.parts[3].parts, all), LAMBDA where :
      Then(IF aggregating(s) THEN Gathered(s.parts[4].parts, Kept(all, where), Inside(place, from.blank))
           ELSE {Kept(all, where)}, LAMBDA groups :
      Then(Valued(s.parts[5].parts, groups), LAMBDA having :
      Then(Valued([k \in DOMAIN outputs |-> outputs[k].ast], Kept(groups, having)), LAMBDA rows :
        {[columns |-> [k \in DOMAIN outputs |-> outputs[k].name],
          lines |-> IF s.words = <<>> THEN lines(rows, Kept(groups, having)) ELSE once(rows, Kept(groups, having))]})))))

RECURSIVE Body(_, _)
Body(n, place) ==
  LET rows(t) == [i \in DOMAIN t.lines |-> t.lines[i].row]
      both(l, r) == Combined([kind |-> SetKind(n.words[1]), all |-> Len(n.words) = 2], rows(l), rows(r))
  IN  IF n.kind = "select" THEN Selection(n, place)
      ELSE Then(Body(n.parts[1], Alone(place)), LAMBDA l :
           Then(Body(n.parts[2], Alone(place)), LAMBDA r :
             {[l EXCEPT !.lines = [i \in DOMAIN both(l, r) |-> [row |-> both(l, r)[i], place |-> Outside]]]}))

\* A key is a position, a column of the answer, or an expression where the line was computed.
KeyOf(n, columns, line) ==
  CASE n.kind = "literal" -> line.row[NumberOf[n.words[1]]]
    [] n.kind = "name" /\ Len(n.words) = 1 /\ Contains(columns, n.words[1]) ->
         line.row[SelectInSeq(columns, LAMBDA c : c = n.words[1])]
    [] OTHER -> ValueOf(n, line.place)
Ordered(t, orders) ==
  LET keys == [i \in DOMAIN t.lines |-> [k \in DOMAIN orders |-> KeyOf(orders[k].parts[1], t.columns, t.lines[i])]]
  IN  IF orders = <<>> THEN {t}
      ELSE IF \E i \in DOMAIN keys : RAISE \in ToSet(keys[i]) THEN {}
      ELSE {[t EXCEPT !.lines = Sorted(@, keys, [k \in DOMAIN orders |-> Direction(orders[k].words)])]}

RECURSIVE Naming(_, _)
Naming(with, place) ==
  IF with = <<>> THEN place
  ELSE LET names == Head(with).parts[1].parts
           renamed(t) == IF names = <<>> THEN t
                         ELSE [t EXCEPT !.columns = [i \in DOMAIN names |-> names[i].words[1]]]
           tables == {renamed(t) : t \in Meaning(Head(with).parts[2], Alone(place))}
       IN  Naming(Tail(with), [place EXCEPT !.named = Append(@, [name |-> Head(with).words[1], tables |-> tables])])

Meaning(n, place) ==
  LET here == Naming(n.parts[1].parts, place)
      count(parts) == [i \in DOMAIN parts |-> NumberOf[parts[i].words[1]]]
      skip == IF n.parts[5].parts = <<>> THEN 0 ELSE count(n.parts[5].parts)[1]
  IN  Then(Body(n.parts[2], here), LAMBDA body :
      Then(Ordered(body, n.parts[3].parts), LAMBDA t :
        LET lines == Slice(t.lines, skip, count(n.parts[4].parts))
        IN  {[columns |-> t.columns, rows |-> [i \in DOMAIN lines |-> lines[i].row]]}))

-----------------------------------------------------------------------------
(* Parsing and binding.                                                     *)

CONSTANTS
  Statements,   \* trees, with the parentheses that they call for
  Lines         \* lines of tokens

VARIABLES
  tokens,       \* what is parsed
  meant,        \* the tree it was written from, if any
  trees,        \* what the parser returns: one tree, or none
  plans,        \* what the binder returns: one plan with its fields, or none
  status        \* "lexed", then "parsed" or "refused", then "bound" or "unbound"

vars == <<tokens, meant, trees, plans, status>>

Init ==
  /\ \/ \E s \in Statements : meant = <<s>> /\ tokens = Text(s)
     \/ meant = <<>> /\ tokens \in Lines
  /\ trees = {}
  /\ plans = {}
  /\ status = "lexed"

Parse ==
  /\ status = "lexed"
  /\ trees' = parse_statement(tokens)
  /\ status' = IF trees' = {} THEN "refused" ELSE "parsed"
  /\ UNCHANGED <<tokens, meant, plans>>

Bind ==
  /\ status = "parsed"
  /\ plans' = UNION {bind(tree) : tree \in trees}
  /\ status' = IF plans' = {} THEN "unbound" ELSE "bound"
  /\ UNCHANGED <<tokens, meant, trees>>

Next == Parse \/ Bind

Spec == Init /\ [][Next]_vars

-----------------------------------------------------------------------------
\* parser/mod.rs:28-32: what is written from a tree, with the parentheses that the
\* levels call for, is read back as that tree: no operator, clause or nested query
\* takes what belongs to another.
ReadsBack == status # "lexed" /\ meant # <<>> => trees = {meant[1]}

\* parser/mod.rs, parse_statement: a tree accounts for every token, each in its
\* place, and none of them twice; a line no tree is written as is refused.
NothingIsLost == \A tree \in trees : Text(tree) = tokens

\* binder/mod.rs, bind: the plan of a statement answers, row for row, what the
\* statement says with each name taken where it stands, whatever relation ids, slots
\* of an aggregate, hidden columns of a sort and frames of a nested query the names
\* were turned into; and a column that can be NULL is not declared otherwise, which
\* is what the rules for outer joins and NOT IN go by (make_join).
BindsWhatIsMeant ==
  \A tree \in trees, q \in plans :
    LET answer == Values(q.plan)
    IN  /\ answer = RowsOf(Meaning(tree, Outside))
        /\ answer # RAISE =>
             \A i \in DOMAIN answer, k \in DOMAIN q.fields : answer[i][k] = NULL => q.fields[k].nullable
==============================================================================
