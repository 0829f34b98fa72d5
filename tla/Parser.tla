------------------------------- MODULE Parser --------------------------------
(***************************************************************************)
(* parser/mod.rs: from tokens to the tree of a statement. A statement is    *)
(* read by recursive descent, an expression by precedence climbing.         *)
(*                                                                         *)
(* A parse function is given the tokens and a place in them; it returns the *)
(* set of what can be read there: one tree with the place after it, or none *)
(* where the code returns an error.                                        *)
(***************************************************************************)
EXTENDS Integers, SequencesExt

Identifiers == {"x", "y", "t", "u", "f", "count", "sum", "min"}
NonReserved == {"DATE", "TEXT"}         \* Keyword::is_non_reserved
NumberOf == [w \in {"0", "1", "2", "39"} |->
               CASE w = "0" -> 0 [] w = "1" -> 1 [] w = "2" -> 2 [] OTHER -> 39]
Numbers == DOMAIN NumberOf
Strings == {"'s'", "'1'"}

\* A node of the tree: its kind, the words that qualify it, its parts.
Node(kind, words, parts) == [kind |-> kind, words |-> words, parts |-> parts]
List(parts) == Node("list", <<>>, parts)

BP_OR == 1
BP_AND == 2
BP_NOT == 3
BP_COMPARE == 4
BP_CONCAT == 6
BP_ADD == 7
BP_MUL == 8
BP_UNARY == 9
Infix == [op \in {"OR", "AND", "=", "<", "||", "+", "-", "*", "/"} |->
            CASE op = "OR" -> BP_OR [] op = "AND" -> BP_AND [] op \in {"=", "<"} -> BP_COMPARE
              [] op = "||" -> BP_CONCAT [] op \in {"+", "-"} -> BP_ADD [] OTHER -> BP_MUL]

-----------------------------------------------------------------------------
(* The token cursor.                                                       *)

peek(w, i) == IF i \in DOMAIN w THEN w[i] ELSE "Eof"
Read(ast, i) == {[ast |-> ast, at |-> i]}
Then(read, next(_)) == UNION {next(r) : r \in read}
expect(w, i, token) == IF peek(w, i) = token THEN Read(token, i + 1) ELSE {}
\* The words of `ws` that are there.
eaten(w, i, ws) == IF peek(w, i) \in ws THEN <<peek(w, i)>> ELSE <<>>
\* One of two words for the same thing is skipped.
noise(w, i, ws) == i + Len(eaten(w, i, ws))

parse_ident(w, i) ==
  IF peek(w, i) \in Identifiers \cup NonReserved THEN Read(Node("name", <<w[i]>>, <<>>), i + 1) ELSE {}
parse_optional_alias(w, i) ==
  IF peek(w, i) = "AS" THEN Then(parse_ident(w, i + 1), LAMBDA r : Read(<<r.ast>>, r.at))
  ELSE IF peek(w, i) \in Identifiers THEN Then(parse_ident(w, i), LAMBDA r : Read(<<r.ast>>, r.at))
  ELSE Read(<<>>, i)

RECURSIVE parse_expr(_, _, _), parse_query(_, _), parse_items(_, _, _)

\* A clause that may be absent: its words, then one or several of something.
clause(w, i, words, what) ==
  IF peek(w, i) # words[1] THEN Read(<<>>, i)
  ELSE IF SubSeq(w, i, i + Len(words) - 1) # words THEN {}
  ELSE parse_items(w, i + Len(words), what)
option(w, i, word) ==
  IF peek(w, i) # word THEN Read(<<>>, i)
  ELSE Then(parse_expr(w, i + 1, 0), LAMBDA r : Read(<<r.ast>>, r.at))

-----------------------------------------------------------------------------
(* Expressions.                                                            *)

Negatable == {"BETWEEN", "IN", "LIKE", "ILIKE"}
at_postfix_operator(w, i) ==
  \/ peek(w, i) \in Negatable \cup {"IS"}
  \/ peek(w, i) = "NOT" /\ peek(w, i + 1) \in Negatable

AtQuery(w, i) == peek(w, i) \in {"SELECT", "WITH"}
InParentheses(w, i) ==
  Then(parse_query(w, i), LAMBDA q : Then(expect(w, q.at, ")"), LAMBDA c : Read(q.ast, c.at)))

parse_between(w, i, lhs, not) ==
  Then(parse_expr(w, i, BP_AND + 1), LAMBDA low :
  Then(expect(w, low.at, "AND"), LAMBDA and :
  Then(parse_expr(w, and.at, BP_AND + 1), LAMBDA high :
    Read(Node("BETWEEN", not, <<lhs, low.ast, high.ast>>), high.at))))

parse_in(w, i, lhs, not) ==
  Then(expect(w, i, "("), LAMBDA open :
    IF AtQuery(w, open.at)
    THEN Then(InParentheses(w, open.at), LAMBDA q : Read(Node("IN query", not, <<lhs, q.ast>>), q.at))
    ELSE Then(parse_items(w, open.at, "expression"), LAMBDA list :
         Then(expect(w, list.at, ")"), LAMBDA c : Read(Node("IN", not, <<lhs>> \o list.ast), c.at))))

parse_like(w, i, lhs, words) ==
  Then(parse_expr(w, i, BP_COMPARE + 1), LAMBDA pattern :
    IF peek(w, pattern.at) # "ESCAPE" THEN Read(Node("LIKE", words, <<lhs, pattern.ast>>), pattern.at)
    ELSE Then(parse_expr(w, pattern.at + 1, BP_COMPARE + 1), LAMBDA escape :
           Read(Node("LIKE", words, <<lhs, pattern.ast, escape.ast>>), escape.at)))

parse_postfix(w, i, lhs) ==
  LET not == eaten(w, i, {"NOT"})
      op == i + Len(not)
      null == noise(w, i + 1, {"NOT"})
  IN  CASE peek(w, op) = "IS" ->
             Then(expect(w, null, "NULL"), LAMBDA r : Read(Node("IS NULL", eaten(w, i + 1, {"NOT"}), <<lhs>>), r.at))
        [] peek(w, op) = "BETWEEN" -> parse_between(w, op + 1, lhs, not)
        [] peek(w, op) = "IN" -> parse_in(w, op + 1, lhs, not)
        [] OTHER -> parse_like(w, op + 1, lhs, Append(not, peek(w, op)))

parse_exists(w, i, not) ==
  Then(expect(w, i, "("), LAMBDA open :
  Then(InParentheses(w, open.at), LAMBDA q : Read(Node("EXISTS", not, <<q.ast>>), q.at)))

RECURSIVE parse_whens(_, _)
parse_whens(w, i) ==
  IF peek(w, i) # "WHEN" THEN Read(<<>>, i)
  ELSE Then(parse_expr(w, i + 1, 0), LAMBDA when :
       Then(expect(w, when.at, "THEN"), LAMBDA r :
       Then(parse_expr(w, r.at, 0), LAMBDA then :
       Then(parse_whens(w, then.at), LAMBDA rest :
         Read(<<when.ast, then.ast>> \o rest.ast, rest.at)))))
parse_case(w, i) ==
  Then(IF peek(w, i) = "WHEN" THEN Read(<<>>, i)
       ELSE Then(parse_expr(w, i, 0), LAMBDA r : Read(<<r.ast>>, r.at)), LAMBDA operand :
  Then(parse_whens(w, operand.at), LAMBDA whens :
  Then(option(w, whens.at, "ELSE"), LAMBDA default :
  Then(expect(w, default.at, "END"), LAMBDA end :
    IF whens.ast = <<>> THEN {}
    ELSE Read(Node("CASE", <<>>, <<List(operand.ast), List(whens.ast), List(default.ast)>>), end.at)))))

\* Types that storage does not tell apart are one type; a length is read and dropped.
\* The tree keeps of a decimal what is written: without a scale it is 0, without a
\* precision they are 38 and 10.
parse_type_args(w, i) ==
  IF peek(w, i) # "(" THEN Read(<<>>, i)
  ELSE IF peek(w, i + 1) \notin Numbers THEN {}
  ELSE IF peek(w, i + 2) # "," THEN Then(expect(w, i + 2, ")"), LAMBDA c : Read(<<w[i + 1]>>, c.at))
  ELSE IF peek(w, i + 3) \notin Numbers THEN {}
  ELSE Then(expect(w, i + 4, ")"), LAMBDA c : Read(<<w[i + 1], w[i + 3]>>, c.at))
parse_data_type(w, i) ==
  CASE peek(w, i) \in {"SMALLINT", "INT"} -> Read(<<"INT">>, i + 1)
    [] peek(w, i) = "DOUBLE" -> Read(<<"DOUBLE">>, noise(w, i + 1, {"PRECISION"}))
    [] peek(w, i) = "VARCHAR" -> Then(parse_type_args(w, i + 1), LAMBDA r : Read(<<"TEXT">>, r.at))
    [] peek(w, i) = "DECIMAL" ->
         Then(parse_type_args(w, i + 1), LAMBDA r :
           IF \E k \in DOMAIN r.ast : k = 1 /\ NumberOf[r.ast[k]] \notin 1..38 THEN {}
           ELSE Read(<<"DECIMAL">> \o r.ast, r.at))
    [] peek(w, i) \in NonReserved -> Read(<<w[i]>>, i + 1)
    [] OTHER -> {}
parse_cast(w, i) ==
  Then(expect(w, i, "("), LAMBDA open :
  Then(parse_expr(w, open.at, 0), LAMBDA e :
  Then(expect(w, e.at, "AS"), LAMBDA as :
  Then(parse_data_type(w, as.at), LAMBDA type :
  Then(expect(w, type.at, ")"), LAMBDA c : Read(Node("CAST", type.ast, <<e.ast>>), c.at))))))

parse_frame_bound(w, i) ==
  LET side(at, node(_)) == IF peek(w, at) \in {"PRECEDING", "FOLLOWING"} THEN Read(node(w[at]), at + 1) ELSE {}
  IN  CASE peek(w, i) = "UNBOUNDED" -> side(i + 1, LAMBDA s : Node("bound", <<"UNBOUNDED", s>>, <<>>))
        [] peek(w, i) = "CURRENT" ->
             Then(expect(w, i + 1, "ROW"), LAMBDA r : Read(Node("bound", <<"CURRENT", "ROW">>, <<>>), r.at))
        [] OTHER -> Then(parse_expr(w, i, 0), LAMBDA e : side(e.at, LAMBDA s : Node("bound", <<s>>, <<e.ast>>)))
parse_window_frame(w, i) ==
  IF peek(w, i) \notin {"ROWS", "RANGE"} THEN Read(<<>>, i)
  ELSE IF peek(w, i + 1) # "BETWEEN"
  THEN Then(parse_frame_bound(w, i + 1), LAMBDA start :
         Read(<<Node("frame", <<w[i]>>, <<start.ast, Node("bound", <<"CURRENT", "ROW">>, <<>>)>>)>>, start.at))
  ELSE Then(parse_frame_bound(w, i + 2), LAMBDA start :
       Then(expect(w, start.at, "AND"), LAMBDA and :
       Then(parse_frame_bound(w, and.at), LAMBDA end :
         Read(<<Node("frame", <<w[i]>>, <<start.ast, end.ast>>)>>, end.at))))
parse_window_spec(w, i) ==
  Then(expect(w, i, "("), LAMBDA open :
  Then(clause(w, open.at, <<"PARTITION", "BY">>, "expression"), LAMBDA partition :
  Then(clause(w, partition.at, <<"ORDER", "BY">>, "order"), LAMBDA order :
  Then(parse_window_frame(w, order.at), LAMBDA frame :
  Then(expect(w, frame.at, ")"), LAMBDA c :
    Read(<<Node("over", <<>>, <<List(partition.ast), List(order.ast), List(frame.ast)>>)>>, c.at))))))
parse_function(w, i, name) ==
  LET distinct == eaten(w, i, {"DISTINCT"})
      first == i + Len(distinct)
  IN  Then(IF peek(w, first) = ")" THEN Read(<<>>, first) ELSE parse_items(w, first, "argument"), LAMBDA args :
      Then(expect(w, args.at, ")"), LAMBDA c :
      Then(IF peek(w, c.at) = "OVER" THEN parse_window_spec(w, c.at + 1) ELSE Read(<<>>, c.at), LAMBDA over :
        Read(Node("function", name.words \o distinct, <<List(args.ast), List(over.ast)>>), over.at))))

RECURSIVE parse_parts(_, _, _)
parse_parts(w, i, parts) ==
  IF peek(w, i) # "." THEN Read(Node("name", parts, <<>>), i)
  ELSE Then(parse_ident(w, i + 1), LAMBDA r : parse_parts(w, r.at, parts \o r.ast.words))
parse_ident_expr(w, i) ==
  Then(parse_ident(w, i), LAMBDA name :
    IF peek(w, name.at) = "(" THEN parse_function(w, name.at + 1, name.ast)
    ELSE parse_parts(w, name.at, name.ast.words))

parse_prefix(w, i) ==
  CASE peek(w, i) = "NOT" ->
         IF peek(w, i + 1) = "EXISTS" THEN parse_exists(w, i + 2, <<"NOT">>)
         ELSE Then(parse_expr(w, i + 1, BP_NOT), LAMBDA r : Read(Node("unary", <<"NOT">>, <<r.ast>>), r.at))
    [] peek(w, i) \in {"-", "+"} ->
         Then(parse_expr(w, i + 1, BP_UNARY), LAMBDA r : Read(Node("unary", <<w[i]>>, <<r.ast>>), r.at))
    [] peek(w, i) \in Numbers \cup Strings \cup {"NULL", "TRUE"} -> Read(Node("literal", <<w[i]>>, <<>>), i + 1)
    [] peek(w, i) = "DATE" /\ peek(w, i + 1) \in Strings ->
         Read(Node("CAST", <<"DATE">>, <<Node("literal", <<w[i + 1]>>, <<>>)>>), i + 2)
    [] peek(w, i) = "(" ->
         IF AtQuery(w, i + 1)
         THEN Then(InParentheses(w, i + 1), LAMBDA q : Read(Node("query value", <<>>, <<q.ast>>), q.at))
         ELSE Then(parse_expr(w, i + 1, 0), LAMBDA e :
              Then(expect(w, e.at, ")"), LAMBDA c : Read(Node("nested", <<>>, <<e.ast>>), c.at)))
    [] peek(w, i) = "CASE" -> parse_case(w, i + 1)
    [] peek(w, i) = "CAST" -> parse_cast(w, i + 1)
    [] peek(w, i) = "EXISTS" -> parse_exists(w, i + 1, <<>>)
    [] OTHER -> parse_ident_expr(w, i)

\* Mutant of RightPower: binary operators associate to the right.
RightAssociative(op) == Infix[op]
RightPower(op) == Infix[op] + 1

RECURSIVE climb(_, _, _, _)
climb(w, i, lhs, min_bp) ==
  IF BP_COMPARE >= min_bp /\ at_postfix_operator(w, i)
  THEN Then(parse_postfix(w, i, lhs), LAMBDA r : climb(w, r.at, r.ast, min_bp))
  ELSE IF peek(w, i) \notin DOMAIN Infix THEN Read(lhs, i)
  ELSE IF Infix[w[i]] < min_bp THEN Read(lhs, i)
  ELSE Then(parse_expr(w, i + 1, RightPower(w[i])), LAMBDA rhs :
         climb(w, rhs.at, Node("binary", <<w[i]>>, <<lhs, rhs.ast>>), min_bp))
parse_expr(w, i, min_bp) == Then(parse_prefix(w, i), LAMBDA r : climb(w, r.at, r.ast, min_bp))

-----------------------------------------------------------------------------
(* Statements.                                                             *)

parse_order_by_expr(w, i) ==
  Then(parse_expr(w, i, 0), LAMBDA e :
    LET direction == eaten(w, e.at, {"ASC", "DESC"})
        nulls == e.at + Len(direction)
    IN  IF peek(w, nulls) # "NULLS" THEN Read(Node("order", direction, <<e.ast>>), nulls)
        ELSE IF peek(w, nulls + 1) \notin {"FIRST", "LAST"} THEN {}
        ELSE Read(Node("order", Append(direction, w[nulls + 1]), <<e.ast>>), nulls + 2))

parse_select_item(w, i) ==
  IF peek(w, i) = "*" THEN Read(Node("wildcard", <<>>, <<>>), i + 1)
  ELSE IF peek(w, i) \in Identifiers /\ peek(w, i + 1) = "." /\ peek(w, i + 2) = "*"
  THEN Read(Node("wildcard", <<w[i]>>, <<>>), i + 3)
  ELSE Then(parse_expr(w, i, 0), LAMBDA e :
       Then(parse_optional_alias(w, e.at), LAMBDA alias :
         Read(Node("item", <<>>, <<e.ast, List(alias.ast)>>), alias.at)))

\* A derived table has to be named.
parse_table_ref(w, i) ==
  Then(IF peek(w, i) = "(" THEN InParentheses(w, i + 1) ELSE parse_ident(w, i), LAMBDA factor :
  Then(parse_optional_alias(w, factor.at), LAMBDA alias :
    IF peek(w, i) = "(" /\ alias.ast = <<>> THEN {}
    ELSE Read(Node("relation", <<>>, <<factor.ast, List(alias.ast)>>), alias.at)))

Kinds == {"CROSS", "INNER", "LEFT", "RIGHT", "FULL"}
\* A cross join takes no condition and every other kind needs one.
parse_constraint(w, i, kind) ==
  CASE peek(w, i) = "ON" /\ kind # "CROSS" ->
         Then(parse_expr(w, i + 1, 0), LAMBDA e : Read(<<Node("ON", <<>>, <<e.ast>>)>>, e.at))
    [] peek(w, i) = "USING" /\ peek(w, i + 1) = "(" /\ kind # "CROSS" ->
         Then(parse_items(w, i + 2, "name"), LAMBDA list :
         Then(expect(w, list.at, ")"), LAMBDA c : Read(<<Node("USING", <<>>, list.ast)>>, c.at)))
    [] OTHER -> IF kind = "CROSS" /\ peek(w, i) \notin {"ON", "USING"} THEN Read(<<>>, i) ELSE {}
RECURSIVE parse_joins(_, _)
parse_joins(w, i) ==
  LET kind == IF peek(w, i) \in Kinds THEN w[i] ELSE "INNER"
      outer == IF kind \in {"LEFT", "RIGHT", "FULL"} THEN {"OUTER"} ELSE {}
      join == IF peek(w, i) \in Kinds THEN noise(w, i + 1, outer) ELSE i
  IN  IF peek(w, i) \notin Kinds \cup {"JOIN"} THEN Read(<<>>, i)
      ELSE Then(expect(w, join, "JOIN"), LAMBDA j :
           Then(parse_table_ref(w, j.at), LAMBDA relation :
           Then(parse_constraint(w, relation.at, kind), LAMBDA on :
           Then(parse_joins(w, on.at), LAMBDA rest :
             Read(<<Node("join", <<kind>>, <<relation.ast, List(on.ast)>>)>> \o rest.ast, rest.at)))))
parse_from_item(w, i) ==
  Then(parse_table_ref(w, i), LAMBDA relation :
  Then(parse_joins(w, relation.at), LAMBDA joins :
    Read(Node("from", <<>>, <<relation.ast>> \o joins.ast), joins.at)))

parse_select(w, i) ==
  Then(expect(w, i, "SELECT"), LAMBDA s :
  LET distinct == eaten(w, s.at, {"DISTINCT"}) IN
  Then(parse_items(w, IF distinct = <<>> THEN noise(w, s.at, {"ALL"}) ELSE s.at + 1, "item"), LAMBDA items :
  Then(clause(w, items.at, <<"FROM">>, "from"), LAMBDA from :
  Then(option(w, from.at, "WHERE"), LAMBDA selection :
  Then(clause(w, selection.at, <<"GROUP", "BY">>, "expression"), LAMBDA group :
  Then(option(w, group.at, "HAVING"), LAMBDA having :
    Read(Node("select", distinct, <<List(items.ast), List(from.ast), List(selection.ast),
                                    List(group.ast), List(having.ast)>>), having.at)))))))

\* Set operators are one level, whatever they are.
RECURSIVE chain(_, _, _)
chain(w, i, left) ==
  LET all == eaten(w, i + 1, {"ALL"})
  IN  IF peek(w, i) \notin {"UNION", "INTERSECT", "EXCEPT"} THEN Read(left, i)
      ELSE Then(parse_select(w, noise(w, i + 1, {"ALL", "DISTINCT"})), LAMBDA right :
             chain(w, right.at, Node("set", <<w[i]>> \o all, <<left, right.ast>>)))
parse_set_expr(w, i) == Then(parse_select(w, i), LAMBDA s : chain(w, s.at, s.ast))

\* What is in parentheses after the name is a list of columns if a name and a comma,
\* or a name and the end, open it.
peek_is_column_list(w, i) == peek(w, i + 1) \in Identifiers /\ peek(w, i + 2) \in {",", ")"}
parse_cte(w, i) ==
  Then(parse_ident(w, i), LAMBDA name :
  Then(IF peek(w, name.at) = "(" /\ peek_is_column_list(w, name.at)
       THEN Then(parse_items(w, name.at + 1, "name"), LAMBDA list :
            Then(expect(w, list.at, ")"), LAMBDA c : Read(list.ast, c.at)))
       ELSE Read(<<>>, name.at), LAMBDA columns :
  Then(expect(w, columns.at, "AS"), LAMBDA as :
  Then(expect(w, as.at, "("), LAMBDA open :
  Then(InParentheses(w, open.at), LAMBDA q :
    Read(Node("cte", name.ast.words, <<List(columns.ast), q.ast>>), q.at))))))
parse_with(w, i) ==
  IF peek(w, i) = "WITH" /\ peek(w, i + 1) = "RECURSIVE" THEN {} ELSE clause(w, i, <<"WITH">>, "cte")

parse_query(w, i) ==
  Then(parse_with(w, i), LAMBDA with :
  Then(parse_set_expr(w, with.at), LAMBDA body :
  Then(clause(w, body.at, <<"ORDER", "BY">>, "order"), LAMBDA order :
  Then(option(w, order.at, "LIMIT"), LAMBDA limit :
  Then(option(w, limit.at, "OFFSET"), LAMBDA offset :
    Read(Node("query", <<>>, <<List(with.ast), body.ast, List(order.ast), List(limit.ast), List(offset.ast)>>),
         IF offset.ast = <<>> THEN offset.at ELSE noise(w, offset.at, {"ROWS", "ROW"})))))))

\* One or several of something, between commas.
ParseItem(w, i, what) ==
  CASE what = "expression" -> parse_expr(w, i, 0)
    [] what = "argument" -> IF peek(w, i) = "*" THEN Read(Node("wildcard", <<>>, <<>>), i + 1) ELSE parse_expr(w, i, 0)
    [] what = "order" -> parse_order_by_expr(w, i)
    [] what = "item" -> parse_select_item(w, i)
    [] what = "from" -> parse_from_item(w, i)
    [] what = "cte" -> parse_cte(w, i)
    [] what = "name" -> parse_ident(w, i)
parse_items(w, i, what) ==
  Then(ParseItem(w, i, what), LAMBDA r :
    IF peek(w, r.at) # "," THEN Read(<<r.ast>>, r.at)
    ELSE Then(parse_items(w, r.at + 1, what), LAMBDA rest : Read(<<r.ast>> \o rest.ast, rest.at)))

\* Mutant of parse_statement: what follows the query is not looked at.
StatementWithoutEnd(w) == {r.ast : r \in parse_query(w, 1)}

\* Nothing may follow a statement but a semicolon.
parse_statement(w) ==
  {r.ast : r \in {q \in parse_query(w, 1) : noise(w, q.at, {";"}) > Len(w)}}
==============================================================================
