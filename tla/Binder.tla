------------------------------- MODULE Binder --------------------------------
(***************************************************************************)
(* The binder (binder/mod.rs): from the tree of a statement to a plan.     *)
(* A name becomes a relation and an index, an aggregate a column of the    *)
(* node that computes it, and every plan and expression has a type.        *)
(*                                                                         *)
(* A bind function is given the binder and a tree; like a parse function,  *)
(* it returns the set of its results, of which there is none on an error.  *)
(***************************************************************************)
EXTENDS Plans, Parser

CONSTANT Schemas   \* the fields of each table

Field(name, type, nullable) == [name |-> name, type |-> type, nullable |-> nullable]
AggregateFunctions == {"count", "sum", "min", "max", "avg"}
\* Strings are numbers in their order: one that reads as a number is that number, and
\* the other comes after them.
StringOf == [w \in Strings |-> IF w = "'1'" THEN 1 ELSE 3]

\* scopes: a frame of entries for each query around, the innermost last;
\* agg: the aggregate whose output is being read, if any.
NewBinder == [next_rel |-> 0, scopes |-> <<<<>>>>, agg |-> <<>>, inside |-> FALSE, ctes |-> <<>>]
Entry(rel, binding, fields) == [rel |-> rel, binding |-> binding, fields |-> fields]

Bound(b, out) == {[b |-> b, out |-> out]}
\* The binder goes on where it was, past the relations made meanwhile.
Back(b, read) == {[r EXCEPT !.b = [b EXCEPT !.next_rel = r.b.next_rel]] : r \in read}
Next1(b) == [b EXCEPT !.next_rel = @ + 1]
Expr(e, type, nullable, name) == [expr |-> e, type |-> type, nullable |-> nullable, name |-> name]
ColumnOf(rel, index, field) == Expr(Column(rel, index), field.type, field.nullable, field.name)
FieldOf(bound) == Field(bound.name, bound.type, bound.nullable)
Fields(bound) == [i \in DOMAIN bound |-> FieldOf(bound[i])]
Exprs(bound) == [i \in DOMAIN bound |-> bound[i].expr]
ColumnsOfRel(rel, fields) == [i \in DOMAIN fields |-> ColumnOf(rel, i, fields[i])]

-----------------------------------------------------------------------------
(* Types.                                                                  *)

\* types::common_type: the one type that every one of `types` converts to, if any.
common_type(types) ==
  LET known == types \ {"null"}
  IN  CASE known = {} -> {"null"}
        [] Cardinality(known) = 1 -> known
        [] OTHER -> IF known = {"int", "float"} THEN {"float"} ELSE {}

\* types::cast_scalar, where a literal needs it: a string that is no number has no value.
cast_scalar(value, from, type) ==
  CASE value = NULL \/ from # "text" -> {value}
    [] value \notin {NumberOf[w] : w \in Numbers} -> {}
    [] type = "bool" -> {value} \cap {True, False}
    [] OTHER -> {value}

coerce_to(bound, type) ==
  CASE bound.type = type -> {bound}
    [] bound.expr.node = "literal" ->
         {[bound EXCEPT !.type = type, !.expr = Literal(v)] : v \in cast_scalar(bound.expr.value, bound.type, type)}
    [] OTHER -> {Expr(Cast(bound.expr, bound.type, type), type, bound.nullable, "")}

The(found) == CHOOSE x \in found : TRUE
coerce_all(s, type) ==
  IF \E i \in DOMAIN s : coerce_to(s[i], type) = {} THEN {}
  ELSE {[i \in DOMAIN s |-> The(coerce_to(s[i], type))]}

is_string_literal(bound) ==
  bound.type = "text" /\ bound.expr.node = "literal" /\ bound.expr # Literal(NULL)

\* Two operands brought to a type they have in common, or a string literal to the
\* type of the other.
unify(l, r) ==
  LET common == common_type({l.type, r.type})
      types == CASE common # {} -> common
                 [] is_string_literal(l) = is_string_literal(r) -> {}
                 [] OTHER -> {IF is_string_literal(r) THEN l.type ELSE r.type}
  IN  UNION {{[l |-> s[1], r |-> s[2], type |-> t] : s \in coerce_all(<<l, r>>, t)} : t \in types}

\* A bare NULL is a boolean of unknown value.
require_boolean(types) == IF types \subseteq {"bool", "null"} THEN {"bool"} ELSE {}
TypesAt(s, places) == {s[i].type : i \in places}

\* In CASE, what follows THEN and ELSE is a result, and the rest is compared or tested.
IsResult(n, i) ==
  LET operands == Len(n.parts[1].parts)
      whens == Len(n.parts[2].parts)
  IN  i > operands /\ (i > operands + whens \/ (i - operands) % 2 = 0)

\* The expression for a tree whose operands are `e`. CASE x WHEN y is WHEN x = y, and
\* a sign before a number is part of it.
Shaped(n, e) ==
  CASE n.kind = "binary" -> Binary(n.words[1], e[1], e[2])
    [] n.kind = "unary" ->
         IF n.words[1] = "NOT" \/ e[1].node # "literal" THEN Unary(n.words[1], e[1])
         ELSE IF e[1].value = NULL THEN Unary(n.words[1], e[1])
         ELSE Literal(IF n.words[1] = "-" THEN -e[1].value ELSE e[1].value)
    [] n.kind = "IS NULL" -> IsNull(e[1], n.words # <<>>)
    [] n.kind = "BETWEEN" -> Between(e[1], e[2], e[3], n.words # <<>>)
    [] n.kind = "IN" -> InList(e[1], Tail(e), n.words # <<>>)
    [] n.kind = "CASE" ->
         LET first == Len(n.parts[1].parts) + 1
             last == first + Len(n.parts[2].parts)
             when(i) == IF first = 1 THEN e[i] ELSE Binary("=", e[1], e[i])
         IN  Case([k \in 1..(last - first) \div 2 |-> <<when(first + 2 * k - 2), e[first + 2 * k - 1]>>],
                  SubSeq(e, last, Len(e)))

\* bind_case over bound operands: the conditions, then the results.
TypedCase(n, s) ==
  LET operand == Len(n.parts[1].parts)
      results == {i \in DOMAIN s : IsResult(n, i)}
      conditions(i) ==
        IF operand = 0
        THEN {c.expr : c \in UNION {coerce_to(s[i], t) : t \in require_boolean({s[i].type})}}
        ELSE {Binary("=", u.l.expr, u.r.expr) : u \in unify(s[1], s[i])}
      arm(i, t) == IF i \in results THEN The(coerce_to(s[i], t)).expr ELSE The(conditions(i))
      searched == [n EXCEPT !.parts[1] = List(<<>>)]
  IN  IF \E i \in DOMAIN s \ results : i > operand /\ conditions(i) = {} THEN {}
      ELSE {Expr(Shaped(searched, [k \in 1..Len(s) - operand |-> arm(k + operand, t)]), t,
                 n.parts[3].parts = <<>> \/ \E i \in results : s[i].nullable, "") :
              t \in common_type(TypesAt(s, results))}

Operator(n, ops) == n.kind \in {"binary", "unary"} /\ n.words[1] \in ops

\* The operands and the type they are brought to.
Brought(s, types) == UNION {{[operands |-> r, type |-> t] : r \in coerce_all(s, t)} : t \in types}

\* bind_between: the value with either bound, then all three again.
BroughtBetween(s) ==
  Then(unify(s[1], s[2]), LAMBDA low :
  Then(unify(low.l, s[3]), LAMBDA high :
    Brought(<<high.l, low.r, high.r>>, common_type({low.type, high.type}))))

\* bind_in_list: the value with one item after the other, then all again.
BroughtIn(s) ==
  LET with(read, item) == {[s |-> <<u.l>> \o Append(Tail(read.s), u.r), type |-> u.type] : u \in unify(read.s[1], item)}
  IN  Then(FoldLeft(LAMBDA reads, item : Then(reads, LAMBDA read : with(read, item)),
                    {[s |-> <<s[1]>>, type |-> s[1].type]}, Tail(s)), LAMBDA read :
        Brought(read.s, {read.type}))

\* bind_binary: comparisons and arithmetic.
BroughtBinary(n, s) ==
  {[operands |-> <<u.l, u.r>>, type |-> u.type] :
     u \in {u \in unify(s[1], s[2]) : Operator(n, ComparisonOps) \/ u.type \in {"int", "float", "null"}}}

\* bind_binary, bind_unary, bind_between, bind_in_list: the operands as the operator
\* wants them.
BroughtTogether(n, s) ==
  CASE Operator(n, LogicalOps \cup {"NOT"}) -> Brought(s, require_boolean(TypesAt(s, DOMAIN s)))
    [] n.kind = "unary" -> Brought(s, {s[1].type} \cap {"int", "float", "null"})
    [] Operator(n, ArithmeticOps \cup ComparisonOps) -> BroughtBinary(n, s)
    [] n.kind = "BETWEEN" -> BroughtBetween(s)
    [] n.kind = "IN" -> BroughtIn(s)
    [] OTHER -> {}

Typed(n, s) ==
  CASE n.kind = "CASE" -> TypedCase(n, s)
    [] n.kind = "IS NULL" -> {Expr(Shaped(n, Exprs(s)), "bool", FALSE, "")}
    [] OTHER -> {Expr(Shaped(n, Exprs(b.operands)), IF Operator(n, ArithmeticOps) THEN b.type ELSE "bool",
                      \E i \in DOMAIN s : b.operands[i].nullable, "") : b \in BroughtTogether(n, s)}

bind_literal(n) ==
  CASE n.words[1] = "NULL" -> Expr(Literal(NULL), "null", TRUE, "")
    [] n.words[1] = "TRUE" -> Expr(Literal(True), "bool", FALSE, "")
    [] n.words[1] \in Strings -> Expr(Literal(StringOf[n.words[1]]), "text", FALSE, "")
    [] OTHER -> Expr(Literal(NumberOf[n.words[1]]), "int", FALSE, "")

-----------------------------------------------------------------------------
(* Names.                                                                  *)

Places(entry, name) == {i \in DOMAIN entry.fields : entry.fields[i].name = name}

\* The entries of a kind in the innermost frame that has one.
Nearest(scopes, kind(_)) ==
  LET of(k) == {i \in DOMAIN scopes[k] : kind(scopes[k][i])}
      frames == {k \in DOMAIN scopes : of(k) # {}}
  IN  UNION {{scopes[k][i] : i \in of(k)} : k \in {f \in frames : \A g \in frames : g <= f}}

\* No entry if several of a frame answer to the name.
lookup_relation(scopes, qualifier) ==
  LET found == Nearest(scopes, LAMBDA e : e.binding = qualifier)
  IN  IF Cardinality(found) = 1 THEN found ELSE {}

\* Mutant of candidates: a frame further out hides what is nearer.
CandidatesOutward(scopes, words) ==
  IF Len(words) = 2 THEN lookup_relation(scopes, words[1])
  ELSE Nearest(Reverse(scopes), LAMBDA e : Places(e, words[1]) # {})

\* The entries that may have the column a name stands for.
candidates(scopes, words) ==
  IF Len(words) = 2 THEN lookup_relation(scopes, words[1])
  ELSE Nearest(scopes, LAMBDA e : Places(e, words[1]) # {})

\* Above an aggregate a column is one of its keys, or cannot be read.
aggregate_column(b, column) ==
  IF b.agg = <<>> \/ b.inside THEN {column}
  ELSE LET scope == b.agg[1]
           slot == SelectInSeq(scope.keys, LAMBDA k : k.expr = column.expr)
       IN  IF slot = 0 THEN {} ELSE {ColumnOf(scope.rel, slot, FieldOf(scope.keys[slot]))}

\* A name has to stand for one column.
resolve_column(b, words) ==
  LET found == UNION {{<<e, i>> : i \in Places(e, Last(words))} : e \in candidates(b.scopes, words)}
  IN  IF Len(words) > 2 \/ Cardinality(found) # 1 THEN {}
      ELSE UNION {aggregate_column(b, ColumnOf(f[1].rel, f[2], f[1].fields[f[2]])) : f \in found}

RECURSIVE Unnested(_), Holds(_, _)
Unnested(n) ==
  IF n.kind = "nested" THEN Unnested(n.parts[1])
  ELSE [n EXCEPT !.parts = [i \in DOMAIN @ |-> Unnested(@[i])]]
Holds(n, kind) == n.kind = kind \/ \E i \in DOMAIN n.parts : Holds(n.parts[i], kind)

\* Written the same way, parentheses apart; no subquery is the same as another.
ast_eq(m, n) == ~Holds(m, "query") /\ Unnested(m) = Unnested(n)

\* An aggregate of this query: not one of a query beneath, nor a window function.
RECURSIVE expr_has_aggregate(_)
expr_has_aggregate(n) ==
  IF n.kind \in {"query", "over"} THEN FALSE
  ELSE \/ n.kind = "function" /\ n.words[1] \in AggregateFunctions /\ n.parts[2].parts = <<>>
       \/ \E i \in DOMAIN n.parts : expr_has_aggregate(n.parts[i])

aggregating(s) ==
  \/ s.parts[4].parts \o s.parts[5].parts # <<>>
  \/ \E i \in DOMAIN s.parts[1].parts : expr_has_aggregate(s.parts[1].parts[i])

-----------------------------------------------------------------------------
(* Expressions and the items of a SELECT.                                  *)

RECURSIVE bind_all(_, _), bind_expr(_, _), bind_query(_, _)

\* Several one after the other: out is a sequence.
bind_all(b, ns) ==
  IF ns = <<>> THEN Bound(b, <<>>)
  ELSE Then(bind_expr(b, Head(ns)), LAMBDA r :
       Then(bind_all(r.b, Tail(ns)), LAMBDA rest : Bound(rest.b, r.out \o rest.out)))

\* A query that sees the ones around it, and one that sees none of them.
bind_nested_query(b, q) ==
  IF b.agg # <<>> THEN {}
  ELSE Back(b, bind_query([b EXCEPT !.scopes = Append(@, <<>>), !.inside = FALSE], q))
bind_isolated_query(b, q) ==
  Back(b, bind_query([b EXCEPT !.scopes = <<<<>>>>, !.agg = <<>>, !.inside = FALSE], q))

SubqueryKind(n) == CASE n.kind = "EXISTS" -> "exists" [] n.kind = "IN query" -> "in" [] OTHER -> "scalar"

\* NULL can come of a subquery's column or of no row; EXISTS is never unknown.
bind_subquery(b, n) ==
  LET kind == SubqueryKind(n)
      made(value, q) ==
        Expr(Subquery(kind, n.kind # "query value" /\ n.words # <<>>, Exprs(value),
                      \E f \in ToSet(value) \cup ToSet(q.fields) : f.nullable, q.plan),
             IF kind = "scalar" THEN q.fields[1].type ELSE "bool", kind # "exists", "")
      fits(value, q) == kind = "exists" \/ Len(q.fields) = 1
      common(value, q) == IF kind # "in" THEN {"null"} ELSE common_type({value[1].type, q.fields[1].type})
  IN  Then(bind_all(b, Front(n.parts)), LAMBDA value :
      Then(bind_nested_query(value.b, Last(n.parts)), LAMBDA q :
        IF ~fits(value.out, q.out) THEN {}
        ELSE UNION {Bound(q.b, <<made(v, q.out)>>) :
                      v \in UNION {coerce_all(value.out, t) : t \in common(value.out, q.out)}}))

\* COUNT is an integer whatever it counts, and never NULL; the others can be.
aggregate_result_type(func, arg) ==
  LET type == IF arg = <<>> THEN "null" ELSE arg[1].type
  IN  CASE func = "count" -> {"int"}
        [] func \in {"sum", "avg"} /\ type \notin {"int", "float", "null"} -> {}
        [] OTHER -> {IF func = "avg" THEN "float" ELSE type}

bind_function(b, n) ==
  LET func == n.words[1]
      args == n.parts[1].parts
      star == Len(args) = 1 /\ args[1].kind = "wildcard"
      distinct == Len(n.words) = 2
      made(r, type) ==
        LET scope == r.b.agg[1]
            added == Append(scope.aggregates, Agg(func, Exprs(r.out), distinct))
        IN  Bound([r.b EXCEPT !.inside = FALSE, !.agg = <<[scope EXCEPT !.aggregates = added]>>],
                  <<Expr(Column(scope.rel, Len(scope.keys) + Len(added)), type, func # "count", "")>>)
  IN  IF \/ func \notin AggregateFunctions \/ b.inside \/ b.agg = <<>> \/ Len(args) # 1
         \/ n.parts[2].parts # <<>>
         \/ star /\ (func # "count" \/ distinct)
      THEN {}
      ELSE Then(bind_all([b EXCEPT !.inside = TRUE], IF star THEN <<>> ELSE args), LAMBDA r :
             UNION {made(r, type) : type \in aggregate_result_type(func, r.out)})

\* * is every column of every relation in sight, the nearest first.
expand(entries) == FlattenSeq([i \in DOMAIN entries |-> ColumnsOfRel(entries[i].rel, entries[i].fields)])
bind_wildcard(b, n) ==
  IF n.words = <<>>
  THEN LET visible == FlattenSeq(Reverse(b.scopes)) IN IF visible = <<>> THEN {} ELSE Bound(b, expand(visible))
  ELSE UNION {Bound(b, expand(<<e>>)) : e \in lookup_relation(b.scopes, n.words[1])}

\* An expression, or an item of the SELECT, which may stand for several.
bind_expr(b, n) ==
  LET keyed == IF b.agg = <<>> \/ b.inside THEN 0
               ELSE SelectInSeq(b.agg[1].asts, LAMBDA g : ast_eq(g, n))
      renamed(e) == IF n.parts[2].parts = <<>> THEN e ELSE [e EXCEPT !.name = n.parts[2].parts[1].words[1]]
      operands == IF n.kind = "CASE" THEN n.parts[1].parts \o n.parts[2].parts \o n.parts[3].parts ELSE n.parts
  IN  CASE keyed # 0 ->
             Bound(b, <<ColumnOf(b.agg[1].rel, keyed, FieldOf(b.agg[1].keys[keyed]))>>)
        [] n.kind = "item" -> Then(bind_expr(b, n.parts[1]), LAMBDA r : Bound(r.b, <<renamed(r.out[1])>>))
        [] n.kind = "wildcard" -> bind_wildcard(b, n)
        [] n.kind = "nested" -> bind_expr(b, n.parts[1])
        [] n.kind = "name" -> UNION {Bound(b, <<column>>) : column \in resolve_column(b, n.words)}
        [] n.kind = "literal" -> Bound(b, <<bind_literal(n)>>)
        [] n.kind = "function" -> bind_function(b, n)
        [] n.kind \in {"EXISTS", "IN query", "query value"} -> bind_subquery(b, n)
        [] OTHER -> Then(bind_all(b, operands), LAMBDA r : UNION {Bound(r.b, <<e>>) : e \in Typed(n, r.out)})

\* A condition that may be absent: out is the expression, if there is one.
bind_condition(b, parts) ==
  Then(bind_all(b, parts), LAMBDA r :
    UNION {Bound(r.b, Exprs(s)) :
             s \in UNION {coerce_all(r.out, type) : type \in require_boolean(TypesAt(r.out, DOMAIN r.out))}})
WithoutAggregate(parts, read) == IF \E i \in DOMAIN parts : expr_has_aggregate(parts[i]) THEN {} ELSE read

-----------------------------------------------------------------------------
(* FROM.                                                                   *)

\* A relation comes into the innermost scope: out is its plan.
Entered(b, plan(_), binding, fields) ==
  LET k == Len(b.scopes)
  IN  Bound([Next1(b) EXCEPT !.scopes[k] = Append(@, Entry(b.next_rel, binding, fields))], plan(b.next_rel))

\* A WITH binding hides a table of its name, and an alias hides both names.
bind_table_ref(b, n) ==
  LET name == n.parts[1].words[1]
      alias == n.parts[2].parts
      binding == IF alias = <<>> THEN name ELSE alias[1].words[1]
      ctes == SelectSeq(FlattenSeq(b.ctes), LAMBDA c : c.name = name)
  IN  CASE n.parts[1].kind # "name" ->
             Then(bind_isolated_query(b, n.parts[1]), LAMBDA q :
               Entered(q.b, LAMBDA rel : SubqueryAlias(rel, q.out.plan), alias[1].words[1], q.out.fields))
        [] ctes # <<>> -> Entered(b, LAMBDA rel : CteRef(rel, Last(ctes).plan), binding, Last(ctes).fields)
        [] name \notin DOMAIN Schemas -> {}
        [] OTHER -> Entered(b, LAMBDA rel : Scan(rel, name, [i \in DOMAIN Schemas[name] |-> i]),
                            binding, Schemas[name])

\* The columns of a side that a join can pad may be NULL from here on.
widen_scope(b, rels) ==
  LET wider(e) == IF e.rel \in rels
                  THEN [e EXCEPT !.fields = [i \in DOMAIN @ |-> [@[i] EXCEPT !.nullable = TRUE]]] ELSE e
  IN  [b EXCEPT !.scopes = [k \in DOMAIN @ |-> [i \in DOMAIN @[k] |-> wider(@[k][i])]]]

make_join(b, left, right, type, on) ==
  LET padded == (IF preserves_right(type) THEN relations(left) ELSE {})
                \cup (IF preserves_left(type) THEN relations(right) ELSE {})
  IN  Bound(Next1(widen_scope(b, padded)), Join(b.next_rel, type, on, left, right))

JoinType(word) == CASE word = "CROSS" -> "cross" [] word = "INNER" -> "inner" [] word = "LEFT" -> "left"
                    [] word = "RIGHT" -> "right" [] OTHER -> "full"

\* The condition sees both sides; USING is refused.
RECURSIVE bind_joins(_, _, _), bind_from_items(_, _)
bind_joins(b, left, joins) ==
  IF joins = <<>> THEN Bound(b, left)
  ELSE LET on == Head(joins).parts[2].parts
           condition == IF on = <<>> THEN <<>> ELSE on[1].parts
       IN  IF on # <<>> /\ on[1].kind = "USING" THEN {}
           ELSE Then(bind_table_ref(b, Head(joins).parts[1]), LAMBDA right :
                Then(WithoutAggregate(condition, bind_condition(right.b, condition)), LAMBDA c :
                Then(make_join(c.b, left, right.out, JoinType(Head(joins).words[1]), c.out), LAMBDA join :
                  bind_joins(join.b, join.out, Tail(joins)))))
\* Items between commas are crossed, from the left.
bind_from_items(b, items) ==
  Then(IF Len(items) = 1 THEN Bound(b, <<>>)
       ELSE Then(bind_from_items(b, Front(items)), LAMBDA left : Bound(left.b, <<left.out>>)), LAMBDA left :
  Then(bind_table_ref(left.b, Last(items).parts[1]), LAMBDA first :
  Then(bind_joins(first.b, first.out, Tail(Last(items).parts)), LAMBDA item :
    IF left.out = <<>> THEN Bound(item.b, item.out)
    ELSE make_join(item.b, left.out[1], item.out, "cross", <<>>))))
bind_from(b, from) ==
  IF from = <<>> THEN Bound(Next1(b), OneRow(b.next_rel)) ELSE bind_from_items(b, from)

-----------------------------------------------------------------------------
(* Queries: out is a plan and the fields of what it answers.               *)

maybe_distinct(b, distinct, plan, fields) ==
  IF ~distinct THEN Bound(b, [plan |-> plan, fields |-> fields])
  ELSE Bound(Next1(b), [plan |-> Distinct(b.next_rel, plan), fields |-> fields])
bind_project(b, s, list, input) ==
  maybe_distinct(Next1(b), s.words # <<>>, Project(b.next_rel, Exprs(list), input), Fields(list))

\* Keys first, in the ordinary scope; HAVING and the items read keys and aggregates.
bind_aggregate_select(b, s, input) ==
  LET groups == s.parts[4].parts
      above(keys) == [Next1(keys.b) EXCEPT !.agg = <<[rel |-> keys.b.next_rel, asts |-> groups,
                                                      keys |-> keys.out, aggregates |-> <<>>]>>]
      grouped(scope) == Aggregate(scope.rel, Exprs(scope.keys), scope.aggregates, input)
  IN  Then(WithoutAggregate(groups, bind_all(b, groups)), LAMBDA keys :
      Then(bind_condition(above(keys), s.parts[5].parts), LAMBDA having :
      Then(bind_all(having.b, s.parts[1].parts), LAMBDA list :
        bind_project([Next1(list.b) EXCEPT !.agg = <<>>], s, list.out,
                     Under(list.b.next_rel, having.out, grouped(list.b.agg[1]))))))

bind_select(b, s) ==
  Then(bind_from(b, s.parts[2].parts), LAMBDA from :
  Then(WithoutAggregate(s.parts[3].parts, bind_condition(from.b, s.parts[3].parts)), LAMBDA where :
    LET input == Under(where.b.next_rel, where.out, from.out)
        after == Next1(where.b)
    IN  IF aggregating(s) THEN bind_aggregate_select(after, s, input)
        ELSE Then(bind_all(after, s.parts[1].parts), LAMBDA list : bind_project(list.b, s, list.out, input))))

\* A branch whose types are not those of the set operation is cast above itself.
cast_branch(b, q, fields) ==
  LET columns == ColumnsOfRel(q.plan.rel, q.fields)
      cast == [i \in DOMAIN fields |-> The(coerce_to(columns[i], fields[i].type))]
  IN  IF columns = cast THEN Bound(b, q)
      ELSE Bound(Next1(b), [plan |-> Project(b.next_rel, Exprs(cast), q.plan), fields |-> fields])

\* The fields of both sides together, if they have as many and types in common.
CommonFields(l, r) ==
  IF Len(l) # Len(r) THEN {}
  ELSE LET types == [i \in DOMAIN l |-> common_type({l[i].type, r[i].type})]
       IN  IF \E i \in DOMAIN l : types[i] = {} THEN {}
           ELSE {[i \in DOMAIN l |-> Field(l[i].name, CHOOSE t \in types[i] : TRUE, l[i].nullable \/ r[i].nullable)]}

SetKind(word) == CASE word = "UNION" -> "union" [] word = "INTERSECT" -> "intersect" [] OTHER -> "except"
bind_set_op(b, n, l, r) ==
  UNION {Then(cast_branch(b, l, fields), LAMBDA left :
         Then(cast_branch(left.b, r, fields), LAMBDA right :
           Bound(Next1(right.b), [plan |-> SetOp(right.b.next_rel, SetKind(n.words[1]), Len(n.words) = 2,
                                                 left.out.plan, right.out.plan), fields |-> fields]))) :
           fields \in CommonFields(l.fields, r.fields)}

\* A branch sees none of the relations around the query.
RECURSIVE bind_set_expr(_, _)
bind_branch(b, body) == Back(b, bind_set_expr([b EXCEPT !.scopes = <<<<>>>>], body))
bind_set_expr(b, body) ==
  IF body.kind = "select" THEN bind_select(b, body)
  ELSE Then(bind_branch(b, body.parts[1]), LAMBDA left :
       Then(bind_branch(left.b, body.parts[2]), LAMBDA right :
         bind_set_op(right.b, body, left.out, right.out)))

\* Which output column a key is, by its position, its name or the item written the
\* same way; 0 if it is none, more than there are if there is no such position.
resolve_order_key(n, items, fields) ==
  LET named == IF n.kind # "name" \/ Len(n.words) # 1 THEN 0
               ELSE SelectInSeq(fields, LAMBDA f : f.name = n.words[1])
      written == SelectInSeq(items, LAMBDA item : item.kind = "item" /\ ast_eq(item.parts[1], n))
  IN  CASE n.kind = "literal" /\ n.words[1] \in Numbers ->
             IF NumberOf[n.words[1]] = 0 THEN Len(fields) + 1 ELSE NumberOf[n.words[1]]
        [] named # 0 -> named
        [] OTHER -> IF written <= Len(fields) THEN written ELSE 0

\* The output columns the keys are, after hidden columns for the keys that are none.
RECURSIVE bind_order_keys(_, _, _, _, _)
bind_order_keys(b, orders, items, exprs, visible) ==
  IF orders = <<>> THEN Bound(b, [exprs |-> exprs, keys |-> <<>>])
  ELSE LET n == Head(orders).parts[1]
           k == resolve_order_key(n, items, SubSeq(exprs, 1, visible))
       IN  Then(CASE k > visible -> {}
                  [] k > 0 -> Bound(b, [exprs |-> exprs, at |-> k])
                  [] items = <<>> -> {}
                  [] OTHER -> Then(bind_expr(b, n), LAMBDA r :
                                Bound(r.b, [exprs |-> Append(exprs, r.out[1]), at |-> Len(exprs) + 1])), LAMBDA key :
           Then(bind_order_keys(key.b, Tail(orders), items, key.out.exprs, visible), LAMBDA rest :
             Bound(rest.b, [exprs |-> rest.out.exprs, keys |-> <<key.out.at>> \o rest.out.keys])))

\* NULLs first in an ascending key and last in a descending one, unless it says so.
Direction(words) ==
  LET ascending == ~Contains(words, "DESC")
  IN  [ascending |-> ascending,
       nulls_first |-> IF Contains(words, "FIRST") THEN TRUE
                       ELSE IF Contains(words, "LAST") THEN FALSE ELSE ascending]

\* The keys are columns of the projection, which is trimmed again after the sort.
\* Only a plain SELECT can be given hidden columns.
bind_order_by(b, q, orders, body) ==
  LET set == q.plan.op = "set"
      distinct == q.plan.op = "distinct"
      project == CASE set -> Project(b.next_rel, Exprs(ColumnsOfRel(q.plan.rel, q.fields)), q.plan)
                   [] distinct -> Input(q.plan)
                   [] OTHER -> q.plan
      columns == [i \in DOMAIN q.fields |-> [ColumnOf(project.rel, i, q.fields[i]) EXCEPT !.expr = project.exprs[i]]]
      plain == ~set /\ ~distinct /\ ~aggregating(body)
      items == IF set THEN <<>> ELSE body.parts[1].parts
      sorted(r) ==
        LET wider == [project EXCEPT !.exprs = Exprs(r.out.exprs)]
            input == IF distinct THEN WithInputs(q.plan, <<wider>>) ELSE wider
            sort == Sort(r.b.next_rel, [k \in DOMAIN orders |-> Column(project.rel, r.out.keys[k])],
                         [k \in DOMAIN orders |-> Direction(orders[k].words)], input)
        IN  IF Len(r.out.exprs) = Len(columns) THEN sort
            ELSE Project(r.b.next_rel + 1, [i \in DOMAIN columns |-> Column(project.rel, i)], sort)
  IN  IF orders = <<>> THEN Bound(b, q)
      ELSE Then(bind_order_keys(Next1(b), orders, items, columns, Len(columns)), LAMBDA r :
             IF ~plain /\ Len(r.out.exprs) # Len(columns) THEN {}
             ELSE Bound(Next1(Next1(r.b)), [plan |-> sorted(r), fields |-> q.fields]))

\* A number, not negative.
bind_count(b, parts) ==
  Then(bind_all(b, parts), LAMBDA r :
    IF \E i \in DOMAIN r.out : r.out[i].expr.node # "literal" \/ r.out[i].type # "int" THEN {}
    ELSE IF \E i \in DOMAIN r.out : r.out[i].expr.value < 0 THEN {}
    ELSE Bound(r.b, [i \in DOMAIN r.out |-> r.out[i].expr.value]))

\* A definition sees those before it; its columns may be given other names.
RECURSIVE bind_ctes(_, _)
bind_ctes(b, with) ==
  IF with = <<>> THEN Bound(b, <<>>)
  ELSE LET name == Head(with).words[1]
           names == Head(with).parts[1].parts
           frame == Last(b.ctes)
           fields(q) == IF names = <<>> THEN q.fields
                        ELSE [i \in DOMAIN names |-> [q.fields[i] EXCEPT !.name = names[i].words[1]]]
           cte(q) == [name |-> name, plan |-> q.plan, fields |-> fields(q)]
       IN  IF \E i \in DOMAIN frame : frame[i].name = name THEN {}
           ELSE Then(bind_isolated_query(b, Head(with).parts[2]), LAMBDA q :
                  IF names # <<>> /\ Len(names) # Len(q.out.fields) THEN {}
                  ELSE bind_ctes([q.b EXCEPT !.ctes[Len(b.ctes)] = Append(@, cte(q.out))], Tail(with)))

bind_query_body(b, n) ==
  Then(bind_set_expr(b, n.parts[2]), LAMBDA body :
  Then(bind_order_by(body.b, body.out, n.parts[3].parts, n.parts[2]), LAMBDA ordered :
  Then(bind_count(ordered.b, n.parts[5].parts), LAMBDA skip :
  Then(bind_count(skip.b, n.parts[4].parts), LAMBDA fetch :
    IF fetch.out = <<>> /\ skip.out \in {<<>>, <<0>>} THEN Bound(fetch.b, ordered.out)
    ELSE Bound(Next1(fetch.b),
               [ordered.out EXCEPT !.plan = Limit(fetch.b.next_rel, IF skip.out = <<>> THEN 0 ELSE skip.out[1],
                                                  fetch.out, @)])))))
bind_query(b, n) ==
  Then(bind_ctes([b EXCEPT !.ctes = Append(@, <<>>)], n.parts[1].parts), LAMBDA with :
    {[r EXCEPT !.b.ctes = b.ctes] : r \in bind_query_body(with.b, n)})

bind(n) == {r.out : r \in bind_query(NewBinder, n)}
==============================================================================
