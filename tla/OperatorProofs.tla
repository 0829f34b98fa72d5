---------------------------- MODULE OperatorProofs ----------------------------
(***************************************************************************)
(* Proofs about the operators, for every plan and every size of a batch:   *)
(* a sort returns the rows of its input in order, and a top-N the first of *)
(* them, from a heap that holds no more rows than its limit; DISTINCT and  *)
(* the set operations return as many copies of a row as SQL wants.         *)
(***************************************************************************)
EXTENDS Operators, ProofBasics

-----------------------------------------------------------------------------
(* How rows compare.                                                       *)

\* How two values compare the other way round.
LEMMA Reverses ==
  ASSUME NEW x \in Datum, NEW y \in Datum
  PROVE  /\ NULL \notin {x, y} => /\ compare_values(x, y) \in Ordering
                                  /\ compare_values(y, x) = reverse(compare_values(x, y))
         /\ \A spec \in OrderKey : /\ CompareKey(x, y, spec) \in Ordering
                                   /\ CompareKey(y, x, spec) = reverse(CompareKey(x, y, spec))
  <1>1. ASSUME NULL \notin {x, y}
        PROVE  /\ compare_values(x, y) \in Ordering
               /\ compare_values(y, x) = reverse(compare_values(x, y))
    <2>1. CASE NaN \notin {x, y}
      <3>1. x \in Int /\ y \in Int
        BY <1>1, <2>1, ValuesAssumption DEF Datum
      <3>2. Compare(x, y) = (IF x < y THEN "less" ELSE IF x = y THEN "equal" ELSE "greater")
        BY <1>1, <2>1 DEF Compare
      <3>3. Compare(y, x) = (IF y < x THEN "less" ELSE IF y = x THEN "equal" ELSE "greater")
        BY <1>1, <2>1 DEF Compare
      <3>4. compare_values(x, y) = Compare(x, y) /\ compare_values(y, x) = Compare(y, x)
        BY <2>1 DEF compare_values
      <3>. HIDE DEF Compare
      <3>. QED BY <3>1, <3>2, <3>3, <3>4 DEF reverse, Ordering
    <2>2. CASE NaN \in {x, y}
      BY <2>2 DEF compare_values, reverse, Ordering
    <2>. QED BY <2>1, <2>2
  <1>2. ASSUME NEW spec \in OrderKey
        PROVE  /\ CompareKey(x, y, spec) \in Ordering
               /\ CompareKey(y, x, spec) = reverse(CompareKey(x, y, spec))
    <2>1. CASE NULL \notin {x, y}
      BY <1>1, <2>1 DEF CompareKey, reverse, Ordering
    <2>2. CASE NULL \in {x, y} /\ x = y
      BY <2>2 DEF CompareKey, reverse, Ordering
    <2>3. CASE NULL \in {x, y} /\ x # y
      <3>1. spec.nulls_first \in BOOLEAN
        BY DEF OrderKey
      <3>2. CASE x = NULL
        BY <2>3, <3>1, <3>2 DEF CompareKey, reverse, Ordering
      <3>3. CASE y = NULL
        BY <2>3, <3>1, <3>3 DEF CompareKey, reverse, Ordering
      <3>. QED BY <2>3, <3>2, <3>3
    <2>. QED BY <2>1, <2>2, <2>3
  <1>. QED BY <1>1, <1>2

\* The order of one key is transitive, and so are its ties.
LEMMA Transitive ==
  ASSUME NEW x \in Datum, NEW y \in Datum, NEW z \in Datum, NEW spec \in OrderKey,
         CompareKey(x, y, spec) # "greater", CompareKey(y, z, spec) # "greater"
  PROVE  /\ CompareKey(x, z, spec) # "greater"
         /\ CompareKey(x, z, spec) = "equal"
              <=> CompareKey(x, y, spec) = "equal" /\ CompareKey(y, z, spec) = "equal"
  <1>. DEFINE Follows(a, b, c) == a # "greater" /\ b # "greater" => c # "greater" /\ (c = "equal" <=> a = "equal" /\ b = "equal")
  <1>1. ASSUME NEW a \in Datum \ {NULL}, NEW b \in Datum \ {NULL}, NEW c \in Datum \ {NULL}
        PROVE  Follows(compare_values(a, b), compare_values(b, c), compare_values(a, c))
    <2>1. CASE NaN \notin {a, b, c}
      <3>1. a \in Int /\ b \in Int /\ c \in Int
        BY <2>1, ValuesAssumption DEF Datum
      <3>2. \A p \in {a, b, c}, q \in {a, b, c} :
               compare_values(p, q) = (IF p < q THEN "less" ELSE IF p = q THEN "equal" ELSE "greater")
        BY <2>1 DEF Compare, compare_values
      <3>3. /\ compare_values(a, b) = (IF a < b THEN "less" ELSE IF a = b THEN "equal" ELSE "greater")
            /\ compare_values(b, c) = (IF b < c THEN "less" ELSE IF b = c THEN "equal" ELSE "greater")
            /\ compare_values(a, c) = (IF a < c THEN "less" ELSE IF a = c THEN "equal" ELSE "greater")
        BY <3>2
      <3>. QED BY <3>1, <3>3
    <2>2. CASE NaN \in {a, b, c}
      <3>1. \A p \in {a, b, c}, q \in {a, b, c} : NaN \notin {p, q} => compare_values(p, q) \in Ordering
        BY Reverses
      <3>. QED BY <2>2, <3>1 DEF compare_values, Ordering
    <2>. QED BY <2>1, <2>2
  <1>2. CASE NULL \notin {x, y, z}
    <2>1. /\ Follows(compare_values(x, y), compare_values(y, z), compare_values(x, z))
          /\ Follows(compare_values(z, y), compare_values(y, x), compare_values(z, x))
      BY <1>1, <1>2
    <2>2. \A p \in {x, y, z}, q \in {x, y, z} :
             /\ compare_values(p, q) \in Ordering
             /\ compare_values(q, p) = reverse(compare_values(p, q))
      BY <1>2, Reverses
    <2>3. \A p \in {x, y, z}, q \in {x, y, z} :
             CompareKey(p, q, spec) = IF spec.ascending THEN compare_values(p, q)
                                      ELSE reverse(compare_values(p, q))
      BY <1>2 DEF CompareKey
    <2>4. CASE spec.ascending
      BY <2>1, <2>3, <2>4
    <2>5. CASE ~ spec.ascending
      BY <2>1, <2>2, <2>3, <2>5 DEF reverse, Ordering
    <2>. QED BY <2>4, <2>5
  <1>3. CASE NULL \in {x, y, z}
    <2>1. spec.nulls_first \in BOOLEAN
      BY DEF OrderKey
    <2>2. \A p \in {x, y, z}, q \in {x, y, z} : CompareKey(p, q, spec) \in Ordering
      BY Reverses
    <2>3. \A p \in {x, y, z}, q \in {x, y, z} : NULL \in {p, q} =>
             CompareKey(p, q, spec) = IF p = q THEN "equal"
                                      ELSE IF (p = NULL) = spec.nulls_first THEN "less" ELSE "greater"
      BY DEF CompareKey
    <2>. QED BY <1>3, <2>1, <2>2, <2>3 DEF Ordering
  <1>. QED BY <1>2, <1>3

\* The first comparison that is not a tie decides; without one all is a tie.
LEMMA FirstDecides ==
  ASSUME NEW n \in Nat, NEW o \in [1..n -> Ordering]
  PROVE  /\ (\A k \in 1..n : o[k] = "equal") => Lexicographic(o) = "equal"
         /\ \A m \in 1..n :
              (\A k \in 1..m - 1 : o[k] = "equal") /\ o[m] # "equal" => Lexicographic(o) = o[m]
  <1>. DEFINE apart == {i \in DOMAIN o : o[i] # "equal"}
  <1>1. Lexicographic(o) = IF apart = {} THEN "equal" ELSE o[CHOOSE i \in apart : \A k \in apart : i <= k]
    BY DEF Lexicographic, Min
  <1>2. ASSUME \A k \in 1..n : o[k] = "equal"
        PROVE  Lexicographic(o) = "equal"
    <2>1. apart = {}
      BY <1>2
    <2>. QED BY <1>1, <2>1
  <1>3. ASSUME NEW m \in 1..n, \A k \in 1..m - 1 : o[k] = "equal", o[m] # "equal"
        PROVE  Lexicographic(o) = o[m]
    <2>1. m \in apart
      BY <1>3
    <2>2. \A k \in apart : m <= k /\ k \in Int
      BY <1>3
    <2>. HIDE DEF apart
    <2>3. (CHOOSE i \in apart : \A k \in apart : i <= k) = m
      <3>1. m \in Int
        OBVIOUS
      <3>2. \A i \in apart : (\A k \in apart : i <= k) => i = m
        BY <2>1, <2>2, <3>1
      <3>. QED BY <2>1, <2>2, <3>2
    <2>. QED BY <1>1, <2>1, <2>3
  <1>. QED BY <1>2, <1>3

\* A first comparison that is not a tie, if there is any.
LEMMA FirstApart ==
  ASSUME NEW n \in Nat, NEW o \in [1..n -> Ordering], NEW p \in [1..n -> Ordering],
         ~ \A k \in 1..n : o[k] = "equal" /\ p[k] = "equal"
  PROVE  \E m \in 1..n : /\ \A k \in 1..m - 1 : o[k] = "equal" /\ p[k] = "equal"
                         /\ ~ (o[m] = "equal" /\ p[m] = "equal")
  <1>. DEFINE apart == {k \in 1..n : ~ (o[k] = "equal" /\ p[k] = "equal")}
  <1>1. PICK m \in apart : \A k \in apart : m <= k
    <2>1. apart \in SUBSET Nat /\ apart # {}
      OBVIOUS
    <2>. HIDE DEF apart
    <2>. QED BY <2>1, Least
  <1>2. \A k \in 1..m - 1 : k \notin apart /\ k \in 1..n
    <2>. HIDE DEF apart
    <2>1. m \in 1..n
      BY DEF apart
    <2>. QED BY <1>1, <2>1
  <1>. QED BY <1>1, <1>2

\* The columns of the keys hold a value in this row.
HasKeys(row, specs) == \A k \in DOMAIN specs : row[specs[k].column] \in Datum

KeyOrderings(x, y, specs) ==
  [k \in DOMAIN specs |-> CompareKey(x[specs[k].column], y[specs[k].column], specs[k])]

\* compare_rows looks at the keys one by one.
LEMMA RowsByKeys ==
  ASSUME NEW specs \in Seq(OrderKey), NEW x, NEW y, HasKeys(x, specs), HasKeys(y, specs)
  PROVE  /\ Len(specs) \in Nat /\ DOMAIN specs = 1..Len(specs)
         /\ KeyOrderings(x, y, specs) \in [1..Len(specs) -> Ordering]
         /\ compare_rows(x, y, specs) = Lexicographic(KeyOrderings(x, y, specs))
         /\ \A k \in 1..Len(specs) :
              KeyOrderings(x, y, specs)[k] =
                CompareKey(x[specs[k].column], y[specs[k].column], specs[k])
  <1>1. Len(specs) \in Nat /\ DOMAIN specs = 1..Len(specs) /\ \A k \in 1..Len(specs) : specs[k] \in OrderKey
    OBVIOUS
  <1>2. \A k \in 1..Len(specs) :
          CompareKey(x[specs[k].column], y[specs[k].column], specs[k]) \in Ordering
    BY <1>1, Reverses DEF HasKeys
  <1>. QED BY <1>1, <1>2 DEF KeyOrderings, compare_rows

\* compare_rows is a total preorder of the rows that have the keys.
LEMMA RowsOrdered ==
  ASSUME NEW specs \in Seq(OrderKey), NEW x, NEW y, HasKeys(x, specs), HasKeys(y, specs)
  PROVE  /\ compare_rows(x, y, specs) \in Ordering
         /\ compare_rows(y, x, specs) = reverse(compare_rows(x, y, specs))
  <1>. DEFINE n == Len(specs)
              o == KeyOrderings(x, y, specs)
              p == KeyOrderings(y, x, specs)
  <1>1. /\ n \in Nat /\ o \in [1..n -> Ordering] /\ p \in [1..n -> Ordering]
        /\ compare_rows(x, y, specs) = Lexicographic(o)
        /\ compare_rows(y, x, specs) = Lexicographic(p)
    BY RowsByKeys
  <1>2. \A k \in 1..n : p[k] = reverse(o[k])
    <2>1. ASSUME NEW k \in 1..n
          PROVE  p[k] = reverse(o[k])
      <3>1. /\ o[k] = CompareKey(x[specs[k].column], y[specs[k].column], specs[k])
            /\ p[k] = CompareKey(y[specs[k].column], x[specs[k].column], specs[k])
        BY <2>1, RowsByKeys
      <3>2. specs[k] \in OrderKey /\ k \in DOMAIN specs
        BY <2>1
      <3>3. x[specs[k].column] \in Datum /\ y[specs[k].column] \in Datum
        BY <3>2 DEF HasKeys
      <3>. HIDE DEF o, p
      <3>. QED BY <3>1, <3>2, <3>3, Reverses
    <2>. QED BY <2>1
  <1>. HIDE DEF n, o, p
  <1>3. CASE \A k \in 1..n : o[k] = "equal" /\ p[k] = "equal"
    <2>1. Lexicographic(o) = "equal" /\ Lexicographic(p) = "equal"
      BY <1>1, <1>3, FirstDecides
    <2>. QED BY <1>1, <2>1 DEF Ordering, reverse
  <1>4. CASE ~ \A k \in 1..n : o[k] = "equal" /\ p[k] = "equal"
    <2>1. PICK m \in 1..n : /\ \A k \in 1..m - 1 : o[k] = "equal" /\ p[k] = "equal"
                           /\ ~ (o[m] = "equal" /\ p[m] = "equal")
      BY <1>1, <1>4, FirstApart
    <2>2. o[m] # "equal" /\ p[m] # "equal" /\ o[m] \in Ordering
      BY <1>1, <1>2, <2>1 DEF Ordering, reverse
    <2>3. Lexicographic(o) = o[m] /\ Lexicographic(p) = p[m]
      BY <1>1, <2>1, <2>2, FirstDecides
    <2>. QED BY <1>1, <1>2, <2>2, <2>3
  <1>. QED BY <1>3, <1>4

\* The order of rows is transitive, and so are its ties.
LEMMA RowsTransitive ==
  ASSUME NEW specs \in Seq(OrderKey), NEW x, NEW y, NEW z,
         HasKeys(x, specs), HasKeys(y, specs), HasKeys(z, specs),
         compare_rows(x, y, specs) # "greater", compare_rows(y, z, specs) # "greater"
  PROVE  /\ compare_rows(x, z, specs) # "greater"
         /\ compare_rows(x, z, specs) = "equal"
              <=> compare_rows(x, y, specs) = "equal" /\ compare_rows(y, z, specs) = "equal"
  <1>. DEFINE n == Len(specs)
              o == KeyOrderings(x, y, specs)
              p == KeyOrderings(y, z, specs)
              q == KeyOrderings(x, z, specs)
  <1>1. /\ n \in Nat /\ o \in [1..n -> Ordering] /\ p \in [1..n -> Ordering] /\ q \in [1..n -> Ordering]
        /\ compare_rows(x, y, specs) = Lexicographic(o)
        /\ compare_rows(y, z, specs) = Lexicographic(p)
        /\ compare_rows(x, z, specs) = Lexicographic(q)
    BY RowsByKeys
  <1>2. ASSUME NEW k \in 1..n, o[k] # "greater", p[k] # "greater"
        PROVE  q[k] # "greater" /\ (q[k] = "equal" <=> o[k] = "equal" /\ p[k] = "equal")
    <2>1. /\ o[k] = CompareKey(x[specs[k].column], y[specs[k].column], specs[k])
          /\ p[k] = CompareKey(y[specs[k].column], z[specs[k].column], specs[k])
          /\ q[k] = CompareKey(x[specs[k].column], z[specs[k].column], specs[k])
      BY RowsByKeys
    <2>2. specs[k] \in OrderKey /\ k \in DOMAIN specs
      OBVIOUS
    <2>3. x[specs[k].column] \in Datum /\ y[specs[k].column] \in Datum /\ z[specs[k].column] \in Datum
      BY <2>2 DEF HasKeys
    <2>. HIDE DEF o, p, q
    <2>. QED BY <1>2, <2>1, <2>2, <2>3, Transitive
  <1>. HIDE DEF n, o, p, q
  <1>3. CASE \A k \in 1..n : o[k] = "equal" /\ p[k] = "equal"
    <2>1. \A k \in 1..n : q[k] = "equal"
      BY <1>2, <1>3
    <2>2. Lexicographic(o) = "equal" /\ Lexicographic(p) = "equal" /\ Lexicographic(q) = "equal"
      BY <1>1, <1>3, <2>1, FirstDecides
    <2>. QED BY <1>1, <2>2
  <1>4. CASE ~ \A k \in 1..n : o[k] = "equal" /\ p[k] = "equal"
    <2>1. PICK m \in 1..n : /\ \A k \in 1..m - 1 : o[k] = "equal" /\ p[k] = "equal"
                           /\ ~ (o[m] = "equal" /\ p[m] = "equal")
      BY <1>1, <1>4, FirstApart
    <2>0. m \in 1..n /\ (\A k \in 1..m - 1 : o[k] = "equal") /\ \A k \in 1..m - 1 : p[k] = "equal"
      BY <2>1
    <2>2. o[m] # "equal" => Lexicographic(o) = o[m]
      BY ONLY <1>1, <2>0, FirstDecides
    <2>3. p[m] # "equal" => Lexicographic(p) = p[m]
      BY ONLY <1>1, <2>0, FirstDecides
    <2>4. q[m] = "less"
      <3>1. o[m] # "greater" /\ p[m] # "greater"
        BY <1>1, <2>2, <2>3
      <3>2. q[m] # "greater" /\ q[m] # "equal" /\ q[m] \in Ordering
        BY <1>1, <1>2, <2>1, <3>1
      <3>. QED BY <3>2 DEF Ordering
    <2>5. \A k \in 1..m - 1 : q[k] = "equal"
      <3>1. \A k \in 1..m - 1 : k \in 1..n
        BY <1>1
      <3>2. \A k \in 1..m - 1 : o[k] # "greater" /\ p[k] # "greater"
        BY <2>1
      <3>. QED BY <1>2, <2>1, <3>1, <3>2
    <2>6. Lexicographic(q) = "less"
      <3>1. q[m] # "equal"
        BY <2>4
      <3>. QED BY ONLY <1>1, <2>0, <2>4, <2>5, <3>1, FirstDecides
    <2>7. ~ (Lexicographic(o) = "equal" /\ Lexicographic(p) = "equal")
      BY ONLY <2>1, <2>2, <2>3
    <2>8. Lexicographic(q) # "greater" /\ Lexicographic(q) # "equal"
      BY ONLY <2>6
    <2>. QED BY <1>1, <2>7, <2>8
  <1>. QED BY <1>3, <1>4

-----------------------------------------------------------------------------
(* Lists in order.                                                         *)

\* upTo is a total order of S.
TotalOrder(S, upTo) ==
  /\ \A a, b \in S : /\ <<a, b>> \in upTo \/ <<b, a>> \in upTo
                     /\ <<a, b>> \in upTo /\ <<b, a>> \in upTo => a = b
  /\ \A a, b, c \in S : <<a, b>> \in upTo /\ <<b, c>> \in upTo => <<a, c>> \in upTo

\* InOrderOf lists every member of a set once, in the order.
LEMMA Enumerated ==
  ASSUME NEW S, IsFiniteSet(S), NEW upTo, TotalOrder(S, upTo)
  PROVE  /\ Cardinality(S) \in Nat
         /\ InOrderOf(S, upTo) \in Seq(S)
         /\ Len(InOrderOf(S, upTo)) = Cardinality(S)
         /\ DOMAIN InOrderOf(S, upTo) = 1..Cardinality(S)
         /\ \A e \in S : \E i \in 1..Cardinality(S) : InOrderOf(S, upTo)[i] = e
         /\ \A i, j \in 1..Cardinality(S) : i < j =>
              /\ InOrderOf(S, upTo)[i] # InOrderOf(S, upTo)[j]
              /\ <<InOrderOf(S, upTo)[i], InOrderOf(S, upTo)[j]>> \in upTo
  <1>. DEFINE size == Cardinality(S)
              below(e) == {o \in S : <<o, e>> \in upTo}
              f == [e \in S |-> Cardinality(below(e))]
              order == InOrderOf(S, upTo)
  <1>1. size \in Nat
    BY FS_CardinalityType
  <1>2. ASSUME NEW e \in S
        PROVE  Cardinality(below(e)) \in 1..size
    <2>1. below(e) \in SUBSET S /\ e \in below(e)
      BY DEF TotalOrder
    <2>. HIDE DEF below
    <2>2. IsFiniteSet(below(e)) /\ Cardinality(below(e)) <= size
      BY <2>1, FS_Subset
    <2>3. Cardinality(below(e)) \in Nat /\ Cardinality(below(e)) # 0
      BY <2>1, <2>2, FS_CardinalityType, FS_EmptySet
    <2>. QED BY <1>1, <2>2, <2>3
  <1>3. ASSUME NEW a \in S, NEW b \in S, a # b, <<a, b>> \in upTo
        PROVE  Cardinality(below(a)) < Cardinality(below(b))
    <2>1. below(a) \in SUBSET below(b) /\ b \in below(b) /\ b \notin below(a) /\ below(b) \in SUBSET S
      BY <1>3 DEF TotalOrder
    <2>2. Cardinality(below(a)) \in Int /\ Cardinality(below(b)) \in Int
      BY <1>1, <1>2
    <2>. HIDE DEF below
    <2>3. IsFiniteSet(below(b))
      BY <2>1, FS_Subset
    <2>4. Cardinality(below(a)) <= Cardinality(below(b)) /\ Cardinality(below(a)) # Cardinality(below(b))
      BY <2>1, <2>3, FS_Subset
    <2>. QED BY <2>2, <2>4
  <1>4. \A a, b \in S : a # b => Cardinality(below(a)) # Cardinality(below(b))
    <2>1. \A a, b \in S : a # b => <<a, b>> \in upTo \/ <<b, a>> \in upTo
      BY DEF TotalOrder
    <2>2. \A a, b \in S : a # b /\ <<a, b>> \in upTo => Cardinality(below(a)) # Cardinality(below(b))
      <3>1. \A a \in S : Cardinality(below(a)) \in Int
        BY <1>1, <1>2
      <3>. HIDE DEF below
      <3>2. SUFFICES ASSUME NEW a \in S, NEW b \in S, a # b, <<a, b>> \in upTo
                     PROVE  Cardinality(below(a)) # Cardinality(below(b))
        OBVIOUS
      <3>3. Cardinality(below(a)) < Cardinality(below(b))
        BY <1>3, <3>2
      <3>. QED BY <3>1, <3>3
    <2>. HIDE DEF below
    <2>. QED BY <2>1, <2>2
  <1>5. f \in Surjection(S, 1..size)
    <2>1. f \in Injection(S, 1..size)
      <3>. HIDE DEF size, below
      <3>. QED BY <1>2, <1>4 DEF Injection, IsInjective
    <2>2. IsFiniteSet(1..size) /\ Cardinality(1..size) = size
      BY <1>1, FS_Interval
    <2>. HIDE DEF f
    <2>. QED BY <2>1, <2>2, FS_Injection
  <1>6. \A i \in 1..size : \E e \in S : Cardinality(below(e)) = i
    <2>1. \A i \in 1..size : \E e \in S : f[e] = i
      <3>. HIDE DEF f
      <3>. QED BY <1>5 DEF Surjection
    <2>. QED BY <2>1
  <1>7. \A i \in 1..size : order[i] \in S /\ Cardinality(below(order[i])) = i
    <2>1. SUFFICES ASSUME NEW i \in 1..size
                   PROVE  order[i] \in S /\ Cardinality(below(order[i])) = i
      OBVIOUS
    <2>. DEFINE placed == {<<e, Cardinality(below(e))>> : e \in S}
    <2>2. order[i] = (CHOOSE p \in placed : p[2] = i)[1]
      BY DEF InOrderOf
    <2>3. \E p \in placed : p[2] = i
      <3>. HIDE DEF below
      <3>1. PICK e \in S : Cardinality(below(e)) = i
        BY <1>6
      <3>2. <<e, Cardinality(below(e))>> \in placed /\ <<e, Cardinality(below(e))>>[2] = i
        BY <3>1
      <3>. QED BY <3>2
    <2>4. PICK p \in placed : p[2] = i /\ p = CHOOSE q \in placed : q[2] = i
      <3>. HIDE DEF placed
      <3>. QED BY <2>3
    <2>5. p[1] \in S /\ Cardinality(below(p[1])) = i
      <3>. HIDE DEF below
      <3>1. p \in placed /\ p[2] = i
        BY <2>4
      <3>2. PICK e \in S : p = <<e, Cardinality(below(e))>>
        BY <3>1
      <3>3. p[1] = e /\ p[2] = Cardinality(below(e))
        BY ONLY <3>2
      <3>. QED BY ONLY <3>1, <3>2, <3>3
    <2>6. order[i] = p[1]
      BY <2>2, <2>4
    <2>. HIDE DEF below, order
    <2>. QED BY <2>5, <2>6
  <1>8. order \in [1..size -> S]
    BY <1>7 DEF InOrderOf
  <1>. HIDE DEF order, below, size
  <1>9. order \in Seq(S) /\ Len(order) = size /\ DOMAIN order = 1..size
    BY <1>1, <1>8, IsASeq
  <1>10. \A e \in S : \E i \in 1..size : order[i] = e
    BY <1>2, <1>4, <1>7
  <1>11. ASSUME NEW i \in 1..size, NEW j \in 1..size, i < j
         PROVE  order[i] # order[j] /\ <<order[i], order[j]>> \in upTo
    <2>1. order[i] \in S /\ order[j] \in S /\ order[i] # order[j]
      BY <1>7, <1>11
    <2>2. ~ (Cardinality(below(order[j])) < Cardinality(below(order[i])))
      <3>1. i \in Int /\ j \in Int /\ ~ (j < i)
        BY <1>11
      <3>. QED BY <1>7, <3>1
    <2>. QED BY <1>3, <2>1, <2>2 DEF TotalOrder
  <1>. QED BY <1>1, <1>9, <1>10, <1>11 DEF order, size

-----------------------------------------------------------------------------
(* The heap of a top-N.                                                    *)

PlanGiven == \E kind \in Kinds : plan \in Inputs(kind)

HeapRead == plan.kind = "top-n" => at \in 0..Len(plan.input) /\ heap \subseteq 1..at

HeapInv == PlanGiven /\ HeapRead /\ HeapHoldsTheBest

\* Row a may stand before row b.
AtMost(a, b) == compare_rows(plan.input[a], plan.input[b], plan.keys) # "greater"

\* What a plan of a sort is made of.
LEMMA SortPlan ==
  ASSUME PlanGiven, plan.kind \in {"sort", "top-n"}
  PROVE  /\ plan.kind = "sort" => plan \in Sort
         /\ plan.kind = "top-n" => plan \in TopN /\ plan.limit \in Nat
         /\ plan.keys \in Seq(OrderKey)
         /\ plan.input \in Seq(Row) /\ Len(plan.input) \in Nat
         /\ DOMAIN plan.input = 1..Len(plan.input)
         /\ \A r \in DOMAIN plan.input : HasKeys(plan.input[r], plan.keys)
         /\ plan.kind = "top-n" => \A r \in DOMAIN plan.input, k \in DOMAIN plan.keys :
                                     plan.input[r][plan.keys[k].column] # NaN
  <1>1. /\ plan \in Sort \cup TopN
        /\ \A r \in DOMAIN plan.input, k \in DOMAIN plan.keys :
              /\ plan.input[r][plan.keys[k].column] \in Datum
              /\ plan.kind = "top-n" => plan.input[r][plan.keys[k].column] # NaN
    BY SortAssumption, KindAssumption DEF PlanGiven
  <1>2. plan.keys \in Seq(OrderKey) /\ plan.input \in Seq(Row)
    BY <1>1 DEF Sort, TopN
  <1>3. /\ plan.kind = "sort" => plan \in Sort
        /\ plan.kind = "top-n" => plan \in TopN /\ plan.limit \in Nat
    BY <1>1 DEF Sort, TopN
  <1>. QED BY <1>1, <1>2, <1>3 DEF HasKeys

\* The rows of the input are in a total preorder.
LEMMA InputOrdered ==
  ASSUME PlanGiven, plan.kind \in {"sort", "top-n"}
  PROVE  \A a, b \in DOMAIN plan.input :
           /\ compare_rows(plan.input[a], plan.input[b], plan.keys) \in Ordering
           /\ AtMost(a, b) \/ AtMost(b, a)
           /\ compare_rows(plan.input[a], plan.input[b], plan.keys) = "less" <=> ~ AtMost(b, a)
           /\ \A c \in DOMAIN plan.input : AtMost(a, b) /\ AtMost(b, c) => AtMost(a, c)
  <1>1. plan.keys \in Seq(OrderKey)
    BY SortPlan
  <1>2. \A a \in DOMAIN plan.input : HasKeys(plan.input[a], plan.keys)
    BY SortPlan
  <1>3. ASSUME NEW a \in DOMAIN plan.input, NEW b \in DOMAIN plan.input
        PROVE  /\ compare_rows(plan.input[a], plan.input[b], plan.keys) \in Ordering
               /\ compare_rows(plan.input[b], plan.input[a], plan.keys)
                    = reverse(compare_rows(plan.input[a], plan.input[b], plan.keys))
    BY <1>1, <1>2, RowsOrdered
  <1>4. ASSUME NEW a \in DOMAIN plan.input, NEW b \in DOMAIN plan.input,
               NEW c \in DOMAIN plan.input, AtMost(a, b), AtMost(b, c)
        PROVE  AtMost(a, c)
    BY <1>1, <1>2, <1>4, RowsTransitive DEF AtMost
  <1>5. ASSUME NEW a \in DOMAIN plan.input, NEW b \in DOMAIN plan.input
        PROVE  /\ AtMost(a, b) \/ AtMost(b, a)
               /\ compare_rows(plan.input[a], plan.input[b], plan.keys) = "less" <=> ~ AtMost(b, a)
    BY <1>3 DEF AtMost, Ordering, reverse
  <1>. QED BY <1>3, <1>4, <1>5

\* Without a NaN among the keys, the heap orders rows as the sort does.
LEMMA HeapOrder ==
  ASSUME PlanGiven, plan.kind = "top-n",
         NEW a \in DOMAIN plan.input, NEW b \in DOMAIN plan.input
  PROVE  compare_key_values(a, b) = compare_rows(plan.input[a], plan.input[b], plan.keys)
  <1>1. ASSUME NEW k \in DOMAIN plan.keys
        PROVE  CompareHeapKey(plan.input[a][plan.keys[k].column], plan.input[b][plan.keys[k].column], plan.keys[k])
                 = CompareKey(plan.input[a][plan.keys[k].column], plan.input[b][plan.keys[k].column], plan.keys[k])
    <2>1. NaN \notin {plan.input[a][plan.keys[k].column], plan.input[b][plan.keys[k].column]}
      BY SortPlan
    <2>. QED BY <2>1 DEF CompareHeapKey
  <1>. QED BY <1>1 DEF compare_key_values, compare_rows

\* One row read by a top-N keeps the invariant.
LEMMA RowKept ==
  ASSUME HeapInv, TopNRow
  PROVE  HeapInv'
  <1>. DEFINE D == DOMAIN plan.input
              limit == plan.limit
              n == at + 1
              kept(some) == /\ Cardinality(some) = Lesser(limit, n)
                            /\ \A k \in some, l \in (1..n) \ some : AtMost(k, l)
  <1>1. /\ plan.kind = "top-n" /\ PlanGiven /\ plan' = plan
        /\ at' = n /\ at < Len(plan.input)
    BY DEF HeapInv, TopNRow, operatorVars
  <1>2. /\ limit \in Nat /\ Len(plan.input) \in Nat /\ D = 1..Len(plan.input)
        /\ at \in Nat /\ heap \subseteq 1..at /\ n \in D
        /\ \A r \in 1..n : r \in D
    <2>1. limit \in Nat /\ Len(plan.input) \in Nat /\ D = 1..Len(plan.input)
      BY <1>1, SortPlan
    <2>. QED BY <1>1, <2>1 DEF HeapInv, HeapRead
  <1>3. \A a, b \in D :
           /\ AtMost(a, b) \/ AtMost(b, a)
           /\ compare_rows(plan.input[a], plan.input[b], plan.keys) = "less" <=> ~ AtMost(b, a)
           /\ compare_key_values(a, b) = "less" <=> ~ AtMost(b, a)
           /\ compare_key_values(a, b) # "greater" <=> AtMost(a, b)
           /\ \A c \in D : AtMost(a, b) /\ AtMost(b, c) => AtMost(a, c)
    BY <1>1, InputOrdered, HeapOrder DEF AtMost
  <1>4. IsFiniteSet(heap) /\ Cardinality(heap) = Lesser(limit, at)
    <2>1. IsFiniteSet(1..at)
      BY <1>2, FS_Interval
    <2>. QED BY <1>1, <1>2, <2>1, FS_Subset DEF HeapInv, HeapHoldsTheBest
  <1>5. \A k \in heap, l \in (1..at) \ heap : AtMost(k, l)
    <2>1. \A k \in heap, l \in (1..at) \ heap : k \in D /\ l \in D
      BY <1>2
    <2>. QED BY <1>1, <1>3, <2>1 DEF HeapInv, HeapHoldsTheBest
  <1>. HIDE DEF D
  <1>6. SUFFICES heap' \subseteq 1..n /\ kept(heap')
    <2>. SUFFICES ASSUME heap' \subseteq 1..n, kept(heap')
                  PROVE  HeapInv'
      OBVIOUS
    <2>1. PlanGiven'
      BY <1>1 DEF PlanGiven
    <2>2. HeapRead'
      BY <1>1, <1>2 DEF HeapRead
    <2>3. ASSUME NEW k \in heap', NEW l \in (1..n) \ heap'
          PROVE  compare_rows(plan.input[l], plan.input[k], plan.keys) # "less"
      <3>1. k \in D /\ l \in D /\ AtMost(k, l)
        BY <1>2
      <3>. QED BY <1>3, <3>1
    <2>4. HeapHoldsTheBest'
      BY <1>1, <2>3 DEF HeapHoldsTheBest
    <2>. QED BY <2>1, <2>2, <2>4 DEF HeapInv
  <1>7. CASE Cardinality(heap) < limit
    <2>1. heap' = heap \cup {n}
      BY <1>1, <1>7 DEF TopNRow
    <2>2. Cardinality(heap) = at /\ at < limit
      BY <1>2, <1>4, <1>7 DEF Lesser
    <2>3. heap = 1..at
      <3>1. IsFiniteSet(1..at) /\ Cardinality(1..at) = at
        <4>1. 0 \in Int /\ 1 \in Int /\ at \in Int
          BY <1>2
        <4>2. IsFiniteSet(1..at) /\ Cardinality(1..at) = (IF 1 > at THEN 0 ELSE at - 1 + 1)
          BY <4>1, FS_Interval
        <4>. QED BY <1>2, <4>2
      <3>. QED BY <1>2, <2>2, <3>1, FS_Subset
    <2>4. heap' = 1..n
      BY <1>2, <2>1, <2>3
    <2>5. Cardinality(1..n) = n
      BY <1>2, FS_Interval
    <2>. QED BY <1>2, <2>2, <2>4, <2>5 DEF Lesser
  <1>8. CASE ~ (Cardinality(heap) < limit)
    <2>1. Cardinality(heap) = limit /\ limit <= at /\ Lesser(limit, n) = limit
      BY <1>2, <1>4, <1>8 DEF Lesser
    <2>2. n \notin heap /\ \A r \in 1..n : r = n \/ r \in 1..at
      BY <1>2
    <2>3. CASE heap = {}
      <3>1. heap' = {}
        BY <1>8, <2>3 DEF TopNRow
      <3>. QED BY <2>1, <2>3, <3>1
    <2>4. CASE heap # {}
      <3>1. PICK worst \in Worst(heap) :
               heap' = IF Admits(n, worst) THEN (heap \ {worst}) \cup {n} ELSE heap
        BY <1>1, <1>8, <2>4 DEF TopNRow
      <3>2. worst \in heap /\ \A o \in heap : AtMost(o, worst)
        <4>1. worst \in heap /\ \A o \in heap : compare_key_values(o, worst) # "greater"
          BY <3>1 DEF Worst
        <4>2. \A o \in heap : o \in D
          BY <1>2
        <4>. QED BY <1>3, <4>1, <4>2
      <3>3. worst \in D /\ worst # n /\ (Admits(n, worst) <=> ~ AtMost(worst, n))
        <4>1. worst \in D /\ worst # n
          BY <1>2, <2>2, <3>2
        <4>. QED BY <1>2, <1>3, <4>1 DEF Admits
      <3>4. CASE Admits(n, worst)
        <4>1. heap' = (heap \ {worst}) \cup {n}
          BY <3>1, <3>4
        <4>2. Cardinality(heap') = limit
          <5>1. IsFiniteSet(heap \ {worst}) /\ Cardinality(heap \ {worst}) = Cardinality(heap) - 1
            BY <1>4, <3>2, FS_RemoveElement
          <5>2. Cardinality((heap \ {worst}) \cup {n}) = Cardinality(heap \ {worst}) + 1
            BY <2>2, <5>1, FS_AddElement
          <5>. QED BY <1>2, <2>1, <4>1, <5>1, <5>2
        <4>3. heap' \subseteq 1..n
          <5>1. \A r \in 1..at : r \in 1..n
            BY <1>2
          <5>2. n \in 1..n
            BY <1>2
          <5>. QED BY <1>2, <4>1, <5>1, <5>2
        <4>4. ASSUME NEW k \in heap', NEW l \in (1..n) \ heap'
              PROVE  AtMost(k, l)
          <5>1. k \in D /\ l \in D /\ n \in D /\ l # n
            BY <1>2, <4>1, <4>3
          <5>2. AtMost(k, worst)
            BY <1>3, <3>2, <3>3, <3>4, <4>1, <5>1
          <5>3. CASE l = worst
            BY <5>2, <5>3
          <5>4. CASE l # worst
            <6>1. l \in (1..at) \ heap
              BY <2>2, <4>1, <5>1, <5>4
            <6>2. AtMost(worst, l)
              BY <1>5, <3>2, <6>1
            <6>. QED BY <1>3, <3>3, <5>1, <5>2, <6>2
          <5>. QED BY <5>3, <5>4
        <4>. QED BY <2>1, <4>2, <4>3, <4>4
      <3>5. CASE ~ Admits(n, worst)
        <4>1. heap' = heap /\ AtMost(worst, n)
          BY <3>1, <3>3, <3>5
        <4>2. ASSUME NEW k \in heap, NEW l \in (1..n) \ heap
              PROVE  AtMost(k, l)
          <5>1. k \in D /\ l \in D
            BY <1>2
          <5>2. CASE l = n
            BY <1>3, <3>2, <3>3, <4>1, <5>1, <5>2
          <5>3. CASE l # n
            BY <1>5, <2>2, <5>3
          <5>. QED BY <5>2, <5>3
        <4>3. heap \subseteq 1..n
          BY <1>2
        <4>. QED BY <2>1, <4>1, <4>2, <4>3
      <3>. QED BY <3>4, <3>5
    <2>. QED BY <2>3, <2>4
  <1>. QED BY <1>7, <1>8

\* No step changes the plan, and only a row read by a top-N its heap.
LEMMA HeapSteps ==
  ASSUME [Next]_vars
  PROVE  /\ plan' = plan
         /\ plan.kind = "top-n" => TopNRow \/ (UNCHANGED <<at, heap>>)
  <1>1. CASE UNCHANGED vars
    BY <1>1 DEF vars, operatorVars, unaryVars, rowVars
  <1>2. CASE Fail /\ UNCHANGED <<joinVars, unaryVars>>
    BY <1>2 DEF Fail, unaryVars, rowVars
  <1>3. CASE Joins
    <2>1. UNCHANGED unaryVars /\ plan.kind = "join"
      BY <1>3 DEF Joins
    <2>2. ASSUME NEW algorithm, HashNext(algorithm)
          PROVE  plan' = plan
      BY <2>2 DEF HashNext, Build, Probe, ProbeEnd, Flush
    <2>3. ASSUME MergeNext
          PROVE  plan' = plan
      BY <2>3 DEF MergeNext, Replay, StepLeft, StepRight, Meet, Exhausted, ReturnPending
    <2>. QED BY <1>3, <2>1, <2>2, <2>3 DEF Joins
  <1>4. CASE SortStep
    BY <1>4 DEF SortStep, SortBuild, TopNRow, TopNBuilt, EmitBuilt, EndBuilt, rowVars, operatorVars
  <1>5. CASE AggregateStep
    <2>1. plan.kind = "aggregate"
      BY <1>5 DEF AggregateStep
    <2>2. plan' = plan
      <3>1. ASSUME NEW n, StreamBatch(n)
            PROVE  plan' = plan
        BY <3>1 DEF StreamBatch
      <3>. QED BY <1>5, <3>1 DEF AggregateStep, HashOpen, HashRow, HashEmit, StreamEnd, StreamEmit, operatorVars
    <2>. QED BY <2>1, <2>2
  <1>6. CASE SetStep
    <2>1. plan.kind \in {"distinct", "set"}
      BY <1>6 DEF SetStep
    <2>2. plan' = plan
      BY <1>6 DEF SetStep, CountRight, LeftBatch, RightBatch, LeftEnd, SetEnd, operatorVars
    <2>. QED BY <2>1, <2>2
  <1>7. CASE WindowStep
    <2>1. plan.kind = "window"
      BY <1>7 DEF WindowStep
    <2>2. plan' = plan
      BY <1>7 DEF WindowStep, WindowBuild, EmitBuilt, EndBuilt, operatorVars
    <2>. QED BY <2>1, <2>2
  <1>. QED BY <1>1, <1>2, <1>3, <1>4, <1>5, <1>6, <1>7 DEF Next, Step

\* The heap is empty while nothing is read,
LEMMA HeapFirst == Init => HeapInv
  <1>1. SUFFICES ASSUME Init
                 PROVE  HeapInv
    OBVIOUS
  <1>2. PlanGiven /\ at = 0 /\ heap = {}
    BY <1>1 DEF Init, OperatorInit, RowInit, PlanGiven
  <1>3. ASSUME plan.kind = "top-n"
        PROVE  /\ at \in 0..Len(plan.input) /\ heap \subseteq 1..at
               /\ Cardinality(heap) = Lesser(plan.limit, at)
    <2>1. Len(plan.input) \in Nat /\ plan.limit \in Nat
      BY <1>2, <1>3, SortPlan
    <2>2. Cardinality({}) = 0
      BY FS_EmptySet
    <2>. QED BY <1>2, <2>1, <2>2 DEF Lesser
  <1>. QED BY <1>2, <1>3 DEF HeapInv, HeapRead, HeapHoldsTheBest

\* and only a row read by a top-N changes it.
LEMMA HeapKept ==
  ASSUME HeapInv, [Next]_vars
  PROVE  HeapInv'
  <1>1. plan' = plan
    BY HeapSteps
  <1>2. CASE TopNRow
    BY <1>2, RowKept
  <1>3. CASE UNCHANGED <<at, heap>>
    BY <1>1, <1>3 DEF HeapInv, PlanGiven, HeapRead, HeapHoldsTheBest
  <1>4. CASE plan.kind # "top-n"
    BY <1>1, <1>4 DEF HeapInv, PlanGiven, HeapRead, HeapHoldsTheBest
  <1>. QED BY <1>2, <1>3, <1>4, HeapSteps

\* The rows a top-N gave up are none that could have been returned.
THEOREM HeapKeepsTheBest == Spec => []HeapHoldsTheBest
  <1>1. HeapInv => HeapHoldsTheBest
    BY DEF HeapInv
  <1>. QED BY <1>1, HeapFirst, HeapKept, PTL DEF Spec

-----------------------------------------------------------------------------
(* What a sort and a top-N return.                                         *)

\* The stable order of the rows of an input is a total order.
LEMMA StableIsTotal ==
  ASSUME NEW specs \in Seq(OrderKey), NEW n \in Nat, NEW input, DOMAIN input = 1..n,
         \A r \in 1..n : HasKeys(input[r], specs)
  PROVE  TotalOrder(1..n, StableOrder(input, specs))
  <1>. DEFINE cmp(a, b) == compare_rows(input[a], input[b], specs)
              upTo == StableOrder(input, specs)
  <1>1. \A a, b \in 1..n : <<a, b>> \in upTo <=> cmp(a, b) = "less" \/ (cmp(a, b) = "equal" /\ a <= b)
    BY DEF StableOrder
  <1>2. \A a, b \in 1..n : cmp(a, b) \in Ordering /\ cmp(b, a) = reverse(cmp(a, b))
    BY RowsOrdered
  <1>3. ASSUME NEW a \in 1..n, NEW b \in 1..n, NEW c \in 1..n,
               cmp(a, b) # "greater", cmp(b, c) # "greater"
        PROVE  /\ cmp(a, c) # "greater"
               /\ cmp(a, c) = "equal" <=> cmp(a, b) = "equal" /\ cmp(b, c) = "equal"
    BY <1>3, RowsTransitive
  <1>. HIDE DEF cmp, upTo
  <1>4. ASSUME NEW a \in 1..n, NEW b \in 1..n
        PROVE  /\ <<a, b>> \in upTo \/ <<b, a>> \in upTo
               /\ <<a, b>> \in upTo /\ <<b, a>> \in upTo => a = b
    BY <1>1, <1>2 DEF Ordering, reverse
  <1>5. ASSUME NEW a \in 1..n, NEW b \in 1..n, NEW c \in 1..n,
               <<a, b>> \in upTo, <<b, c>> \in upTo
        PROVE  <<a, c>> \in upTo
    <2>1. /\ cmp(a, b) \in {"less", "equal"} /\ (cmp(a, b) = "equal" => a <= b)
          /\ cmp(b, c) \in {"less", "equal"} /\ (cmp(b, c) = "equal" => b <= c)
      BY <1>1, <1>5
    <2>2. cmp(a, c) # "greater" /\ (cmp(a, c) = "equal" <=> cmp(a, b) = "equal" /\ cmp(b, c) = "equal")
      BY <1>3, <2>1
    <2>3. cmp(a, c) = "less" \/ (cmp(a, c) = "equal" /\ a <= c)
      BY <1>2, <2>1, <2>2 DEF Ordering
    <2>. QED BY <1>1, <2>3
  <1>. QED BY <1>4, <1>5 DEF TotalOrder, upTo

\* An input of n rows that have the columns of some keys.
Sortable(input, n, specs) ==
  /\ n \in Nat /\ specs \in Seq(OrderKey) /\ DOMAIN input = 1..n
  /\ \A r \in 1..n : HasKeys(input[r], specs)

\* Its rows, every one once, and none before one it comes after.
SortedRows(order, input, n, specs) ==
  /\ order \in Seq(1..n) /\ Len(order) = n /\ DOMAIN order = 1..n
  /\ \A r \in 1..n : \E i \in 1..n : order[i] = r
  /\ \A i, j \in 1..n : i < j =>
       /\ order[i] # order[j]
       /\ compare_rows(input[order[i]], input[order[j]], specs) # "greater"

\* That is what sort lists.
LEMMA SortSorts ==
  ASSUME NEW input, NEW n, NEW specs, Sortable(input, n, specs),
         NEW order, order = sort(input, specs)
  PROVE  SortedRows(order, input, n, specs)
  <1>. n \in Nat /\ specs \in Seq(OrderKey) /\ DOMAIN input = 1..n
       /\ \A r \in 1..n : HasKeys(input[r], specs)
    BY DEF Sortable
  <1>1. PICK D, upTo : D = 1..n /\ upTo = StableOrder(input, specs)
    OBVIOUS
  <1>2. IsFiniteSet(D) /\ Cardinality(D) = n
    <2>1. IsFiniteSet(1..n) /\ Cardinality(1..n) = (IF 1 > n THEN 0 ELSE n - 1 + 1)
      BY FS_Interval
    <2>. QED BY <1>1, <2>1
  <1>3. TotalOrder(D, upTo)
    BY <1>1, StableIsTotal
  <1>4. order = InOrderOf(D, upTo)
    BY <1>1 DEF sort
  <1>5. /\ order \in Seq(D) /\ Len(order) = n /\ DOMAIN order = 1..n
        /\ \A r \in D : \E i \in 1..n : order[i] = r
        /\ \A i, j \in 1..n : i < j => order[i] # order[j] /\ <<order[i], order[j]>> \in upTo
    <2>. DEFINE o == InOrderOf(D, upTo)
    <2>1. /\ o \in Seq(D) /\ Len(o) = Cardinality(D) /\ DOMAIN o = 1..Cardinality(D)
          /\ \A r \in D : \E i \in 1..Cardinality(D) : o[i] = r
          /\ \A i, j \in 1..Cardinality(D) : i < j => o[i] # o[j] /\ <<o[i], o[j]>> \in upTo
      BY <1>2, <1>3, Enumerated
    <2>2. o = order
      BY <1>4
    <2>. HIDE DEF o
    <2>. QED BY <1>2, <2>1, <2>2
  <1>6. \A a, b : <<a, b>> \in upTo => compare_rows(input[a], input[b], specs) # "greater"
    BY <1>1 DEF StableOrder
  <1>7. order \in Seq(1..n) /\ Len(order) = n /\ DOMAIN order = 1..n
    BY ONLY <1>1, <1>5
  <1>8. \A r \in 1..n : \E i \in 1..n : order[i] = r
    BY ONLY <1>1, <1>5
  <1>9. \A i, j \in 1..n : i < j =>
          /\ order[i] # order[j]
          /\ compare_rows(input[order[i]], input[order[j]], specs) # "greater"
    BY ONLY <1>5, <1>6
  <1>. QED BY ONLY <1>7, <1>8, <1>9 DEF SortedRows

\* i things do not fit into i - 1 places.
LEMMA TooMany ==
  ASSUME NEW i \in Nat \ {0}, NEW g \in [1..i -> 1..i - 1]
  PROVE  \E x, y \in 1..i : x # y /\ g[x] = g[y]
  <1>1. IsFiniteSet(1..i) /\ Cardinality(1..i) = i
    BY FS_Interval
  <1>2. IsFiniteSet(1..i - 1) /\ Cardinality(1..i - 1) = i - 1
    <2>1. i - 1 \in Int
      OBVIOUS
    <2>2. IsFiniteSet(1..i - 1) /\ Cardinality(1..i - 1) = (IF 1 > i - 1 THEN 0 ELSE i - 1 - 1 + 1)
      BY <2>1, FS_Interval
    <2>. QED BY <2>2
  <1>3. Cardinality(1..i - 1) < Cardinality(1..i)
    BY <1>1, <1>2
  <1>4. g \notin Injection(1..i, 1..i - 1)
    BY <1>1, <1>2, <1>3, FS_Injection
  <1>. QED BY <1>4 DEF Injection, IsInjective

\* Nor do i different things that each have one of i - 1 places.
Crowded(a, b, i) ==
  /\ \A k \in 1..i : \E j \in 1..i - 1 : b[j] = a[k]
  /\ \A k, l \in 1..i : k < l => a[k] # a[l]

LEMMA NoRoom ==
  ASSUME NEW i \in Nat \ {0}, NEW a, NEW b
  PROVE  ~ Crowded(a, b, i)
  <1>. SUFFICES ASSUME Crowded(a, b, i)
                PROVE  FALSE
    OBVIOUS
  <1>. USE DEF Crowded
  <1>. DEFINE g == [k \in 1..i |-> CHOOSE j \in 1..i - 1 : b[j] = a[k]]
  <1>1. \A k \in 1..i : g[k] \in 1..i - 1 /\ b[g[k]] = a[k]
    OBVIOUS
  <1>2. g \in [1..i -> 1..i - 1]
    BY <1>1
  <1>. HIDE DEF g
  <1>3. PICK x, y \in 1..i : x # y /\ g[x] = g[y]
    BY <1>2, TooMany
  <1>4. a[x] = a[y]
    BY <1>1, <1>3
  <1>. QED BY <1>3, <1>4

\* The first n of s are different members of D, in the order of R.
Lists(s, n, D, R) ==
  /\ \A k \in 1..n : s[k] \in D
  /\ \A k, l \in 1..n : k < l => s[k] # s[l]
  /\ \A k, l \in 1..n : k <= l => <<s[k], s[l]>> \in R

\* What R does not put after e is among the first n of s.
HasAllBefore(s, n, D, R, e) ==
  \A r \in D : <<e, r>> \notin R => \E k \in 1..n : s[k] = r

TransitiveOn(D, R) == \A a, b, c \in D : <<a, b>> \in R /\ <<b, c>> \in R => <<a, c>> \in R

\* Two lists in the order of R: where the first has the best, nothing in the second
\* comes strictly before what is in its place of the first.
LEMMA NotBefore ==
  ASSUME NEW R, NEW D, TransitiveOn(D, R), NEW n \in Nat, NEW m \in Nat,
         NEW i, i \in 1..n, i \in 1..m,
         NEW all, Lists(all, n, D, R), NEW order, Lists(order, m, D, R),
         HasAllBefore(order, m, D, R, order[i])
  PROVE  <<order[i], all[i]>> \in R
  <1>. USE DEF Lists, HasAllBefore, TransitiveOn
  <1>1. SUFFICES ASSUME <<order[i], all[i]>> \notin R
                 PROVE  FALSE
    OBVIOUS
  <1>2. i \in 1..m /\ i \in Nat \ {0} /\ order[i] \in D /\ all[i] \in D
    OBVIOUS
  <1>3. ASSUME NEW k \in 1..i
        PROVE  \E j \in 1..i - 1 : order[j] = all[k]
    <2>1. k \in 1..n /\ k <= i
      OBVIOUS
    <2>2. all[k] \in D /\ <<all[k], all[i]>> \in R
      BY <2>1
    <2>3. <<order[i], all[k]>> \notin R
      BY <1>1, <1>2, <2>2
    <2>4. PICK j \in 1..m : order[j] = all[k]
      BY <2>2, <2>3
    <2>5. ~ (i <= j)
      BY <1>2, <2>3, <2>4
    <2>6. j \in 1..i - 1
      BY <1>2, <2>5
    <2>. QED BY <2>4, <2>6
  <1>4. ASSUME NEW k \in 1..i, NEW l \in 1..i, k < l
        PROVE  all[k] # all[l]
    <2>1. k \in 1..n /\ l \in 1..n
      OBVIOUS
    <2>. QED BY <1>4, <2>1
  <1>5. Crowded(all, order, i)
    BY ONLY <1>3, <1>4 DEF Crowded
  <1>. QED BY ONLY <1>2, <1>5, NoRoom

\* Of rows that are the best, listed in order, each ties with the row that is in
\* its place of the whole input in order.
LEMMA TieByTie ==
  ASSUME PlanGiven, plan.kind = "top-n",
         NEW best \in SUBSET DOMAIN plan.input,
         \A kept \in best, lost \in (DOMAIN plan.input) \ best : AtMost(kept, lost),
         NEW m \in Nat, m <= Len(plan.input), NEW order,
         \A j \in 1..m : order[j] \in best,
         \A r \in best : \E j \in 1..m : order[j] = r,
         \A j, k \in 1..m : j < k => order[j] # order[k],
         \A j, k \in 1..m : j <= k => AtMost(order[j], order[k]),
         NEW sorted, sorted = sort(plan.input, plan.keys),
         NEW i \in 1..m
  PROVE  Tied(order[i], sorted[i])
  <1>1. PICK D, n, R : D = DOMAIN plan.input /\ n = Len(plan.input)
                       /\ R = {p \in D \X D : AtMost(p[1], p[2])}
    OBVIOUS
  <1>2. n \in Nat /\ D = 1..n /\ i \in 1..n /\ m <= n
    BY <1>1, SortPlan
  <1>3. \A a, b \in D : <<a, b>> \in R <=> AtMost(a, b)
    BY <1>1
  <1>4. /\ \A a, b \in D : <<a, b>> \in R \/ <<b, a>> \in R
        /\ \A a, b, c \in D : <<a, b>> \in R /\ <<b, c>> \in R => <<a, c>> \in R
    BY <1>1, <1>3, InputOrdered
  <1>5. /\ \A k \in 1..n : sorted[k] \in D
        /\ \A r \in D : \E k \in 1..n : sorted[k] = r
        /\ \A k, l \in 1..n : k < l => sorted[k] # sorted[l] /\ AtMost(sorted[k], sorted[l])
    <2>1. PICK input, specs : input = plan.input /\ specs = plan.keys
      OBVIOUS
    <2>2. Sortable(input, n, specs)
      <3>1. /\ plan.keys \in Seq(OrderKey)
            /\ \A r \in DOMAIN plan.input : HasKeys(plan.input[r], plan.keys)
        BY SortPlan
      <3>. QED BY ONLY <1>1, <1>2, <2>1, <3>1 DEF Sortable
    <2>3. SortedRows(sorted, input, n, specs)
      BY <2>1, <2>2, SortSorts
    <2>4. \A k \in 1..n : sorted[k] \in 1..n
      BY ONLY <2>3 DEF SortedRows
    <2>. QED BY ONLY <1>2, <2>1, <2>3, <2>4 DEF AtMost, SortedRows
  <1>6. \A k, l \in 1..n : k <= l => <<sorted[k], sorted[l]>> \in R
    <2>1. SUFFICES ASSUME NEW k \in 1..n, NEW l \in 1..n, k <= l
                   PROVE  <<sorted[k], sorted[l]>> \in R
      OBVIOUS
    <2>2. sorted[k] \in D /\ sorted[l] \in D
      BY <1>5
    <2>3. CASE k = l
      BY <1>4, <2>2, <2>3
    <2>4. CASE k < l
      BY <1>3, <1>5, <2>2, <2>4
    <2>. QED BY <1>2, <2>1, <2>3, <2>4
  <1>7. /\ \A k \in 1..m : order[k] \in D
        /\ \A k, l \in 1..m : k <= l => <<order[k], order[l]>> \in R
    BY <1>1, <1>3
  <1>8. Lists(order, m, D, R) /\ Lists(sorted, n, D, R) /\ TransitiveOn(D, R)
    BY ONLY <1>4, <1>5, <1>6, <1>7, \A j, k \in 1..m : j < k => order[j] # order[k]
       DEF Lists, TransitiveOn
  <1>9. HasAllBefore(order, m, D, R, order[i])
    <2>1. \A r \in D : <<order[i], r>> \notin R => r \in best
      BY <1>1, <1>3, <1>7
    <2>. QED BY <2>1 DEF HasAllBefore
  <1>10. HasAllBefore(sorted, n, D, R, sorted[i])
    BY <1>5 DEF HasAllBefore
  <1>11. <<order[i], sorted[i]>> \in R /\ <<sorted[i], order[i]>> \in R
    BY <1>2, <1>8, <1>9, <1>10, NotBefore
  <1>12. order[i] \in D /\ sorted[i] \in D /\ AtMost(order[i], sorted[i]) /\ AtMost(sorted[i], order[i])
    BY <1>2, <1>3, <1>5, <1>7, <1>11
  <1>13. \A a, b \in D :
            /\ compare_rows(plan.input[a], plan.input[b], plan.keys) \in Ordering
            /\ compare_rows(plan.input[a], plan.input[b], plan.keys) = "less" <=> ~ AtMost(b, a)
    BY <1>1, InputOrdered
  <1>. QED BY ONLY <1>12, <1>13 DEF Tied, AtMost, Ordering

\* What a sort and a top-N have built.
SortBuilt ==
  /\ plan.kind = "sort" => rows = sort(plan.input, plan.keys)
  /\ plan.kind = "top-n" => at = Len(plan.input) /\ rows \in SetToSeqs(heap) /\ Drained(rows)

\* What they have returned of it.
SortRun ==
  plan.kind \in {"sort", "top-n"} =>
    IF built
    THEN /\ SortBuilt
         /\ emitted \in 0..Len(rows) /\ out = SubSeq(rows, 1, emitted)
         /\ status = "done" => emitted = Len(rows)
    ELSE emitted = 0 /\ out = <<>> /\ status # "done"

\* A sequence of members of a set is one of members of a larger set.
LEMMA Widened ==
  ASSUME NEW S, NEW T, S \in SUBSET T, NEW s \in Seq(S)
  PROVE  s \in Seq(T)
  <1>. DEFINE e(i) == s[i]
              n == Len(s)
  <1>1. n \in Nat /\ s \in [1..n -> S]
    BY LenProperties
  <1>2. s = [i \in 1..n |-> e(i)] /\ \A i \in 1..n : e(i) \in T
    BY <1>1
  <1>. HIDE DEF e
  <1>3. [i \in 1..n |-> e(i)] \in Seq(T)
    BY <1>1, <1>2, IsASeq
  <1>. QED BY <1>2, <1>3

\* A sequence of the members of a set has each of them once.
LEMMA Sequenced ==
  ASSUME NEW S, IsFiniteSet(S), NEW s, s \in SetToSeqs(S),
         NEW n, n = Cardinality(S)
  PROVE  /\ s \in Seq(S) /\ Len(s) = n /\ n \in Nat /\ DOMAIN s = 1..n
         /\ \A k \in 1..n : s[k] \in S
         /\ \A r \in S : \E k \in 1..n : s[k] = r
         /\ \A k, l \in 1..n : k < l => s[k] # s[l]
  <1>1. n \in Nat
    BY FS_CardinalityType
  <1>2. s \in [1..n -> S] /\ \A k, l \in 1..n : k # l => s[k] # s[l]
    BY DEF SetToSeqs
  <1>3. s \in Seq(S) /\ Len(s) = n
    BY <1>1, <1>2, IsASeq
  <1>4. \A r \in S : \E k \in 1..n : s[k] = r
    <2>1. s \in Injection(1..n, S)
      BY <1>2 DEF Injection, IsInjective
    <2>2. Cardinality(1..n) = n
      BY <1>1, FS_Interval
    <2>3. s \in Surjection(1..n, S)
      BY <2>1, <2>2, FS_Injection
    <2>. QED BY <2>3 DEF Surjection
  <1>. QED BY <1>1, <1>2, <1>3, <1>4

\* What is built is a list of rows: all of the input, or as many as the limit asks for.
LEMMA BuiltRows ==
  ASSUME HeapInv, plan.kind \in {"sort", "top-n"}, SortBuilt
  PROVE  /\ rows \in Seq(DOMAIN plan.input) /\ Len(rows) \in Nat
         /\ \A k, l \in 1..Len(rows) : k < l => rows[k] # rows[l]
         /\ plan.kind = "sort" => Len(rows) = Len(plan.input)
         /\ plan.kind = "top-n" =>
              /\ Len(rows) = Lesser(plan.limit, Len(plan.input)) /\ Len(rows) <= Len(plan.input)
              /\ heap \in SUBSET DOMAIN plan.input
              /\ \A k \in 1..Len(rows) : rows[k] \in heap
              /\ \A r \in heap : \E k \in 1..Len(rows) : rows[k] = r
              /\ \A k, l \in 1..Len(rows) : k <= l => AtMost(rows[k], rows[l])
  <1>1. /\ PlanGiven /\ plan.input \in Seq(Row) /\ Len(plan.input) \in Nat
        /\ DOMAIN plan.input = 1..Len(plan.input)
        /\ plan.kind = "top-n" => plan.limit \in Nat
    BY SortPlan DEF HeapInv
  <1>2. CASE plan.kind = "sort"
    <2>1. PICK input, n, specs : input = plan.input /\ n = Len(input) /\ specs = plan.keys
      OBVIOUS
    <2>2. Sortable(input, n, specs)
      BY <1>1, <2>1, SortPlan DEF Sortable
    <2>3. rows = sort(input, specs)
      BY <1>2, <2>1 DEF SortBuilt
    <2>4. SortedRows(rows, input, n, specs)
      BY <2>2, <2>3, SortSorts
    <2>5. /\ rows \in Seq(1..n) /\ Len(rows) = n
          /\ \A k, l \in 1..n : k < l => rows[k] # rows[l]
      BY ONLY <2>4 DEF SortedRows
    <2>. QED BY <1>1, <1>2, <2>1, <2>5
  <1>3. CASE plan.kind = "top-n"
    <2>1. PICK n, m : n = Len(plan.input) /\ m = Cardinality(heap)
      OBVIOUS
    <2>2. at = n /\ heap \subseteq 1..n /\ m = Lesser(plan.limit, n)
      BY <1>3, <2>1 DEF HeapInv, HeapRead, HeapHoldsTheBest, SortBuilt
    <2>3. IsFiniteSet(heap)
      <3>1. IsFiniteSet(1..n)
        BY <1>1, <2>1, FS_Interval
      <3>. QED BY <2>2, <3>1, FS_Subset
    <2>4. rows \in SetToSeqs(heap) /\ Drained(rows)
      BY <1>3 DEF SortBuilt
    <2>5. /\ rows \in Seq(heap) /\ Len(rows) = m /\ m \in Nat /\ DOMAIN rows = 1..m
          /\ \A k \in 1..m : rows[k] \in heap
          /\ \A r \in heap : \E k \in 1..m : rows[k] = r
          /\ \A k, l \in 1..m : k < l => rows[k] # rows[l]
      BY <2>1, <2>3, <2>4, Sequenced
    <2>6. ASSUME NEW k \in 1..m, NEW l \in 1..m, k <= l
          PROVE  AtMost(rows[k], rows[l])
      <3>1. rows[l] \in Worst({rows[j] : j \in 1..l})
        BY <2>4, <2>5 DEF Drained
      <3>2. k \in 1..l
        BY <2>5, <2>6
      <3>3. compare_key_values(rows[k], rows[l]) # "greater"
        BY <3>1, <3>2 DEF Worst
      <3>4. rows[k] \in DOMAIN plan.input /\ rows[l] \in DOMAIN plan.input
        BY <1>1, <2>1, <2>2, <2>5
      <3>. QED BY <1>1, <1>3, <3>3, <3>4, HeapOrder DEF AtMost
    <2>7. m <= n
      BY <1>1, <1>3, <2>1, <2>2 DEF Lesser
    <2>8. heap \in SUBSET (1..n)
      BY <2>2
    <2>9. rows \in Seq(1..n)
      BY <2>5, <2>8, Widened
    <2>. QED BY <1>1, <1>3, <2>1, <2>2, <2>5, <2>6, <2>7, <2>8, <2>9
  <1>. QED BY <1>2, <1>3

SortInv == HeapInv /\ SortRun

\* For a sort and a top-N, only their own steps change anything but the status,
\* which else becomes "failed".
LEMMA SortSteps ==
  ASSUME [Next]_vars, plan.kind \in {"sort", "top-n"}
  PROVE  \/ SortStep
         \/ UNCHANGED <<plan, out, rowVars, heap>> /\ status' \in {status, "failed"}
  <1>1. CASE UNCHANGED vars
    BY <1>1 DEF vars, operatorVars, unaryVars
  <1>2. CASE Fail /\ UNCHANGED <<joinVars, unaryVars>>
    BY <1>2 DEF Fail, unaryVars
  <1>3. CASE Step
    BY <1>3 DEF Step, Joins, AggregateStep, SetStep, WindowStep
  <1>. QED BY <1>1, <1>2, <1>3 DEF Next

\* What was built stays so while its variables do.
LEMMA BuiltKept ==
  ASSUME SortBuilt, plan' = plan, rows' = rows, at' = at, heap' = heap
  PROVE  SortBuilt'
  <1>1. plan.kind = "top-n" => at = Len(plan.input) /\ rows' \in SetToSeqs(heap) /\ Drained(rows')
    BY DEF SortBuilt
  <1>2. plan.kind = "sort" => rows' = sort(plan.input, plan.keys)
    BY DEF SortBuilt
  <1>3. CASE plan.kind = "top-n"
    <2>1. at' = Len(plan.input) /\ rows' \in SetToSeqs(heap') /\ Drained(rows')
      BY <1>1, <1>3
    <2>. QED BY ONLY <1>3, <2>1, plan' = plan, ZenonT(60) DEF SortBuilt, Drained, Worst, compare_key_values
  <1>4. CASE plan.kind # "top-n"
    BY ONLY <1>2, <1>4, plan' = plan DEF SortBuilt
  <1>. QED BY ONLY <1>3, <1>4

\* Every step of a sort or a top-N returns the next of the rows that it built.
LEMMA SortKept ==
  ASSUME SortInv, SortStep, plan.kind \in {"sort", "top-n"}
  PROVE  SortRun'
  <1>. USE DEF SortInv
  <1>1. CASE SortBuild
    <2>1. /\ plan' = plan /\ plan.kind = "sort" /\ built' /\ ~ built
          /\ rows' = sort(plan.input, plan.keys)
          /\ emitted' = emitted /\ out' = out /\ status' = status
      BY <1>1 DEF SortBuild, operatorVars
    <2>2. emitted = 0 /\ out = <<>> /\ status # "done"
      BY <2>1 DEF SortRun
    <2>3. Len(rows') \in Nat
      <3>1. PICK input, n, specs : input = plan.input /\ n = Len(input) /\ specs = plan.keys
        OBVIOUS
      <3>2. Sortable(input, n, specs)
        BY <3>1, SortPlan DEF Sortable, HeapInv
      <3>3. SortedRows(rows', input, n, specs)
        BY <2>1, <3>1, <3>2, SortSorts
      <3>. QED BY ONLY <3>2, <3>3 DEF SortedRows, Sortable
    <2>4. SubSeq(rows', 1, 0) = <<>>
      BY SubSeqEmpty
    <2>5. SortBuilt'
      BY <2>1 DEF SortBuilt
    <2>. QED BY <2>1, <2>2, <2>3, <2>4, <2>5 DEF SortRun
  <1>2. CASE TopNRow
    BY <1>2 DEF TopNRow, SortRun, builtVars, operatorVars
  <1>3. CASE TopNBuilt
    <2>1. /\ plan' = plan /\ plan.kind = "top-n" /\ built' /\ ~ built
          /\ at' = at /\ at = Len(plan.input) /\ heap' = heap
          /\ rows' \in SetToSeqs(heap) /\ Drained(rows')
          /\ emitted' = emitted /\ out' = out /\ status' = status
      BY <1>3 DEF TopNBuilt, operatorVars
    <2>2. emitted = 0 /\ out = <<>> /\ status # "done"
      BY <2>1 DEF SortRun
    <2>3. SortBuilt'
      BY ONLY <2>1, ZenonT(60) DEF SortBuilt, Drained, Worst, compare_key_values
    <2>4. Len(rows') \in Nat
      <3>1. at \in Nat /\ heap \subseteq 1..at
        BY <2>1, SortPlan DEF HeapInv, HeapRead
      <3>2. IsFiniteSet(heap)
        <4>1. IsFiniteSet(1..at)
          BY <3>1, FS_Interval
        <4>. QED BY <3>1, <4>1, FS_Subset
      <3>. QED BY <2>1, <3>2, Sequenced
    <2>5. SubSeq(rows', 1, 0) = <<>>
      BY SubSeqEmpty
    <2>. QED BY <2>1, <2>2, <2>3, <2>4, <2>5 DEF SortRun
  <1>4. CASE EmitBuilt /\ UNCHANGED heap
    <2>1. /\ built /\ built' /\ emitted < Len(rows) /\ emitted' = Lesser(emitted + BatchSize, Len(rows))
          /\ out' = out \o SubSeq(rows, emitted + 1, emitted')
          /\ at' = at /\ rows' = rows /\ plan' = plan /\ heap' = heap /\ status' = status
      BY <1>4 DEF EmitBuilt
    <2>2. SortBuilt /\ emitted \in 0..Len(rows) /\ out = SubSeq(rows, 1, emitted) /\ status # "done"
      BY <2>1 DEF SortRun
    <2>3. rows \in Seq(DOMAIN plan.input) /\ Len(rows) \in Nat
      BY <2>2, BuiltRows
    <2>4. emitted' \in emitted..Len(rows)
      BY <2>1, <2>2, <2>3, BatchAssumption DEF Lesser
    <2>5. out' = SubSeq(rows, 1, emitted')
      <3>1. PICK S, e, f : S = DOMAIN plan.input /\ e = emitted /\ f = emitted'
        OBVIOUS
      <3>2. rows \in Seq(S) /\ 1 \in 1..Len(rows) + 1 /\ e \in 1 - 1..Len(rows) /\ f \in e..Len(rows)
        BY <2>2, <2>3, <2>4, <3>1
      <3>3. SubSeq(rows, 1, e) \o SubSeq(rows, e + 1, f) = SubSeq(rows, 1, f)
        BY ONLY <3>2, ConcatAdjacentSubSeq
      <3>. QED BY <2>1, <2>2, <3>1, <3>3
    <2>6. SortBuilt'
      BY <2>1, <2>2, BuiltKept
    <2>. QED BY <2>1, <2>2, <2>3, <2>4, <2>5, <2>6 DEF SortRun
  <1>5. CASE EndBuilt /\ UNCHANGED heap
    <2>1. /\ built /\ built' /\ emitted = Len(rows)
          /\ UNCHANGED <<at, rows, emitted, plan, out, heap>>
      BY <1>5 DEF EndBuilt, rowVars, builtVars
    <2>2. SortBuilt /\ emitted \in 0..Len(rows) /\ out = SubSeq(rows, 1, emitted)
      BY <2>1 DEF SortRun
    <2>3. SortBuilt'
      BY <2>1, <2>2, BuiltKept
    <2>. QED BY <2>1, <2>2, <2>3 DEF SortRun
  <1>. QED BY <1>1, <1>2, <1>3, <1>4, <1>5 DEF SortStep

\* A sequence without repetition has as many members as elements.
LEMMA NoneTwice ==
  ASSUME NEW S, NEW s \in Seq(S), \A k, l \in 1..Len(s) : k < l => s[k] # s[l]
  PROVE  Cardinality(ToSet(s)) = Len(s)
  <1>1. PICK n, T : n = Len(s) /\ T = ToSet(s)
    OBVIOUS
  <1>2. n \in Nat /\ DOMAIN s = 1..n /\ s \in [1..n -> S]
    BY <1>1, LenProperties
  <1>3. T = {s[k] : k \in 1..n}
    BY <1>1, <1>2 DEF ToSet
  <1>4. s \in [1..n -> T] /\ \A r \in T : \E k \in 1..n : s[k] = r
    BY <1>2, <1>3
  <1>5. \A k, l \in 1..n : s[k] = s[l] => k = l
    BY <1>1, <1>2
  <1>6. s \in Surjection(1..n, T) /\ s \in Injection(1..n, T)
    BY <1>4, <1>5 DEF Surjection, Injection, IsInjective
  <1>7. IsFiniteSet(1..n) /\ Cardinality(1..n) = n
    BY <1>2, FS_Interval
  <1>8. Cardinality(T) = Cardinality(1..n)
    BY <1>6, <1>7, FS_Surjection
  <1>. QED BY <1>1, <1>7, <1>8

\* What was returned is the first rows of what was built.
LEMMA Returned ==
  ASSUME SortInv, plan.kind \in {"sort", "top-n"}, built
  PROVE  /\ out \in Seq(DOMAIN plan.input) /\ Len(out) = emitted /\ DOMAIN out = 1..emitted
         /\ emitted \in 0..Len(rows)
         /\ \A k \in 1..emitted : k \in 1..Len(rows) /\ out[k] = rows[k] /\ out[k] \in DOMAIN plan.input
  <1>1. SortBuilt /\ emitted \in 0..Len(rows) /\ out = SubSeq(rows, 1, emitted)
    BY DEF SortInv, SortRun
  <1>2. PICK S, e : S = DOMAIN plan.input /\ e = emitted
    OBVIOUS
  <1>3. rows \in Seq(S) /\ Len(rows) \in Nat
    BY <1>1, <1>2, BuiltRows DEF SortInv
  <1>4. 1 \in Int /\ e \in Int /\ e \in Nat /\ \A k \in 1..e : k \in 1..Len(rows)
    BY <1>1, <1>2, <1>3
  <1>5. \A k \in 1..e : rows[k] \in S
    BY <1>3, <1>4
  <1>6. /\ out \in Seq(S) /\ Len(out) = IF 1 <= e THEN e - 1 + 1 ELSE 0
        /\ \A k \in 1..e - 1 + 1 : out[k] = rows[1 + k - 1]
    <2>1. /\ SubSeq(rows, 1, e) \in Seq(S) /\ Len(SubSeq(rows, 1, e)) = IF 1 <= e THEN e - 1 + 1 ELSE 0
          /\ \A k \in 1..e - 1 + 1 : SubSeq(rows, 1, e)[k] = rows[1 + k - 1]
      BY ONLY <1>4, <1>5, SubSeqProperties
    <2>2. out = SubSeq(rows, 1, e)
      BY <1>1, <1>2
    <2>. QED BY ONLY <2>1, <2>2
  <1>7. Len(out) = e /\ \A k \in 1..e : out[k] = rows[k]
    BY <1>4, <1>6
  <1>8. DOMAIN out = 1..e
    BY <1>6, <1>7, LenProperties
  <1>. QED BY <1>1, <1>2, <1>4, <1>5, <1>6, <1>7, <1>8

\* So a sort returns its input in order.
LEMMA SortAnswered ==
  ASSUME SortInv, plan.kind = "sort"
  PROVE  SortReturnsTheAnswer
  <1>1. PICK n, sorted : n = Len(plan.input) /\ sorted = sort(plan.input, plan.keys)
    OBVIOUS
  <1>2. sorted \in Seq(1..n) /\ Len(sorted) = n /\ n \in Nat
    <2>1. PICK input, specs : input = plan.input /\ specs = plan.keys
      OBVIOUS
    <2>2. Sortable(input, n, specs)
      BY <1>1, <2>1, SortPlan DEF Sortable, SortInv, HeapInv
    <2>3. SortedRows(sorted, input, n, specs)
      BY <1>1, <2>1, <2>2, SortSorts
    <2>. QED BY ONLY <2>2, <2>3 DEF SortedRows, Sortable
  <1>3. CASE built
    <2>1. rows = sorted /\ out = SubSeq(rows, 1, emitted) /\ (status = "done" => emitted = Len(rows))
      BY <1>1, <1>3 DEF SortInv, SortRun, SortBuilt
    <2>2. out \in Seq(DOMAIN plan.input) /\ Len(out) = emitted /\ emitted \in 0..Len(rows)
      BY <1>3, Returned
    <2>3. SubSeq(out, 1, Len(out)) = out
      BY <2>2, SubSeqFull
    <2>4. IsPrefix(out, sorted)
      BY <1>2, <2>1, <2>2, <2>3 DEF IsPrefix
    <2>. QED BY <1>1, <1>2, <2>1, <2>2, <2>4 DEF SortReturnsTheAnswer
  <1>4. CASE ~ built
    <2>1. out = <<>> /\ status # "done" /\ Len(<<>>) = 0
      BY <1>4 DEF SortInv, SortRun
    <2>2. SubSeq(out, 1, 0) = <<>> /\ SubSeq(sorted, 1, 0) = <<>>
      BY SubSeqEmpty
    <2>3. IsPrefix(out, sorted)
      BY <1>2, <2>1, <2>2 DEF IsPrefix
    <2>. QED BY <1>1, <2>1, <2>3 DEF SortReturnsTheAnswer
  <1>. QED BY <1>3, <1>4

\* And a top-N rows that tie with the first of that.
LEMMA TopAnswered ==
  ASSUME SortInv, plan.kind = "top-n"
  PROVE  SortReturnsTheAnswer
  <1>1. PICK n, sorted : n = Len(plan.input) /\ sorted = sort(plan.input, plan.keys)
    OBVIOUS
  <1>2. PlanGiven /\ n \in Nat /\ DOMAIN plan.input = 1..n /\ plan.limit \in Nat
    BY <1>1, SortPlan DEF SortInv, HeapInv
  <1>3. Len(sorted) = n
    <2>1. PICK input, specs : input = plan.input /\ specs = plan.keys
      OBVIOUS
    <2>2. Sortable(input, n, specs)
      BY <1>1, <1>2, <2>1, SortPlan DEF Sortable
    <2>3. SortedRows(sorted, input, n, specs)
      BY <1>1, <2>1, <2>2, SortSorts
    <2>. QED BY ONLY <2>3 DEF SortedRows
  <1>4. sort(SubSeq(plan.input, 1, n), plan.keys) = sorted
    <2>1. plan.input \in Seq(Row)
      BY <1>2, SortPlan
    <2>2. SubSeq(plan.input, 1, n) = plan.input
      BY <1>1, <2>1, SubSeqFull
    <2>. QED BY <1>1, <2>2
  <1>5. SUFFICES /\ Len(out) <= n /\ Cardinality(ToSet(out)) = Len(out)
                 /\ \A i \in DOMAIN out : out[i] \in 1..n /\ Tied(out[i], sorted[i])
                 /\ status = "done" => Len(out) = Lesser(plan.limit, n)
    BY <1>1, <1>3, <1>4 DEF SortReturnsTheAnswer, IsTop
  <1>6. CASE built
    <2>1. SortBuilt /\ (status = "done" => emitted = Len(rows)) /\ HeapInv
      BY <1>6 DEF SortInv, SortRun
    <2>2. /\ out \in Seq(1..n) /\ Len(out) = emitted /\ DOMAIN out = 1..emitted
          /\ emitted \in 0..Len(rows)
          /\ \A k \in 1..emitted : k \in 1..Len(rows) /\ out[k] = rows[k] /\ out[k] \in 1..n
      BY <1>2, <1>6, Returned
    <2>3. /\ Len(rows) \in Nat /\ Len(rows) = Lesser(plan.limit, n) /\ Len(rows) <= n
          /\ \A k, l \in 1..Len(rows) : k < l => rows[k] # rows[l]
      BY <1>1, <2>1, BuiltRows
    <2>4. Cardinality(ToSet(out)) = Len(out)
      BY <2>2, <2>3, NoneTwice
    <2>5. ASSUME NEW i \in 1..emitted
          PROVE  Tied(out[i], sorted[i])
      <3>1. PICK m : m = Len(rows)
        OBVIOUS
      <3>2. /\ heap \in SUBSET DOMAIN plan.input
            /\ \A j \in 1..m : rows[j] \in heap
            /\ \A r \in heap : \E j \in 1..m : rows[j] = r
            /\ \A j, k \in 1..m : j <= k => AtMost(rows[j], rows[k])
        BY <2>1, <3>1, BuiltRows
      <3>3. \A kept \in heap, lost \in (DOMAIN plan.input) \ heap : AtMost(kept, lost)
        <4>1. \A kept \in heap, lost \in (1..n) \ heap :
                 compare_rows(plan.input[lost], plan.input[kept], plan.keys) # "less"
          BY <1>1, <2>1 DEF HeapInv, HeapHoldsTheBest, SortBuilt
        <4>. QED BY <1>2, <3>2, <4>1, InputOrdered
      <3>4. i \in 1..m /\ m \in Nat /\ m <= Len(plan.input) /\ out[i] = rows[i]
            /\ \A j, k \in 1..m : j < k => rows[j] # rows[k]
        BY <1>1, <2>2, <2>3, <3>1
      <3>5. Tied(rows[i], sorted[i])
        BY <1>1, <1>2, <3>2, <3>3, <3>4, TieByTie
      <3>. QED BY <3>4, <3>5
    <2>6. Len(out) <= n
      BY <1>2, <2>2, <2>3
    <2>7. \A i \in DOMAIN out : out[i] \in 1..n /\ Tied(out[i], sorted[i])
      BY ONLY <2>2, <2>5
    <2>8. status = "done" => Len(out) = Lesser(plan.limit, n)
      BY ONLY <2>1, <2>2, <2>3
    <2>. QED BY ONLY <2>4, <2>6, <2>7, <2>8
  <1>7. CASE ~ built
    <2>1. out = <<>> /\ status # "done" /\ Len(<<>>) = 0 /\ DOMAIN <<>> = {}
      BY <1>7 DEF SortInv, SortRun
    <2>2. Cardinality(ToSet(out)) = 0
      BY <2>1, FS_EmptySet DEF ToSet
    <2>3. Len(out) = 0 /\ DOMAIN out = {}
      BY ONLY <2>1
    <2>4. Len(out) <= n /\ Cardinality(ToSet(out)) = Len(out)
      BY ONLY <1>2, <2>2, <2>3
    <2>5. \A i \in DOMAIN out : out[i] \in 1..n /\ Tied(out[i], sorted[i])
      BY ONLY <2>3
    <2>. QED BY ONLY <2>1, <2>4, <2>5
  <1>. QED BY <1>6, <1>7

\* The invariant of a sort and a top-N is one.
LEMMA SortFirst == Init => SortInv
  BY HeapFirst DEF Init, OperatorInit, RowInit, SortInv, SortRun

LEMMA SortInvKept ==
  ASSUME SortInv, [Next]_vars
  PROVE  SortInv'
  <1>1. HeapInv' /\ plan' = plan
    BY HeapKept, HeapSteps DEF SortInv
  <1>2. SortRun'
    <2>1. CASE plan.kind \in {"sort", "top-n"}
      <3>1. CASE SortStep
        BY <2>1, <3>1, SortKept
      <3>2. CASE UNCHANGED <<plan, out, rowVars, heap>> /\ status' \in {status, "failed"}
        <4>1. /\ built' = built /\ emitted' = emitted /\ out' = out
              /\ plan' = plan /\ at' = at /\ rows' = rows /\ heap' = heap
              /\ status' \in {status, "failed"}
          BY <3>2 DEF rowVars, builtVars
        <4>2. SortBuilt => SortBuilt'
          BY <4>1, BuiltKept
        <4>. QED BY <2>1, <4>1, <4>2 DEF SortInv, SortRun
      <3>. QED BY <2>1, <3>1, <3>2, SortSteps
    <2>2. CASE plan.kind \notin {"sort", "top-n"}
      BY <1>1, <2>2 DEF SortRun
    <2>. QED BY <2>1, <2>2
  <1>. QED BY <1>1, <1>2 DEF SortInv

\* What a sort and a top-N have returned, at any time, is the beginning of the answer.
THEOREM SortIsRight == Spec => []SortReturnsTheAnswer
  <1>1. SortInv => SortReturnsTheAnswer
    <2>1. ASSUME plan.kind \notin {"sort", "top-n"}
          PROVE  SortReturnsTheAnswer
      BY <2>1 DEF SortReturnsTheAnswer
    <2>. QED BY <2>1, SortAnswered, TopAnswered
  <1>. QED BY <1>1, SortFirst, SortInvKept, PTL DEF Spec

-----------------------------------------------------------------------------
(* Counting, and lists without repetition.                                 *)

\* What one has counted is not changed by giving each a name of its own.
LEMMA Renamed ==
  ASSUME NEW A, IsFiniteSet(A), NEW f, \A a, b \in A : f[a] = f[b] => a = b
  PROVE  IsFiniteSet({f[a] : a \in A}) /\ Cardinality({f[a] : a \in A}) = Cardinality(A)
  <1>. DEFINE T == {f[a] : a \in A}
              g == [a \in A |-> f[a]]
  <1>1. g \in [A -> T] /\ \A t \in T : \E a \in A : g[a] = t
    OBVIOUS
  <1>2. \A a, b \in A : g[a] = g[b] => a = b
    OBVIOUS
  <1>. HIDE DEF g, T
  <1>3. g \in Surjection(A, T) /\ g \in Injection(A, T)
    BY <1>1, <1>2 DEF Surjection, Injection, IsInjective
  <1>4. IsFiniteSet(T) /\ Cardinality(T) = Cardinality(A)
    BY <1>3, FS_Surjection
  <1>. QED BY <1>4 DEF T

\* Disjoint sets are counted one after the other.
LEMMA Added ==
  ASSUME NEW A, NEW B, IsFiniteSet(A), IsFiniteSet(B), A \cap B = {}
  PROVE  IsFiniteSet(A \cup B) /\ Cardinality(A \cup B) = Cardinality(A) + Cardinality(B)
  <1>1. IsFiniteSet(A \cup B) /\ Cardinality(A \cup B) = Cardinality(A) + Cardinality(B) - Cardinality(A \cap B)
    BY FS_Union
  <1>2. Cardinality(A \cap B) = 0 /\ Cardinality(A) \in Nat /\ Cardinality(B) \in Nat
    BY FS_EmptySet, FS_CardinalityType
  <1>3. \A a, b \in Nat : a + b - 0 = a + b
    OBVIOUS
  <1>. QED BY ONLY <1>1, <1>2, <1>3

EachOnce(s) == \A k, l \in 1..Len(s) : k < l => s[k] # s[l]

\* One list behind another with nothing in common.
LEMMA Appending ==
  ASSUME NEW S, NEW s \in Seq(S), NEW t \in Seq(S),
         EachOnce(s), EachOnce(t), ToSet(s) \cap ToSet(t) = {}
  PROVE  s \o t \in Seq(S) /\ EachOnce(s \o t) /\ ToSet(s \o t) = ToSet(s) \cup ToSet(t)
  <1>1. PICK m, n, u : m = Len(s) /\ n = Len(t) /\ u = s \o t
    OBVIOUS
  <1>2. /\ m \in Nat /\ n \in Nat /\ DOMAIN s = 1..m /\ DOMAIN t = 1..n
        /\ u \in Seq(S) /\ Len(u) = m + n /\ DOMAIN u = 1..m + n
        /\ \A i \in 1..m + n : u[i] = IF i <= m THEN s[i] ELSE t[i - m]
    BY <1>1, ConcatProperties, LenProperties
  <1>3. /\ \A i \in 1..m : i \in 1..m + n /\ u[i] = s[i]
        /\ \A i \in 1..n : i + m \in 1..m + n /\ u[i + m] = t[i]
    <2>1. \A i \in 1..m : i \in 1..m + n /\ i <= m
      BY <1>2
    <2>2. \A i \in 1..n : i + m \in 1..m + n /\ ~ (i + m <= m) /\ i + m - m = i
      BY <1>2
    <2>3. \A i \in 1..m + n : u[i] = IF i <= m THEN s[i] ELSE t[i - m]
      BY <1>2
    <2>4. \A i \in 1..n : u[i + m] = t[i]
      <3>1. SUFFICES ASSUME NEW i \in 1..n PROVE u[i + m] = t[i]
        OBVIOUS
      <3>2. PICK j : j = i + m
        OBVIOUS
      <3>3. j \in 1..m + n /\ ~ (j <= m) /\ j - m = i
        <4>1. m \in Nat /\ n \in Nat
          BY ONLY <1>2
        <4>. QED BY ONLY <4>1, <3>1, <3>2
      <3>4. u[j] = t[i]
        BY ONLY <2>3, <3>3
      <3>. QED BY ONLY <3>2, <3>4
    <2>. QED BY ONLY <2>1, <2>2, <2>3, <2>4
  <1>4. ToSet(u) = ToSet(s) \cup ToSet(t)
    <2>1. \A x \in ToSet(u) : x \in ToSet(s) \cup ToSet(t)
      <3>1. SUFFICES ASSUME NEW i \in 1..m + n
                     PROVE  u[i] \in ToSet(s) \cup ToSet(t)
        BY <1>2 DEF ToSet
      <3>2. CASE i <= m
        <4>1. i \in 1..m /\ u[i] = s[i]
          BY <1>2, <3>2
        <4>2. s[i] \in ToSet(s)
          BY <1>2, <4>1 DEF ToSet
        <4>. QED BY <4>1, <4>2
      <3>3. CASE ~ (i <= m)
        <4>1. PICK j : j = i - m
          OBVIOUS
        <4>2. j \in 1..n /\ u[i] = t[j]
          BY <1>2, <3>3, <4>1
        <4>3. t[j] \in ToSet(t)
          BY <1>2, <4>2 DEF ToSet
        <4>. QED BY <4>2, <4>3
      <3>. QED BY <3>2, <3>3
    <2>2. \A x \in ToSet(s) : x \in ToSet(u)
      BY <1>2, <1>3 DEF ToSet
    <2>3. \A x \in ToSet(t) : x \in ToSet(u)
      <3>1. SUFFICES ASSUME NEW i \in 1..n PROVE t[i] \in ToSet(u)
        BY <1>2 DEF ToSet
      <3>2. i + m \in 1..m + n /\ u[i + m] = t[i]
        BY ONLY <1>3, <3>1
      <3>. QED BY ONLY <1>2, <3>2 DEF ToSet
    <2>. QED BY <2>1, <2>2, <2>3
  <1>5. EachOnce(u)
    <2>1. SUFFICES ASSUME NEW k \in 1..m + n, NEW l \in 1..m + n, k < l
                   PROVE  u[k] # u[l]
      BY <1>2 DEF EachOnce
    <2>2. CASE l <= m
      <3>1. k \in 1..m /\ l \in 1..m /\ u[k] = s[k] /\ u[l] = s[l]
        BY <1>2, <2>1, <2>2
      <3>. QED BY <1>1, <2>1, <3>1 DEF EachOnce
    <2>3. CASE k > m
      <3>1. k - m \in 1..n /\ l - m \in 1..n /\ k - m < l - m /\ u[k] = t[k - m] /\ u[l] = t[l - m]
        BY <1>2, <2>1, <2>3
      <3>. QED BY <1>1, <3>1 DEF EachOnce
    <2>4. CASE k <= m /\ l > m
      <3>1. k \in 1..m /\ l - m \in 1..n /\ u[k] = s[k] /\ u[l] = t[l - m]
        BY <1>2, <2>4
      <3>2. s[k] \in ToSet(s) /\ t[l - m] \in ToSet(t)
        BY <1>2, <3>1 DEF ToSet
      <3>. QED BY <3>1, <3>2
    <2>. QED BY <1>2, <2>2, <2>3, <2>4
  <1>. QED BY <1>1, <1>2, <1>4, <1>5

\* The members of a list that are in a set, in the order of the list.
LEMMA Selected ==
  ASSUME NEW S, NEW s \in Seq(S), EachOnce(s), NEW kept
  PROVE  /\ Those(s, kept) \in Seq(S) /\ EachOnce(Those(s, kept))
         /\ ToSet(Those(s, kept)) = ToSet(s) \cap kept
  <1>1. PICK n, places, upTo : n = Len(s) /\ places = {i \in DOMAIN s : s[i] \in kept}
                               /\ upTo = {p \in places \X places : p[1] <= p[2]}
    OBVIOUS
  <1>2. PICK order, size : order = InOrderOf(places, upTo) /\ size = Cardinality(places)
    OBVIOUS
  <1>3. n \in Nat /\ DOMAIN s = 1..n /\ places \in SUBSET (1..n) /\ s \in [1..n -> S]
    BY <1>1, LenProperties
  <1>4. IsFiniteSet(places)
    <2>1. IsFiniteSet(1..n)
      BY <1>3, FS_Interval
    <2>. QED BY <1>3, <2>1, FS_Subset
  <1>5. TotalOrder(places, upTo)
    <2>1. \A a, b \in places : a \in Int /\ b \in Int /\ (<<a, b>> \in upTo <=> a <= b)
      BY <1>1, <1>3
    <2>. QED BY <2>1 DEF TotalOrder
  <1>6. /\ size \in Nat /\ order \in Seq(places) /\ Len(order) = size /\ DOMAIN order = 1..size
        /\ \A e \in places : \E i \in 1..size : order[i] = e
        /\ \A i, j \in 1..size : i < j => order[i] # order[j] /\ <<order[i], order[j]>> \in upTo
    BY <1>2, <1>4, <1>5, Enumerated
  <1>7. PICK t : t = Those(s, kept)
    OBVIOUS
  <1>8. t = [i \in 1..size |-> s[order[i]]]
    BY <1>1, <1>2, <1>7 DEF Those
  <1>9. \A i \in 1..size : order[i] \in places /\ order[i] \in 1..n /\ s[order[i]] \in S
    <2>1. order \in [1..size -> places]
      BY <1>6, LenProperties
    <2>. QED BY ONLY <1>3, <2>1
  <1>10. t \in Seq(S) /\ Len(t) = size /\ DOMAIN t = 1..size
    <2>1. t \in [1..size -> S]
      BY <1>8, <1>9
    <2>. QED BY <1>6, <2>1, IsASeq
  <1>11. ToSet(t) = ToSet(s) \cap kept
    <2>1. \A x \in ToSet(t) : x \in ToSet(s) \cap kept
      BY <1>1, <1>3, <1>8, <1>9, <1>10 DEF ToSet
    <2>2. ASSUME NEW x \in ToSet(s) \cap kept
          PROVE  x \in ToSet(t)
      <3>1. PICK j \in 1..n : s[j] = x
        BY <1>3 DEF ToSet
      <3>2. j \in places
        BY <1>1, <1>3, <3>1
      <3>3. PICK i \in 1..size : order[i] = j
        BY <1>6, <3>2
      <3>4. t[i] = x
        BY <1>8, <3>1, <3>3
      <3>. QED BY <1>10, <3>3, <3>4 DEF ToSet
    <2>. QED BY <2>1, <2>2
  <1>12. EachOnce(t)
    <2>1. SUFFICES ASSUME NEW k \in 1..size, NEW l \in 1..size, k < l
                   PROVE  t[k] # t[l]
      BY <1>10 DEF EachOnce
    <2>2. order[k] # order[l] /\ order[k] \in 1..n /\ order[l] \in 1..n
      BY <1>6, <1>9, <2>1
    <2>3. s[order[k]] # s[order[l]]
      BY <1>1, <1>3, <2>2 DEF EachOnce
    <2>. QED BY <1>8, <2>3
  <1>. QED BY <1>7, <1>10, <1>11, <1>12

\* How many are within the first m of a set of numbers.
LEMMA Ranked ==
  ASSUME NEW n \in Nat, NEW P \in SUBSET (1..n), NEW m \in Nat
  PROVE  Cardinality({i \in P : Cardinality({j \in P : j <= i}) <= m}) = Lesser(Cardinality(P), m)
  <1>. DEFINE upTo(k) == {j \in P : j <= k}
              first(k) == {i \in upTo(k) : Cardinality(upTo(i)) <= m}
              good == {k \in Nat : Cardinality(first(k)) = Lesser(Cardinality(upTo(k)), m)}
  <1>0. P \in SUBSET Nat /\ \A j \in P : j \in 1..n
    OBVIOUS
  <1>1. \A k \in Nat : IsFiniteSet(upTo(k)) /\ IsFiniteSet(first(k)) /\ Cardinality(upTo(k)) \in Nat
    <2>1. IsFiniteSet(P)
      <3>1. IsFiniteSet(1..n)
        BY FS_Interval
      <3>. QED BY <3>1, FS_Subset
    <2>. QED BY <2>1, FS_Subset, FS_CardinalityType
  <1>2. 0 \in good
    <2>1. upTo(0) = {}
      <3>1. \A j \in 1..n : ~ (j <= 0)
        OBVIOUS
      <3>. QED BY ONLY <1>0, <3>1
    <2>2. first(0) = {}
      BY <2>1
    <2>3. Cardinality(upTo(0)) = 0 /\ Cardinality(first(0)) = 0
      BY <2>1, <2>2, FS_EmptySet
    <2>4. Lesser(0, m) = 0
      BY DEF Lesser
    <2>. QED BY <2>3, <2>4
  <1>3. ASSUME NEW k \in good
        PROVE  k + 1 \in good
    <2>. DEFINE c == Cardinality(upTo(k))
    <2>0. /\ k \in Nat /\ k + 1 \in Nat /\ c \in Nat /\ Cardinality(first(k)) = Lesser(c, m)
          /\ \A j \in P : j <= k + 1 <=> j <= k \/ j = k + 1
      <3>1. k \in Nat /\ Cardinality(first(k)) = Lesser(c, m)
        OBVIOUS
      <3>2. k + 1 \in Nat /\ c \in Nat
        <4>. HIDE DEF upTo, first
        <4>. QED BY ONLY <1>1, <3>1
      <3>3. \A j \in Nat : j <= k + 1 <=> j <= k \/ j = k + 1
        BY ONLY <3>1
      <3>. QED BY ONLY <1>0, <3>1, <3>2, <3>3
    <2>1. CASE k + 1 \notin P
      <3>1. upTo(k + 1) = upTo(k)
        BY <2>0, <2>1
      <3>2. first(k + 1) = first(k)
        BY <3>1
      <3>. QED BY <2>0, <3>1, <3>2
    <2>2. CASE k + 1 \in P
      <3>1. upTo(k + 1) = upTo(k) \cup {k + 1} /\ k + 1 \notin upTo(k)
        <4>1. \A j : j \in upTo(k + 1) <=> j \in upTo(k) \/ j = k + 1
          BY ONLY <2>0, <2>2
        <4>2. ~ (k + 1 <= k)
          BY ONLY <2>0
        <4>. QED BY ONLY <4>1, <4>2
      <3>2. Cardinality(upTo(k + 1)) = c + 1
        <4>. HIDE DEF upTo
        <4>. QED BY <1>1, <2>0, <3>1, FS_AddElement
      <3>3. CASE c + 1 <= m
        <4>1. first(k + 1) = first(k) \cup {k + 1} /\ k + 1 \notin first(k)
          <5>. HIDE DEF upTo
          <5>. QED BY <3>1, <3>2, <3>3
        <4>2. Cardinality(first(k + 1)) = Cardinality(first(k)) + 1
          <5>. HIDE DEF first
          <5>. QED BY <1>1, <2>0, <4>1, FS_AddElement
        <4>3. Lesser(c, m) = c /\ Lesser(c + 1, m) = c + 1
          <5>. HIDE DEF c
          <5>. QED BY <2>0, <3>3 DEF Lesser
        <4>. QED BY ONLY <2>0, <3>2, <4>2, <4>3
      <3>4. CASE ~ (c + 1 <= m)
        <4>1. first(k + 1) = first(k)
          <5>. HIDE DEF upTo
          <5>. QED BY <3>1, <3>2, <3>4
        <4>2. Lesser(c, m) = m /\ Lesser(c + 1, m) = m
          <5>. HIDE DEF c
          <5>. QED BY <2>0, <3>4 DEF Lesser
        <4>. QED BY ONLY <2>0, <3>2, <4>1, <4>2
      <3>. QED BY <3>3, <3>4
    <2>. QED BY <2>1, <2>2
  <1>4. n \in good
    <2>1. good \in SUBSET Nat
      OBVIOUS
    <2>. HIDE DEF good
    <2>. QED BY <1>2, <1>3, <2>1, Induction
  <1>5. upTo(n) = P
    <2>1. \A j \in P : j <= n
      BY <1>0
    <2>. QED BY ONLY <2>1
  <1>. QED BY <1>4, <1>5

-----------------------------------------------------------------------------
(* What a set operation has returned.                                      *)

\* The rows among the first m that are the row.
Among(input, m, row) == {h \in 1..m : input[h] = row}

\* Those of the n rows after the first m that are the row.
Further(input, m, n, row) == {k \in 1..n : input[m + k] = row}

\* Reading n more rows adds those of them that are the row.
LEMMA MoreAmong ==
  ASSUME NEW input, NEW row, NEW m \in Nat, NEW n \in Nat
  PROVE  /\ IsFiniteSet(Among(input, m, row)) /\ Cardinality(Among(input, m, row)) \in Nat
         /\ IsFiniteSet(Further(input, m, n, row)) /\ Cardinality(Further(input, m, n, row)) \in Nat
         /\ Cardinality(Among(input, m + n, row))
              = Cardinality(Among(input, m, row)) + Cardinality(Further(input, m, n, row))
  <1>1. PICK A, B, C : /\ A = Among(input, m, row) /\ B = {k \in 1..n : input[m + k] = row}
                       /\ C = {m + k : k \in B}
    OBVIOUS
  <1>2. IsFiniteSet(A) /\ IsFiniteSet(B)
    <2>1. IsFiniteSet(1..m) /\ IsFiniteSet(1..n)
      BY FS_Interval
    <2>. QED BY <1>1, <2>1, FS_Subset DEF Among
  <1>3. Cardinality(A) \in Nat /\ Cardinality(B) \in Nat
    BY <1>2, FS_CardinalityType
  <1>4. IsFiniteSet(C) /\ Cardinality(C) = Cardinality(B)
    <2>1. PICK f : f = [k \in B |-> m + k]
      OBVIOUS
    <2>2. \A a, b \in B : f[a] = f[b] => a = b
      BY <1>1, <2>1
    <2>3. {f[a] : a \in B} = C
      BY <1>1, <2>1
    <2>4. IsFiniteSet({f[a] : a \in B}) /\ Cardinality({f[a] : a \in B}) = Cardinality(B)
      BY <1>2, <2>2, Renamed
    <2>. QED BY <2>3, <2>4
  <1>5. \A h \in C : h \in Nat /\ h > m
    BY <1>1
  <1>6. A \cap C = {}
    <2>1. \A h \in A : h \in Nat /\ h <= m
      BY <1>1 DEF Among
    <2>. QED BY <1>5, <2>1
  <1>7. Among(input, m + n, row) = A \cup C
    <2>1. ASSUME NEW h \in 1..m + n, input[h] = row
          PROVE  h \in A \/ h \in C
      <3>1. CASE h <= m
        BY <1>1, <2>1, <3>1 DEF Among
      <3>2. CASE ~ (h <= m)
        <4>1. h - m \in 1..n /\ m + (h - m) = h
          BY <3>2
        <4>2. h - m \in B
          BY <1>1, <2>1, <4>1
        <4>. QED BY <1>1, <4>1, <4>2
      <3>. QED BY <3>1, <3>2
    <2>2. \A h \in A : h \in 1..m + n /\ input[h] = row
      BY <1>1 DEF Among
    <2>3. \A h \in C : h \in 1..m + n /\ input[h] = row
      BY <1>1
    <2>. QED BY <2>1, <2>2, <2>3 DEF Among
  <1>8. Cardinality(A \cup C) = Cardinality(A) + Cardinality(B)
    BY <1>2, <1>4, <1>6, Added
  <1>9. B = Further(input, m, n, row)
    BY <1>1 DEF Further
  <1>. QED BY ONLY <1>1, <1>2, <1>3, <1>7, <1>8, <1>9

\* The rows of both inputs, one after the other, and where each of them stands.
Given == IF plan.kind = "distinct" THEN plan.left ELSE plan.left \o plan.right

Place(g) == IF g <= Len(plan.left) THEN <<g, 0>> ELSE <<0, g - Len(plan.left)>>

\* How many rows of the right input are the row.
OnRight(row) == Cardinality({r \in DOMAIN plan.right : plan.right[r] = row})

\* What a plan of a set operation is made of.
LEMMA SetPlan ==
  ASSUME PlanGiven, plan.kind \in {"distinct", "set"}
  PROVE  /\ plan.left \in Seq(Row) /\ Len(plan.left) \in Nat /\ Given \in Seq(Row)
         /\ plan.kind = "distinct" => Given = plan.left
         /\ plan.kind = "set" =>
              /\ plan.right \in Seq(Row) /\ Len(plan.right) \in Nat
              /\ plan.op \in {"union", "intersect", "except"} /\ plan.all \in BOOLEAN
              /\ Len(Given) = Len(plan.left) + Len(plan.right)
              /\ \A r \in 1..Len(plan.right) : Given[Len(plan.left) + r] = plan.right[r]
         /\ \A l \in 1..Len(plan.left) : Given[l] = plan.left[l]
         /\ Len(plan.left) <= Len(Given)
         /\ \A g \in 1..Len(Given) : Given[g] \in Row /\ Given[g] # <<>>
         /\ \A a, b \in ValuesIn(Given) : KeyValue(a) = KeyValue(b) => a = b
  <1>1. /\ plan \in Distinct \cup SetOp
        /\ \A r \in DOMAIN Given : Given[r] # <<>>
        /\ \A a, b \in ValuesIn(Given) : KeyValue(a) = KeyValue(b) => a = b
    BY SetAssumption, KindAssumption DEF PlanGiven, Given
  <1>2. CASE plan.kind = "distinct"
    <2>1. plan.left \in Seq(Row) /\ Given = plan.left
      BY <1>1, <1>2 DEF Distinct, SetOp, Given
    <2>2. Len(plan.left) \in Nat /\ DOMAIN plan.left = 1..Len(plan.left)
      BY <2>1
    <2>. QED BY <1>1, <1>2, <2>1, <2>2
  <1>3. CASE plan.kind = "set"
    <2>1. /\ plan.left \in Seq(Row) /\ plan.right \in Seq(Row) /\ Given = plan.left \o plan.right
          /\ plan.op \in {"union", "intersect", "except"} /\ plan.all \in BOOLEAN
      BY <1>1, <1>3 DEF Distinct, SetOp, Given
    <2>2. PICK l, r : l = plan.left /\ r = plan.right
      OBVIOUS
    <2>3. /\ Len(l) \in Nat /\ Len(r) \in Nat /\ l \o r \in Seq(Row) /\ Len(l \o r) = Len(l) + Len(r)
          /\ \A i \in 1..Len(l) + Len(r) : (l \o r)[i] = IF i <= Len(l) THEN l[i] ELSE r[i - Len(l)]
      BY <2>1, <2>2, ConcatProperties, LenProperties
    <2>4. \A i \in 1..Len(l) : (l \o r)[i] = l[i]
      BY <2>3
    <2>5. \A i \in 1..Len(r) : (l \o r)[Len(l) + i] = r[i]
      <3>1. SUFFICES ASSUME NEW i \in 1..Len(r) PROVE (l \o r)[Len(l) + i] = r[i]
        OBVIOUS
      <3>2. PICK j : j = Len(l) + i
        OBVIOUS
      <3>3. j \in 1..Len(l) + Len(r) /\ ~ (j <= Len(l)) /\ j - Len(l) = i
        BY <2>3, <3>2
      <3>. QED BY ONLY <2>3, <3>2, <3>3
    <2>6. \A g \in 1..Len(Given) : Given[g] \in Row /\ Given[g] # <<>>
      <3>1. PICK s : s = Given
        OBVIOUS
      <3>2. s \in Seq(Row) /\ \A g \in DOMAIN s : s[g] # <<>>
        BY <1>1, <2>1, <2>2, <2>3, <3>1
      <3>3. DOMAIN s = 1..Len(s) /\ \A g \in 1..Len(s) : s[g] \in Row
        BY ONLY <3>2, LenProperties
      <3>. QED BY ONLY <3>1, <3>2, <3>3
    <2>7. PICK s : s = Given /\ s = l \o r
      BY <2>1, <2>2
    <2>8. /\ s \in Seq(Row) /\ Len(s) = Len(l) + Len(r) /\ Len(l) <= Len(s)
          /\ \A i \in 1..Len(r) : s[Len(l) + i] = r[i]
          /\ \A i \in 1..Len(l) : s[i] = l[i]
      <3>1. Len(l) <= Len(l) + Len(r)
        BY <2>3
      <3>. QED BY ONLY <2>3, <2>4, <2>5, <2>7, <3>1
    <2>. QED BY ONLY <1>1, <1>3, <2>1, <2>2, <2>3, <2>6, <2>7, <2>8
  <1>. QED BY <1>2, <1>3

\* Rows are told apart by their keys, and by their places.
LEMMA KeysTell ==
  ASSUME PlanGiven, plan.kind \in {"distinct", "set"},
         NEW g \in 1..Len(Given), NEW h \in 1..Len(Given)
  PROVE  /\ HashKey(Given[g]) = HashKey(Given[h]) => Given[g] = Given[h]
         /\ HashKey(Given[g]) # <<>>
  <1>1. PICK s, x, y : s = Given /\ x = s[g] /\ y = s[h]
    OBVIOUS
  <1>2. /\ x \in Seq(Datum) /\ y \in Seq(Datum) /\ x # <<>>
        /\ DOMAIN s = 1..Len(s)
        /\ \A a, b \in ValuesIn(s) : KeyValue(a) = KeyValue(b) => a = b
    <2>1. Given[g] \in Row /\ Given[h] \in Row /\ Given[g] # <<>> /\ Given \in Seq(Row)
      BY SetPlan
    <2>2. DOMAIN s = 1..Len(s)
      BY ONLY <1>1, <2>1, LenProperties
    <2>. QED BY <1>1, <2>1, <2>2, SetPlan DEF Row
  <1>3. /\ \A i \in DOMAIN x : x[i] \in ValuesIn(s)
        /\ \A i \in DOMAIN y : y[i] \in ValuesIn(s)
    BY <1>1, <1>2 DEF ValuesIn, ToSet
  <1>4. ASSUME HashKey(x) = HashKey(y)
        PROVE  x = y
    <2>1. DOMAIN HashKey(x) = DOMAIN x /\ DOMAIN HashKey(y) = DOMAIN y
      BY DEF HashKey
    <2>2. DOMAIN x = DOMAIN y
      BY <1>4, <2>1
    <2>3. \A i \in DOMAIN x : HashKey(x)[i] = KeyValue(x[i]) /\ HashKey(y)[i] = KeyValue(y[i])
      BY <2>2 DEF HashKey
    <2>4. \A i \in DOMAIN x : x[i] = y[i]
      BY <1>2, <1>3, <1>4, <2>2, <2>3
    <2>5. Len(x) = Len(y)
      BY <1>2, <2>2, LenProperties
    <2>. QED BY <1>2, <2>2, <2>4, <2>5, SeqEqual
  <1>5. HashKey(x) # <<>>
    <2>1. Len(x) \in Nat /\ DOMAIN x = 1..Len(x) /\ Len(x) # 0
      BY ONLY <1>2, LenProperties, EmptySeq
    <2>2. 1 \in DOMAIN HashKey(x)
      BY <2>1 DEF HashKey
    <2>. QED BY <2>2
  <1>. QED BY <1>1, <1>4, <1>5

LEMMA PlacesTell ==
  ASSUME PlanGiven, plan.kind \in {"distinct", "set"},
         NEW g \in 1..Len(Given), NEW h \in 1..Len(Given)
  PROVE  /\ Place(g) = Place(h) => g = h
         /\ RowOf(Place(g)) = Given[g]
  <1>1. PICK n : n = Len(plan.left)
    OBVIOUS
  <1>2. n \in Nat
    BY <1>1, SetPlan
  <1>3. ASSUME Place(g) = Place(h)
        PROVE  g = h
    BY <1>1, <1>2, <1>3 DEF Place
  <1>4. CASE g <= n
    <2>1. Given[g] = plan.left[g]
      <3>1. g \in 1..n
        BY <1>2, <1>4, SetPlan
      <3>2. \A l \in 1..n : Given[l] = plan.left[l]
        BY <1>1, SetPlan
      <3>. QED BY ONLY <3>1, <3>2
    <2>2. Place(g) = <<g, 0>>
      BY <1>1, <1>4 DEF Place
    <2>. QED BY <1>3, <2>1, <2>2 DEF RowOf
  <1>5. CASE ~ (g <= n)
    <2>1. plan.kind = "set" /\ g - n \in 1..Len(plan.right) /\ n + (g - n) = g /\ g - n # 0
      <3>1. plan.kind = "distinct" => Len(Given) = n
        BY <1>1, SetPlan
      <3>2. plan.kind = "set"
        BY <1>2, <1>5, <3>1
      <3>3. Len(plan.right) \in Nat /\ Len(Given) = n + Len(plan.right)
        BY <1>1, <3>2, SetPlan
      <3>. QED BY <1>2, <1>5, <3>2, <3>3
    <2>2. Given[g] = plan.right[g - n]
      <3>1. PICK r : r = g - n
        OBVIOUS
      <3>2. Given[n + r] = plan.right[r]
        BY <1>1, <2>1, <3>1, SetPlan
      <3>. QED BY ONLY <2>1, <3>1, <3>2
    <2>3. Place(g) = <<0, g - n>>
      BY <1>1, <1>5 DEF Place
    <2>. QED BY <1>3, <2>1, <2>2, <2>3 DEF RowOf
  <1>. QED BY <1>4, <1>5

\* Whether a row is one the operation returns at all, its copies left aside.
May(row) ==
  plan.kind = "set" => /\ plan.op = "intersect" => OnRight(row) > 0
                       /\ plan.op = "except" => OnRight(row) = 0

IsFirst(g) == \A h \in 1..g - 1 : Given[h] # Given[g]

\* The how-manieth of its copies a row is.
Nth(g) == Cardinality(Among(Given, g, Given[g]))

\* Whether the g-th row of the inputs is returned.
Owed(g) ==
  IF ReturnsEachOnce THEN May(Given[g]) /\ IsFirst(g)
  ELSE CASE plan.op = "union" -> TRUE
         [] plan.op = "intersect" -> Nth(g) <= OnRight(Given[g])
         [] OTHER -> Nth(g) > OnRight(Given[g])

\* The copies of a row the right input has left when m rows were read.
Remaining(row, m) ==
  IF ReturnsEachOnce THEN OnRight(row)
  ELSE IF Cardinality(Among(Given, m, row)) < OnRight(row)
       THEN OnRight(row) - Cardinality(Among(Given, m, row)) ELSE 0

\* What a set operation has after m rows.
HasReturned(list, m) ==
  /\ list \in Seq(Nat \X Nat) /\ EachOnce(list)
  /\ ToSet(list) = {Place(g) : g \in {h \in 1..m : Owed(h)}}

HasSeen(keys, m) ==
  ReturnsEachOnce => keys = {HashKey(Given[g]) : g \in {h \in 1..m : May(Given[h])}}

HasCopies(some, m) ==
  plan.kind = "set" /\ plan.op # "union" /\ some # NotCounted =>
    /\ DOMAIN some = {HashKey(plan.right[r]) : r \in DOMAIN plan.right}
    /\ \A r \in DOMAIN plan.right : some[HashKey(plan.right[r])] = Remaining(plan.right[r], m)

\* The keys of the n rows after the first m.
IsBatch(m, n, keys) ==
  /\ m \in Nat /\ n \in Nat /\ m + n <= Len(Given)
  /\ keys = [i \in 1..n |-> HashKey(Given[m + i])]

LEMMA BatchKeys ==
  ASSUME PlanGiven, plan.kind \in {"distinct", "set"},
         NEW m, NEW n, NEW keys, IsBatch(m, n, keys)
  PROVE  /\ m \in Nat /\ n \in Nat /\ DOMAIN keys = 1..n
         /\ \A i \in 1..n : m + i \in 1..Len(Given) /\ keys[i] = HashKey(Given[m + i])
         /\ \A h \in 1..m : h \in 1..Len(Given)
         /\ \A i \in 1..n : \A h \in 1..Len(Given) :
              keys[i] = HashKey(Given[h]) <=> Given[m + i] = Given[h]
  <1>1. PICK len : len = Len(Given)
    OBVIOUS
  <1>2. len \in Nat
    BY <1>1, SetPlan
  <1>3. /\ m \in Nat /\ n \in Nat /\ m + n <= len /\ DOMAIN keys = 1..n
        /\ \A i \in 1..n : keys[i] = HashKey(Given[m + i])
    BY <1>1 DEF IsBatch
  <1>4. (\A i \in 1..n : m + i \in 1..len) /\ (\A h \in 1..m : h \in 1..len)
    BY ONLY <1>2, <1>3
  <1>5. ASSUME NEW i \in 1..n, NEW h \in 1..len
        PROVE  keys[i] = HashKey(Given[h]) <=> Given[m + i] = Given[h]
    <2>1. PICK g : g = m + i
      OBVIOUS
    <2>2. g \in 1..len /\ keys[i] = HashKey(Given[g])
      BY <1>3, <1>4, <2>1
    <2>3. HashKey(Given[g]) = HashKey(Given[h]) => Given[g] = Given[h]
      BY <1>1, <2>2, KeysTell
    <2>. QED BY ONLY <2>1, <2>2, <2>3
  <1>. QED BY ONLY <1>1, <1>3, <1>4, <1>5

\* A row is counted among those of the right input.
LEMMA RightCount ==
  ASSUME PlanGiven, plan.kind = "set", NEW row
  PROVE  /\ OnRight(row) \in Nat
         /\ OnRight(row) = 0 <=> \A r \in DOMAIN plan.right : plan.right[r] # row
  <1>1. PICK D : D = {r \in DOMAIN plan.right : plan.right[r] = row}
    OBVIOUS
  <1>2. IsFiniteSet(D)
    <2>1. Len(plan.right) \in Nat /\ DOMAIN plan.right = 1..Len(plan.right)
      BY SetPlan, LenProperties
    <2>2. IsFiniteSet(1..Len(plan.right))
      BY <2>1, FS_Interval
    <2>. QED BY <1>1, <2>1, <2>2, FS_Subset
  <1>3. Cardinality(D) \in Nat /\ (Cardinality(D) = 0 <=> D = {})
    BY <1>2, FS_CardinalityType, FS_EmptySet
  <1>. QED BY <1>1, <1>3 DEF OnRight

\* What the right input has left of a row is looked up by its key.
LEMMA CopiesAreLeft ==
  ASSUME PlanGiven, plan.kind = "set", plan.op # "union", counts # NotCounted,
         NEW m \in Nat, HasCopies(counts, m), NEW g \in 1..Len(Given)
  PROVE  CopiesLeft(HashKey(Given[g]), counts) = Remaining(Given[g], m)
  <1>1. /\ DOMAIN counts = {HashKey(plan.right[r]) : r \in DOMAIN plan.right}
        /\ \A r \in DOMAIN plan.right : counts[HashKey(plan.right[r])] = Remaining(plan.right[r], m)
    BY DEF HasCopies
  <1>2. PICK row : row = Given[g]
    OBVIOUS
  <1>3. CASE \E r \in DOMAIN plan.right : plan.right[r] = row
    BY <1>1, <1>2, <1>3 DEF CopiesLeft
  <1>4. CASE \A r \in DOMAIN plan.right : plan.right[r] # row
    <2>1. Remaining(row, m) = 0
      <3>1. OnRight(row) = 0
        BY <1>4, RightCount
      <3>2. Cardinality(Among(Given, m, row)) \in Nat
        BY MoreAmong
      <3>. QED BY <3>1, <3>2 DEF Remaining
    <2>2. HashKey(row) \notin DOMAIN counts
      <3>1. SUFFICES ASSUME NEW r \in DOMAIN plan.right, HashKey(plan.right[r]) = HashKey(row)
                     PROVE  FALSE
        BY <1>1
      <3>2. PICK n, h, len, size : n = Len(plan.left) /\ h = n + r /\ len = Len(Given) /\ size = Len(plan.right)
        OBVIOUS
      <3>3. n \in Nat /\ r \in 1..size /\ size \in Nat /\ len = n + size
        BY <3>2, SetPlan, LenProperties
      <3>4. h \in 1..len
        <4>1. /\ h = n + r /\ n \in Nat /\ size \in Nat /\ len = n + size
              /\ r \in Nat /\ r # 0 /\ r <= size
          BY ONLY <3>2, <3>3
        <4>. QED BY ONLY <4>1
      <3>5. Given[h] = plan.right[r]
        BY <3>2, <3>3, SetPlan
      <3>6. Given[h] = row
        <4>1. h \in 1..Len(Given)
          BY ONLY <3>2, <3>4
        <4>2. HashKey(Given[h]) = HashKey(Given[g]) => Given[h] = Given[g]
          BY <4>1, KeysTell
        <4>. QED BY ONLY <1>2, <3>1, <3>5, <4>2
      <3>. QED BY <1>4, <3>5, <3>6
    <2>. QED BY <1>2, <2>1, <2>2 DEF CopiesLeft
  <1>. QED BY <1>3, <1>4

\* The copies of a row within a batch.
LEMMA BatchCopies ==
  ASSUME PlanGiven, plan.kind \in {"distinct", "set"},
         NEW m, NEW n, NEW keys, IsBatch(m, n, keys)
  PROVE  /\ \A i \in 1..n :
              /\ Copy(keys, i) \in Nat /\ Copy(keys, i) # 0
              /\ Cardinality(Among(Given, m, Given[m + i])) \in Nat
              /\ Nth(m + i) = Cardinality(Among(Given, m, Given[m + i])) + Copy(keys, i)
         /\ \A h \in 1..Len(Given) :
              /\ Copies(HashKey(Given[h]), keys) \in Nat
              /\ Cardinality(Among(Given, m, Given[h])) \in Nat
              /\ Cardinality(Among(Given, m + n, Given[h]))
                   = Cardinality(Among(Given, m, Given[h])) + Copies(HashKey(Given[h]), keys)
  <1>1. /\ m \in Nat /\ n \in Nat /\ DOMAIN keys = 1..n
        /\ \A i \in 1..n : m + i \in 1..Len(Given)
        /\ \A i \in 1..n : \A h \in 1..Len(Given) :
             keys[i] = HashKey(Given[h]) <=> Given[m + i] = Given[h]
        /\ \A i \in 1..n : keys[i] = HashKey(Given[m + i])
    BY BatchKeys
  <1>2. ASSUME NEW i \in 1..n
        PROVE  /\ Copy(keys, i) \in Nat /\ Copy(keys, i) # 0
               /\ Cardinality(Among(Given, m, Given[m + i])) \in Nat
               /\ Nth(m + i) = Cardinality(Among(Given, m, Given[m + i])) + Copy(keys, i)
    <2>1. PICK row, g : row = Given[g] /\ g = m + i
      OBVIOUS
    <2>2. g \in 1..Len(Given)
      BY <1>1, <2>1
    <2>3. i \in Nat /\ \A k \in 1..i : k \in 1..n
      BY <1>1
    <2>4. \A k \in 1..i : keys[k] = keys[i] <=> Given[m + k] = row
      BY ONLY <1>1, <1>2, <2>1, <2>2, <2>3
    <2>5. PICK B : B = Further(Given, m, i, row)
      OBVIOUS
    <2>6. Copy(keys, i) = Cardinality(B)
      <3>1. {k \in 1..i : keys[k] = keys[i]} = B
        BY ONLY <2>4, <2>5 DEF Further
      <3>. QED BY <3>1 DEF Copy
    <2>7. /\ Cardinality(Among(Given, m, row)) \in Nat /\ IsFiniteSet(B) /\ Cardinality(B) \in Nat
          /\ Cardinality(Among(Given, m + i, row)) = Cardinality(Among(Given, m, row)) + Cardinality(B)
      <3>1. m \in Nat /\ i \in Nat
        BY ONLY <1>1, <2>3
      <3>. QED BY ONLY <2>5, <3>1, MoreAmong
    <2>8. i \in B
      <3>1. i \in 1..i
        BY <1>2, <2>3
      <3>. QED BY ONLY <2>1, <2>5, <3>1 DEF Further
    <2>9. Cardinality(B) # 0
      BY <2>7, <2>8, FS_EmptySet
    <2>. QED BY <2>1, <2>6, <2>7, <2>9 DEF Nth
  <1>3. ASSUME NEW h \in 1..Len(Given)
        PROVE  /\ Copies(HashKey(Given[h]), keys) \in Nat
               /\ Cardinality(Among(Given, m, Given[h])) \in Nat
               /\ Cardinality(Among(Given, m + n, Given[h]))
                    = Cardinality(Among(Given, m, Given[h])) + Copies(HashKey(Given[h]), keys)
    <2>1. PICK row : row = Given[h]
      OBVIOUS
    <2>2. \A i \in 1..n : keys[i] = HashKey(row) <=> Given[m + i] = row
      BY ONLY <1>1, <1>3, <2>1
    <2>3. Copies(HashKey(row), keys) = Cardinality(Further(Given, m, n, row))
      <3>1. {k \in 1..n : keys[k] = HashKey(row)} = Further(Given, m, n, row)
        BY ONLY <2>2 DEF Further
      <3>. QED BY <1>1, <3>1 DEF Copies
    <2>4. /\ Cardinality(Among(Given, m, row)) \in Nat
          /\ Cardinality(Further(Given, m, n, row)) \in Nat
          /\ Cardinality(Among(Given, m + n, row))
               = Cardinality(Among(Given, m, row)) + Cardinality(Further(Given, m, n, row))
      <3>1. m \in Nat /\ n \in Nat
        BY ONLY <1>1
      <3>. QED BY ONLY <3>1, MoreAmong
    <2>. QED BY ONLY <2>1, <2>3, <2>4
  <1>. QED BY ONLY <1>2, <1>3

\* The rows a batch keeps are those that are owed.
LEMMA Survivors ==
  ASSUME PlanGiven, plan.kind \in {"distinct", "set"},
         NEW m, NEW n, NEW keys, IsBatch(m, n, keys),
         HasSeen(seen, m), HasCopies(counts, m), Counted,
         NEW i \in 1..n
  PROVE  Survives(keys, i) <=> Owed(m + i)
  <1>1. PICK g, row, len : g = m + i /\ row = Given[g] /\ len = Len(Given)
    OBVIOUS
  <1>2. /\ m \in Nat /\ n \in Nat /\ i \in Nat /\ i # 0 /\ g \in 1..len
        /\ \A h \in 1..m : h \in 1..len
        /\ keys[i] = HashKey(row)
        /\ \A h \in 1..len : keys[i] = HashKey(Given[h]) <=> row = Given[h]
    BY <1>1, BatchKeys
  <1>3. \A k \in 1..i - 1 : keys[k] = keys[i] <=> Given[m + k] = row
    <2>1. SUFFICES ASSUME NEW k \in 1..i - 1 PROVE keys[k] = keys[i] <=> Given[m + k] = row
      OBVIOUS
    <2>2. k \in 1..n
      BY ONLY <1>2, <2>1
    <2>3. m + k \in 1..len /\ keys[k] = HashKey(Given[m + k])
      BY <1>1, <2>2, BatchKeys
    <2>. QED BY ONLY <1>2, <2>3
  <1>4. ASSUME ReturnsEachOnce, May(row)
        PROVE  IsNew(keys, i) <=> IsFirst(g)
    <2>1. keys[i] \in seen <=> \E h \in 1..m : Given[h] = row
      <3>1. seen = {HashKey(Given[h]) : h \in {h \in 1..m : May(Given[h])}}
        BY <1>4 DEF HasSeen
      <3>2. ASSUME NEW h \in 1..m, Given[h] = row
            PROVE  keys[i] \in seen
        BY <1>2, <1>4, <3>1, <3>2
      <3>3. ASSUME keys[i] \in seen
            PROVE  \E h \in 1..m : Given[h] = row
        <4>1. PICK h \in 1..m : keys[i] = HashKey(Given[h])
          BY <3>1, <3>3
        <4>. QED BY <1>2, <4>1
      <3>. QED BY ONLY <3>2, <3>3
    <2>2. (\E h \in 1..g - 1 : Given[h] = row)
            <=> (\E h \in 1..m : Given[h] = row) \/ (\E k \in 1..i - 1 : Given[m + k] = row)
      <3>1. ASSUME NEW h \in 1..g - 1, Given[h] = row, ~ \E e \in 1..m : Given[e] = row
            PROVE  \E k \in 1..i - 1 : Given[m + k] = row
        <4>1. ~ (h <= m)
          BY ONLY <1>2, <3>1
        <4>2. h - m \in 1..i - 1 /\ m + (h - m) = h
          BY ONLY <1>1, <1>2, <3>1, <4>1
        <4>. QED BY ONLY <3>1, <4>2
      <3>2. \A h \in 1..m : h \in 1..g - 1
        BY ONLY <1>1, <1>2
      <3>3. \A k \in 1..i - 1 : m + k \in 1..g - 1
        BY ONLY <1>1, <1>2
      <3>. QED BY ONLY <3>1, <3>2, <3>3
    <2>. QED BY ONLY <1>1, <1>3, <2>1, <2>2 DEF IsNew, IsFirst
  <1>5. ASSUME plan.kind = "set"
        PROVE  /\ plan.op \in {"union", "intersect", "except"} /\ plan.all \in BOOLEAN
               /\ OnRight(row) \in Nat
               /\ plan.op # "union" => CopiesLeft(keys[i], counts) = Remaining(row, m)
    <2>1. OnRight(row) \in Nat
      BY <1>5, RightCount
    <2>2. plan.op \in {"union", "intersect", "except"} /\ plan.all \in BOOLEAN
      BY <1>5, SetPlan
    <2>3. ASSUME plan.op # "union"
          PROVE  CopiesLeft(keys[i], counts) = Remaining(row, m)
      <3>1. counts # NotCounted
        BY <1>5, <2>3 DEF Counted
      <3>2. CopiesLeft(HashKey(Given[g]), counts) = Remaining(Given[g], m)
        BY <1>1, <1>2, <1>5, <2>3, <3>1, CopiesAreLeft
      <3>. QED BY ONLY <1>1, <1>2, <3>2
    <2>. QED BY ONLY <2>1, <2>2, <2>3
  <1>6. CASE ReturnsEachOnce
    <2>1. plan.kind = "set" /\ plan.op # "union" => CopiesLeft(keys[i], counts) = OnRight(row)
      BY ONLY <1>5, <1>6 DEF Remaining
    <2>2. plan.kind # "distinct" => plan.kind = "set" /\ plan.all = FALSE
      <3>1. plan.kind # "distinct" => plan.kind = "set" /\ ~ plan.all
        BY <1>6 DEF ReturnsEachOnce
      <3>. QED BY ONLY <1>5, <3>1
    <2>3. Owed(g) <=> May(row) /\ IsFirst(g)
      BY ONLY <1>1, <1>6 DEF Owed
    <2>4. CASE plan.kind = "distinct"
      BY ONLY <1>1, <1>4, <1>6, <2>3, <2>4 DEF Survives, May
    <2>5. CASE plan.kind = "set" /\ plan.op = "union"
      BY ONLY <1>1, <1>4, <1>6, <2>2, <2>3, <2>5 DEF Survives, May
    <2>6. CASE plan.kind = "set" /\ plan.op = "intersect"
      <3>1. May(row) <=> OnRight(row) > 0
        BY ONLY <2>6 DEF May
      <3>2. Survives(keys, i) <=> OnRight(row) > 0 /\ IsNew(keys, i)
        BY ONLY <2>1, <2>2, <2>6 DEF Survives
      <3>. QED BY ONLY <1>1, <1>4, <1>6, <2>3, <3>1, <3>2
    <2>7. CASE plan.kind = "set" /\ plan.op = "except"
      <3>1. May(row) <=> OnRight(row) = 0
        BY ONLY <2>7 DEF May
      <3>2. Survives(keys, i) <=> OnRight(row) = 0 /\ IsNew(keys, i)
        BY ONLY <2>1, <2>2, <2>7 DEF Survives
      <3>. QED BY ONLY <1>1, <1>4, <1>6, <2>3, <3>1, <3>2
    <2>. QED BY <1>5, <2>4, <2>5, <2>6, <2>7
  <1>7. CASE ~ ReturnsEachOnce
    <2>1. plan.kind = "set" /\ plan.kind # "distinct" /\ plan.all = TRUE /\ plan.all
      <3>1. plan.kind # "distinct" /\ plan.all
        BY <1>7 DEF ReturnsEachOnce
      <3>2. plan.kind = "set"
        BY <3>1
      <3>. QED BY ONLY <1>5, <3>1, <3>2
    <2>2. PICK c, k, R : /\ c = Cardinality(Among(Given, m, row)) /\ k = Copy(keys, i)
                         /\ R = OnRight(row)
      OBVIOUS
    <2>3. c \in Nat /\ k \in Nat /\ k # 0 /\ R \in Nat /\ Nth(g) = c + k
      BY <1>1, <1>5, <2>1, <2>2, BatchCopies
    <2>4. plan.op # "union" => CopiesLeft(keys[i], counts) = IF c < R THEN R - c ELSE 0
      BY ONLY <1>5, <1>7, <2>1, <2>2 DEF Remaining
    <2>5. CASE plan.op = "union"
      <3>1. Survives(keys, i)
        BY ONLY <2>1, <2>5 DEF Survives
      <3>2. Owed(g)
        BY ONLY <1>7, <2>5 DEF Owed
      <3>. QED BY ONLY <1>1, <3>1, <3>2
    <2>6. CASE plan.op = "intersect"
      <3>1. Survives(keys, i) <=> k <= (IF c < R THEN R - c ELSE 0)
        <4>1. Survives(keys, i) <=> Copy(keys, i) <= CopiesLeft(keys[i], counts)
          BY ONLY <2>1, <2>6 DEF Survives
        <4>. QED BY ONLY <2>2, <2>4, <2>6, <4>1
      <3>2. Owed(g) <=> c + k <= R
        BY ONLY <1>1, <1>7, <2>2, <2>3, <2>6 DEF Owed
      <3>. QED BY ONLY <1>1, <2>3, <3>1, <3>2
    <2>7. CASE plan.op = "except"
      <3>1. Survives(keys, i) <=> k > (IF c < R THEN R - c ELSE 0)
        BY ONLY <2>1, <2>2, <2>4, <2>7 DEF Survives
      <3>2. Owed(g) <=> c + k > R
        BY ONLY <1>1, <1>7, <2>2, <2>3, <2>7 DEF Owed
      <3>. QED BY ONLY <1>1, <2>3, <3>1, <3>2
    <2>. QED BY <1>5, <2>1, <2>5, <2>6, <2>7
  <1>. QED BY <1>1, <1>6, <1>7

LEMMA BatchOut ==
  ASSUME PlanGiven, plan.kind \in {"distinct", "set"},
         NEW m, NEW n, NEW keys, IsBatch(m, n, keys),
         HasReturned(out, m), HasSeen(seen, m), HasCopies(counts, m), Counted,
         NEW places, places = [i \in 1..n |-> Place(m + i)]
  PROVE  HasReturned(out \o Those(places, {places[i] : i \in Kept(keys)}), m + n)
  <1>1. PICK len, P, kept : len = Len(Given) /\ P = Nat \X Nat /\ kept = {i \in 1..n : Owed(m + i)}
    OBVIOUS
  <1>2. /\ m \in Nat /\ n \in Nat /\ len \in Nat /\ DOMAIN keys = 1..n
        /\ \A i \in 1..n : m + i \in 1..len
        /\ \A h \in 1..m : h \in 1..len
    BY <1>1, BatchKeys, SetPlan
  <1>3. Kept(keys) = kept
    <2>1. \A i \in 1..n : Survives(keys, i) <=> Owed(m + i)
      BY Survivors
    <2>. QED BY ONLY <1>1, <1>2, <2>1 DEF Kept
  <1>4. \A g, h \in 1..len : Place(g) = Place(h) => g = h
    BY <1>1, PlacesTell
  <1>5. \A g \in 1..len : Place(g) \in P
    <2>1. PICK size : size = Len(plan.left)
      OBVIOUS
    <2>2. size \in Nat
      BY <2>1, SetPlan
    <2>. QED BY ONLY <1>1, <1>2, <2>1, <2>2 DEF Place
  <1>6. places \in [1..n -> P] /\ places \in Seq(P) /\ Len(places) = n
    <2>1. \A i \in 1..n : Place(m + i) \in P
      BY ONLY <1>2, <1>5
    <2>2. places \in [1..n -> P]
      BY ONLY <2>1, places = [i \in 1..n |-> Place(m + i)]
    <2>3. places \in Seq(P) /\ DOMAIN places = 1..n
      BY ONLY <1>2, <2>2 DEF Seq
    <2>4. Len(places) = n
      BY ONLY <1>2, <2>3, LenProperties
    <2>. QED BY ONLY <2>2, <2>3, <2>4
  <1>7. \A i \in 1..n : places[i] = Place(m + i)
    OBVIOUS
  <1>8. EachOnce(places)
    <2>1. SUFFICES ASSUME NEW k \in 1..n, NEW l \in 1..n, k < l PROVE places[k] # places[l]
      BY <1>6 DEF EachOnce
    <2>2. m + k \in 1..len /\ m + l \in 1..len /\ m + k # m + l
      BY ONLY <1>2, <2>1
    <2>. QED BY ONLY <1>4, <1>7, <2>1, <2>2
  <1>9. PICK chosen, t : chosen = {places[i] : i \in kept} /\ t = Those(places, chosen)
    OBVIOUS
  <1>10. \A x : x \in chosen <=> \E g \in 1..m + n : ~ (g <= m) /\ Owed(g) /\ x = Place(g)
    <2>1. ASSUME NEW x \in chosen
          PROVE  \E g \in 1..m + n : ~ (g <= m) /\ Owed(g) /\ x = Place(g)
      <3>1. PICK i \in 1..n : Owed(m + i) /\ x = places[i]
        BY ONLY <1>1, <1>9, <2>1
      <3>2. PICK g : g = m + i
        OBVIOUS
      <3>3. g \in 1..m + n /\ ~ (g <= m)
        BY ONLY <1>2, <3>1, <3>2
      <3>. QED BY ONLY <1>7, <3>1, <3>2, <3>3
    <2>2. ASSUME NEW g \in 1..m + n, ~ (g <= m), Owed(g)
          PROVE  Place(g) \in chosen
      <3>1. PICK i : i = g - m
        OBVIOUS
      <3>2. i \in 1..n /\ m + i = g
        BY ONLY <1>2, <2>2, <3>1
      <3>3. i \in kept /\ places[i] = Place(g)
        BY ONLY <1>1, <1>7, <2>2, <3>2
      <3>. QED BY ONLY <1>9, <3>3
    <2>. QED BY ONLY <2>1, <2>2
  <1>11. t \in Seq(P) /\ EachOnce(t) /\ ToSet(t) = ToSet(places) \cap chosen
    BY <1>6, <1>8, <1>9, Selected
  <1>12. ToSet(t) = chosen
    <2>1. \A i \in kept : places[i] \in ToSet(places)
      BY <1>1, <1>6 DEF ToSet
    <2>. QED BY ONLY <1>9, <1>11, <2>1
  <1>13. out \in Seq(P) /\ EachOnce(out) /\ ToSet(out) = {Place(g) : g \in {h \in 1..m : Owed(h)}}
    BY <1>1 DEF HasReturned
  <1>14. \A x : x \in ToSet(out) <=> \E g \in 1..m : Owed(g) /\ x = Place(g)
    BY ONLY <1>13
  <1>15. ToSet(out) \cap ToSet(t) = {}
    <2>1. SUFFICES ASSUME NEW x \in ToSet(out), x \in chosen PROVE FALSE
      BY <1>12
    <2>2. PICK g \in 1..m : x = Place(g)
      BY ONLY <1>14, <2>1
    <2>3. PICK h \in 1..m + n : ~ (h <= m) /\ x = Place(h)
      BY ONLY <1>10, <2>1
    <2>4. g \in 1..len /\ h \in 1..len /\ g # h
      <3>1. h - m \in 1..n /\ m + (h - m) = h
        BY ONLY <1>2, <2>3
      <3>2. g <= m
        BY ONLY <1>2, <2>2
      <3>. QED BY ONLY <1>2, <2>2, <2>3, <3>1, <3>2
    <2>. QED BY ONLY <1>4, <2>2, <2>3, <2>4
  <1>16. /\ out \o t \in Seq(P) /\ EachOnce(out \o t)
         /\ ToSet(out \o t) = ToSet(out) \cup ToSet(t)
    BY ONLY <1>11, <1>13, <1>15, Appending
  <1>17. \A x : x \in ToSet(out) \cup chosen <=> \E g \in 1..m + n : Owed(g) /\ x = Place(g)
    <2>1. \A g \in 1..m : g \in 1..m + n
      BY ONLY <1>2
    <2>2. \A g \in 1..m + n : g <= m => g \in 1..m
      BY ONLY <1>2
    <2>. QED BY ONLY <1>10, <1>14, <2>1, <2>2
  <1>18. ToSet(out \o t) = {Place(g) : g \in {h \in 1..m + n : Owed(h)}}
    BY ONLY <1>12, <1>16, <1>17
  <1>. QED BY ONLY <1>1, <1>3, <1>9, <1>16, <1>18 DEF HasReturned

LEMMA BatchSeen ==
  ASSUME PlanGiven, plan.kind \in {"distinct", "set"},
         NEW m, NEW n, NEW keys, IsBatch(m, n, keys),
         HasSeen(seen, m), HasCopies(counts, m), Counted, ReturnsEachOnce
  PROVE  HasSeen(seen \cup {keys[i] : i \in Kept(keys)}, m + n)
  <1>1. PICK len, now : len = Len(Given) /\ now = seen \cup {keys[i] : i \in Kept(keys)}
    OBVIOUS
  <1>2. /\ m \in Nat /\ n \in Nat /\ len \in Nat /\ DOMAIN keys = 1..n
        /\ \A i \in 1..n : m + i \in 1..len /\ keys[i] = HashKey(Given[m + i])
    BY <1>1, BatchKeys, SetPlan
  <1>3. \A i \in 1..n : Survives(keys, i) <=> Owed(m + i)
    BY Survivors
  <1>4. \A x : x \in now <=> x \in seen \/ \E i \in 1..n : Owed(m + i) /\ x = HashKey(Given[m + i])
    BY ONLY <1>1, <1>2, <1>3 DEF Kept
  <1>5. \A x : x \in seen <=> \E g \in 1..m : May(Given[g]) /\ x = HashKey(Given[g])
    <2>1. seen = {HashKey(Given[g]) : g \in {h \in 1..m : May(Given[h])}}
      BY DEF HasSeen
    <2>. QED BY ONLY <2>1
  <1>6. \A g : Owed(g) <=> May(Given[g]) /\ IsFirst(g)
    BY DEF Owed
  <1>7. ASSUME NEW x \in now
        PROVE  \E g \in 1..m + n : May(Given[g]) /\ x = HashKey(Given[g])
    <2>1. \A g \in 1..m : g \in 1..m + n
      BY ONLY <1>2
    <2>2. \A i \in 1..n : m + i \in 1..m + n
      BY ONLY <1>2
    <2>. QED BY ONLY <1>4, <1>5, <1>6, <1>7, <2>1, <2>2
  <1>8. ASSUME NEW g \in 1..m + n, May(Given[g])
        PROVE  HashKey(Given[g]) \in now
    <2>1. PICK row, same : row = Given[g] /\ same = {h \in 1..m + n : Given[h] = row}
      OBVIOUS
    <2>2. same \in SUBSET Nat /\ same # {}
      BY ONLY <1>2, <1>8, <2>1
    <2>3. PICK h \in same : \A o \in same : h <= o
      BY <2>2, Least
    <2>4. h \in 1..m + n /\ Given[h] = row
      BY ONLY <2>1, <2>3
    <2>5. IsFirst(h)
      <3>1. SUFFICES ASSUME NEW o \in 1..h - 1 PROVE Given[o] # row
        BY <2>4 DEF IsFirst
      <3>2. o \in 1..m + n /\ ~ (h <= o)
        BY ONLY <1>2, <2>4, <3>1
      <3>. QED BY ONLY <2>1, <2>3, <3>2
    <2>6. CASE h <= m
      <3>1. h \in 1..m
        BY ONLY <1>2, <2>4, <2>6
      <3>2. HashKey(Given[h]) \in seen
        BY ONLY <1>5, <1>8, <2>1, <2>4, <3>1
      <3>. QED BY ONLY <1>4, <2>1, <2>4, <3>2
    <2>7. CASE ~ (h <= m)
      <3>1. PICK i : i = h - m
        OBVIOUS
      <3>2. i \in 1..n /\ m + i = h
        BY ONLY <1>2, <2>4, <2>7, <3>1
      <3>3. Owed(h)
        BY ONLY <1>6, <1>8, <2>1, <2>4, <2>5
      <3>. QED BY ONLY <1>4, <2>1, <2>4, <3>2, <3>3
    <2>. QED BY ONLY <2>6, <2>7
  <1>9. now = {HashKey(Given[g]) : g \in {h \in 1..m + n : May(Given[h])}}
    BY ONLY <1>7, <1>8
  <1>. QED BY ONLY <1>1, <1>9 DEF HasSeen

LEMMA BatchCounts ==
  ASSUME PlanGiven, plan.kind \in {"distinct", "set"},
         NEW m, NEW n, NEW keys, IsBatch(m, n, keys),
         HasCopies(counts, m), Counted
  PROVE  HasCopies(CountedDown(keys), m + n)
  <1>1. PICK now : now = CountedDown(keys)
    OBVIOUS
  <1>2. SUFFICES ASSUME plan.kind = "set", plan.op # "union"
                 PROVE  /\ DOMAIN now = {HashKey(plan.right[r]) : r \in DOMAIN plan.right}
                        /\ \A r \in DOMAIN plan.right :
                             now[HashKey(plan.right[r])] = Remaining(plan.right[r], m + n)
    <2>1. SUFFICES HasCopies(now, m + n)
      BY <1>1
    <2>. QED BY DEF HasCopies
  <1>3. /\ DOMAIN counts = {HashKey(plan.right[r]) : r \in DOMAIN plan.right}
        /\ \A r \in DOMAIN plan.right : counts[HashKey(plan.right[r])] = Remaining(plan.right[r], m)
    <2>1. counts # NotCounted
      BY <1>2 DEF Counted
    <2>. QED BY <1>2, <2>1 DEF HasCopies
  <1>4. CASE ReturnsEachOnce
    <2>1. now = counts
      BY <1>1, <1>4 DEF CountedDown
    <2>2. \A row : Remaining(row, m) = OnRight(row) /\ Remaining(row, m + n) = OnRight(row)
      BY <1>4 DEF Remaining
    <2>. QED BY ONLY <1>3, <2>1, <2>2
  <1>5. CASE ~ ReturnsEachOnce
    <2>1. now = [key \in DOMAIN counts |->
                   IF Copies(key, keys) < counts[key] THEN counts[key] - Copies(key, keys) ELSE 0]
      BY ONLY <1>1, <1>2, <1>5 DEF CountedDown
    <2>2. ASSUME NEW r \in DOMAIN plan.right
          PROVE  now[HashKey(plan.right[r])] = Remaining(plan.right[r], m + n)
      <3>1. PICK row, key, c, k, R : /\ row = plan.right[r] /\ key = HashKey(row)
                                     /\ c = Cardinality(Among(Given, m, row)) /\ k = Copies(key, keys)
                                     /\ R = OnRight(row)
        OBVIOUS
      <3>2. PICK size, total, len, h : size = Len(plan.left) /\ total = Len(plan.right) /\ len = Len(Given)
                                       /\ h = size + r
        OBVIOUS
      <3>3. /\ size \in Nat /\ total \in Nat /\ len = size + total /\ r \in 1..total
            /\ Given[size + r] = plan.right[r]
        <4>1. size \in Nat /\ total \in Nat /\ len = size + total /\ plan.right \in Seq(Row)
              /\ \A e \in 1..total : Given[size + e] = plan.right[e]
          BY <1>2, <3>2, SetPlan
        <4>2. r \in 1..total
          BY <2>2, <3>2, <4>1, LenProperties
        <4>. QED BY ONLY <4>1, <4>2
      <3>4. h \in 1..len /\ Given[h] = row
        <4>1. h = size + r /\ size \in Nat /\ total \in Nat /\ len = size + total /\ r \in 1..total
          BY ONLY <3>2, <3>3
        <4>2. h \in 1..len
          BY ONLY <4>1
        <4>. QED BY ONLY <3>1, <3>2, <3>3, <4>2
      <3>5. /\ k \in Nat /\ c \in Nat
            /\ Cardinality(Among(Given, m + n, row)) = c + k
        <4>1. h \in 1..Len(Given)
          BY ONLY <3>2, <3>4
        <4>. QED BY <3>1, <3>4, <4>1, BatchCopies
      <3>6. R \in Nat
        BY <1>2, <3>1, RightCount
      <3>7. counts[key] = IF c < R THEN R - c ELSE 0
        <4>1. counts[key] = Remaining(row, m)
          BY ONLY <1>3, <2>2, <3>1
        <4>. QED BY ONLY <1>5, <3>1, <4>1 DEF Remaining
      <3>8. Remaining(row, m + n) = IF c + k < R THEN R - (c + k) ELSE 0
        BY ONLY <1>5, <3>1, <3>5 DEF Remaining
      <3>9. now[key] = IF k < counts[key] THEN counts[key] - k ELSE 0
        <4>1. key \in DOMAIN counts
          BY ONLY <1>3, <2>2, <3>1
        <4>. QED BY ONLY <2>1, <3>1, <4>1
      <3>10. (IF k < (IF c < R THEN R - c ELSE 0) THEN (IF c < R THEN R - c ELSE 0) - k ELSE 0)
               = IF c + k < R THEN R - (c + k) ELSE 0
        BY ONLY <3>5, <3>6
      <3>. QED BY ONLY <3>1, <3>7, <3>8, <3>9, <3>10
    <2>. QED BY ONLY <1>3, <2>1, <2>2
  <1>. QED BY ONLY <1>4, <1>5

\* What is owed follows from the plan alone.
LEMMA PlanDecides ==
  ASSUME plan' = plan
  PROVE  /\ HasReturned(out, at + right_read)' <=> HasReturned(out', at' + right_read')
         /\ HasSeen(seen, at + right_read)' <=> HasSeen(seen', at' + right_read')
         /\ HasCopies(counts, at + right_read)' <=> HasCopies(counts', at' + right_read')
  <1>1. Given' = Given
    BY DEF Given
  <1>2. \A row : OnRight(row)' = OnRight(row)
    BY DEF OnRight
  <1>3. \A row : May(row)' <=> May(row)
    BY <1>2 DEF May
  <1>4. \A g : IsFirst(g)' <=> IsFirst(g)
    BY <1>1 DEF IsFirst
  <1>5. \A g : Nth(g)' = Nth(g)
    BY <1>1 DEF Nth, Among
  <1>6. ReturnsEachOnce' <=> ReturnsEachOnce
    BY DEF ReturnsEachOnce
  <1>7. \A g : Owed(g)' <=> Owed(g)
    BY <1>1, <1>2, <1>3, <1>4, <1>5, <1>6 DEF Owed
  <1>8. \A g : Place(g)' = Place(g)
    BY DEF Place
  <1>9. \A row, m : Remaining(row, m)' = Remaining(row, m)
    BY <1>1, <1>2, <1>6 DEF Remaining, Among
  <1>10. HasReturned(out, at + right_read)' <=> HasReturned(out', at' + right_read')
    BY <1>7, <1>8 DEF HasReturned
  <1>11. HasSeen(seen, at + right_read)' <=> HasSeen(seen', at' + right_read')
    BY <1>1, <1>3, <1>6 DEF HasSeen
  <1>12. HasCopies(counts, at + right_read)' <=> HasCopies(counts', at' + right_read')
    BY <1>9 DEF HasCopies, NotCounted
  <1>. QED BY <1>10, <1>11, <1>12

\* How far the inputs of a set operation are read.
SetRead ==
  /\ at \in 0..Len(plan.left) /\ right_read \in Nat
  /\ left_done => plan.kind = "set" /\ at = Len(plan.left)
  /\ right_read # 0 => left_done /\ ReadsRight /\ right_read <= Len(plan.right)
  /\ ~ Counted => at = 0
  /\ status = "done" => at = Len(plan.left) /\ (ReadsRight => right_read = Len(plan.right))

SetRun ==
  plan.kind \in {"distinct", "set"} =>
    /\ SetRead
    /\ HasReturned(out, at + right_read)
    /\ HasSeen(seen, at + right_read)
    /\ HasCopies(counts, at + right_read)

SetInv == PlanGiven /\ SetRun

\* Nothing is read at first.
LEMMA SetFirst ==
  ASSUME Init
  PROVE  SetInv
  <1>1. /\ PlanGiven /\ at = 0 /\ right_read = 0 /\ out = <<>> /\ seen = {} /\ counts = NotCounted
        /\ left_done = FALSE /\ status = "running"
    BY DEF Init, OperatorInit, RowInit, PlanGiven
  <1>2. SUFFICES ASSUME plan.kind \in {"distinct", "set"} PROVE SetRun
    BY <1>1 DEF SetInv, SetRun
  <1>3. Len(plan.left) \in Nat
    BY <1>1, <1>2, SetPlan
  <1>4. SetRead
    BY <1>1, <1>3 DEF SetRead
  <1>5. PICK m : m = at + right_read
    OBVIOUS
  <1>6. m = 0 /\ 1..m = {}
    BY ONLY <1>1, <1>5
  <1>7. HasReturned(out, m)
    <2>1. out \in Seq(Nat \X Nat) /\ DOMAIN out = {} /\ 1..Len(out) = {}
      BY <1>1
    <2>2. ToSet(out) = {}
      BY <2>1 DEF ToSet
    <2>3. EachOnce(out)
      BY <2>1 DEF EachOnce
    <2>4. {Place(g) : g \in {h \in 1..m : Owed(h)}} = {}
      BY <1>6
    <2>. QED BY ONLY <2>1, <2>2, <2>3, <2>4 DEF HasReturned
  <1>8. HasSeen(seen, m)
    <2>1. {HashKey(Given[g]) : g \in {h \in 1..m : May(Given[h])}} = {}
      BY <1>6
    <2>. QED BY ONLY <1>1, <2>1 DEF HasSeen
  <1>9. HasCopies(counts, m)
    BY ONLY <1>1 DEF HasCopies
  <1>. QED BY ONLY <1>4, <1>5, <1>7, <1>8, <1>9 DEF SetRun

\* For a set operation, only its own steps change anything but the status,
\* which else becomes "failed".
LEMMA SetSteps ==
  ASSUME [Next]_vars, plan.kind \in {"distinct", "set"}
  PROVE  \/ SetStep
         \/ UNCHANGED <<plan, out, rowVars, setVars>> /\ status' \in {status, "failed"}
  <1>1. CASE UNCHANGED vars
    BY <1>1 DEF vars, operatorVars, unaryVars
  <1>2. CASE Fail /\ UNCHANGED <<joinVars, unaryVars>>
    BY <1>2 DEF Fail, unaryVars
  <1>3. CASE Step
    BY <1>3 DEF Step, Joins, AggregateStep, SortStep, SortBuild, TopNRow, TopNBuilt, WindowStep
  <1>. QED BY <1>1, <1>2, <1>3 DEF Next

\* A batch of either input is the next rows of both.
LEMMA BatchTaken ==
  ASSUME SetInv, plan.kind \in {"distinct", "set"}, NEW n \in 1..BatchSize,
         LeftBatch(n) \/ RightBatch(n)
  PROVE  SetRun'
  <1>1. PICK l, r, i, s : l = Len(plan.left) /\ r = right_read /\ i = at /\ s = Len(plan.right)
    OBVIOUS
  <1>2. PICK m : m = i + r
    OBVIOUS
  <1>3. /\ n \in Nat /\ l \in Nat /\ i \in 0..l /\ r \in Nat
        /\ left_done => plan.kind = "set" /\ i = l
        /\ r # 0 => left_done /\ ReadsRight /\ r <= s
        /\ HasReturned(out, m) /\ HasSeen(seen, m) /\ HasCopies(counts, m)
    <2>1. l \in Nat
      BY <1>1, SetPlan DEF SetInv
    <2>2. n \in Nat
      BY BatchAssumption
    <2>3. SetRead /\ HasReturned(out, at + right_read) /\ HasSeen(seen, at + right_read)
          /\ HasCopies(counts, at + right_read)
      BY DEF SetInv, SetRun
    <2>. QED BY ONLY <1>1, <1>2, <2>1, <2>2, <2>3 DEF SetRead
  <1>4. Counted
    <2>1. CASE LeftBatch(n)
      BY <2>1 DEF LeftBatch
    <2>2. CASE RightBatch(n)
      BY <2>2 DEF RightBatch, ReadsRight, Counted
    <2>. QED BY <2>1, <2>2
  <1>5. \E keys, places :
          /\ IsBatch(m, n, keys) /\ places = [k \in 1..n |-> Place(m + k)] /\ Keep(keys, places)
          /\ plan' = plan /\ status' = status /\ left_done' = left_done
          /\ at' + right_read' = m + n
          /\ at' \in 0..l /\ right_read' \in Nat
          /\ left_done => at' = l
          /\ right_read' # 0 => left_done /\ ReadsRight /\ right_read' <= s
    <2>1. CASE LeftBatch(n)
      <3>1. /\ ~ left_done /\ i + n <= l /\ at' = i + n /\ right_read' = r
            /\ plan' = plan /\ status' = status /\ left_done' = left_done
            /\ Keep([k \in 1..n |-> LeftRowKey(i + k)], [k \in 1..n |-> <<i + k, 0>>])
        BY <1>1, <2>1 DEF LeftBatch
      <3>2. r = 0 /\ m = i
        BY ONLY <1>2, <1>3, <3>1
      <3>3. \A k \in 1..n : i + k \in 1..l /\ i + k <= l
        BY ONLY <1>3, <3>1
      <3>4. \A h \in 1..l : Given[h] = plan.left[h]
        BY <1>1, SetPlan DEF SetInv
      <3>5. l <= Len(Given)
        BY <1>1, SetPlan DEF SetInv
      <3>6. [k \in 1..n |-> LeftRowKey(i + k)] = [k \in 1..n |-> HashKey(Given[m + k])]
        BY ONLY <3>2, <3>3, <3>4 DEF LeftRowKey
      <3>7. [k \in 1..n |-> <<i + k, 0>>] = [k \in 1..n |-> Place(m + k)]
        BY ONLY <1>1, <3>2, <3>3 DEF Place
      <3>8. IsBatch(m, n, [k \in 1..n |-> LeftRowKey(i + k)])
        <4>1. Len(Given) \in Nat
          BY SetPlan DEF SetInv
        <4>2. m + n <= Len(Given) /\ m \in Nat
          <5>1. PICK len : len = Len(Given)
            OBVIOUS
          <5>. QED BY ONLY <1>3, <3>1, <3>2, <3>5, <4>1, <5>1
        <4>. QED BY ONLY <1>3, <3>6, <4>2 DEF IsBatch
      <3>9. /\ at' + right_read' = m + n /\ at' \in 0..l /\ right_read' \in Nat
            /\ left_done => at' = l
            /\ right_read' # 0 => left_done /\ ReadsRight /\ right_read' <= s
        BY ONLY <1>3, <3>1, <3>2
      <3>. QED BY ONLY <3>1, <3>7, <3>8, <3>9
    <2>2. CASE RightBatch(n)
      <3>1. /\ left_done /\ ReadsRight /\ r + n <= s /\ at' = i /\ right_read' = r + n
            /\ plan' = plan /\ status' = status /\ left_done' = left_done
            /\ Keep([k \in 1..n |-> RightRowKey(r + k)], [k \in 1..n |-> <<0, r + k>>])
        BY <1>1, <2>2 DEF RightBatch, rowVars
      <3>2. i = l /\ m = l + r /\ plan.kind = "set"
        BY ONLY <1>2, <1>3, <3>1
      <3>3. /\ s \in Nat /\ Len(Given) = l + s
            /\ \A h \in 1..s : Given[l + h] = plan.right[h]
        BY <1>1, <3>2, SetPlan DEF SetInv
      <3>4. \A k \in 1..n : /\ r + k \in 1..s /\ m + k = l + (r + k)
                            /\ ~ (m + k <= l) /\ m + k - l = r + k
        BY ONLY <1>3, <3>1, <3>2, <3>3
      <3>5. \A k \in 1..n : Given[m + k] = plan.right[r + k]
        BY ONLY <3>3, <3>4
      <3>6. [k \in 1..n |-> RightRowKey(r + k)] = [k \in 1..n |-> HashKey(Given[m + k])]
        BY ONLY <3>5 DEF RightRowKey
      <3>7. [k \in 1..n |-> <<0, r + k>>] = [k \in 1..n |-> Place(m + k)]
        <4>1. ASSUME NEW k \in 1..n
              PROVE  Place(m + k) = <<0, r + k>>
          <5>1. PICK g, h : g = m + k /\ h = r + k
            OBVIOUS
          <5>2. ~ (g <= l) /\ g - l = h
            <6>1. l \in Nat /\ r \in Nat /\ k \in Nat /\ k # 0 /\ m = l + r
              BY ONLY <1>3, <3>2, <4>1
            <6>. QED BY ONLY <5>1, <6>1
          <5>3. Place(g) = <<0, h>>
            BY <1>1, <5>2, Zenon DEF Place
          <5>. QED BY <5>1, <5>3
        <4>. QED BY ONLY <4>1
      <3>8. IsBatch(m, n, [k \in 1..n |-> RightRowKey(r + k)])
        <4>1. m + n <= Len(Given) /\ m \in Nat
          BY ONLY <1>3, <3>1, <3>2, <3>3
        <4>. QED BY ONLY <1>3, <3>6, <4>1 DEF IsBatch
      <3>9. /\ at' + right_read' = m + n /\ at' \in 0..l /\ right_read' \in Nat
            /\ left_done => at' = l
            /\ right_read' # 0 => left_done /\ ReadsRight /\ right_read' <= s
        BY ONLY <1>3, <3>1, <3>2, <3>3
      <3>. QED BY ONLY <3>1, <3>7, <3>8, <3>9
    <2>. QED BY <2>1, <2>2
  <1>6. PICK keys, places :
          /\ IsBatch(m, n, keys) /\ places = [k \in 1..n |-> Place(m + k)] /\ Keep(keys, places)
          /\ plan' = plan /\ status' = status /\ left_done' = left_done
          /\ at' + right_read' = m + n
          /\ at' \in 0..l /\ right_read' \in Nat
          /\ left_done => at' = l
          /\ right_read' # 0 => left_done /\ ReadsRight /\ right_read' <= s
    BY ONLY <1>5
  <1>7. /\ out' = out \o Those(places, {places[k] : k \in Kept(keys)})
        /\ seen' = IF ReturnsEachOnce THEN seen \cup {keys[k] : k \in Kept(keys)} ELSE seen
        /\ counts' = CountedDown(keys)
    BY ONLY <1>6 DEF Keep
  <1>8. HasReturned(out', m + n)
    <2>1. HasReturned(out \o Those(places, {places[k] : k \in Kept(keys)}), m + n)
      BY <1>3, <1>4, <1>6, BatchOut DEF SetInv
    <2>. QED BY ONLY <1>7, <2>1
  <1>9. HasSeen(seen', m + n)
    <2>1. CASE ReturnsEachOnce
      <3>1. HasSeen(seen \cup {keys[k] : k \in Kept(keys)}, m + n)
        BY <1>3, <1>4, <1>6, <2>1, BatchSeen DEF SetInv
      <3>. QED BY ONLY <1>7, <2>1, <3>1
    <2>2. CASE ~ ReturnsEachOnce
      BY ONLY <2>2 DEF HasSeen
    <2>. QED BY ONLY <2>1, <2>2
  <1>10. HasCopies(counts', m + n)
    <2>1. HasCopies(CountedDown(keys), m + n)
      BY <1>3, <1>4, <1>6, BatchCounts DEF SetInv
    <2>. QED BY ONLY <1>7, <2>1
  <1>11. Counted'
    <2>1. SUFFICES ASSUME plan.kind = "set", plan.op # "union" PROVE counts' # NotCounted
      BY <1>6 DEF Counted, NotCounted
    <2>2. counts # NotCounted
      BY <1>4, <2>1 DEF Counted
    <2>3. DOMAIN counts' = DOMAIN counts
      BY ONLY <1>7 DEF CountedDown
    <2>4. <<>> \notin DOMAIN counts
      <3>1. DOMAIN counts = {HashKey(plan.right[h]) : h \in DOMAIN plan.right}
        BY <1>3, <2>1, <2>2 DEF HasCopies
      <3>2. ASSUME NEW h \in DOMAIN plan.right
            PROVE  HashKey(plan.right[h]) # <<>>
        <4>1. PICK g, len : g = l + h /\ len = Len(Given)
          OBVIOUS
        <4>2. /\ s \in Nat /\ len = l + s /\ plan.right \in Seq(Row)
              /\ \A o \in 1..s : Given[l + o] = plan.right[o]
          BY <1>1, <2>1, <4>1, SetPlan DEF SetInv
        <4>3. h \in 1..s
          BY <1>1, <4>2, LenProperties
        <4>4. g \in 1..len
          <5>1. g = l + h /\ l \in Nat /\ s \in Nat /\ len = l + s /\ h \in 1..s
            BY ONLY <1>3, <4>1, <4>2, <4>3
          <5>. QED BY ONLY <5>1
        <4>5. g \in 1..Len(Given) /\ Given[g] = plan.right[h]
          BY ONLY <4>1, <4>2, <4>3, <4>4
        <4>6. HashKey(Given[g]) # <<>>
          BY <4>5, KeysTell DEF SetInv
        <4>. QED BY ONLY <4>5, <4>6
      <3>. QED BY ONLY <3>1, <3>2
    <2>5. <<>> \in DOMAIN NotCounted
      BY DEF NotCounted
    <2>. QED BY ONLY <2>3, <2>4, <2>5
  <1>12. status # "done"
    <2>1. CASE LeftBatch(n)
      <3>1. at + n <= l
        BY <1>1, <2>1 DEF LeftBatch
      <3>2. n # 0 /\ at \in Nat
        BY <1>1, <1>3
      <3>3. status = "done" => at = l
        BY <1>1 DEF SetInv, SetRun, SetRead
      <3>. QED BY <1>3, <3>1, <3>2, <3>3
    <2>2. CASE RightBatch(n)
      <3>1. ReadsRight /\ r + n <= s
        BY <1>1, <2>2 DEF RightBatch
      <3>2. n # 0 /\ s \in Nat
        <4>1. plan.kind = "set"
          BY <3>1 DEF ReadsRight
        <4>. QED BY <1>1, <4>1, SetPlan DEF SetInv
      <3>3. status = "done" /\ ReadsRight => r = s
        BY <1>1 DEF SetInv, SetRun, SetRead
      <3>. QED BY <1>3, <3>1, <3>2, <3>3
    <2>. QED BY <2>1, <2>2
  <1>13. SetRead'
    <2>1. Len(plan.left)' = l /\ Len(plan.right)' = s /\ (ReadsRight' <=> ReadsRight)
      BY <1>1, <1>6 DEF ReadsRight
    <2>. QED BY ONLY <1>3, <1>6, <1>11, <1>12, <2>1 DEF SetRead
  <1>14. /\ HasReturned(out', at' + right_read') /\ HasSeen(seen', at' + right_read')
         /\ HasCopies(counts', at' + right_read')
    BY ONLY <1>6, <1>8, <1>9, <1>10
  <1>15. /\ HasReturned(out, at + right_read)' /\ HasSeen(seen, at + right_read)'
         /\ HasCopies(counts, at + right_read)'
    <2>1. plan' = plan
      BY ONLY <1>6
    <2>. QED BY <1>14, <2>1, PlanDecides
  <1>. QED BY ONLY <1>13, <1>15 DEF SetRun

\* The right input is counted before anything is read.
LEMMA RightCounted ==
  ASSUME SetInv, CountRight
  PROVE  SetRun'
  <1>1. /\ plan.kind = "set" /\ plan.op # "union" /\ counts = NotCounted
        /\ plan' = plan /\ out' = out /\ status' = status /\ at' = at
        /\ seen' = seen /\ left_done' = left_done /\ right_read' = right_read
    BY DEF CountRight, rowVars, operatorVars
  <1>2. PICK keys : /\ keys = [r \in DOMAIN plan.right |-> HashKey(plan.right[r])]
                    /\ counts' = [key \in Range(keys) |-> Copies(key, keys)]
    BY DEF CountRight, RightRowKey
  <1>3. /\ SetRead /\ HasReturned(out, at + right_read) /\ HasSeen(seen, at + right_read)
    BY <1>1 DEF SetInv, SetRun
  <1>4. at = 0 /\ right_read = 0
    <2>1. ~ Counted
      BY <1>1 DEF Counted
    <2>2. ~ ReadsRight
      BY <1>1 DEF ReadsRight
    <2>. QED BY ONLY <1>3, <2>1, <2>2 DEF SetRead
  <1>5. HasCopies(counts', 0)
    <2>1. \A key : key \in Range(keys) <=> \E r \in DOMAIN plan.right : key = HashKey(plan.right[r])
      BY ONLY <1>2 DEF Range
    <2>2. DOMAIN counts' = {HashKey(plan.right[r]) : r \in DOMAIN plan.right}
      BY ONLY <1>2, <2>1
    <2>3. ASSUME NEW r \in DOMAIN plan.right
          PROVE  counts'[HashKey(plan.right[r])] = Remaining(plan.right[r], 0)
      <3>1. PICK row : row = plan.right[r]
        OBVIOUS
      <3>2. counts'[HashKey(row)] = Copies(HashKey(row), keys)
        BY ONLY <1>2, <2>1, <2>3, <3>1
      <3>3. \A o \in DOMAIN plan.right : HashKey(plan.right[o]) = HashKey(row) <=> plan.right[o] = row
        <4>1. PICK l, s, len : l = Len(plan.left) /\ s = Len(plan.right) /\ len = Len(Given)
          OBVIOUS
        <4>2. /\ l \in Nat /\ s \in Nat /\ len = l + s /\ plan.right \in Seq(Row)
              /\ \A o \in 1..s : Given[l + o] = plan.right[o]
          BY <1>1, <4>1, SetPlan DEF SetInv
        <4>3. DOMAIN plan.right = 1..s
          BY <4>1, <4>2, LenProperties
        <4>4. \A o \in 1..s : l + o \in 1..len
          BY ONLY <4>2
        <4>5. \A g, h \in 1..len : HashKey(Given[g]) = HashKey(Given[h]) => Given[g] = Given[h]
          BY <1>1, <4>1, KeysTell DEF SetInv
        <4>6. SUFFICES ASSUME NEW o \in 1..s, HashKey(plan.right[o]) = HashKey(row)
                       PROVE  plan.right[o] = row
          BY <4>3
        <4>7. PICK g, h : g = l + o /\ h = l + r
          OBVIOUS
        <4>8. /\ g \in 1..len /\ h \in 1..len
              /\ Given[g] = plan.right[o] /\ Given[h] = plan.right[r]
          BY ONLY <2>3, <4>2, <4>3, <4>4, <4>6, <4>7
        <4>. QED BY ONLY <3>1, <4>5, <4>6, <4>8
      <3>4. Copies(HashKey(row), keys) = OnRight(row)
        <4>1. DOMAIN keys = DOMAIN plan.right /\ \A o \in DOMAIN plan.right : keys[o] = HashKey(plan.right[o])
          BY ONLY <1>2
        <4>2. {o \in DOMAIN keys : keys[o] = HashKey(row)} = {o \in DOMAIN plan.right : plan.right[o] = row}
          BY ONLY <3>3, <4>1
        <4>. QED BY ONLY <4>2 DEF Copies, OnRight
      <3>5. Remaining(row, 0) = OnRight(row)
        <4>1. Among(Given, 0, row) = {}
          BY DEF Among
        <4>2. Cardinality(Among(Given, 0, row)) = 0
          BY <4>1, FS_EmptySet
        <4>3. OnRight(row) \in Nat
          BY <1>1, RightCount DEF SetInv
        <4>. QED BY ONLY <4>2, <4>3 DEF Remaining
      <3>. QED BY ONLY <3>1, <3>2, <3>4, <3>5
    <2>. QED BY ONLY <2>2, <2>3 DEF HasCopies
  <1>6. SetRead'
    BY ONLY <1>1, <1>3, <1>4 DEF SetRead, ReadsRight
  <1>7. at' + right_read' = at + right_read /\ at + right_read = 0
    BY ONLY <1>1, <1>4
  <1>8. /\ HasReturned(out', at' + right_read') /\ HasSeen(seen', at' + right_read')
        /\ HasCopies(counts', at' + right_read')
    BY ONLY <1>1, <1>3, <1>5, <1>7
  <1>9. /\ HasReturned(out, at + right_read)' /\ HasSeen(seen, at + right_read)'
        /\ HasCopies(counts, at + right_read)'
    BY <1>1, <1>8, PlanDecides
  <1>. QED BY ONLY <1>6, <1>9 DEF SetRun

\* What does not read leaves what was returned.
LEMMA NothingRead ==
  ASSUME SetInv, plan.kind \in {"distinct", "set"},
         UNCHANGED <<plan, out, at, seen, counts, right_read>>,
         left_done' => plan.kind = "set" /\ at = Len(plan.left),
         left_done => left_done',
         status' = "done" =>
           at = Len(plan.left) /\ (ReadsRight => right_read = Len(plan.right))
  PROVE  SetRun'
  <1>1. /\ SetRead /\ HasReturned(out, at + right_read) /\ HasSeen(seen, at + right_read)
        /\ HasCopies(counts, at + right_read)
    BY DEF SetInv, SetRun
  <1>2. /\ plan' = plan /\ out' = out /\ at' = at /\ seen' = seen /\ counts' = counts
        /\ right_read' = right_read
    OBVIOUS
  <1>3. Counted' <=> Counted
    BY <1>2 DEF Counted, NotCounted
  <1>4. SetRead'
    BY <1>1, <1>2, <1>3 DEF SetRead, ReadsRight
  <1>5. /\ HasReturned(out', at' + right_read') /\ HasSeen(seen', at' + right_read')
        /\ HasCopies(counts', at' + right_read')
    BY ONLY <1>1, <1>2
  <1>6. /\ HasReturned(out, at + right_read)' /\ HasSeen(seen, at + right_read)'
        /\ HasCopies(counts, at + right_read)'
    BY <1>2, <1>5, PlanDecides
  <1>. QED BY ONLY <1>4, <1>6 DEF SetRun

LEMMA SetKept ==
  ASSUME SetInv, [Next]_vars
  PROVE  SetInv'
  <1>1. plan' = plan
    BY HeapSteps
  <1>2. PlanGiven'
    BY <1>1 DEF SetInv, PlanGiven
  <1>3. SUFFICES ASSUME plan.kind \in {"distinct", "set"} PROVE SetRun'
    BY <1>1, <1>2 DEF SetInv, SetRun
  <1>4. SetRead
    BY <1>3 DEF SetInv, SetRun
  <1>5. CASE UNCHANGED <<plan, out, rowVars, setVars>> /\ status' \in {status, "failed"}
    <2>1. /\ UNCHANGED <<plan, out, at, seen, counts, right_read>> /\ left_done' = left_done
          /\ status' \in {status, "failed"}
      BY <1>5 DEF rowVars, setVars
    <2>. QED BY <1>3, <1>4, <2>1, NothingRead DEF SetRead
  <1>6. CASE SetStep
    <2>1. CASE CountRight
      BY <2>1, RightCounted
    <2>2. ASSUME NEW n \in 1..BatchSize, LeftBatch(n) \/ RightBatch(n)
          PROVE  SetRun'
      BY <1>3, <2>2, BatchTaken
    <2>3. CASE LeftEnd
      <3>1. /\ UNCHANGED <<plan, out, at, seen, counts, right_read>> /\ status' = status
            /\ plan.kind = "set" /\ at = Len(plan.left) /\ left_done'
        BY <2>3 DEF LeftEnd, rowVars, operatorVars
      <3>. QED BY <1>3, <1>4, <3>1, NothingRead DEF SetRead
    <2>4. CASE SetEnd
      <3>1. /\ UNCHANGED <<plan, out, at, seen, counts, right_read>> /\ left_done' = left_done
            /\ at = Len(plan.left) /\ (ReadsRight => right_read = Len(plan.right))
        BY <1>4, <2>4 DEF SetEnd, SetRead, rowVars, setVars, ReadsRight
      <3>. QED BY <1>3, <1>4, <3>1, NothingRead DEF SetRead
    <2>. QED BY <1>6, <2>1, <2>2, <2>3, <2>4 DEF SetStep
  <1>. QED BY <1>3, <1>5, <1>6, SetSteps

\* The copies of a row that are owed, of those read.
OwedCopies(row, m) == {g \in Among(Given, m, row) : Owed(g)}

\* One of them, where each row is returned once.
LEMMA OneIsFirst ==
  ASSUME NEW row, NEW m \in Nat
  PROVE  Cardinality({g \in Among(Given, m, row) : IsFirst(g)})
           = Lesser(Cardinality(Among(Given, m, row)), 1)
  <1>1. PICK P, W : P = Among(Given, m, row) /\ W = {g \in P : IsFirst(g)}
    OBVIOUS
  <1>2. IsFiniteSet(P) /\ Cardinality(P) \in Nat
    BY <1>1, MoreAmong
  <1>3. \A g : g \in P <=> g \in 1..m /\ Given[g] = row
    BY ONLY <1>1 DEF Among
  <1>4. CASE P = {}
    <2>1. W = {} /\ Cardinality(P) = 0 /\ Cardinality(W) = 0
      BY <1>1, <1>4, FS_EmptySet
    <2>. QED BY <1>1, <2>1 DEF Lesser
  <1>5. CASE P # {}
    <2>1. P \in SUBSET Nat
      BY ONLY <1>3
    <2>2. PICK g \in P : \A o \in P : g <= o
      BY <1>5, <2>1, Least
    <2>3. IsFirst(g)
      <3>1. SUFFICES ASSUME NEW h \in 1..g - 1, Given[h] = row PROVE FALSE
        BY <1>3, <2>2 DEF IsFirst
      <3>2. h \in P /\ ~ (g <= h)
        <4>1. g \in 1..m
          BY ONLY <1>3, <2>2
        <4>2. h \in 1..m /\ ~ (g <= h)
          BY ONLY <3>1, <4>1
        <4>. QED BY <1>3, <3>1, <4>2
      <3>. QED BY <2>2, <3>2
    <2>4. ASSUME NEW h \in P, IsFirst(h)
          PROVE  h = g
      <3>1. g \in Nat /\ h \in Nat /\ g # 0 /\ g <= h
        BY <1>3, <2>2, <2>4
      <3>2. g \in 1..h - 1 => Given[g] # Given[h]
        BY <2>4 DEF IsFirst
      <3>3. Given[g] = Given[h]
        BY ONLY <1>3, <2>2, <2>4
      <3>4. ~ (g \in 1..h - 1)
        BY ONLY <3>2, <3>3
      <3>. QED BY ONLY <3>1, <3>4
    <2>5. W = {g}
      BY ONLY <1>1, <2>2, <2>3, <2>4
    <2>6. Cardinality(W) = 1
      BY <2>5, FS_Singleton
    <2>7. Cardinality(P) # 0
      BY <1>2, <1>5, FS_EmptySet
    <2>8. Lesser(Cardinality(P), 1) = 1
      BY ONLY <1>2, <2>7 DEF Lesser
    <2>. QED BY ONLY <1>1, <2>6, <2>8
  <1>. QED BY <1>4, <1>5

\* As many as the right input has copies of, where these are matched one for one.
LEMMA FirstOfThem ==
  ASSUME NEW row, NEW m \in Nat, NEW r \in Nat
  PROVE  /\ Cardinality({g \in Among(Given, m, row) : Nth(g) <= r})
              = Lesser(Cardinality(Among(Given, m, row)), r)
         /\ Cardinality({g \in Among(Given, m, row) : Nth(g) > r})
              = Cardinality(Among(Given, m, row)) - Lesser(Cardinality(Among(Given, m, row)), r)
  <1>1. PICK P, V, W : /\ P = Among(Given, m, row) /\ V = {g \in P : Nth(g) <= r}
                       /\ W = {g \in P : Nth(g) > r}
    OBVIOUS
  <1>2. IsFiniteSet(P) /\ Cardinality(P) \in Nat /\ P \in SUBSET (1..m)
    <2>1. IsFiniteSet(P) /\ Cardinality(P) \in Nat
      BY <1>1, MoreAmong
    <2>2. P \in SUBSET (1..m)
      BY ONLY <1>1 DEF Among
    <2>. QED BY ONLY <2>1, <2>2
  <1>3. \A g : g \in P <=> g \in 1..m /\ Given[g] = row
    BY ONLY <1>1 DEF Among
  <1>4. ASSUME NEW g \in P
        PROVE  Nth(g) = Cardinality({j \in P : j <= g}) /\ Nth(g) \in Nat
    <2>1. g \in 1..m /\ Given[g] = row
      BY ONLY <1>3, <1>4
    <2>2. \A j : j \in 1..g <=> j \in 1..m /\ j <= g
      BY ONLY <2>1
    <2>3. Among(Given, g, row) = {j \in P : j <= g}
      BY ONLY <1>3, <2>2 DEF Among
    <2>4. Cardinality(Among(Given, g, row)) \in Nat
      <3>1. g \in Nat
        BY <2>1
      <3>. QED BY ONLY <3>1, MoreAmong
    <2>. QED BY ONLY <2>1, <2>3, <2>4 DEF Nth
  <1>5. Cardinality(V) = Lesser(Cardinality(P), r)
    <2>1. V = {g \in P : Cardinality({j \in P : j <= g}) <= r}
      BY ONLY <1>1, <1>4
    <2>2. Cardinality({g \in P : Cardinality({j \in P : j <= g}) <= r}) = Lesser(Cardinality(P), r)
      BY <1>2, Ranked
    <2>. QED BY ONLY <2>1, <2>2
  <1>6. Cardinality(P) = Cardinality(V) + Cardinality(W) /\ Cardinality(W) \in Nat
    <2>1. IsFiniteSet(V) /\ IsFiniteSet(W)
      BY <1>1, <1>2, FS_Subset
    <2>2. V \cap W = {} /\ V \cup W = P
      <3>1. \A g \in P : Nth(g) > r <=> ~ (Nth(g) <= r)
        <4>1. \A g \in P : Nth(g) \in Nat
          BY ONLY <1>4
        <4>. QED BY ONLY <4>1, r \in Nat
      <3>. QED BY ONLY <1>1, <3>1
    <2>. QED BY <2>1, <2>2, Added, FS_CardinalityType
  <1>7. Lesser(Cardinality(P), r) \in Nat
    BY <1>2 DEF Lesser
  <1>8. Cardinality(W) = Cardinality(P) - Lesser(Cardinality(P), r)
    BY ONLY <1>2, <1>5, <1>6, <1>7
  <1>. QED BY ONLY <1>1, <1>5, <1>8

\* Each of them is in what was returned.
LEMMA CopiesReturned ==
  ASSUME PlanGiven, plan.kind \in {"distinct", "set"}, NEW row,
         NEW m \in Nat, m <= Len(Given), HasReturned(out, m)
  PROVE  Copies(row, [i \in DOMAIN out |-> RowOf(out[i])]) = Cardinality(OwedCopies(row, m))
  <1>1. PICK I, W, f, len, size :
          /\ I = {i \in DOMAIN out : RowOf(out[i]) = row} /\ W = OwedCopies(row, m)
          /\ f = [g \in W |-> Place(g)] /\ len = Len(Given) /\ size = Len(out)
    OBVIOUS
  <1>2. /\ out \in Seq(Nat \X Nat) /\ EachOnce(out) /\ size \in Nat /\ DOMAIN out = 1..size
        /\ ToSet(out) = {Place(g) : g \in {h \in 1..m : Owed(h)}}
    BY <1>1, LenProperties DEF HasReturned
  <1>3. Copies(row, [i \in DOMAIN out |-> RowOf(out[i])]) = Cardinality(I)
    <2>1. PICK s : s = [i \in DOMAIN out |-> RowOf(out[i])]
      OBVIOUS
    <2>2. DOMAIN s = DOMAIN out /\ \A i \in DOMAIN out : s[i] = RowOf(out[i])
      BY ONLY <2>1
    <2>3. {i \in DOMAIN s : s[i] = row} = I
      BY ONLY <1>1, <2>2
    <2>. QED BY ONLY <2>1, <2>3 DEF Copies
  <1>4. \A h \in 1..m : h \in 1..len
    <2>1. len \in Nat /\ m <= len
      BY <1>1, SetPlan
    <2>. QED BY ONLY <2>1, m \in Nat
  <1>5. /\ \A g, h \in 1..len : Place(g) = Place(h) => g = h
        /\ \A g \in 1..len : RowOf(Place(g)) = Given[g]
    BY <1>1, PlacesTell
  <1>6. \A g : g \in W <=> g \in 1..m /\ Given[g] = row /\ Owed(g)
    BY ONLY <1>1 DEF OwedCopies, Among
  <1>7. IsFiniteSet(I) /\ IsFiniteSet(W)
    <2>1. IsFiniteSet(1..size) /\ IsFiniteSet(1..m)
      BY <1>2, FS_Interval
    <2>2. I \in SUBSET (1..size) /\ W \in SUBSET (1..m)
      BY ONLY <1>1, <1>2, <1>6
    <2>. QED BY <2>1, <2>2, FS_Subset
  <1>8. Cardinality({out[i] : i \in I}) = Cardinality(I)
    <2>1. \A i, k \in 1..size : out[i] = out[k] => i = k
      BY <1>1, <1>2 DEF EachOnce
    <2>2. \A i, k \in I : out[i] = out[k] => i = k
      BY ONLY <1>1, <1>2, <2>1
    <2>. QED BY <1>7, <2>2, Renamed
  <1>9. Cardinality({f[g] : g \in W}) = Cardinality(W)
    <2>1. \A g, h \in W : f[g] = f[h] => g = h
      BY ONLY <1>1, <1>4, <1>5, <1>6
    <2>. QED BY <1>7, <2>1, Renamed
  <1>10. {out[i] : i \in I} = {f[g] : g \in W}
    <2>1. \A x : x \in ToSet(out) <=> \E i \in 1..size : x = out[i]
      BY ONLY <1>2 DEF ToSet
    <2>2. \A x : x \in ToSet(out) <=> \E g \in 1..m : Owed(g) /\ x = Place(g)
      BY ONLY <1>2
    <2>3. ASSUME NEW i \in I
          PROVE  out[i] \in {f[g] : g \in W}
      <3>1. i \in 1..size /\ RowOf(out[i]) = row
        BY ONLY <1>1, <1>2, <2>3
      <3>2. PICK g \in 1..m : Owed(g) /\ out[i] = Place(g)
        BY ONLY <2>1, <2>2, <3>1
      <3>3. Given[g] = row
        BY ONLY <1>4, <1>5, <3>1, <3>2
      <3>4. g \in W
        BY ONLY <1>6, <3>2, <3>3
      <3>5. f[g] = out[i]
        BY ONLY <1>1, <3>2, <3>4
      <3>. QED BY ONLY <3>4, <3>5
    <2>4. ASSUME NEW g \in W
          PROVE  f[g] \in {out[i] : i \in I}
      <3>1. g \in 1..m /\ Given[g] = row /\ Owed(g) /\ f[g] = Place(g)
        BY ONLY <1>1, <1>6, <2>4
      <3>2. PICK i \in 1..size : Place(g) = out[i]
        BY ONLY <2>1, <2>2, <3>1
      <3>3. RowOf(out[i]) = row
        BY ONLY <1>4, <1>5, <3>1, <3>2
      <3>4. i \in I
        BY ONLY <1>1, <1>2, <3>3
      <3>. QED BY ONLY <3>1, <3>2, <3>4
    <2>. QED BY ONLY <2>3, <2>4
  <1>. QED BY ONLY <1>1, <1>3, <1>8, <1>9, <1>10

\* The copies of a row in the first rows of an input.
LEMMA CopiesRead ==
  ASSUME NEW s \in Seq(Row), NEW n \in 0..Len(s), NEW row
  PROVE  Copies(row, SubSeq(s, 1, n)) = Cardinality({i \in 1..n : s[i] = row})
  <1>1. PICK t, l : t = SubSeq(s, 1, n) /\ l = Len(s)
    OBVIOUS
  <1>2. l \in Nat /\ DOMAIN s = 1..l /\ s \in [1..l -> Row] /\ n \in Nat /\ n <= l
    BY <1>1, LenProperties
  <1>3. DOMAIN t = 1..n /\ \A i \in 1..n : t[i] = s[i]
    BY ONLY <1>1, <1>2 DEF SubSeq
  <1>4. {i \in DOMAIN t : t[i] = row} = {i \in 1..n : s[i] = row}
    BY ONLY <1>3
  <1>. QED BY ONLY <1>1, <1>4 DEF Copies

\* What is owed of a row is what the operation asks for, by the copies read.
LEMMA AsManyAsWanted ==
  ASSUME PlanGiven, plan.kind \in {"distinct", "set"}, NEW row, NEW m \in Nat, NEW l \in Nat,
         ~ (plan.kind = "set" /\ plan.op = "union") => Cardinality(Among(Given, m, row)) = l,
         NEW r \in Nat,
         plan.kind = "set" /\ plan.op = "union" => Cardinality(Among(Given, m, row)) = l + r,
         plan.kind = "set" /\ plan.op # "union" => r = OnRight(row)
  PROVE  Cardinality(OwedCopies(row, m)) = Wanted(l, r)
  <1>1. PICK P, c, W, w : /\ P = Among(Given, m, row) /\ c = Cardinality(P)
                          /\ W = OwedCopies(row, m) /\ w = Cardinality(W)
    OBVIOUS
  <1>2. c \in Nat /\ \A g \in P : Given[g] = row
    <2>1. c \in Nat
      BY <1>1, MoreAmong
    <2>2. \A g \in P : Given[g] = row
      BY ONLY <1>1 DEF Among
    <2>. QED BY ONLY <2>1, <2>2
  <1>3. /\ plan.kind = "set" => /\ plan.op \in {"union", "intersect", "except"}
                                /\ plan.all \in BOOLEAN
    BY SetPlan
  <1>4. CASE ReturnsEachOnce
    <2>1. W = {g \in P : May(row) /\ IsFirst(g)}
      BY ONLY <1>1, <1>2, <1>4 DEF OwedCopies, Owed
    <2>2. w = IF May(row) THEN Lesser(c, 1) ELSE 0
      <3>1. CASE May(row)
        <4>1. W = {g \in P : IsFirst(g)}
          BY ONLY <2>1, <3>1
        <4>. QED BY <1>1, <3>1, <4>1, OneIsFirst
      <3>2. CASE ~ May(row)
        <4>1. W = {}
          BY ONLY <2>1, <3>2
        <4>. QED BY <1>1, <3>2, <4>1, FS_EmptySet
      <3>. QED BY <3>1, <3>2
    <2>3. CASE plan.kind = "distinct"
      <3>1. c = l /\ May(row)
        BY <1>1, <2>3 DEF May
      <3>. QED BY ONLY <1>1, <2>2, <2>3, <3>1 DEF Wanted
    <2>4. CASE plan.kind # "distinct"
      <3>1. plan.kind = "set" /\ ~ plan.all
        BY <1>4, <2>4 DEF ReturnsEachOnce
      <3>2. CASE plan.op = "union"
        <4>1. c = l + r /\ May(row)
          BY <1>1, <3>1, <3>2 DEF May
        <4>. QED BY ONLY <1>1, <2>2, <2>4, <3>1, <3>2, <4>1 DEF Wanted
      <3>3. CASE plan.op = "intersect"
        <4>1. c = l /\ r = OnRight(row)
          BY <1>1, <3>1, <3>3
        <4>2. May(row) <=> r > 0
          BY ONLY <3>1, <3>3, <4>1 DEF May
        <4>3. Wanted(l, r) = Lesser(Lesser(l, r), 1)
          BY ONLY <2>4, <3>1, <3>3 DEF Wanted
        <4>4. (IF r > 0 THEN Lesser(l, 1) ELSE 0) = Lesser(Lesser(l, r), 1)
          BY DEF Lesser
        <4>. QED BY ONLY <1>1, <2>2, <4>1, <4>2, <4>3, <4>4
      <3>4. CASE plan.op = "except"
        <4>1. c = l /\ r = OnRight(row)
          BY <1>1, <3>1, <3>4
        <4>2. May(row) <=> r = 0
          BY ONLY <3>1, <3>4, <4>1 DEF May
        <4>3. Wanted(l, r) = Lesser(IF r = 0 THEN l ELSE 0, 1)
          BY ONLY <2>4, <3>1, <3>4 DEF Wanted
        <4>4. (IF r = 0 THEN Lesser(l, 1) ELSE 0) = Lesser(IF r = 0 THEN l ELSE 0, 1)
          BY DEF Lesser
        <4>. QED BY ONLY <1>1, <2>2, <4>1, <4>2, <4>3, <4>4
      <3>. QED BY <1>3, <3>1, <3>2, <3>3, <3>4
    <2>. QED BY <2>3, <2>4
  <1>5. CASE ~ ReturnsEachOnce
    <2>1. plan.kind = "set" /\ plan.all /\ plan.kind # "distinct"
      BY <1>5 DEF ReturnsEachOnce
    <2>2. CASE plan.op = "union"
      <3>1. W = P
        BY ONLY <1>1, <1>5, <2>2 DEF OwedCopies, Owed
      <3>2. c = l + r
        BY <1>1, <2>1, <2>2
      <3>. QED BY ONLY <1>1, <2>1, <2>2, <3>1, <3>2 DEF Wanted
    <2>3. CASE plan.op = "intersect"
      <3>1. c = l /\ r = OnRight(row)
        BY <1>1, <2>1, <2>3
      <3>2. W = {g \in P : Nth(g) <= r}
        BY ONLY <1>1, <1>2, <1>5, <2>3, <3>1 DEF OwedCopies, Owed
      <3>3. w = Lesser(c, r)
        BY <1>1, <3>2, FirstOfThem
      <3>. QED BY ONLY <1>1, <2>1, <2>3, <3>1, <3>3 DEF Wanted
    <2>4. CASE plan.op = "except"
      <3>1. c = l /\ r = OnRight(row)
        BY <1>1, <2>1, <2>4
      <3>2. W = {g \in P : Nth(g) > r}
        BY ONLY <1>1, <1>2, <1>5, <2>4, <3>1 DEF OwedCopies, Owed
      <3>3. w = c - Lesser(c, r)
        BY <1>1, <3>2, FirstOfThem
      <3>4. Wanted(l, r) = IF l > r THEN l - r ELSE 0
        BY ONLY <2>1, <2>4 DEF Wanted
      <3>5. c - Lesser(c, r) = IF c > r THEN c - r ELSE 0
        BY <1>2 DEF Lesser
      <3>. QED BY ONLY <1>1, <3>1, <3>3, <3>4, <3>5
    <2>. QED BY <1>3, <2>1, <2>2, <2>3, <2>4
  <1>. QED BY <1>4, <1>5

\* So a set operation returns of each row as many copies as it owes.
LEMMA SetAnswered ==
  ASSUME SetInv, plan.kind \in {"distinct", "set"}
  PROVE  SetStreamsTheAnswer
  <1>1. PICK m, i, rr, size : m = at + right_read /\ i = at /\ rr = right_read /\ size = Len(plan.left)
    OBVIOUS
  <1>2. /\ PlanGiven /\ SetRead /\ HasReturned(out, m)
    BY <1>1 DEF SetInv, SetRun
  <1>3. /\ size \in Nat /\ plan.left \in Seq(Row) /\ i \in 0..size /\ rr \in Nat /\ m \in Nat
        /\ rr # 0 => ReadsRight /\ i = size /\ rr <= Len(plan.right)
    <2>1. size \in Nat /\ plan.left \in Seq(Row)
      BY <1>1, <1>2, SetPlan
    <2>. QED BY ONLY <1>1, <1>2, <2>1 DEF SetRead
  <1>4. /\ size <= Len(Given) /\ \A h \in 1..size : Given[h] = plan.left[h]
        /\ plan.kind = "set" => /\ plan.right \in Seq(Row) /\ Len(plan.right) \in Nat
                                /\ Len(Given) = size + Len(plan.right)
                                /\ \A h \in 1..Len(plan.right) : Given[size + h] = plan.right[h]
    BY <1>1, <1>2, SetPlan
  <1>5. m <= Len(Given)
    <2>1. CASE rr = 0
      <3>1. PICK len : len = Len(Given)
        OBVIOUS
      <3>2. len \in Nat
        BY <1>2, <3>1, SetPlan
      <3>. QED BY ONLY <1>1, <1>3, <1>4, <2>1, <3>1, <3>2
    <2>2. CASE rr # 0
      <3>1. plan.kind = "set"
        BY <1>3, <2>2 DEF ReadsRight
      <3>2. PICK len, s : len = Len(Given) /\ s = Len(plan.right)
        OBVIOUS
      <3>3. s \in Nat /\ len = size + s /\ size \in Nat /\ i = size /\ rr \in Nat /\ rr <= s
        BY ONLY <1>3, <1>4, <2>2, <3>1, <3>2
      <3>4. m = i + rr
        BY ONLY <1>1
      <3>5. m <= len
        BY ONLY <3>3, <3>4
      <3>. QED BY ONLY <3>2, <3>5
    <2>. QED BY <2>1, <2>2
  <1>6. PICK left_rows, right_rows, returned :
          /\ left_rows = SubSeq(plan.left, 1, at)
          /\ right_rows = IF plan.kind = "distinct" THEN <<>>
                          ELSE IF plan.op = "union" THEN SubSeq(plan.right, 1, right_read)
                          ELSE plan.right
          /\ returned = [k \in DOMAIN out |-> RowOf(out[k])]
    OBVIOUS
  <1>7. ASSUME NEW row
        PROVE  Copies(row, returned) = Wanted(Copies(row, left_rows), Copies(row, right_rows))
    <2>1. Copies(row, returned) = Cardinality(OwedCopies(row, m))
      BY <1>2, <1>3, <1>5, <1>6, CopiesReturned
    <2>2. PICK l, r : l = Copies(row, left_rows) /\ r = Copies(row, right_rows)
      OBVIOUS
    <2>3. l = Cardinality(Among(Given, i, row)) /\ l \in Nat
      <3>1. l = Cardinality({h \in 1..i : plan.left[h] = row})
        BY <1>1, <1>3, <1>6, <2>2, CopiesRead
      <3>2. \A h \in 1..i : Given[h] = plan.left[h]
        BY ONLY <1>3, <1>4
      <3>3. {h \in 1..i : plan.left[h] = row} = Among(Given, i, row)
        BY ONLY <3>2 DEF Among
      <3>4. i \in Nat
        BY ONLY <1>3
      <3>5. Cardinality(Among(Given, i, row)) \in Nat
        BY ONLY <3>4, MoreAmong
      <3>. QED BY ONLY <3>1, <3>3, <3>5
    <2>4. CASE plan.kind = "distinct"
      <3>1. r = 0
        <4>1. right_rows = <<>>
          BY ONLY <1>6, <2>4
        <4>2. {h \in DOMAIN right_rows : right_rows[h] = row} = {}
          BY ONLY <4>1
        <4>. QED BY <2>2, <4>2, FS_EmptySet DEF Copies
      <3>2. m = i
        <4>1. rr = 0
          BY <1>3, <2>4 DEF ReadsRight
        <4>. QED BY ONLY <1>1, <1>3, <4>1
      <3>. QED BY <1>2, <1>3, <2>1, <2>2, <2>3, <2>4, <3>1, <3>2, AsManyAsWanted
    <2>5. CASE plan.kind = "set" /\ plan.op = "union"
      <3>1. rr \in 0..Len(plan.right)
        BY ONLY <1>3, <1>4, <2>5
      <3>2. r = Cardinality({h \in 1..rr : plan.right[h] = row})
        <4>1. right_rows = SubSeq(plan.right, 1, rr)
          BY <1>1, <1>6, <2>5
        <4>2. plan.right \in Seq(Row)
          BY ONLY <1>4, <2>5
        <4>. QED BY <2>2, <3>1, <4>1, <4>2, CopiesRead
      <3>3. {h \in 1..rr : plan.right[h] = row} = Further(Given, i, rr, row)
        <4>1. \A h \in 1..rr : Given[i + h] = plan.right[h]
          <5>1. SUFFICES ASSUME NEW h \in 1..rr PROVE Given[i + h] = plan.right[h]
            OBVIOUS
          <5>2. i = size /\ h \in 1..Len(plan.right)
            BY ONLY <1>3, <3>1, <5>1
          <5>. QED BY ONLY <1>4, <2>5, <5>2
        <4>. QED BY ONLY <4>1 DEF Further
      <3>4. /\ Cardinality(Further(Given, i, rr, row)) \in Nat
            /\ Cardinality(Among(Given, i + rr, row))
                 = Cardinality(Among(Given, i, row)) + Cardinality(Further(Given, i, rr, row))
        <4>1. i \in Nat /\ rr \in Nat
          BY ONLY <1>3
        <4>. QED BY ONLY <4>1, MoreAmong
      <3>5. r \in Nat /\ Cardinality(Among(Given, m, row)) = l + r
        BY ONLY <1>1, <2>3, <3>2, <3>3, <3>4
      <3>. QED BY <1>2, <1>3, <2>1, <2>2, <2>3, <2>5, <3>5, AsManyAsWanted
    <2>6. CASE plan.kind = "set" /\ plan.op # "union"
      <3>1. r = OnRight(row) /\ r \in Nat
        <4>1. right_rows = plan.right
          BY ONLY <1>6, <2>6
        <4>2. OnRight(row) \in Nat
          BY <1>2, <2>6, RightCount
        <4>. QED BY ONLY <2>2, <4>1, <4>2 DEF Copies, OnRight
      <3>2. m = i
        <4>1. rr = 0
          BY <1>3, <2>6 DEF ReadsRight
        <4>. QED BY ONLY <1>1, <1>3, <4>1
      <3>. QED BY <1>2, <1>3, <2>1, <2>2, <2>3, <2>6, <3>1, <3>2, AsManyAsWanted
    <2>. QED BY <2>4, <2>5, <2>6
  <1>8. Cardinality(ToSet(out)) = Len(out)
    BY <1>2, NoneTwice DEF HasReturned, EachOnce
  <1>9. status = "done" => at = Len(plan.left) /\ (ReadsRight => right_read = Len(plan.right))
    BY ONLY <1>2 DEF SetRead
  <1>. QED BY ONLY <1>6, <1>7, <1>8, <1>9 DEF SetStreamsTheAnswer

\* Of each row a DISTINCT and a set operation have returned, at any time, as many
\* copies as they owe for what they have read.
THEOREM SetOperationsCount == Spec => []SetStreamsTheAnswer
  <1>1. SetInv => SetStreamsTheAnswer
    <2>1. ASSUME plan.kind \notin {"distinct", "set"}
          PROVE  SetStreamsTheAnswer
      BY <2>1 DEF SetStreamsTheAnswer
    <2>. QED BY <2>1, SetAnswered
  <1>. QED BY <1>1, SetFirst, SetKept, PTL DEF Spec
================================================================================
