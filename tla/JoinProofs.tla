------------------------------ MODULE JoinProofs ------------------------------
(***************************************************************************)
(* Proofs about the joins, for every plan and every size of a batch: the   *)
(* hash join, the nested loop and the merge join return the same rows, and *)
(* those are the rows SQL wants.                                           *)
(***************************************************************************)
EXTENDS OperatorProofs

-----------------------------------------------------------------------------
(* How the keys of a join compare.                                         *)

\* The parts of a key, each ascending with NULLs first.
ByParts(n) == sorted_on([i \in 1..n |-> i])

\* Keys of n parts none of which is NaN.
PlainKey(n) == [1..n -> Datum \ {NaN}]

\* Comparing keys part by part is comparing them as rows sorted on every column.
LEMMA PartsAsRows ==
  ASSUME NEW n \in Nat, NEW a \in PlainKey(n), NEW b \in PlainKey(n)
  PROVE  /\ ByParts(n) \in Seq(OrderKey) /\ HasKeys(a, ByParts(n)) /\ HasKeys(b, ByParts(n))
         /\ compare(a, b) = compare_rows(a, b, ByParts(n))
  <1>1. PICK specs : specs = ByParts(n)
    OBVIOUS
  <1>2. specs = [i \in 1..n |-> [column |-> i, ascending |-> TRUE, nulls_first |-> TRUE]]
    BY <1>1 DEF ByParts, sorted_on
  <1>3. specs \in Seq(OrderKey)
    <2>1. specs \in [1..n -> OrderKey]
      BY <1>2 DEF OrderKey
    <2>. QED BY <2>1, IsASeq
  <1>4. DOMAIN specs = 1..n /\ \A i \in 1..n : specs[i].column = i /\ specs[i].ascending /\ specs[i].nulls_first = TRUE
    BY <1>2
  <1>5. HasKeys(a, specs) /\ HasKeys(b, specs)
    BY <1>4 DEF HasKeys, PlainKey
  <1>6. ASSUME NEW i \in 1..n
        PROVE  CompareParts(a[i], b[i]) = CompareKey(a[specs[i].column], b[specs[i].column], specs[i])
    <2>1. PICK x, y, spec : x = a[i] /\ y = b[i] /\ spec = specs[i]
      OBVIOUS
    <2>2. x \in Datum \ {NaN} /\ y \in Datum \ {NaN} /\ spec.column = i /\ spec.ascending /\ spec.nulls_first = TRUE
      BY <1>4, <2>1 DEF PlainKey
    <2>3. ASSUME NULL \in {x, y}
          PROVE  CompareParts(x, y) = CompareKey(x, y, spec)
      BY <2>2, <2>3 DEF CompareParts, CompareKey
    <2>4. ASSUME NULL \notin {x, y}
          PROVE  CompareParts(x, y) = CompareKey(x, y, spec)
      <3>1. Compare(x, y) # "none"
        BY <2>2, <2>4 DEF Compare
      <3>2. CompareParts(x, y) = Compare(x, y)
        BY <2>4, <3>1 DEF CompareParts
      <3>3. CompareKey(x, y, spec) = Compare(x, y)
        BY <2>2, <2>4 DEF CompareKey, compare_values
      <3>. QED BY <3>2, <3>3
    <2>5. CompareParts(x, y) = CompareKey(x, y, spec)
      BY <2>3, <2>4
    <2>. QED BY <2>1, <2>2, <2>5
  <1>7. DOMAIN a = 1..n
    BY DEF PlainKey
  <1>8. compare(a, b) = compare_rows(a, b, specs)
    BY <1>4, <1>6, <1>7 DEF compare, compare_rows
  <1>. QED BY <1>1, <1>3, <1>5, <1>8

\* Two values tie under a key only if they are the same.
LEMMA TieIsSame ==
  ASSUME NEW x \in Datum, NEW y \in Datum, NEW spec \in OrderKey
  PROVE  CompareKey(x, y, spec) = "equal" <=> x = y
  <1>1. CASE NULL \in {x, y}
    BY <1>1 DEF CompareKey
  <1>2. CASE NULL \notin {x, y}
    <2>1. compare_values(x, y) = "equal" <=> x = y
      <3>1. CASE NaN \in {x, y}
        BY <3>1 DEF compare_values
      <3>2. CASE NaN \notin {x, y}
        <4>1. x \in Int /\ y \in Int
          BY <1>2, <3>2, ValuesAssumption DEF Datum
        <4>2. compare_values(x, y) = IF x < y THEN "less" ELSE IF x = y THEN "equal" ELSE "greater"
          BY <1>2, <3>2 DEF compare_values, Compare
        <4>. QED BY <4>1, <4>2
      <3>. QED BY <3>1, <3>2
    <2>2. compare_values(x, y) \in Ordering
      BY <1>2, Reverses
    <2>. QED BY <1>2, <2>1, <2>2 DEF CompareKey, reverse, Ordering
  <1>. QED BY <1>1, <1>2

\* Two rows tie only if they are the same in every column they are sorted on.
LEMMA RowTieIsSame ==
  ASSUME NEW specs \in Seq(OrderKey), NEW x, NEW y, HasKeys(x, specs), HasKeys(y, specs)
  PROVE  compare_rows(x, y, specs) = "equal"
           <=> \A k \in 1..Len(specs) : x[specs[k].column] = y[specs[k].column]
  <1>. DEFINE n == Len(specs)
              o == KeyOrderings(x, y, specs)
  <1>1. /\ n \in Nat /\ DOMAIN specs = 1..n /\ o \in [1..n -> Ordering]
        /\ compare_rows(x, y, specs) = Lexicographic(o)
        /\ \A k \in 1..n : o[k] = CompareKey(x[specs[k].column], y[specs[k].column], specs[k])
    BY RowsByKeys
  <1>2. ASSUME NEW k \in 1..n
        PROVE  o[k] = "equal" <=> x[specs[k].column] = y[specs[k].column]
    <2>1. specs[k] \in OrderKey /\ k \in DOMAIN specs
      BY <1>1
    <2>2. x[specs[k].column] \in Datum /\ y[specs[k].column] \in Datum
      BY <2>1 DEF HasKeys
    <2>3. o[k] = CompareKey(x[specs[k].column], y[specs[k].column], specs[k])
      BY <1>1
    <2>. HIDE DEF o
    <2>. QED BY <2>1, <2>2, <2>3, TieIsSame
  <1>. HIDE DEF o, n
  <1>3. Lexicographic(o) = "equal" <=> \A k \in 1..n : o[k] = "equal"
    <2>1. CASE \A k \in 1..n : o[k] = "equal"
      BY <1>1, <2>1, FirstDecides
    <2>2. CASE ~ \A k \in 1..n : o[k] = "equal"
      <3>1. PICK m \in 1..n : (\A k \in 1..m - 1 : o[k] = "equal") /\ o[m] # "equal"
        <4>1. \E m \in 1..n : /\ \A k \in 1..m - 1 : o[k] = "equal" /\ o[k] = "equal"
                              /\ ~ (o[m] = "equal" /\ o[m] = "equal")
          <5>1. ~ \A k \in 1..n : o[k] = "equal" /\ o[k] = "equal"
            BY <2>2
          <5>. QED BY <1>1, <5>1, FirstApart
        <4>. QED BY <4>1
      <3>2. Lexicographic(o) = o[m]
        BY <1>1, <3>1, FirstDecides
      <3>. QED BY <2>2, <3>1, <3>2
    <2>. QED BY <2>1, <2>2
  <1>. QED BY <1>1, <1>2, <1>3 DEF n

\* Keys without NaN compare as a total order of them.
LEMMA KeysCompare ==
  ASSUME NEW n \in Nat, NEW a \in PlainKey(n), NEW b \in PlainKey(n)
  PROVE  /\ compare(a, b) \in Ordering
         /\ compare(b, a) = reverse(compare(a, b))
         /\ compare(a, b) = "equal" <=> a = b
  <1>1. PICK specs : specs = ByParts(n)
    OBVIOUS
  <1>2. /\ specs \in Seq(OrderKey) /\ HasKeys(a, specs) /\ HasKeys(b, specs)
        /\ compare(a, b) = compare_rows(a, b, specs) /\ compare(b, a) = compare_rows(b, a, specs)
    BY <1>1, PartsAsRows
  <1>3. Len(specs) = n /\ \A k \in 1..n : specs[k].column = k
    <2>1. specs = [i \in 1..n |-> [column |-> i, ascending |-> TRUE, nulls_first |-> TRUE]]
      BY <1>1 DEF ByParts, sorted_on
    <2>2. specs \in [1..n -> OrderKey]
      BY <2>1 DEF OrderKey
    <2>3. Len(specs) = n
      BY <2>2, IsASeq
    <2>. QED BY <2>1, <2>3
  <1>4. compare(a, b) = "equal" <=> \A k \in 1..n : a[k] = b[k]
    <2>1. compare_rows(a, b, specs) = "equal" <=> \A k \in 1..Len(specs) : a[specs[k].column] = b[specs[k].column]
      BY ONLY <1>2, RowTieIsSame
    <2>. QED BY ONLY <1>2, <1>3, <2>1
  <1>5. (\A k \in 1..n : a[k] = b[k]) <=> a = b
    BY DEF PlainKey
  <1>6. compare_rows(a, b, specs) \in Ordering /\ compare_rows(b, a, specs) = reverse(compare_rows(a, b, specs))
    BY <1>2, RowsOrdered
  <1>. QED BY <1>2, <1>4, <1>5, <1>6

-----------------------------------------------------------------------------
(* Inputs that arrive sorted.                                              *)

\* The keys of a list of rows ascend, those with a NULL aside, and equal ones
\* stand together.
Ascends(keys) ==
  /\ \A i, j \in DOMAIN keys : i < j /\ ~ has_null(keys[i]) /\ ~ has_null(keys[j])
                                 => compare(keys[i], keys[j]) # "greater"
  /\ \A i, j, h \in DOMAIN keys : i <= h /\ h <= j /\ keys[i] = keys[j] => keys[h] = keys[i]

\* The first n of some keys.
AreFirst(first, n, specs) == n \in 0..Len(specs) /\ first = SubSeq(specs, 1, n)

\* An order of rows by some keys is an order by the first of them.
LEMMA FirstKeys ==
  ASSUME NEW specs \in Seq(OrderKey), NEW n, NEW first, AreFirst(first, n, specs),
         NEW x, NEW y, HasKeys(x, specs), HasKeys(y, specs),
         compare_rows(x, y, specs) # "greater"
  PROVE  /\ first \in Seq(OrderKey) /\ Len(first) = n
         /\ \A k \in 1..n : first[k] = specs[k]
         /\ HasKeys(x, first) /\ HasKeys(y, first)
         /\ compare_rows(x, y, first) # "greater"
  <1>0. first = SubSeq(specs, 1, n)
    BY DEF AreFirst
  <1>1. PICK m : m = Len(specs)
    OBVIOUS
  <1>2. m \in Nat /\ n \in 0..m /\ DOMAIN specs = 1..m
    BY <1>1 DEF AreFirst
  <1>3. first \in Seq(OrderKey) /\ Len(first) = n /\ \A k \in 1..n : first[k] = specs[k]
    <2>1. \A k \in 1..n : specs[k] \in OrderKey /\ 1 + k - 1 = k
      BY <1>1, <1>2
    <2>. DEFINE part == SubSeq(specs, 1, n)
    <2>2. /\ part \in Seq(OrderKey) /\ Len(part) = IF 1 <= n THEN n - 1 + 1 ELSE 0
          /\ \A k \in 1..n - 1 + 1 : part[k] = specs[1 + k - 1]
      BY ONLY <1>2, <2>1, SubSeqProperties
    <2>3. part = first
      BY <1>0
    <2>. HIDE DEF part
    <2>4. (IF 1 <= n THEN n - 1 + 1 ELSE 0) = n /\ n - 1 + 1 = n
      BY ONLY <1>2
    <2>. QED BY ONLY <2>1, <2>2, <2>3, <2>4
  <1>4. \A k \in 1..n : k \in 1..m
    BY <1>2
  <1>5. DOMAIN first = 1..n
    BY <1>3
  <1>6. HasKeys(x, first) /\ HasKeys(y, first)
    BY <1>2, <1>3, <1>4, <1>5 DEF HasKeys
  <1>7. PICK o, p : o = KeyOrderings(x, y, specs) /\ p = KeyOrderings(x, y, first)
    OBVIOUS
  <1>8. /\ o \in [1..m -> Ordering] /\ compare_rows(x, y, specs) = Lexicographic(o)
        /\ \A k \in 1..m : o[k] = CompareKey(x[specs[k].column], y[specs[k].column], specs[k])
    BY <1>1, <1>7, RowsByKeys
  <1>9. /\ p \in [1..n -> Ordering] /\ compare_rows(x, y, first) = Lexicographic(p)
        /\ \A k \in 1..n : p[k] = CompareKey(x[first[k].column], y[first[k].column], first[k])
    <2>1. /\ p \in [1..Len(first) -> Ordering] /\ compare_rows(x, y, first) = Lexicographic(p)
          /\ \A k \in 1..Len(first) : p[k] = CompareKey(x[first[k].column], y[first[k].column], first[k])
      BY ONLY <1>3, <1>6, <1>7, RowsByKeys
    <2>. QED BY ONLY <1>3, <2>1
  <1>10. \A k \in 1..n : p[k] = o[k]
    BY <1>3, <1>4, <1>8, <1>9
  <1>11. CASE \A k \in 1..n : p[k] = "equal"
    <2>1. Lexicographic(p) = "equal"
      BY <1>2, <1>9, <1>11, FirstDecides
    <2>. QED BY <1>3, <1>6, <1>9, <2>1
  <1>12. CASE ~ \A k \in 1..n : p[k] = "equal"
    <2>1. PICK h \in 1..n : /\ \A k \in 1..h - 1 : p[k] = "equal" /\ p[k] = "equal"
                            /\ ~ (p[h] = "equal" /\ p[h] = "equal")
      <3>1. ~ \A k \in 1..n : p[k] = "equal" /\ p[k] = "equal"
        BY <1>12
      <3>2. n \in Nat /\ p \in [1..n -> Ordering]
        BY <1>2, <1>9
      <3>. QED BY ONLY <3>1, <3>2, FirstApart
    <2>2. h \in 1..n /\ (\A k \in 1..h - 1 : p[k] = "equal") /\ p[h] # "equal"
      BY <2>1
    <2>3. Lexicographic(p) = p[h]
      <3>1. n \in Nat /\ p \in [1..n -> Ordering]
        BY <1>2, <1>9
      <3>. QED BY ONLY <2>2, <3>1, FirstDecides
    <2>4. h \in 1..m /\ o[h] = p[h] /\ \A k \in 1..h - 1 : o[k] = "equal"
      <3>1. \A k \in 1..h - 1 : k \in 1..n
        BY <1>2
      <3>. QED BY <1>4, <1>10, <2>2, <3>1
    <2>5. Lexicographic(o) = o[h]
      <3>1. o[h] # "equal"
        BY <2>2, <2>4
      <3>2. m \in Nat /\ o \in [1..m -> Ordering]
        BY <1>2, <1>8
      <3>. QED BY ONLY <2>4, <3>1, <3>2, FirstDecides
    <2>. QED BY <1>3, <1>6, <1>8, <1>9, <2>3, <2>4, <2>5
  <1>. QED BY <1>11, <1>12

\* What is in order from each row to the next is in order throughout.
LEMMA InOrderThroughout ==
  ASSUME NEW input, NEW n, NEW specs, Sortable(input, n, specs), Len(input) = n,
         Arrives(input, specs)
  PROVE  \A i, j \in 1..n : i < j => compare_rows(input[i], input[j], specs) # "greater"
  <1>. n \in Nat /\ specs \in Seq(OrderKey) /\ \A r \in 1..n : HasKeys(input[r], specs)
    BY DEF Sortable
  <1>1. \A i \in 1..n - 1 : compare_rows(input[i], input[i + 1], specs) # "greater"
    BY DEF Arrives
  <1>2. SUFFICES ASSUME NEW i \in 1..n
                 PROVE  \A j \in 1..n : i < j => compare_rows(input[i], input[j], specs) # "greater"
    OBVIOUS
  <1>. DEFINE done == {k \in Nat : i < k /\ k <= n => compare_rows(input[i], input[k], specs) # "greater"}
  <1>3. 0 \in done
    OBVIOUS
  <1>4. ASSUME NEW k \in done
        PROVE  k + 1 \in done
    <2>1. SUFFICES ASSUME i < k + 1, k + 1 <= n
                   PROVE  compare_rows(input[i], input[k + 1], specs) # "greater"
      OBVIOUS
    <2>2. k \in Nat /\ k \in 1..n - 1 /\ k \in 1..n /\ k + 1 \in 1..n
      BY <2>1
    <2>3. compare_rows(input[k], input[k + 1], specs) # "greater"
      BY <1>1, <2>2
    <2>4. CASE i = k
      BY <2>3, <2>4
    <2>5. CASE i # k
      <3>1. i < k
        BY <2>1, <2>2, <2>5
      <3>2. compare_rows(input[i], input[k], specs) # "greater"
        BY <2>2, <3>1
      <3>3. PICK x, y, z : x = input[i] /\ y = input[k] /\ z = input[k + 1]
        OBVIOUS
      <3>4. HasKeys(x, specs) /\ HasKeys(y, specs) /\ HasKeys(z, specs)
        BY <2>2, <3>3
      <3>5. compare_rows(x, z, specs) # "greater"
        BY <2>3, <3>2, <3>3, <3>4, RowsTransitive
      <3>. QED BY <3>3, <3>5
    <2>. QED BY <2>4, <2>5
  <1>5. done = Nat
    <2>1. done \in SUBSET Nat
      OBVIOUS
    <2>. HIDE DEF done
    <2>. QED BY <1>3, <1>4, <2>1, Induction
  <1>. QED BY <1>5

\* The rows of an input by keys of m parts, which are what the rows are sorted on.
KeyedBy(key, input, n, specs) ==
  /\ \A k \in 1..Len(specs) : specs[k].ascending
  /\ \A r \in 1..n : /\ key[r] \in PlainKey(Len(specs))
                     /\ \A k \in 1..Len(specs) : key[r][k] = input[r][specs[k].column]

\* Of rows without NULLs, the keys compare as the rows.
LEMMA KeysAsRows ==
  ASSUME NEW input, NEW n, NEW specs, Sortable(input, n, specs),
         NEW key, KeyedBy(key, input, n, specs),
         NEW r \in 1..n, NEW s \in 1..n, ~ has_null(key[r]), ~ has_null(key[s])
  PROVE  compare(key[r], key[s]) = compare_rows(input[r], input[s], specs)
  <1>1. PICK m, x, y, a, b : /\ m = Len(specs) /\ x = input[r] /\ y = input[s]
                             /\ a = key[r] /\ b = key[s]
    OBVIOUS
  <1>2. /\ m \in Nat /\ DOMAIN specs = 1..m
        /\ a \in PlainKey(m) /\ b \in PlainKey(m) /\ DOMAIN a = 1..m /\ DOMAIN b = 1..m
        /\ \A k \in 1..m : /\ specs[k].ascending
                           /\ a[k] = x[specs[k].column] /\ b[k] = y[specs[k].column]
    BY <1>1 DEF Sortable, KeyedBy, PlainKey
  <1>3. ASSUME NEW k \in 1..m
        PROVE  CompareParts(a[k], b[k]) = CompareKey(x[specs[k].column], y[specs[k].column], specs[k])
    <2>1. PICK u, v, spec : u = a[k] /\ v = b[k] /\ spec = specs[k]
      OBVIOUS
    <2>2. u \in Datum \ {NaN} /\ v \in Datum \ {NaN} /\ spec.ascending
      BY <1>2, <2>1 DEF PlainKey
    <2>3. u # NULL /\ v # NULL
      BY <1>1, <1>2, <2>1 DEF has_null
    <2>4. Compare(u, v) # "none"
      BY <2>2, <2>3 DEF Compare
    <2>5. CompareParts(u, v) = Compare(u, v)
      BY <2>3, <2>4 DEF CompareParts
    <2>6. CompareKey(u, v, spec) = Compare(u, v)
      BY <2>2, <2>3 DEF CompareKey, compare_values
    <2>. QED BY <1>2, <2>1, <2>5, <2>6
  <1>4. compare(a, b) = compare_rows(x, y, specs)
    BY <1>2, <1>3 DEF compare, compare_rows
  <1>. QED BY <1>1, <1>4

\* Rows that are read in order.
ReadInOrder(order, input, n, specs) ==
  /\ order \in [1..n -> 1..n]
  /\ \A i, j \in 1..n : i < j =>
       compare_rows(input[order[i]], input[order[j]], specs) # "greater"

\* Sorted rows have ascending keys.
LEMMA SortedAscends ==
  ASSUME NEW input, NEW n, NEW specs, Sortable(input, n, specs),
         NEW key, KeyedBy(key, input, n, specs),
         NEW order, ReadInOrder(order, input, n, specs)
  PROVE  Ascends([i \in 1..n |-> key[order[i]]])
  <1>. /\ order \in [1..n -> 1..n]
       /\ \A i, j \in 1..n : i < j =>
            compare_rows(input[order[i]], input[order[j]], specs) # "greater"
    BY DEF ReadInOrder
  <1>1. PICK keys : keys = [i \in 1..n |-> key[order[i]]]
    OBVIOUS
  <1>2. /\ n \in Nat /\ specs \in Seq(OrderKey) /\ DOMAIN keys = 1..n
        /\ \A i \in 1..n : keys[i] = key[order[i]] /\ order[i] \in 1..n
    BY <1>1 DEF Sortable
  <1>3. ASSUME NEW i \in 1..n, NEW j \in 1..n, i < j, ~ has_null(keys[i]), ~ has_null(keys[j])
        PROVE  compare(keys[i], keys[j]) # "greater"
    <2>1. PICK r \in 1..n, s \in 1..n : r = order[i] /\ s = order[j]
      BY <1>2
    <2>2. compare(key[r], key[s]) = compare_rows(input[r], input[s], specs)
      BY <1>2, <1>3, <2>1, KeysAsRows
    <2>. QED BY <1>2, <1>3, <2>1, <2>2
  <1>4. ASSUME NEW i \in 1..n, NEW j \in 1..n, NEW h \in 1..n, i <= h, h <= j, keys[i] = keys[j]
        PROVE  keys[h] = keys[i]
    <2>1. CASE h = i \/ h = j
      BY <1>4, <2>1
    <2>2. CASE i < h /\ h < j
      <3>1. PICK m, r, s, t : m = Len(specs) /\ r = order[i] /\ s = order[h] /\ t = order[j]
        OBVIOUS
      <3>2. r \in 1..n /\ s \in 1..n /\ t \in 1..n /\ m \in Nat
        BY <1>2, <3>1
      <3>3. PICK x, y, z : x = input[r] /\ y = input[s] /\ z = input[t]
        OBVIOUS
      <3>4. HasKeys(x, specs) /\ HasKeys(y, specs) /\ HasKeys(z, specs)
        BY <3>2, <3>3 DEF Sortable
      <3>5. compare_rows(x, y, specs) # "greater" /\ compare_rows(y, z, specs) # "greater"
        BY <2>2, <3>1, <3>3
      <3>6. \A k \in 1..m : /\ key[r][k] = x[specs[k].column]
                            /\ key[s][k] = y[specs[k].column]
                            /\ key[t][k] = z[specs[k].column]
        BY <3>1, <3>2, <3>3 DEF KeyedBy
      <3>7. key[r] = key[t] /\ keys[i] = key[r] /\ keys[h] = key[s]
        BY <1>2, <1>4, <3>1
      <3>8. \A k \in 1..Len(specs) : x[specs[k].column] = z[specs[k].column]
        BY <3>1, <3>6, <3>7
      <3>9. compare_rows(x, z, specs) = "equal"
        BY <1>2, <3>4, <3>8, RowTieIsSame
      <3>10. compare_rows(x, y, specs) = "equal"
        BY <1>2, <3>4, <3>5, <3>9, RowsTransitive
      <3>11. \A k \in 1..Len(specs) : x[specs[k].column] = y[specs[k].column]
        BY <1>2, <3>4, <3>10, RowTieIsSame
      <3>12. \A k \in 1..m : key[r][k] = key[s][k]
        BY <3>1, <3>6, <3>11
      <3>13. key[r] \in PlainKey(m) /\ key[s] \in PlainKey(m)
        BY <3>1, <3>2 DEF KeyedBy
      <3>14. key[r] = key[s]
        <4>1. PICK a, b : a = key[r] /\ b = key[s]
          OBVIOUS
        <4>2. a \in PlainKey(m) /\ b \in PlainKey(m) /\ \A k \in 1..m : a[k] = b[k]
          BY ONLY <3>12, <3>13, <4>1
        <4>3. a = b
          BY <3>2, <4>2 DEF PlainKey
        <4>. QED BY <4>1, <4>3
      <3>. QED BY <3>7, <3>14
    <2>3. h = i \/ h = j \/ (i < h /\ h < j)
      <3>1. i \in Int /\ j \in Int /\ h \in Int /\ i <= h /\ h <= j
        BY <1>4
      <3>. QED BY ONLY <3>1
    <2>. QED BY <2>1, <2>2, <2>3
  <1>5. Ascends(keys)
    BY <1>2, <1>3, <1>4 DEF Ascends
  <1>. QED BY <1>1, <1>5

-----------------------------------------------------------------------------
(* What a join is made of, and what it owes.                               *)

Parts == Len(plan.equi)

IsJoin == PlanGiven /\ plan.kind = "join"

\* What a plan of a join is made of.
LEMMA JoinPlan ==
  ASSUME IsJoin
  PROVE  /\ plan \in Inputs("join") /\ plan \in Join /\ plan.type \in JoinType
         /\ Parts \in Nat /\ DOMAIN plan.equi = 1..Parts
         /\ Len(plan.left) \in Nat /\ LeftRows = 1..Len(plan.left)
         /\ Len(plan.right) \in Nat /\ RightRows = 1..Len(plan.right)
         /\ plan.left_order \in Seq(OrderKey) /\ plan.right_order \in Seq(OrderKey)
         /\ plan.equi \in Seq([left : Nat \ {0}, right : Nat \ {0}, bare : BOOLEAN])
         /\ plan.algorithm \in {"Auto", "ForceNestedLoop", "ForceMergeJoin"}
  <1>1. PICK kind \in Kinds : plan \in Inputs(kind)
    BY DEF IsJoin, PlanGiven
  <1>2. kind = "join"
    BY <1>1, KindAssumption DEF IsJoin
  <1>3. plan \in Inputs("join") /\ plan \in Join
    BY <1>1, <1>2, JoinAssumption
  <1>4. PICK p : p = plan
    OBVIOUS
  <1>5. /\ p.type \in JoinType
        /\ p.left \in Seq(Row) /\ p.right \in Seq(Row)
        /\ p.left_order \in Seq(OrderKey) /\ p.right_order \in Seq(OrderKey)
        /\ p.equi \in Seq([left : Nat \ {0}, right : Nat \ {0}, bare : BOOLEAN])
        /\ p.algorithm \in {"Auto", "ForceNestedLoop", "ForceMergeJoin"}
    BY <1>3, <1>4 DEF Join
  <1>6. /\ Len(p.equi) \in Nat /\ DOMAIN p.equi = 1..Len(p.equi)
        /\ Len(p.left) \in Nat /\ DOMAIN p.left = 1..Len(p.left)
        /\ Len(p.right) \in Nat /\ DOMAIN p.right = 1..Len(p.right)
    BY <1>5, LenProperties
  <1>. QED BY <1>3, <1>4, <1>5, <1>6 DEF Parts, LeftRows, RightRows

\* The key of a row has a value in every part, one of those the join compares.
LEMMA KeysOf ==
  ASSUME IsJoin
  PROVE  /\ \A l \in LeftRows : LeftKey(l) \in [1..Parts -> KeyParts(plan)]
         /\ \A r \in RightRows : RightKey(r) \in [1..Parts -> KeyParts(plan)]
         /\ KeyParts(plan) \subseteq Datum
         /\ \A a, b \in KeyParts(plan) : KeyValue(a) = KeyValue(b) => a = b
  <1>1. plan \in Inputs("join") /\ DOMAIN plan.equi = 1..Parts
    BY JoinPlan
  <1>2. /\ KeyParts(plan) \subseteq Datum
        /\ \A a, b \in KeyParts(plan) : KeyValue(a) = KeyValue(b) => a = b
    BY <1>1, JoinAssumption
  <1>3. \A i \in 1..Parts : plan.equi[i] \in ToSet(plan.equi)
    BY <1>1 DEF ToSet
  <1>4. ASSUME NEW l \in LeftRows
        PROVE  LeftKey(l) \in [1..Parts -> KeyParts(plan)]
    <2>1. \A i \in 1..Parts : plan.left[l][plan.equi[i].left] \in KeyParts(plan)
      BY <1>3 DEF KeyParts, Held, LeftRows
    <2>. QED BY <1>1, <2>1 DEF LeftKey
  <1>5. ASSUME NEW r \in RightRows
        PROVE  RightKey(r) \in [1..Parts -> KeyParts(plan)]
    <2>1. \A i \in 1..Parts : plan.right[r][plan.equi[i].right] \in KeyParts(plan)
      BY <1>3 DEF KeyParts, Held, RightRows
    <2>. QED BY <1>1, <2>1 DEF RightKey
  <1>. QED BY <1>2, <1>4, <1>5

\* Two values are equal, as the condition has it, when they are the same and
\* neither NULL nor NaN.
LEMMA EqualIsSame ==
  ASSUME NEW a \in Datum, NEW b \in Datum
  PROVE  CompareOp("=", a, b) = "true" <=> a = b /\ a \notin {NULL, NaN}
  <1>1. CASE {a, b} \cap {NULL, NaN} # {}
    BY <1>1 DEF CompareOp, Compare
  <1>2. CASE {a, b} \cap {NULL, NaN} = {}
    <2>1. a \in Int /\ b \in Int
      BY <1>2, ValuesAssumption DEF Datum
    <2>2. Compare(a, b) = IF a < b THEN "less" ELSE IF a = b THEN "equal" ELSE "greater"
      BY <1>2 DEF Compare
    <2>. HIDE DEF Compare
    <2>3. CompareOp("=", a, b) = "true" <=> Compare(a, b) = "equal"
      <3>1. Compare(a, b) # "none"
        BY <2>2
      <3>. QED BY <3>1 DEF CompareOp, Accepts
    <2>4. Compare(a, b) = "equal" <=> a = b
      BY <2>1, <2>2
    <2>. QED BY <1>2, <2>3, <2>4
  <1>. QED BY <1>1, <1>2

\* Two rows have the keys of each other when their keys are the same and can match.
SameKey(l, r) == LeftKey(l) = RightKey(r) /\ ~ unmatchable(LeftKey(l))

LEMMA KeysMeet ==
  ASSUME IsJoin, NEW l \in LeftRows, NEW r \in RightRows
  PROVE  /\ On(l, r) <=> SameKey(l, r) /\ residual_holds(l, r)
         /\ HashKey(LeftKey(l)) = HashKey(RightKey(r)) <=> LeftKey(l) = RightKey(r)
  <1>1. PICK n, a, b, V : n = Parts /\ a = LeftKey(l) /\ b = RightKey(r) /\ V = KeyParts(plan)
    OBVIOUS
  <1>2. /\ a \in [1..n -> V] /\ b \in [1..n -> V] /\ V \subseteq Datum
        /\ \A x, y \in V : KeyValue(x) = KeyValue(y) => x = y
    BY <1>1, KeysOf
  <1>3. DOMAIN plan.equi = 1..n
    BY <1>1, JoinPlan
  <1>4. \A i \in 1..n : CompareOp("=", a[i], b[i]) = "true" <=> a[i] = b[i] /\ a[i] \notin {NULL, NaN}
    BY <1>2, EqualIsSame
  <1>5. a = b <=> \A i \in 1..n : a[i] = b[i]
    <2>1. n \in Nat
      BY <1>1, JoinPlan
    <2>. QED BY ONLY <1>2, <2>1
  <1>6. unmatchable(a) <=> \E i \in 1..n : a[i] \in {NULL, NaN}
    BY <1>2 DEF unmatchable
  <1>7. (\A i \in 1..n : CompareOp("=", a[i], b[i]) = "true") <=> a = b /\ ~ unmatchable(a)
    BY <1>4, <1>5, <1>6
  <1>8. HashKey(a) = HashKey(b) <=> a = b
    <2>1. ASSUME HashKey(a) = HashKey(b)
          PROVE  a = b
      <3>1. ASSUME NEW i \in 1..n
            PROVE  a[i] = b[i]
        <4>1. HashKey(a)[i] = KeyValue(a[i]) /\ HashKey(b)[i] = KeyValue(b[i])
          BY <1>2 DEF HashKey
        <4>2. a[i] \in V /\ b[i] \in V
          BY <1>2
        <4>. QED BY <1>2, <2>1, <4>1, <4>2
      <3>. QED BY <1>5, <3>1
    <2>. QED BY <2>1
  <1>9. On(l, r) <=> a = b /\ ~ unmatchable(a) /\ residual_holds(l, r)
    BY <1>1, <1>3, <1>7 DEF On
  <1>. QED BY <1>1, <1>8, <1>9 DEF SameKey

\* What a join owes for some rows of the left input, and for some of the right one.
FromLeft(L) == {p \in Answer : p[1] \in L}
FromRight(R) == {p \in Answer : p[1] = 0 /\ p[2] \in R}

\* The rows a left row joins, and those on the right that none joins.
Partners(l) == {r \in RightRows : On(l, r)}
Lonely(r) == \A l \in LeftRows : ~ On(l, r)

Padded(L) == {<<l, 0>> : l \in L}

LEMMA Owing ==
  ASSUME IsJoin
  PROVE  /\ \A L \in SUBSET LeftRows :
              /\ plan.type = "semi" => FromLeft(L) = Padded({l \in L : Partners(l) # {}})
              /\ plan.type = "anti" => FromLeft(L) = Padded({l \in L : Partners(l) = {}})
              /\ ~ is_filtering(plan.type) =>
                   FromLeft(L) = {p \in L \X RightRows : On(p[1], p[2])}
                     \cup (IF preserves_left(plan.type) THEN Padded({l \in L : Partners(l) = {}}) ELSE {})
         /\ \A R \in SUBSET RightRows :
              FromRight(R) = IF preserves_right(plan.type) THEN {<<0, r>> : r \in {s \in R : Lonely(s)}}
                             ELSE {}
         /\ Answer = FromLeft(LeftRows) \cup FromRight(RightRows)
  <1>1. 0 \notin LeftRows /\ 0 \notin RightRows
    BY JoinPlan
  <1>2. PICK LR, RR, A, joined, type : /\ LR = LeftRows /\ RR = RightRows /\ A = Answer
                                       /\ joined = Joined /\ type = plan.type
    OBVIOUS
  <1>3. \A p : p \in joined <=> p \in LR \X RR /\ On(p[1], p[2])
    BY <1>2 DEF Joined
  <1>4. /\ \A l \in LR : l \in MatchedLeft <=> Partners(l) # {}
        /\ \A r \in RR : r \in MatchedRight <=> ~ Lonely(r)
    <2>1. ASSUME NEW l \in LR
          PROVE  l \in MatchedLeft <=> Partners(l) # {}
      <3>1. ASSUME NEW r \in RR, On(l, r)
            PROVE  l \in MatchedLeft
        <4>1. <<l, r>> \in joined /\ <<l, r>>[1] = l
          BY <1>3, <3>1
        <4>. QED BY <1>2, <4>1 DEF MatchedLeft
      <3>2. ASSUME l \in MatchedLeft
            PROVE  \E r \in RR : On(l, r)
        BY <1>2, <1>3, <3>2 DEF MatchedLeft
      <3>. QED BY <1>2, <3>1, <3>2 DEF Partners
    <2>2. ASSUME NEW r \in RR
          PROVE  r \in MatchedRight <=> ~ Lonely(r)
      <3>1. ASSUME NEW l \in LR, On(l, r)
            PROVE  r \in MatchedRight
        <4>1. <<l, r>> \in joined /\ <<l, r>>[2] = r
          BY <1>3, <3>1
        <4>. QED BY <1>2, <4>1 DEF MatchedRight
      <3>2. ASSUME r \in MatchedRight
            PROVE  \E l \in LR : On(l, r)
        BY <1>2, <1>3, <3>2 DEF MatchedRight
      <3>. QED BY <1>2, <3>1, <3>2 DEF Lonely
    <2>. QED BY <2>1, <2>2
  <1>5. MatchedLeft \in SUBSET LR
    BY <1>2, <1>3 DEF MatchedLeft
  <1>6. type \in JoinType
    BY <1>2, JoinPlan
  <1>7. CASE type = "semi"
    <2>1. A = Padded({l \in LR : Partners(l) # {}})
      BY <1>2, <1>4, <1>5, <1>7 DEF Answer, Padded
    <2>2. ~ preserves_right(type)
      BY <1>7 DEF preserves_right
    <2>. QED BY <1>1, <1>2, <1>7, <2>1, <2>2 DEF FromLeft, FromRight, Padded, is_filtering
  <1>8. CASE type = "anti"
    <2>1. A = Padded({l \in LR : Partners(l) = {}})
      BY <1>2, <1>4, <1>5, <1>8 DEF Answer, Padded
    <2>2. ~ preserves_right(type)
      BY <1>8 DEF preserves_right
    <2>. QED BY <1>1, <1>2, <1>8, <2>1, <2>2 DEF FromLeft, FromRight, Padded, is_filtering
  <1>9. CASE type \notin {"semi", "anti"}
    <2>1. PICK Alone, Rest : /\ Alone = Padded({l \in LR : Partners(l) = {}})
                             /\ Rest = {<<0, r>> : r \in {s \in RR : Lonely(s)}}
      OBVIOUS
    <2>2. Alone = {<<l, 0>> : l \in LeftRows \ MatchedLeft}
      BY <1>2, <1>4, <1>5, <2>1 DEF Padded
    <2>3. Rest = {<<0, r>> : r \in RightRows \ MatchedRight}
      BY <1>2, <1>4, <2>1
    <2>4. A = joined \cup (IF preserves_left(type) THEN Alone ELSE {})
                \cup (IF preserves_right(type) THEN Rest ELSE {})
      BY <1>2, <1>9, <2>2, <2>3 DEF Answer
    <2>5. /\ \A p \in joined : p[1] \in LR /\ p[1] # 0
          /\ \A p \in Alone : p[1] \in LR /\ p[1] # 0
          /\ \A p \in Rest : p[1] = 0 /\ p[1] \notin LR
      BY <1>1, <1>2, <1>3, <2>1 DEF Padded
    <2>6. ASSUME NEW L \in SUBSET LR
          PROVE  FromLeft(L) = {p \in L \X RR : On(p[1], p[2])}
                   \cup (IF preserves_left(type) THEN Padded({l \in L : Partners(l) = {}}) ELSE {})
      <3>1. {p \in joined : p[1] \in L} = {p \in L \X RR : On(p[1], p[2])}
        BY <1>3
      <3>2. {p \in Alone : p[1] \in L} = Padded({l \in L : Partners(l) = {}})
        BY <2>1 DEF Padded
      <3>3. \A p \in Rest : p[1] \notin L
        BY <2>5
      <3>. QED BY <1>2, <2>4, <3>1, <3>2, <3>3 DEF FromLeft
    <2>7. ASSUME NEW R \in SUBSET RR
          PROVE  FromRight(R) = IF preserves_right(type) THEN {<<0, r>> : r \in {s \in R : Lonely(s)}}
                                ELSE {}
      <3>1. {p \in Rest : p[2] \in R} = {<<0, r>> : r \in {s \in R : Lonely(s)}}
        BY <2>1
      <3>. QED BY <1>2, <2>4, <2>5, <3>1 DEF FromRight
    <2>8. A = FromLeft(LR) \cup FromRight(RR)
      <3>1. \A p \in Rest : p[2] \in RR
        BY <2>1
      <3>. QED BY <1>2, <2>4, <2>5, <3>1 DEF FromLeft, FromRight
    <2>. QED BY <1>2, <1>9, <2>6, <2>7, <2>8 DEF is_filtering
  <1>. QED BY <1>7, <1>8, <1>9

\* A list of rows of the join is what is owed for some rows of both inputs.
HasPaid(list, L, R) ==
  /\ list \in Seq(Answer) /\ EachOnce(list)
  /\ ToSet(list) = FromLeft(L) \cup FromRight(R)

\* One such list behind another that is owed for others.
LEMMA Paying ==
  ASSUME IsJoin, NEW L \in SUBSET LeftRows, NEW M \in SUBSET LeftRows, L \cap M = {},
         NEW R, NEW T, R \cap T = {},
         NEW s, NEW t, HasPaid(s, L, R), HasPaid(t, M, T)
  PROVE  HasPaid(s \o t, L \cup M, R \cup T)
  <1>1. PICK A, a, b, c, d : /\ A = Answer /\ a = FromLeft(L) /\ b = FromLeft(M)
                             /\ c = FromRight(R) /\ d = FromRight(T)
    OBVIOUS
  <1>2. 0 \notin LeftRows
    BY JoinPlan
  <1>3. a \cap b = {} /\ c \cap d = {} /\ a \cap d = {} /\ b \cap c = {}
    BY <1>1, <1>2 DEF FromLeft, FromRight
  <1>4. FromLeft(L \cup M) = a \cup b /\ FromRight(R \cup T) = c \cup d
    BY <1>1 DEF FromLeft, FromRight
  <1>5. /\ s \in Seq(A) /\ EachOnce(s) /\ ToSet(s) = a \cup c
        /\ t \in Seq(A) /\ EachOnce(t) /\ ToSet(t) = b \cup d
    BY <1>1 DEF HasPaid
  <1>6. ToSet(s) \cap ToSet(t) = {}
    BY ONLY <1>3, <1>5
  <1>7. s \o t \in Seq(A) /\ EachOnce(s \o t) /\ ToSet(s \o t) = ToSet(s) \cup ToSet(t)
    BY ONLY <1>5, <1>6, Appending
  <1>8. ToSet(s \o t) = (a \cup b) \cup (c \cup d)
    BY ONLY <1>5, <1>7
  <1>9. s \o t \in Seq(Answer) /\ EachOnce(s \o t)
    BY ONLY <1>1, <1>7
  <1>10. ToSet(s \o t) = FromLeft(L \cup M) \cup FromRight(R \cup T)
    BY ONLY <1>4, <1>8
  <1>. QED BY ONLY <1>9, <1>10 DEF HasPaid

\* Nothing is owed for no rows.
LEMMA NothingPaid ==
  HasPaid(<<>>, {}, {})
  <1>1. ToSet(<<>>) = {} /\ <<>> \in Seq(Answer)
    BY DEF ToSet
  <1>2. EachOnce(<<>>)
    BY DEF EachOnce
  <1>3. FromLeft({}) = {} /\ FromRight({}) = {}
    BY DEF FromLeft, FromRight
  <1>. QED BY <1>1, <1>2, <1>3 DEF HasPaid

\* What InOrder lists is every pair of a set once.
LEMMA PairsListed ==
  ASSUME NEW m \in Nat, NEW n \in Nat, NEW P \in SUBSET ((0..m) \X (0..n)), NEW S, P \subseteq S
  PROVE  InOrder(P) \in Seq(S) /\ EachOnce(InOrder(P)) /\ ToSet(InOrder(P)) = P
  <1>1. PICK upTo : upTo = {pq \in P \X P : \/ pq[1][1] < pq[2][1]
                                            \/ pq[1][1] = pq[2][1] /\ pq[1][2] <= pq[2][2]}
    OBVIOUS
  <1>2. InOrder(P) = InOrderOf(P, upTo)
    BY <1>1 DEF InOrder
  <1>3. IsFiniteSet(P)
    <2>1. IsFiniteSet(0..m) /\ IsFiniteSet(0..n)
      BY FS_Interval
    <2>2. IsFiniteSet((0..m) \X (0..n))
      BY <2>1, FS_Product
    <2>. QED BY <2>2, FS_Subset
  <1>4. \A a, b \in P : <<a, b>> \in upTo <=> a[1] < b[1] \/ (a[1] = b[1] /\ a[2] <= b[2])
    <2>1. SUFFICES ASSUME NEW a \in P, NEW b \in P
                   PROVE  <<a, b>> \in upTo <=> a[1] < b[1] \/ (a[1] = b[1] /\ a[2] <= b[2])
      OBVIOUS
    <2>2. PICK pq : pq = <<a, b>>
      OBVIOUS
    <2>3. pq \in P \X P /\ pq[1] = a /\ pq[2] = b
      BY <2>1, <2>2
    <2>4. pq \in upTo <=> pq[1][1] < pq[2][1] \/ (pq[1][1] = pq[2][1] /\ pq[1][2] <= pq[2][2])
      BY ONLY <1>1, <2>3
    <2>. QED BY ONLY <2>2, <2>3, <2>4
  <1>5. \A a \in P : a[1] \in Int /\ a[2] \in Int /\ a = <<a[1], a[2]>>
    OBVIOUS
  <1>6. TotalOrder(P, upTo)
    <2>1. \A a, b \in P : /\ <<a, b>> \in upTo \/ <<b, a>> \in upTo
                          /\ <<a, b>> \in upTo /\ <<b, a>> \in upTo => a[1] = b[1] /\ a[2] = b[2]
      <3>1. SUFFICES ASSUME NEW a \in P, NEW b \in P
                     PROVE  /\ <<a, b>> \in upTo \/ <<b, a>> \in upTo
                            /\ <<a, b>> \in upTo /\ <<b, a>> \in upTo => a[1] = b[1] /\ a[2] = b[2]
        OBVIOUS
      <3>2. PICK i, j, k, l : i = a[1] /\ j = a[2] /\ k = b[1] /\ l = b[2]
        OBVIOUS
      <3>3. i \in Int /\ j \in Int /\ k \in Int /\ l \in Int
        BY ONLY <1>5, <3>1, <3>2
      <3>4. /\ <<a, b>> \in upTo <=> i < k \/ (i = k /\ j <= l)
            /\ <<b, a>> \in upTo <=> k < i \/ (k = i /\ l <= j)
        BY ONLY <1>4, <3>1, <3>2
      <3>. QED BY ONLY <3>2, <3>3, <3>4
    <2>2. \A a, b \in P : a[1] = b[1] /\ a[2] = b[2] => a = b
      BY ONLY <1>5
    <2>3. \A a, b, c \in P : <<a, b>> \in upTo /\ <<b, c>> \in upTo => <<a, c>> \in upTo
      BY ONLY <1>4, <1>5
    <2>. QED BY ONLY <2>1, <2>2, <2>3 DEF TotalOrder
  <1>7. PICK s, k : s = InOrderOf(P, upTo) /\ k = Cardinality(P)
    OBVIOUS
  <1>8. /\ s \in Seq(P) /\ Len(s) = k /\ DOMAIN s = 1..k
        /\ \A e \in P : \E i \in 1..k : s[i] = e
        /\ \A i, j \in 1..k : i < j => s[i] # s[j]
    <2>. DEFINE o == InOrderOf(P, upTo)
    <2>1. /\ o \in Seq(P) /\ Len(o) = Cardinality(P) /\ DOMAIN o = 1..Cardinality(P)
          /\ \A e \in P : \E i \in 1..Cardinality(P) : o[i] = e
          /\ \A i, j \in 1..Cardinality(P) : i < j => o[i] # o[j] /\ <<o[i], o[j]>> \in upTo
      BY ONLY <1>3, <1>6, Enumerated
    <2>2. o = s
      BY <1>7
    <2>. HIDE DEF o
    <2>. QED BY ONLY <1>7, <2>1, <2>2
  <1>9. EachOnce(s)
    BY ONLY <1>8 DEF EachOnce
  <1>10. ToSet(s) = P
    <2>1. \A i \in 1..k : s[i] \in P
      BY ONLY <1>8
    <2>2. \A x : x \in ToSet(s) <=> \E i \in 1..k : s[i] = x
      BY ONLY <1>8 DEF ToSet
    <2>3. \A x \in P : \E i \in 1..k : s[i] = x
      BY ONLY <1>8
    <2>4. \A x \in ToSet(s) : x \in P
      BY ONLY <2>1, <2>2
    <2>5. \A x \in P : x \in ToSet(s)
      BY ONLY <2>2, <2>3
    <2>. QED BY ONLY <2>4, <2>5
  <1>11. s \in Seq(S)
    BY <1>8, Widened
  <1>. QED BY ONLY <1>2, <1>7, <1>9, <1>10, <1>11

-----------------------------------------------------------------------------
(* The hash join and the nested loop.                                      *)

\* What Build makes of the right input.
KeyIndex ==
  LET hashed == [r \in KeyedRows |-> HashKey(RightKey(r))]
  IN  [k \in Range(hashed) |-> {r \in KeyedRows : hashed[r] = k}]

\* The right rows that join one of the first n left rows.
MatchedBy(n) == {r \in RightRows : \E l \in 1..n : On(l, r)}

\* What either keeps of the pairs of a batch are those that join.
LEMMA ProbeKeeps ==
  ASSUME IsJoin, NEW batch \in SUBSET LeftRows, NEW algorithm,
         algorithm = "nested loop" \/ (algorithm = "hash" /\ index = KeyIndex)
  PROVE  apply_residual(algorithm, {p \in batch \X RightRows : p[2] \in Candidates(algorithm, p[1])})
           = {p \in batch \X RightRows : On(p[1], p[2])}
  <1>1. CASE algorithm = "nested loop"
    BY <1>1 DEF apply_residual, Candidates
  <1>2. CASE algorithm = "hash" /\ index = KeyIndex
    <2>1. ASSUME NEW l \in LeftRows, NEW r \in RightRows
          PROVE  r \in Candidates("hash", l) <=> SameKey(l, r)
      <3>1. PICK hashed : hashed = [s \in KeyedRows |-> HashKey(RightKey(s))]
        OBVIOUS
      <3>2. index = [k \in Range(hashed) |-> {s \in KeyedRows : hashed[s] = k}]
        BY <1>2, <3>1 DEF KeyIndex
      <3>3. PICK key : key = HashKey(LeftKey(l))
        OBVIOUS
      <3>4. CASE unmatchable(LeftKey(l))
        BY <3>4 DEF Candidates, SameKey
      <3>5. CASE ~ unmatchable(LeftKey(l))
        <4>1. ASSUME r \in Candidates("hash", l)
              PROVE  SameKey(l, r)
          <5>1. key \in DOMAIN index /\ r \in index[key]
            BY <3>3, <3>5, <4>1 DEF Candidates
          <5>2. r \in KeyedRows /\ hashed[r] = key
            BY <3>2, <5>1
          <5>3. HashKey(RightKey(r)) = HashKey(LeftKey(l))
            BY <3>1, <3>3, <5>2
          <5>. QED BY <3>5, <5>3, KeysMeet DEF SameKey
        <4>2. ASSUME SameKey(l, r)
              PROVE  r \in Candidates("hash", l)
          <5>1. RightKey(r) = LeftKey(l)
            BY <4>2 DEF SameKey
          <5>2. r \in KeyedRows
            BY <3>5, <5>1 DEF KeyedRows
          <5>3. hashed[r] = key
            BY <3>1, <3>3, <5>1, <5>2
          <5>4. key \in Range(hashed)
            BY <3>1, <5>2, <5>3 DEF Range
          <5>5. key \in DOMAIN index /\ r \in index[key]
            BY <3>2, <5>2, <5>3, <5>4
          <5>. QED BY <3>3, <3>5, <5>5 DEF Candidates
        <4>. QED BY <4>1, <4>2
      <3>. QED BY <3>4, <3>5
    <2>2. \A l \in LeftRows, r \in RightRows :
             On(l, r) <=> r \in Candidates("hash", l) /\ residual_holds(l, r)
      BY <2>1, KeysMeet
    <2>3. PICK found : found = {p \in batch \X RightRows : p[2] \in Candidates("hash", p[1])}
      OBVIOUS
    <2>4. apply_residual("hash", found) = {p \in found : residual_holds(p[1], p[2])}
      BY DEF apply_residual
    <2>5. {p \in found : residual_holds(p[1], p[2])} = {p \in batch \X RightRows : On(p[1], p[2])}
      <3>1. \A p \in batch \X RightRows :
               On(p[1], p[2]) <=> p[2] \in Candidates("hash", p[1]) /\ residual_holds(p[1], p[2])
        BY <2>2
      <3>. QED BY <2>3, <3>1
    <2>. QED BY <1>2, <2>3, <2>4, <2>5
  <1>. QED BY <1>1, <1>2

\* What a batch adds to the output is what is owed for its rows.
LEMMA BatchPays ==
  ASSUME IsJoin, NEW batch \in SUBSET LeftRows,
         NEW kept, kept = {p \in batch \X RightRows : On(p[1], p[2])},
         NEW list, list = output_pairs(plan.type, kept, {p[1] : p \in kept}, batch)
  PROVE  HasPaid(list, batch, {})
  <1>1. PICK A, m, n, hit, type : /\ A = Answer /\ m = Len(plan.left) /\ n = Len(plan.right)
                                  /\ hit = {l \in batch : Partners(l) # {}} /\ type = plan.type
    OBVIOUS
  <1>2. /\ m \in Nat /\ n \in Nat /\ LeftRows = 1..m /\ RightRows = 1..n /\ type \in JoinType
    BY <1>1, JoinPlan
  <1>3. {p[1] : p \in kept} = hit
    <2>1. ASSUME NEW l \in hit
          PROVE  \E p \in kept : p[1] = l
      <3>1. PICK r \in RightRows : On(l, r)
        BY <1>1, <2>1 DEF Partners
      <3>2. <<l, r>> \in kept /\ <<l, r>>[1] = l
        BY <1>1, <2>1, <3>1
      <3>. QED BY <3>2
    <2>2. \A p \in kept : p[1] \in batch /\ p[2] \in Partners(p[1])
      BY DEF Partners
    <2>3. \A p \in kept : p[1] \in hit
      BY ONLY <1>1, <2>2
    <2>. QED BY ONLY <2>1, <2>3
  <1>4. batch \ hit = {l \in batch : Partners(l) = {}}
    BY <1>1
  <1>5. /\ FromLeft(batch) \subseteq A
        /\ type = "semi" => FromLeft(batch) = Padded(hit)
        /\ type = "anti" => FromLeft(batch) = Padded(batch \ hit)
        /\ ~ is_filtering(type) =>
             FromLeft(batch) = kept \cup (IF preserves_left(type) THEN Padded(batch \ hit) ELSE {})
    <2>1. FromLeft(batch) \subseteq A
      BY <1>1 DEF FromLeft
    <2>. QED BY <1>1, <1>4, <2>1, Owing
  <1>6. /\ kept \in SUBSET ((0..m) \X (0..n))
        /\ Padded(hit) \in SUBSET ((0..m) \X (0..n)) /\ Padded(batch \ hit) \in SUBSET ((0..m) \X (0..n))
    <2>1. \A l \in 1..m : l \in 0..m
      BY <1>2
    <2>2. \A r \in 1..n : r \in 0..n
      BY <1>2
    <2>3. 0 \in 0..n
      BY <1>2
    <2>4. hit \subseteq batch
      BY <1>1
    <2>5. kept \in SUBSET ((0..m) \X (0..n))
      BY <1>2, <2>1, <2>2
    <2>. QED BY <1>2, <2>1, <2>3, <2>4, <2>5 DEF Padded
  <1>7. ASSUME NEW P \in SUBSET ((0..m) \X (0..n)), P = FromLeft(batch)
        PROVE  InOrder(P) \in Seq(A) /\ EachOnce(InOrder(P)) /\ ToSet(InOrder(P)) = FromLeft(batch)
    BY <1>2, <1>5, <1>7, PairsListed
  <1>8. {<<l, 0>> : l \in hit} = Padded(hit) /\ {<<l, 0>> : l \in batch \ hit} = Padded(batch \ hit)
    BY DEF Padded
  <1>9. list = output_pairs(type, kept, hit, batch)
    BY ONLY <1>1, <1>3, list = output_pairs(plan.type, kept, {p[1] : p \in kept}, batch)
  <1>10. list \in Seq(A) /\ EachOnce(list) /\ ToSet(list) = FromLeft(batch)
    <2>1. CASE type = "semi"
      <3>1. list = InOrder(Padded(hit))
        BY <1>8, <1>9, <2>1 DEF output_pairs, preserves_left
      <3>. QED BY <1>5, <1>6, <1>7, <2>1, <3>1
    <2>2. CASE type = "anti"
      <3>1. list = InOrder(Padded(batch \ hit))
        BY <1>8, <1>9, <2>2 DEF output_pairs, preserves_left
      <3>. QED BY <1>5, <1>6, <1>7, <2>2, <3>1
    <2>3. CASE type \notin {"semi", "anti"} /\ ~ preserves_left(type)
      <3>1. list = InOrder(kept)
        BY <1>9, <2>3 DEF output_pairs
      <3>2. kept = FromLeft(batch)
        BY <1>5, <2>3 DEF is_filtering
      <3>. QED BY <1>6, <1>7, <3>1, <3>2
    <2>4. CASE type \notin {"semi", "anti"} /\ preserves_left(type)
      <3>1. PICK s, t : s = InOrder(kept) /\ t = InOrder(Padded(batch \ hit))
        OBVIOUS
      <3>2. list = s \o t
        BY <1>8, <1>9, <2>4, <3>1 DEF output_pairs
      <3>3. FromLeft(batch) = kept \cup Padded(batch \ hit)
        BY <1>5, <2>4 DEF is_filtering
      <3>4. kept \subseteq A /\ Padded(batch \ hit) \subseteq A
        BY ONLY <1>5, <3>3
      <3>5. s \in Seq(A) /\ EachOnce(s) /\ ToSet(s) = kept
        BY <1>2, <1>6, <3>1, <3>4, PairsListed
      <3>6. t \in Seq(A) /\ EachOnce(t) /\ ToSet(t) = Padded(batch \ hit)
        BY <1>2, <1>6, <3>1, <3>4, PairsListed
      <3>7. kept \cap Padded(batch \ hit) = {}
        <4>1. \A p \in kept : p[2] # 0
          BY <1>2
        <4>2. \A p \in Padded(batch \ hit) : p[2] = 0
          BY DEF Padded
        <4>. QED BY ONLY <4>1, <4>2
      <3>8. ToSet(s) \cap ToSet(t) = {}
        BY ONLY <3>5, <3>6, <3>7
      <3>9. s \o t \in Seq(A) /\ EachOnce(s \o t) /\ ToSet(s \o t) = ToSet(s) \cup ToSet(t)
        <4>1. s \in Seq(A) /\ t \in Seq(A) /\ EachOnce(s) /\ EachOnce(t)
          BY ONLY <3>5, <3>6
        <4>. QED BY ONLY <3>8, <4>1, Appending
      <3>. QED BY ONLY <3>2, <3>3, <3>5, <3>6, <3>9
    <2>. QED BY <2>1, <2>2, <2>3, <2>4
  <1>11. FromRight({}) = {}
    BY DEF FromRight
  <1>. QED BY <1>1, <1>10, <1>11 DEF HasPaid

\* What is owed, and what the keys are, follows from the plan alone.
LEMMA JoinDecides ==
  ASSUME plan' = plan
  PROVE  /\ IsJoin' <=> IsJoin
         /\ LeftRows' = LeftRows /\ RightRows' = RightRows
         /\ \A l : LeftKey(l)' = LeftKey(l)
         /\ \A r : RightKey(r)' = RightKey(r)
         /\ \A l, r : On(l, r)' <=> On(l, r)
         /\ KeyIndex' = KeyIndex
         /\ Answer' = Answer
         /\ \A L : FromLeft(L)' = FromLeft(L)
         /\ \A R : FromRight(R)' = FromRight(R)
  <1>1. LeftRows' = LeftRows /\ RightRows' = RightRows
    BY DEF LeftRows, RightRows
  <1>2. (\A l : LeftKey(l)' = LeftKey(l)) /\ (\A r : RightKey(r)' = RightKey(r))
    BY DEF LeftKey, RightKey
  <1>3. \A l, r : On(l, r)' <=> On(l, r)
    BY <1>2 DEF On, residual_holds
  <1>4. KeyedRows' = KeyedRows
    BY <1>1, <1>2 DEF KeyedRows
  <1>5. KeyIndex' = KeyIndex
    <2>1. [r \in KeyedRows |-> HashKey(RightKey(r))]' = [r \in KeyedRows |-> HashKey(RightKey(r))]
      BY <1>2, <1>4
    <2>. QED BY <1>4, <2>1 DEF KeyIndex
  <1>6. Joined' = Joined
    BY <1>1, <1>3 DEF Joined
  <1>7. Answer' = Answer
    BY <1>1, <1>6 DEF Answer, MatchedLeft, MatchedRight
  <1>8. IsJoin' <=> IsJoin
    BY DEF IsJoin, PlanGiven
  <1>. QED BY <1>1, <1>2, <1>3, <1>5, <1>7, <1>8 DEF FromLeft, FromRight

HashRead ==
  /\ probe_at \in 0..Len(plan.left) /\ flush_pos \in 0..Len(plan.right)
  /\ flushing => probe_at = Len(plan.left) /\ preserves_right(plan.type)
  /\ ~ flushing => flush_pos = 0
  /\ status = "done" => /\ probe_at = Len(plan.left)
                        /\ preserves_right(plan.type) => flush_pos = Len(plan.right)

HasIndex == build_read => index = KeyIndex

HasMatched == preserves_right(plan.type) => matched = MatchedBy(probe_at)

HashPaid == HasPaid(out, 1..probe_at, 1..flush_pos)

HashRun == HashRead /\ HasIndex /\ HasMatched /\ HashPaid

LEMMA HashFirst ==
  ASSUME Init, IsJoin
  PROVE  HashRun
  <1>1. /\ build_read = FALSE /\ probe_at = 0 /\ matched = {} /\ flushing = FALSE /\ flush_pos = 0
        /\ out = <<>> /\ status = "running"
    BY DEF Init, OperatorInit, HashInit
  <1>2. Len(plan.left) \in Nat /\ Len(plan.right) \in Nat
    BY JoinPlan
  <1>3. HashRead
    BY <1>1, <1>2 DEF HashRead
  <1>4. 1..probe_at = {} /\ 1..flush_pos = {}
    BY <1>1
  <1>5. HasIndex
    BY <1>1 DEF HasIndex
  <1>6. HasMatched
    BY <1>1, <1>4 DEF HasMatched, MatchedBy
  <1>7. HashPaid
    BY <1>1, <1>4, NothingPaid DEF HashPaid
  <1>. QED BY <1>3, <1>5, <1>6, <1>7 DEF HashRun

\* What is kept when neither the output nor the cursors move.
LEMMA HashSame ==
  ASSUME HashRun, UNCHANGED <<plan, out, probe_at, flush_pos, matched>>
  PROVE  HashPaid' /\ HasMatched'
  <1>1. HashPaid'
    BY JoinDecides DEF HashRun, HashPaid, HasPaid
  <1>2. HasMatched'
    BY JoinDecides DEF HashRun, HasMatched, MatchedBy
  <1>. QED BY <1>1, <1>2

LEMMA BuildKeeps ==
  ASSUME HashRun, Build
  PROVE  HashRun'
  <1>1. UNCHANGED <<plan, out, probe_at, flush_pos, matched>> /\ flushing' = flushing /\ status' = status
    BY DEF Build, flushVars
  <1>2. HashRead'
    BY <1>1 DEF HashRun, HashRead
  <1>3. index' = KeyIndex
    BY DEF Build, KeyIndex
  <1>4. HasIndex'
    BY <1>1, <1>3, JoinDecides DEF HasIndex
  <1>. QED BY <1>1, <1>2, <1>4, HashSame DEF HashRun

LEMMA ProbeEndKeeps ==
  ASSUME IsJoin, HashRun, ProbeEnd
  PROVE  HashRun'
  <1>1. UNCHANGED <<plan, out, probe_at, flush_pos, matched, build_read, index>>
    BY DEF ProbeEnd, buildVars
  <1>2. HashRead'
    BY <1>1 DEF HashRun, HashRead, ProbeEnd, preserves_right
  <1>3. HasIndex'
    BY <1>1, JoinDecides DEF HashRun, HasIndex
  <1>. QED BY <1>1, <1>2, <1>3, HashSame DEF HashRun

ProbesBy(algorithm) == algorithm \in {"hash", "nested loop"}

LEMMA ProbeKept ==
  ASSUME IsJoin, HashRun, NEW algorithm, ProbesBy(algorithm),
         NEW n \in 1..BatchSize, Probe(algorithm, n)
  PROVE  HashRun'
  <1>1. PICK m, k, L, R : m = probe_at /\ k = Len(plan.left) /\ L = LeftRows /\ R = RightRows
    OBVIOUS
  <1>2. PICK batch : batch = m + 1..m + n
    OBVIOUS
  <1>3. PICK kept : kept = {p \in batch \X R : On(p[1], p[2])}
    OBVIOUS
  <1>4. /\ build_read /\ ~ flushing /\ batch \in SUBSET L
        /\ probe_at' = m + n
        /\ UNCHANGED <<plan, status, build_read, index, flushing, flush_pos>>
    BY <1>1, <1>2 DEF Probe, buildVars, flushVars
  <1>5. kept = apply_residual(algorithm, {p \in batch \X R : p[2] \in Candidates(algorithm, p[1])})
    <2>1. index = KeyIndex
      BY <1>4 DEF HashRun, HasIndex
    <2>. QED BY <1>1, <1>3, <1>4, <2>1, ProbeKeeps, Zenon DEF ProbesBy
  <1>6. /\ matched' = IF preserves_right(plan.type) THEN matched \cup {p[2] : p \in kept} ELSE matched
        /\ out' = out \o output_pairs(plan.type, kept, {p[1] : p \in kept}, batch)
    BY <1>1, <1>2, <1>5 DEF Probe
  <1>7. n \in Nat /\ n >= 1 /\ k \in Nat /\ m \in 0..k /\ L = 1..k
    <2>1. BatchSize \in Nat /\ n \in 1..BatchSize
      BY BatchAssumption
    <2>2. n \in Nat /\ n >= 1
      BY ONLY <2>1
    <2>3. Len(plan.left) \in Nat /\ LeftRows = 1..Len(plan.left)
      BY JoinPlan
    <2>4. probe_at \in 0..Len(plan.left)
      BY DEF HashRun, HashRead
    <2>. QED BY ONLY <1>1, <2>2, <2>3, <2>4
  <1>8. m + n <= k /\ m + n \in 0..k
    <2>1. m + n \in batch
      <3>1. m \in Nat
        BY ONLY <1>7
      <3>2. m + n >= m + 1 /\ m + n \in Int
        BY ONLY <1>7, <3>1
      <3>. QED BY ONLY <1>2, <1>7, <3>1, <3>2
    <2>2. m + n \in 1..k
      BY ONLY <1>4, <1>7, <2>1
    <2>. QED BY ONLY <1>7, <2>2
  <1>9. 1..m + n = (1..m) \cup batch /\ (1..m) \cap batch = {} /\ 1..m \in SUBSET L
    BY ONLY <1>2, <1>7
  <1>10. HashRead'
    <2>1. status' # "done"
      <3>1. status = "done" => m = k
        BY <1>1 DEF HashRun, HashRead
      <3>2. m # k
        BY ONLY <1>7, <1>8
      <3>. QED BY ONLY <1>4, <3>1, <3>2
    <2>. QED BY <1>1, <1>4, <1>8, <2>1 DEF HashRun, HashRead
  <1>11. HasIndex'
    BY <1>4, JoinDecides DEF HashRun, HasIndex
  <1>12. HasMatched'
    <2>1. SUFFICES ASSUME preserves_right(plan.type)
                   PROVE  matched' = MatchedBy(probe_at)'
      BY <1>4 DEF HasMatched
    <2>2. MatchedBy(probe_at)' = {r \in R : \E l \in 1..m + n : On(l, r)}
      BY <1>1, <1>4, JoinDecides DEF MatchedBy
    <2>3. matched = {r \in R : \E l \in 1..m : On(l, r)}
      BY <1>1, <2>1 DEF HashRun, HasMatched, MatchedBy
    <2>4. {p[2] : p \in kept} = {r \in R : \E l \in batch : On(l, r)}
      <3>1. ASSUME NEW r \in R, NEW l \in batch, On(l, r)
            PROVE  r \in {p[2] : p \in kept}
        <4>1. <<l, r>> \in kept /\ <<l, r>>[2] = r
          BY <1>3, <3>1
        <4>. QED BY <4>1
      <3>2. \A p \in kept : p[2] \in R /\ p[1] \in batch /\ On(p[1], p[2])
        BY <1>3
      <3>. QED BY <3>1, <3>2
    <2>5. matched' = matched \cup {p[2] : p \in kept}
      BY <1>6, <2>1
    <2>. QED BY ONLY <1>9, <2>2, <2>3, <2>4, <2>5
  <1>13. HashPaid'
    <2>1. PICK list : list = output_pairs(plan.type, kept, {p[1] : p \in kept}, batch)
      OBVIOUS
    <2>2. HasPaid(list, batch, {})
      BY <1>1, <1>3, <1>4, <2>1, BatchPays
    <2>3. HasPaid(out, 1..m, {})
      <3>1. flush_pos = 0 /\ 1..0 = {}
        <4>1. ~ flushing => flush_pos = 0
          BY DEF HashRun, HashRead
        <4>2. 1..0 = {}
          OBVIOUS
        <4>. QED BY ONLY <1>4, <4>1, <4>2
      <3>. QED BY <1>1, <3>1 DEF HashRun, HashPaid
    <2>4. HasPaid(out \o list, (1..m) \cup batch, {} \cup {})
      BY <1>1, <1>4, <1>9, <2>2, <2>3, Paying
    <2>5. out' = out \o list /\ 1..probe_at' = (1..m) \cup batch /\ 1..flush_pos' = {}
      <3>1. flush_pos' = 0 /\ 1..0 = {}
        <4>1. ~ flushing => flush_pos = 0
          BY DEF HashRun, HashRead
        <4>2. 1..0 = {}
          OBVIOUS
        <4>. QED BY ONLY <1>4, <4>1, <4>2
      <3>. QED BY <1>4, <1>6, <1>9, <2>1, <3>1
    <2>6. HasPaid(out', 1..probe_at', 1..flush_pos')
      <3>1. {} \cup {} = {}
        OBVIOUS
      <3>. QED BY ONLY <2>4, <2>5, <3>1
    <2>. QED BY <1>4, <2>6, JoinDecides DEF HashPaid, HasPaid
  <1>. QED BY <1>10, <1>11, <1>12, <1>13 DEF HashRun

\* A set of numbers has a greatest.
LEMMA Greatest ==
  ASSUME NEW n \in Nat, NEW S \in SUBSET (1..n), S # {}
  PROVE  \E most \in S : \A other \in S : other <= most
  <1>. DEFINE T == {n - s : s \in S}
  <1>1. T \in SUBSET Nat /\ T # {}
    <2>1. \A s \in S : n - s \in Nat
      <3>1. \A s \in 1..n : n - s \in Nat
        OBVIOUS
      <3>. QED BY <3>1
    <2>. QED BY <2>1
  <1>2. PICK t \in T : \A u \in T : t <= u
    <2>. HIDE DEF T
    <2>. QED BY <1>1, Least
  <1>3. PICK most \in S : t = n - most
    BY <1>2
  <1>4. \A other \in S : n - most <= n - other
    BY <1>2, <1>3
  <1>5. \A other \in S : other <= most
    <2>1. \A other \in S : other \in Int
      OBVIOUS
    <2>2. most \in Int /\ n \in Int
      BY <2>1
    <2>. QED BY ONLY <1>4, <2>1, <2>2
  <1>. QED BY <1>5

\* The first few of a set of rows, and how far one has to go for them.
IsFirstOf(batch, ahead, few) == batch = {r \in ahead : Cardinality({o \in ahead : o <= r}) <= few}

EndsAt(end, batch, few, n) ==
  end = IF Cardinality(batch) = few THEN CHOOSE r \in batch : \A o \in batch : o <= r ELSE n

Beyond(pos, ahead, n) == pos \in 0..n /\ ahead \in SUBSET (pos + 1..n)

LEMMA FirstFew ==
  ASSUME NEW n \in Nat, NEW few \in Nat \ {0}, NEW pos, NEW ahead, Beyond(pos, ahead, n), NEW batch, IsFirstOf(batch, ahead, few),
         NEW end, EndsAt(end, batch, few, n)
  PROVE  /\ end \in pos..n
         /\ batch = {r \in ahead : r <= end}
         /\ batch = {} => end = n
  <1>0. /\ batch = {r \in ahead : Cardinality({o \in ahead : o <= r}) <= few}
        /\ end = IF Cardinality(batch) = few THEN CHOOSE r \in batch : \A o \in batch : o <= r ELSE n
    BY DEF IsFirstOf, EndsAt
  <1>. pos \in 0..n /\ ahead \in SUBSET (pos + 1..n)
    BY DEF Beyond
  <1>1. ahead \in SUBSET (1..n) /\ batch \in SUBSET ahead
    BY <1>0
  <1>2. IsFiniteSet(ahead) /\ IsFiniteSet(batch)
    <2>1. IsFiniteSet(1..n)
      BY FS_Interval
    <2>. QED BY <1>1, <2>1, FS_Subset
  <1>3. Cardinality(batch) = Lesser(Cardinality(ahead), few)
    BY <1>0, <1>1, Ranked
  <1>4. \A r \in ahead : r \in Int /\ r > pos /\ r <= n
    OBVIOUS
  <1>5. CASE Cardinality(batch) = few
    <2>1. batch # {}
      <3>1. Cardinality({}) = 0
        BY FS_EmptySet
      <3>. QED BY <1>5, <3>1
    <2>2. \E r \in batch : \A o \in batch : o <= r
      <3>1. batch \in SUBSET (1..n)
        BY ONLY <1>1
      <3>. QED BY <2>1, <3>1, Greatest
    <2>3. end \in batch /\ \A o \in batch : o <= end
      <3>1. end = CHOOSE r \in batch : \A o \in batch : o <= r
        BY <1>0, <1>5
      <3>. QED BY ONLY <2>2, <3>1
    <2>4. end \in ahead /\ Cardinality({o \in ahead : o <= end}) <= few
      BY <1>0, <2>3
    <2>5. ASSUME NEW r \in ahead, r <= end
          PROVE  r \in batch
      <3>1. PICK A, B : A = {o \in ahead : o <= r} /\ B = {o \in ahead : o <= end}
        OBVIOUS
      <3>2. A \in SUBSET B
        <4>1. \A o \in ahead : o <= r => o <= end
          <5>1. end \in Int /\ r \in Int
            BY ONLY <1>4, <2>4, <2>5
          <5>. QED BY ONLY <1>4, <2>5, <5>1
        <4>. QED BY ONLY <3>1, <4>1
      <3>3. B \in SUBSET ahead
        BY <3>1
      <3>4. IsFiniteSet(B)
        BY ONLY <1>2, <3>3, FS_Subset
      <3>5. Cardinality(A) \in Nat /\ Cardinality(B) \in Nat /\ Cardinality(A) <= Cardinality(B)
        <4>1. IsFiniteSet(A) /\ Cardinality(A) <= Cardinality(B)
          BY ONLY <3>2, <3>4, FS_Subset
        <4>. QED BY ONLY <3>4, <4>1, FS_CardinalityType
      <3>6. Cardinality(A) <= few
        <4>1. Cardinality(B) <= few
          BY ONLY <2>4, <3>1
        <4>2. few \in Int
          OBVIOUS
        <4>. QED BY ONLY <3>5, <4>1, <4>2
      <3>. QED BY <1>0, <2>5, <3>1, <3>6
    <2>6. batch = {r \in ahead : r <= end}
      BY ONLY <1>1, <2>3, <2>5
    <2>7. end \in pos..n
      <3>1. pos \in Int /\ n \in Int
        OBVIOUS
      <3>. QED BY ONLY <1>4, <2>4, <3>1
    <2>. QED BY ONLY <2>1, <2>6, <2>7
  <1>6. CASE Cardinality(batch) # few
    <2>1. end = n
      BY <1>0, <1>6
    <2>2. Cardinality(batch) = Cardinality(ahead)
      BY <1>3, <1>6 DEF Lesser
    <2>3. batch = ahead
      BY ONLY <1>1, <1>2, <2>2, FS_Subset
    <2>4. \A r \in ahead : r <= n
      BY <1>4
    <2>5. end \in pos..n
      <3>1. pos \in 0..n /\ n \in Nat
        OBVIOUS
      <3>. QED BY ONLY <2>1, <3>1
    <2>6. batch = {r \in ahead : r <= end}
      BY ONLY <2>1, <2>3, <2>4
    <2>. QED BY ONLY <2>1, <2>5, <2>6
  <1>. QED BY <1>5, <1>6

LEMMA FlushKept ==
  ASSUME IsJoin, HashRun, Flush, status = "running"
  PROVE  HashRun'
  <1>1. PICK n, pos, end : n = Len(plan.right) /\ pos = flush_pos /\ end = flush_pos'
    OBVIOUS
  <1>2. PICK ahead : ahead = {r \in RightRows : flush_pos < r /\ r \notin matched}
    OBVIOUS
  <1>3. PICK batch : batch = {r \in ahead : Cardinality({o \in ahead : o <= r}) <= BatchSize}
    OBVIOUS
  <1>0. IsFirstOf(batch, ahead, BatchSize)
    BY <1>3 DEF IsFirstOf
  <1>4. /\ flushing
        /\ end = IF Cardinality(batch) = BatchSize THEN CHOOSE r \in batch : \A o \in batch : o <= r
                 ELSE n
        /\ out' = out \o InOrder({<<0, r>> : r \in batch})
        /\ status' = IF batch = {} THEN "done" ELSE status
        /\ UNCHANGED <<build_read, index, probe_at, matched, flushing, plan>>
    BY <1>1, <1>2, <1>3 DEF Flush, buildVars
  <1>5. /\ probe_at = Len(plan.left) /\ preserves_right(plan.type) /\ pos \in 0..n
        /\ matched = MatchedBy(probe_at)
    BY <1>1, <1>4 DEF HashRun, HashRead, HasMatched
  <1>6. n \in Nat /\ RightRows = 1..n /\ LeftRows = 1..probe_at /\ Len(plan.left) \in Nat
    BY <1>1, <1>5, JoinPlan
  <1>7. ahead \in SUBSET (pos + 1..n) /\ \A r \in pos + 1..n : r \in ahead <=> r \notin matched
    <2>1. \A r \in 1..n : pos < r <=> r \in pos + 1..n
      BY <1>5, <1>6
    <2>2. \A r \in pos + 1..n : r \in 1..n
      BY <1>5, <1>6
    <2>3. \A r : r \in ahead <=> r \in 1..n /\ pos < r /\ r \notin matched
      BY <1>1, <1>2, <1>6
    <2>. QED BY ONLY <2>1, <2>2, <2>3
  <1>8. /\ end \in pos..n
        /\ batch = {r \in ahead : r <= end}
        /\ batch = {} => end = n
    <2>1. n \in Nat /\ BatchSize \in Nat \ {0} /\ Beyond(pos, ahead, n)
      BY <1>5, <1>6, <1>7, BatchAssumption DEF Beyond
    <2>2. EndsAt(end, batch, BatchSize, n)
      BY <1>4 DEF EndsAt
    <2>. QED BY ONLY <1>0, <2>1, <2>2, FirstFew
  <1>9. PICK R : R = pos + 1..end
    OBVIOUS
  <1>10. R \in SUBSET RightRows /\ 1..end = (1..pos) \cup R /\ (1..pos) \cap R = {}
    <2>1. n \in Nat /\ pos \in 0..n /\ end \in pos..n
      BY ONLY <1>5, <1>6, <1>8
    <2>. QED BY ONLY <1>6, <1>9, <2>1
  <1>11. \A r \in RightRows : Lonely(r) <=> r \notin matched
    BY <1>5, <1>6 DEF Lonely, MatchedBy
  <1>12. batch = {s \in R : Lonely(s)}
    <2>1. \A r \in pos + 1..n : r \in R <=> r <= end
      BY ONLY <1>5, <1>6, <1>8, <1>9
    <2>2. \A r \in R : r \in pos + 1..n
      BY ONLY <1>5, <1>6, <1>8, <1>9
    <2>. QED BY ONLY <1>7, <1>8, <1>10, <1>11, <2>1, <2>2
  <1>13. FromRight(R) = {<<0, r>> : r \in batch}
    BY <1>5, <1>10, <1>12, Owing
  <1>14. PICK list : list = InOrder({<<0, r>> : r \in batch})
    OBVIOUS
  <1>15. HasPaid(list, {}, R)
    <2>1. PICK P, A : P = {<<0, r>> : r \in batch} /\ A = Answer
      OBVIOUS
    <2>2. P \in SUBSET ((0..0) \X (0..n)) /\ P \subseteq A
      <3>1. batch \in SUBSET (0..n)
        BY <1>6, <1>10, <1>12
      <3>2. P \subseteq A
        BY <1>13, <2>1 DEF FromRight
      <3>. QED BY <2>1, <3>1, <3>2
    <2>3. list \in Seq(A) /\ EachOnce(list) /\ ToSet(list) = P
      BY <1>6, <1>14, <2>1, <2>2, PairsListed
    <2>4. FromLeft({}) = {}
      BY DEF FromLeft
    <2>. QED BY <1>13, <2>1, <2>3, <2>4 DEF HasPaid
  <1>16. HashPaid'
    <2>1. HasPaid(out, 1..probe_at, 1..pos)
      BY <1>1 DEF HashRun, HashPaid
    <2>2. HasPaid(out \o list, (1..probe_at) \cup {}, (1..pos) \cup R)
      BY <1>6, <1>10, <1>15, <2>1, Paying
    <2>3. HasPaid(out', 1..probe_at', 1..flush_pos')
      <3>1. (1..probe_at) \cup {} = 1..probe_at
        OBVIOUS
      <3>. QED BY ONLY <1>1, <1>4, <1>10, <1>14, <2>2, <3>1
    <2>. QED BY <1>4, <2>3, JoinDecides DEF HashPaid, HasPaid
  <1>17. HashRead'
    <2>1. end \in 0..n
      BY ONLY <1>5, <1>6, <1>8
    <2>2. status' = "done" => end = n
      BY <1>4, <1>8
    <2>3. 0 <= probe_at
      BY ONLY <1>5, <1>6
    <2>. QED BY <1>1, <1>4, <1>5, <1>6, <2>1, <2>2, <2>3 DEF HashRead
  <1>18. HasIndex'
    BY <1>4, JoinDecides DEF HashRun, HasIndex
  <1>19. HasMatched'
    BY <1>4, JoinDecides DEF HashRun, HasMatched, MatchedBy
  <1>. QED BY <1>16, <1>17, <1>18, <1>19 DEF HashRun

-----------------------------------------------------------------------------
(* What arrives at a merge join, which from here on is one that compares   *)
(* keys as the sort did that its inputs come from.                         *)

IsMerge == IsJoin /\ build_join(plan) = "merge" /\ compares_as_sorted(plan)

\* Why a join is a merge join.
LEMMA MergePlan ==
  ASSUME IsMerge
  PROVE  /\ plan.equi # <<>>
         /\ plan.algorithm = "ForceMergeJoin" \/ merge_join_applies(plan)
  BY Zenon DEF IsMerge, build_join

\* A list has every row of an input of n rows once.
ListsRows(list, n) ==
  /\ n \in Nat /\ list \in Seq(1..n) /\ Len(list) = n /\ DOMAIN list = 1..n
  /\ EachOnce(list) /\ ToSet(list) = 1..n

\* As the sort of one does, whatever it is sorted by.
LEMMA SortLists ==
  ASSUME NEW input, NEW n, NEW specs, Sortable(input, n, specs),
         NEW order, order = sort(input, specs)
  PROVE  SortedRows(order, input, n, specs) /\ ListsRows(order, n)
  <1>1. n \in Nat
    BY DEF Sortable
  <1>2. SortedRows(order, input, n, specs)
    BY <1>1, SortSorts
  <1>3. EachOnce(order)
    BY <1>2 DEF SortedRows, EachOnce
  <1>4. ToSet(order) = 1..n
    <2>1. /\ order \in Seq(1..n) /\ Len(order) = n /\ DOMAIN order = 1..n
          /\ \A r \in 1..n : \E i \in 1..n : order[i] = r
      BY <1>2 DEF SortedRows
    <2>2. \A i \in 1..n : order[i] \in 1..n
      BY ONLY <2>1, ElementOfSeq
    <2>. QED BY ONLY <2>1, <2>2 DEF ToSet
  <1>. QED BY <1>1, <1>2, <1>3, <1>4 DEF SortedRows, ListsRows

\* The keys of an input's rows.
KeysIn(input, n, columns, m) == [r \in 1..n |-> [c \in 1..m |-> input[r][columns[c]]]]

\* An input whose columns of the keys hold neither NaN nor anything but values.
HoldsKeys(input, n, columns, m) ==
  /\ n \in Nat /\ m \in Nat /\ DOMAIN input = 1..n /\ Len(input) = n
  /\ columns \in Seq(Nat \ {0}) /\ Len(columns) = m
  /\ \A r \in 1..n, c \in 1..m : input[r][columns[c]] \in Datum \ {NaN}

\* Sorted on its keys it arrives with the keys ascending ...
LEMMA ForcedArrives ==
  ASSUME NEW input, NEW n, NEW columns, NEW m, HoldsKeys(input, n, columns, m),
         NEW order, order = sort(input, sorted_on(columns))
  PROVE  /\ ListsRows(order, n)
         /\ Ascends([i \in 1..n |-> KeysIn(input, n, columns, m)[order[i]]])
  <1>. /\ n \in Nat /\ m \in Nat /\ DOMAIN input = 1..n
       /\ columns \in Seq(Nat \ {0}) /\ Len(columns) = m /\ DOMAIN columns = 1..m
       /\ \A r \in 1..n, c \in 1..m : input[r][columns[c]] \in Datum \ {NaN}
    BY DEF HoldsKeys
  <1>1. PICK specs : specs = sorted_on(columns)
    OBVIOUS
  <1>2. specs = [c \in 1..m |-> [column |-> columns[c], ascending |-> TRUE, nulls_first |-> TRUE]]
    BY <1>1 DEF sorted_on
  <1>3. specs \in Seq(OrderKey) /\ Len(specs) = m /\ DOMAIN specs = 1..m
    <2>1. \A c \in 1..m : columns[c] \in Nat \ {0}
      OBVIOUS
    <2>2. specs \in [1..m -> OrderKey]
      BY <1>2, <2>1 DEF OrderKey
    <2>. QED BY <2>2, IsASeq
  <1>4. \A c \in 1..m : specs[c].column = columns[c] /\ specs[c].ascending
    BY <1>2
  <1>5. Sortable(input, n, specs)
    <2>1. \A r \in 1..n : HasKeys(input[r], specs)
      BY <1>3, <1>4 DEF HasKeys
    <2>. QED BY <1>3, <2>1 DEF Sortable
  <1>6. SortedRows(order, input, n, specs)
    BY <1>1, <1>5, SortLists
  <1>7. ListsRows(order, n)
    BY <1>1, <1>5, SortLists
  <1>8. PICK key : key = KeysIn(input, n, columns, m)
    OBVIOUS
  <1>9. KeyedBy(key, input, n, specs)
    BY <1>3, <1>4, <1>8 DEF KeyedBy, KeysIn, PlainKey
  <1>10. order \in [1..n -> 1..n]
    <2>1. order \in Seq(1..n) /\ Len(order) = n /\ DOMAIN order = 1..n
      BY <1>7 DEF ListsRows
    <2>. DEFINE D == 1..n
    <2>2. order \in Seq(D) /\ Len(order) = n
      BY <2>1
    <2>. HIDE DEF D
    <2>3. order \in [1..Len(order) -> D]
      BY ONLY <2>2, LenProperties
    <2>4. order \in [1..n -> D]
      BY ONLY <2>2, <2>3
    <2>. QED BY <2>4 DEF D
  <1>11. \A i, j \in 1..n : i < j => compare_rows(input[order[i]], input[order[j]], specs) # "greater"
    BY ONLY <1>6 DEF SortedRows
  <1>12. Ascends([i \in 1..n |-> key[order[i]]])
    <2>1. ReadInOrder(order, input, n, specs)
      BY <1>10, <1>11 DEF ReadInOrder
    <2>. QED BY ONLY <1>5, <1>9, <2>1, SortedAscends
  <1>. QED BY <1>7, <1>8, <1>12

\* An order that is by these columns first.
StartsWith(given, columns, m) ==
  m <= Len(given) /\ \A c \in 1..m : given[c].column = columns[c] /\ given[c].ascending

\* ... and so does one that is known to be sorted on more.
LEMMA SortedArrives ==
  ASSUME NEW input, NEW n, NEW columns, NEW m, HoldsKeys(input, n, columns, m),
         NEW given, Sortable(input, n, given), Arrives(input, given),
         StartsWith(given, columns, m),
         NEW order, order = [i \in DOMAIN input |-> i]
  PROVE  /\ ListsRows(order, n)
         /\ Ascends([i \in 1..n |-> KeysIn(input, n, columns, m)[order[i]]])
  <1>. /\ n \in Nat /\ m \in Nat /\ DOMAIN input = 1..n /\ Len(input) = n
       /\ \A r \in 1..n, c \in 1..m : input[r][columns[c]] \in Datum \ {NaN}
       /\ m <= Len(given) /\ \A c \in 1..m : given[c].column = columns[c] /\ given[c].ascending
    BY DEF HoldsKeys, StartsWith
  <1>1. order \in [1..n -> 1..n] /\ \A i \in 1..n : order[i] = i
    OBVIOUS
  <1>2. ListsRows(order, n)
    <2>1. order \in Seq(1..n) /\ Len(order) = n /\ DOMAIN order = 1..n
      BY <1>1, IsASeq
    <2>2. EachOnce(order)
      BY <1>1, <2>1 DEF EachOnce
    <2>3. ToSet(order) = 1..n
      BY <1>1, <2>1 DEF ToSet
    <2>. QED BY <2>1, <2>2, <2>3 DEF ListsRows
  <1>3. PICK specs : specs = SubSeq(given, 1, m)
    OBVIOUS
  <1>4. given \in Seq(OrderKey) /\ Len(given) \in Nat /\ m \in 0..Len(given)
        /\ \A r \in 1..n : HasKeys(input[r], given)
    BY DEF Sortable
  <1>5. specs \in Seq(OrderKey) /\ Len(specs) = m /\ DOMAIN specs = 1..m /\ \A c \in 1..m : specs[c] = given[c]
    <2>1. specs \in Seq(OrderKey) /\ Len(specs) = m /\ \A c \in 1..m : specs[c] = given[c]
      BY <1>3, <1>4, SubSeqProperties
    <2>. QED BY <2>1
  <1>6. \A c \in 1..m : specs[c].column = columns[c] /\ specs[c].ascending
    BY <1>5
  <1>7. Sortable(input, n, specs)
    <2>1. \A r \in 1..n : HasKeys(input[r], specs)
      BY <1>5, <1>6 DEF HasKeys
    <2>. QED BY <1>5, <2>1 DEF Sortable
  <1>8. \A i, j \in 1..n : i < j => compare_rows(input[order[i]], input[order[j]], specs) # "greater"
    <2>1. SUFFICES ASSUME NEW i \in 1..n, NEW j \in 1..n, i < j
                   PROVE  compare_rows(input[i], input[j], specs) # "greater"
      BY <1>1
    <2>2. compare_rows(input[i], input[j], given) # "greater"
      BY <2>1, InOrderThroughout
    <2>3. PICK x, y : x = input[i] /\ y = input[j]
      OBVIOUS
    <2>4. HasKeys(x, given) /\ HasKeys(y, given)
      BY <1>4, <2>3
    <2>5. compare_rows(x, y, given) # "greater"
      BY <2>2, <2>3
    <2>6. compare_rows(x, y, specs) # "greater"
      <3>1. AreFirst(specs, m, given)
        BY ONLY <1>3, <1>4 DEF AreFirst
      <3>. QED BY ONLY <1>4, <2>4, <2>5, <3>1, FirstKeys
    <2>. QED BY <2>3, <2>6
  <1>9. PICK key : key = KeysIn(input, n, columns, m)
    OBVIOUS
  <1>10. KeyedBy(key, input, n, specs)
    BY <1>5, <1>6, <1>9 DEF KeyedBy, KeysIn, PlainKey
  <1>11. Ascends([i \in 1..n |-> key[order[i]]])
    <2>1. ReadInOrder(order, input, n, specs)
      BY <1>1, <1>8 DEF ReadInOrder
    <2>. QED BY ONLY <1>7, <1>10, <2>1, SortedAscends
  <1>. QED BY <1>2, <1>9, <1>11

\* The rows of both sides arrive each once, with the keys ascending.
Arrived ==
  /\ ListsRows(left, Len(plan.left)) /\ ListsRows(right, Len(plan.right))
  /\ Ascends([k \in 1..Len(plan.left) |-> LeftKey(left[k])])
  /\ Ascends([k \in 1..Len(plan.right) |-> RightKey(right[k])])

\* A row whose values in the columns of an order are values has keys to be ordered by.
LEMMA HeldKeys ==
  ASSUME NEW input, NEW order, Held(input, {key.column : key \in ToSet(order)}) \subseteq Datum
  PROVE  \A r \in DOMAIN input : HasKeys(input[r], order)
  <1>1. ASSUME NEW r \in DOMAIN input, NEW k \in DOMAIN order
        PROVE  input[r][order[k].column] \in Datum
    <2>1. order[k] \in ToSet(order)
      BY DEF ToSet
    <2>2. PICK columns : columns = {key.column : key \in ToSet(order)}
      OBVIOUS
    <2>3. order[k].column \in columns
      BY ONLY <2>1, <2>2, Zenon
    <2>4. \A x \in DOMAIN input, c \in columns : input[x][c] \in Held(input, columns)
      BY DEF Held
    <2>5. Held(input, columns) \subseteq Datum
      BY <2>2
    <2>. QED BY <2>3, <2>4, <2>5
  <1>. QED BY <1>1 DEF HasKeys

LEMMA ArrivedFirst ==
  ASSUME Init, IsMerge
  PROVE  Arrived
  <1>. IsJoin
    BY DEF IsMerge
  <1>1. PICK p, m, n, k, a, b : /\ p = plan /\ m = Len(plan.left) /\ n = Len(plan.right) /\ k = Parts
                                /\ a = [i \in DOMAIN plan.equi |-> plan.equi[i].left]
                                /\ b = [i \in DOMAIN plan.equi |-> plan.equi[i].right]
    OBVIOUS
  <1>2. /\ k \in Nat /\ DOMAIN p.equi = 1..k
        /\ m \in Nat /\ LeftRows = 1..m /\ n \in Nat /\ RightRows = 1..n
        /\ DOMAIN p.left = 1..m /\ DOMAIN p.right = 1..n /\ Len(p.left) = m /\ Len(p.right) = n
        /\ p.left_order \in Seq(OrderKey) /\ p.right_order \in Seq(OrderKey)
        /\ p.equi \in Seq([left : Nat \ {0}, right : Nat \ {0}, bare : BOOLEAN])
    BY <1>1, JoinPlan DEF LeftRows, RightRows
  <1>3. a \in Seq(Nat \ {0}) /\ Len(a) = k /\ b \in Seq(Nat \ {0}) /\ Len(b) = k
    <2>1. PICK q : q = p.equi
      OBVIOUS
    <2>2. q \in Seq([left : Nat \ {0}, right : Nat \ {0}, bare : BOOLEAN]) /\ Len(q) = k
      BY <1>1, <1>2, <2>1 DEF Parts
    <2>3. \A i \in 1..k : q[i] \in [left : Nat \ {0}, right : Nat \ {0}, bare : BOOLEAN]
      BY ONLY <2>2, ElementOfSeq
    <2>4. \A i \in 1..k : q[i].left \in Nat \ {0} /\ q[i].right \in Nat \ {0}
      BY ONLY <2>3
    <2>5. a = [i \in 1..k |-> q[i].left] /\ b = [i \in 1..k |-> q[i].right]
      BY <1>1, <1>2, <2>1
    <2>6. a \in [1..k -> Nat \ {0}]
      BY ONLY <2>4, <2>5
    <2>7. b \in [1..k -> Nat \ {0}]
      BY ONLY <2>4, <2>5
    <2>8. a \in Seq(Nat \ {0}) /\ Len(a) = k
      BY ONLY <1>2, <2>6, IsASeq
    <2>9. b \in Seq(Nat \ {0}) /\ Len(b) = k
      BY ONLY <1>2, <2>7, IsASeq
    <2>. QED BY <2>8, <2>9
  <1>4. /\ \A r \in 1..m, c \in 1..k : p.left[r][a[c]] = LeftKey(r)[c]
        /\ \A r \in 1..n, c \in 1..k : p.right[r][b[c]] = RightKey(r)[c]
    BY <1>1, <1>2 DEF LeftKey, RightKey
  <1>5. HoldsKeys(p.left, m, a, k) /\ HoldsKeys(p.right, n, b, k)
    <2>1. KeyParts(plan) \subseteq Datum \ {NaN}
      BY KeysOf DEF IsMerge, compares_as_sorted
    <2>2. /\ \A r \in 1..m, c \in 1..k : LeftKey(r)[c] \in KeyParts(plan)
          /\ \A r \in 1..n, c \in 1..k : RightKey(r)[c] \in KeyParts(plan)
      <3>1. PICK V : V = KeyParts(plan)
        OBVIOUS
      <3>2. /\ \A r \in 1..m : LeftKey(r) \in [1..k -> V]
            /\ \A r \in 1..n : RightKey(r) \in [1..k -> V]
        BY <1>1, <1>2, <3>1, KeysOf
      <3>. QED BY ONLY <3>1, <3>2
    <2>3. /\ \A r \in 1..m, c \in 1..k : p.left[r][a[c]] \in Datum \ {NaN}
          /\ \A r \in 1..n, c \in 1..k : p.right[r][b[c]] \in Datum \ {NaN}
      BY <1>4, <2>1, <2>2
    <2>. QED BY <1>2, <1>3, <2>3 DEF HoldsKeys
  <1>6. left = Arrival(p.left, a) /\ right = Arrival(p.right, b)
    BY <1>1 DEF Init, MergeInit, IsJoin
  <1>7. /\ \A r \in 1..m : KeysIn(p.left, m, a, k)[r] = LeftKey(r)
        /\ \A r \in 1..n : KeysIn(p.right, n, b, k)[r] = RightKey(r)
    <2>1. \A r \in 1..m : KeysIn(p.left, m, a, k)[r] = LeftKey(r)
      BY <1>1, <1>2 DEF KeysIn, LeftKey
    <2>2. \A r \in 1..n : KeysIn(p.right, n, b, k)[r] = RightKey(r)
      BY <1>1, <1>2 DEF KeysIn, RightKey
    <2>. QED BY <2>1, <2>2
  <1>8. /\ ListsRows(left, m) /\ Ascends([i \in 1..m |-> KeysIn(p.left, m, a, k)[left[i]]])
        /\ ListsRows(right, n) /\ Ascends([i \in 1..n |-> KeysIn(p.right, n, b, k)[right[i]]])
    <2>1. CASE p.algorithm = "ForceMergeJoin"
      <3>1. left = sort(p.left, sorted_on(a)) /\ right = sort(p.right, sorted_on(b))
        BY <1>1, <1>6, <2>1 DEF Arrival
      <3>. QED BY ONLY <1>5, <3>1, ForcedArrives
    <2>2. CASE p.algorithm # "ForceMergeJoin"
      <3>1. merge_join_applies(p) /\ p.algorithm = "Auto"
        <4>1. merge_join_applies(p)
          BY <1>1, <2>2, MergePlan
        <4>2. p.algorithm # "ForceNestedLoop"
          BY <1>1, Zenon DEF IsMerge, build_join
        <4>. QED BY <1>1, <2>2, <4>1, <4>2, JoinPlan
      <3>2. left = [i \in DOMAIN p.left |-> i] /\ right = [i \in DOMAIN p.right |-> i]
        BY <1>1, <1>6, <2>2 DEF Arrival
      <3>3. /\ \A c \in 1..k : p.left_order[c].ascending
            /\ Held(p.left, {key.column : key \in ToSet(p.left_order)}) \subseteq Datum
            /\ Held(p.right, {key.column : key \in ToSet(p.right_order)}) \subseteq Datum
        <4>1. plan \in Inputs("join") /\ compares_as_sorted(plan)
          BY JoinPlan DEF IsMerge
        <4>2. \A c \in 1..k : p.left_order[c].ascending
          BY <1>1, <1>2, <3>1, <4>1 DEF compares_as_sorted
        <4>3. /\ Held(plan.left, {key.column : key \in ToSet(plan.left_order)}) \subseteq Datum
              /\ Held(plan.right, {key.column : key \in ToSet(plan.right_order)}) \subseteq Datum
          BY <4>1, JoinAssumption
        <4>. QED BY <1>1, <4>2, <4>3
      <3>4. /\ k <= Len(p.left_order) /\ \A c \in 1..k : p.left_order[c].column = p.equi[c].left
            /\ k <= Len(p.right_order) /\ \A c \in 1..k : p.right_order[c].column = p.equi[c].right
            /\ \A c \in 1..k : p.left_order[c].ascending = p.right_order[c].ascending
        <4>1. PICK wantLeft, wantRight : /\ wantLeft = [i \in 1..k |-> p.equi[i].left]
                                         /\ wantRight = [i \in 1..k |-> p.equi[i].right]
          OBVIOUS
        <4>2. Len(p.equi) = k
          BY <1>1 DEF Parts
        <4>3. /\ satisfies(p.left_order, wantLeft) /\ satisfies(p.right_order, wantRight)
              /\ directions_match(p.left_order, p.right_order, k)
          BY <3>1, <4>1, <4>2 DEF merge_join_applies
        <4>4. DOMAIN wantLeft = 1..k /\ DOMAIN wantRight = 1..k
          BY <4>1
        <4>. QED BY <4>1, <4>3, <4>4 DEF satisfies, directions_match
      <3>5. Sortable(p.left, m, p.left_order) /\ Sortable(p.right, n, p.right_order)
        <4>1. /\ \A r \in DOMAIN p.left : HasKeys(p.left[r], p.left_order)
              /\ \A r \in DOMAIN p.right : HasKeys(p.right[r], p.right_order)
          BY <3>3, HeldKeys
        <4>2. /\ \A r \in 1..m : HasKeys(p.left[r], p.left_order)
              /\ \A r \in 1..n : HasKeys(p.right[r], p.right_order)
          BY ONLY <1>2, <4>1
        <4>. QED BY <1>2, <4>1, <4>2 DEF Sortable
      <3>6. Arrives(p.left, p.left_order) /\ Arrives(p.right, p.right_order)
        BY <1>1 DEF Init, JoinInputsArrive, IsJoin
      <3>7. /\ \A c \in 1..k : p.left_order[c].column = a[c] /\ p.left_order[c].ascending
            /\ \A c \in 1..k : p.right_order[c].column = b[c] /\ p.right_order[c].ascending
        BY <1>1, <1>2, <3>3, <3>4
      <3>. StartsWith(p.left_order, a, k) /\ StartsWith(p.right_order, b, k)
        BY <3>4, <3>7 DEF StartsWith
      <3>8. ListsRows(left, m) /\ Ascends([i \in 1..m |-> KeysIn(p.left, m, a, k)[left[i]]])
        BY ONLY <1>5, <3>2, <3>5, <3>6, StartsWith(p.left_order, a, k), SortedArrives
      <3>9. ListsRows(right, n) /\ Ascends([i \in 1..n |-> KeysIn(p.right, n, b, k)[right[i]]])
        BY ONLY <1>5, <3>2, <3>5, <3>6, StartsWith(p.right_order, b, k), SortedArrives
      <3>. QED BY <3>8, <3>9
    <2>. QED BY <2>1, <2>2
  <1>9. /\ [i \in 1..m |-> KeysIn(p.left, m, a, k)[left[i]]] = [i \in 1..m |-> LeftKey(left[i])]
        /\ [i \in 1..n |-> KeysIn(p.right, n, b, k)[right[i]]] = [i \in 1..n |-> RightKey(right[i])]
    <2>1. ASSUME NEW list, NEW size, ListsRows(list, size)
          PROVE  \A i \in 1..size : list[i] \in 1..size
      <3>1. list \in Seq(1..size) /\ DOMAIN list = 1..size /\ Len(list) = size
        BY <2>1 DEF ListsRows
      <3>. QED BY ONLY <3>1, ElementOfSeq
    <2>2. (\A i \in 1..m : left[i] \in 1..m) /\ (\A i \in 1..n : right[i] \in 1..n)
      BY <1>8, <2>1
    <2>3. \A i \in 1..m : KeysIn(p.left, m, a, k)[left[i]] = LeftKey(left[i])
      BY <1>7, <2>2
    <2>4. \A i \in 1..n : KeysIn(p.right, n, b, k)[right[i]] = RightKey(right[i])
      BY <1>7, <2>2
    <2>. QED BY <2>3, <2>4
  <1>. QED BY <1>1, <1>8, <1>9 DEF Arrived

-----------------------------------------------------------------------------
(* What a merge join has done when its cursors are at two places.          *)

\* The rows before a place of a list.
RowsBefore(list, a) == {x \in ToSet(list) : \E k \in DOMAIN list : k < a /\ list[k] = x}

LEMMA OneMore ==
  ASSUME NEW n, NEW list, ListsRows(list, n), NEW a \in 1..n
  PROVE  /\ RowsBefore(list, a + 1) = RowsBefore(list, a) \cup {list[a]}
         /\ list[a] \notin RowsBefore(list, a)
         /\ list[a] \in 1..n
  <1>1. /\ n \in Nat /\ Len(list) = n /\ DOMAIN list = 1..n
        /\ \A i, j \in 1..n : i < j => list[i] # list[j]
        /\ ToSet(list) = 1..n
    BY DEF ListsRows, EachOnce
  <1>2. \A i \in 1..n : list[i] \in ToSet(list)
    BY <1>1 DEF ToSet
  <1>3. \A i, j \in 1..n : i # j => list[i] # list[j]
    <2>1. \A i, j \in 1..n : i # j => i < j \/ j < i
      OBVIOUS
    <2>. QED BY <1>1, <2>1
  <1>4. \A k \in 1..n : k < a + 1 <=> k < a \/ k = a
    OBVIOUS
  <1>5. \A k \in 1..n : k < a => k # a
    OBVIOUS
  <1>6. \A x : x \in RowsBefore(list, a + 1) <=> x \in RowsBefore(list, a) \/ x = list[a]
    BY <1>1, <1>2, <1>4 DEF RowsBefore
  <1>7. list[a] \notin RowsBefore(list, a)
    BY <1>1, <1>3, <1>5 DEF RowsBefore
  <1>. QED BY <1>1, <1>2, <1>6, <1>7

LEMMA AllOrNone ==
  ASSUME NEW n, NEW list, ListsRows(list, n)
  PROVE  /\ RowsBefore(list, 1) = {} /\ RowsBefore(list, n + 1) = 1..n
         /\ \A a : RowsBefore(list, a) \in SUBSET (1..n)
  <1>1. n \in Nat /\ DOMAIN list = 1..n /\ ToSet(list) = 1..n
    BY DEF ListsRows
  <1>2. \A k \in 1..n : k < n + 1 /\ ~ k < 1
    BY <1>1
  <1>3. \A x \in 1..n : \E k \in 1..n : list[k] = x
    BY <1>1 DEF ToSet
  <1>. QED BY <1>1, <1>2, <1>3 DEF RowsBefore

\* A merge join compares at least one part.
LEMMA MergeParts ==
  ASSUME IsMerge
  PROVE  /\ Parts \in Nat \ {0}
         /\ \A l \in LeftRows : LeftKey(l) \in PlainKey(Parts) /\ LeftKey(l) # NoKey
         /\ \A r \in RightRows : RightKey(r) \in PlainKey(Parts) /\ RightKey(r) # NoKey
  <1>. IsJoin
    BY DEF IsMerge
  <1>1. PICK n, V : n = Parts /\ V = KeyParts(plan)
    OBVIOUS
  <1>2. n \in Nat /\ n # 0
    <2>1. plan.equi # <<>>
      BY MergePlan
    <2>2. plan.equi \in Seq([left : Nat \ {0}, right : Nat \ {0}, bare : BOOLEAN])
      BY JoinPlan
    <2>. QED BY <1>1, <2>1, <2>2, EmptySeq DEF Parts
  <1>3. V \subseteq Datum \ {NaN}
    BY <1>1, KeysOf DEF IsMerge, compares_as_sorted
  <1>4. /\ \A l \in LeftRows : LeftKey(l) \in [1..n -> V]
        /\ \A r \in RightRows : RightKey(r) \in [1..n -> V]
    BY <1>1, KeysOf
  <1>5. ASSUME NEW key \in [1..n -> V]
        PROVE  key \in PlainKey(n) /\ key # NoKey
    <2>1. key \in PlainKey(n)
      BY <1>3 DEF PlainKey
    <2>2. DOMAIN key = 1..n /\ 1 \in 1..n
      BY <1>2
    <2>3. key # <<>>
      <3>1. <<>> \in Seq(V) /\ Len(<<>>) = 0
        BY EmptySeq
      <3>2. DOMAIN <<>> = 1..0
        BY ONLY <3>1, LenProperties
      <3>3. 1 \notin 1..0
        OBVIOUS
      <3>. QED BY ONLY <2>2, <3>2, <3>3
    <2>. QED BY <2>1, <2>3 DEF NoKey
  <1>. QED BY <1>1, <1>2, <1>4, <1>5

\* How the key of a row on either side compares with another's.
LEMMA MergeKeys ==
  ASSUME IsMerge, NEW a \in PlainKey(Parts), NEW b \in PlainKey(Parts)
  PROVE  /\ compare(a, b) \in Ordering
         /\ compare(a, b) = "equal" <=> a = b
         /\ compare(b, a) = "greater" <=> compare(a, b) = "less"
  <1>1. PICK n : n = Parts
    OBVIOUS
  <1>2. n \in Nat
    BY <1>1, MergeParts
  <1>3. /\ compare(a, b) \in Ordering /\ compare(b, a) = reverse(compare(a, b))
        /\ compare(a, b) = "equal" <=> a = b
    BY <1>1, <1>2, KeysCompare
  <1>. QED BY <1>3 DEF reverse, Ordering

\* Rows with the same key join unless it has a NULL.
LEMMA MergeSame ==
  ASSUME IsMerge, NEW l \in LeftRows, NEW r
  PROVE  SameKey(l, r) <=> LeftKey(l) = RightKey(r) /\ ~ has_null(LeftKey(l))
  <1>1. PICK n, key : n = Parts /\ key = LeftKey(l)
    OBVIOUS
  <1>2. key \in PlainKey(n)
    BY <1>1, MergeParts
  <1>3. unmatchable(key) <=> has_null(key)
    BY <1>2 DEF unmatchable, has_null, PlainKey
  <1>. QED BY <1>1, <1>3 DEF SameKey

AfterLeft == Len(plan.left) + 1
AfterRight == Len(plan.right) + 1

\* No row at or behind the left cursor has the key of one the right cursor is past,
\* but for those of the run; and none the left cursor is past has the key of one still
\* to come.
Passed(la, ra, key) ==
  \A i \in DOMAIN right, k \in DOMAIN left :
    i < ra /\ la <= k /\ RightKey(right[i]) # key => ~ SameKey(left[k], right[i])

Ahead(la, ra) ==
  \A i \in DOMAIN right, k \in DOMAIN left : k < la /\ ra <= i => ~ SameKey(left[k], right[i])

\* The run has the rows the right cursor is past with the key of the last left row.
HasRun(la, ra, group, key) ==
  /\ group \in Seq(RightRows) /\ EachOnce(group)
  /\ ToSet(group) = {r \in RowsBefore(right, ra) : RightKey(r) = key}
  /\ key # NoKey => \E k \in DOMAIN left : la = k + 1 /\ key = LeftKey(left[k]) /\ ~ has_null(key)

HasMarked(la, group, marked) ==
  preserves_right(plan.type) => marked = {r \in ToSet(group) : \E l \in RowsBefore(left, la) : On(l, r)}

MergeAt(la, ra, group, key, marked, list) ==
  /\ la \in 1..AfterLeft /\ ra \in 1..AfterRight
  /\ Passed(la, ra, key) /\ Ahead(la, ra)
  /\ HasRun(la, ra, group, key) /\ HasMarked(la, group, marked)
  /\ HasPaid(list, RowsBefore(left, la), RowsBefore(right, ra) \ ToSet(group))

Merging == MergeAt(left_at, right_at, run, run_key, run_matched, out \o pending)

\* What the cursors' places are of.
LEMMA Sides ==
  ASSUME IsMerge, Arrived
  PROVE  /\ Len(plan.left) \in Nat /\ DOMAIN left = 1..Len(plan.left) /\ Len(left) = Len(plan.left)
         /\ Len(plan.right) \in Nat /\ DOMAIN right = 1..Len(plan.right) /\ Len(right) = Len(plan.right)
         /\ LeftRows = 1..Len(plan.left) /\ RightRows = 1..Len(plan.right)
         /\ \A k \in DOMAIN left : left[k] \in LeftRows
         /\ \A i \in DOMAIN right : right[i] \in RightRows
         /\ \A l \in LeftRows : \E k \in DOMAIN left : left[k] = l
         /\ \A r \in RightRows : \E i \in DOMAIN right : right[i] = r
  <1>1. LeftRows = 1..Len(plan.left) /\ RightRows = 1..Len(plan.right)
    BY JoinPlan DEF IsMerge
  <1>2. ListsRows(left, Len(plan.left)) /\ ListsRows(right, Len(plan.right))
    BY DEF Arrived
  <1>. QED BY <1>1, <1>2 DEF ListsRows, ToSet

\* Rows of one side in the order of their places.
LEMMA Ascending ==
  ASSUME IsMerge, Arrived
  PROVE  /\ \A i, j \in DOMAIN left :
              i < j /\ ~ has_null(LeftKey(left[i])) /\ ~ has_null(LeftKey(left[j]))
                => compare(LeftKey(left[i]), LeftKey(left[j])) # "greater"
         /\ \A i, j, h \in DOMAIN left :
              i <= h /\ h <= j /\ LeftKey(left[i]) = LeftKey(left[j]) => LeftKey(left[h]) = LeftKey(left[i])
         /\ \A i, j \in DOMAIN right :
              i < j /\ ~ has_null(RightKey(right[i])) /\ ~ has_null(RightKey(right[j]))
                => compare(RightKey(right[i]), RightKey(right[j])) # "greater"
         /\ \A i, j, h \in DOMAIN right :
              i <= h /\ h <= j /\ RightKey(right[i]) = RightKey(right[j]) => RightKey(right[h]) = RightKey(right[i])
  <1>1. PICK a, b : /\ a = [k \in 1..Len(plan.left) |-> LeftKey(left[k])]
                    /\ b = [k \in 1..Len(plan.right) |-> RightKey(right[k])]
    OBVIOUS
  <1>2. /\ DOMAIN a = DOMAIN left /\ \A k \in DOMAIN left : a[k] = LeftKey(left[k])
        /\ DOMAIN b = DOMAIN right /\ \A k \in DOMAIN right : b[k] = RightKey(right[k])
    BY <1>1, Sides
  <1>3. Ascends(a) /\ Ascends(b)
    BY <1>1 DEF Arrived
  <1>4. /\ \A i, j \in DOMAIN left :
             i < j /\ ~ has_null(LeftKey(left[i])) /\ ~ has_null(LeftKey(left[j]))
               => compare(LeftKey(left[i]), LeftKey(left[j])) # "greater"
        /\ \A i, j, h \in DOMAIN left :
             i <= h /\ h <= j /\ LeftKey(left[i]) = LeftKey(left[j]) => LeftKey(left[h]) = LeftKey(left[i])
    BY ONLY <1>2, <1>3 DEF Ascends
  <1>5. /\ \A i, j \in DOMAIN right :
             i < j /\ ~ has_null(RightKey(right[i])) /\ ~ has_null(RightKey(right[j]))
               => compare(RightKey(right[i]), RightKey(right[j])) # "greater"
        /\ \A i, j, h \in DOMAIN right :
             i <= h /\ h <= j /\ RightKey(right[i]) = RightKey(right[j]) => RightKey(right[h]) = RightKey(right[i])
    BY ONLY <1>2, <1>3 DEF Ascends
  <1>. QED BY ONLY <1>4, <1>5

-----------------------------------------------------------------------------
(* What a merge join adds to its output.                                   *)

\* A list of one.
LEMMA OneListed ==
  ASSUME NEW S, NEW x \in S
  PROVE  <<x>> \in Seq(S) /\ EachOnce(<<x>>) /\ ToSet(<<x>>) = {x} /\ <<x>> # <<>>
  <1>1. <<x>> \in Seq(S) /\ Len(<<x>>) = 1 /\ DOMAIN <<x>> = {1} /\ <<x>>[1] = x
    OBVIOUS
  <1>2. ToSet(<<x>>) = {x}
    BY <1>1 DEF ToSet
  <1>3. EachOnce(<<x>>)
    BY <1>1 DEF EachOnce
  <1>. QED BY <1>1, <1>2, <1>3

\* The members of a list, each paired with the same row.
PairsUp(list, a, s) == list = [i \in DOMAIN s |-> <<a, s[i]>>]

PairsOf(a, T) == {<<a, t>> : t \in T}

LEMMA PairedListed ==
  ASSUME NEW T, NEW s \in Seq(T), EachOnce(s), NEW a, NEW S, PairsOf(a, ToSet(s)) \in SUBSET S,
         NEW list, PairsUp(list, a, s)
  PROVE  list \in Seq(S) /\ EachOnce(list) /\ ToSet(list) = PairsOf(a, ToSet(s))
  <1>. (\A t \in ToSet(s) : <<a, t>> \in S) /\ list = [i \in DOMAIN s |-> <<a, s[i]>>]
    BY DEF PairsOf, PairsUp
  <1>1. PICK n : n = Len(s)
    OBVIOUS
  <1>2. n \in Nat /\ DOMAIN s = 1..n /\ \A i, j \in 1..n : i < j => s[i] # s[j]
    BY <1>1, LenProperties DEF EachOnce
  <1>3. \A i \in 1..n : s[i] \in ToSet(s)
    BY <1>2 DEF ToSet
  <1>4. \A i \in 1..n : list[i] = <<a, s[i]>> /\ list[i] \in S
    BY <1>1, <1>2, <1>3
  <1>5. list \in [1..n -> S]
    BY <1>1, <1>2, <1>4
  <1>6. list \in Seq(S) /\ Len(list) = n /\ DOMAIN list = 1..n
    BY <1>2, <1>5, IsASeq
  <1>7. EachOnce(list)
    <2>1. \A i, j \in 1..n : s[i] # s[j] => <<a, s[i]>> # <<a, s[j]>>
      OBVIOUS
    <2>. QED BY <1>2, <1>4, <1>6, <2>1 DEF EachOnce
  <1>8. ToSet(list) = {<<a, t>> : t \in ToSet(s)}
    <2>1. ToSet(list) = {<<a, s[i]>> : i \in 1..n}
      BY <1>4, <1>6 DEF ToSet
    <2>2. ToSet(s) = {s[i] : i \in 1..n}
      BY <1>2 DEF ToSet
    <2>. QED BY ONLY <2>1, <2>2
  <1>. QED BY <1>6, <1>7, <1>8 DEF PairsOf

\* A list is empty when it has no member.
LEMMA EmptyListed ==
  ASSUME NEW T, NEW s \in Seq(T)
  PROVE  s = <<>> <=> ToSet(s) = {}
  <1>1. PICK n : n = Len(s)
    OBVIOUS
  <1>2. n \in Nat /\ DOMAIN s = 1..n
    BY <1>1, LenProperties
  <1>3. s = <<>> <=> n = 0
    BY <1>1, EmptySeq
  <1>4. ToSet(s) = {} <=> 1..n = {}
    BY <1>2 DEF ToSet
  <1>. QED BY <1>2, <1>3, <1>4

\* What a left row owes whose partners are the rows of a run that the rest of the
\* condition is TRUE of.
LEMMA EmittedPays ==
  ASSUME IsJoin, leftRow \in LeftRows, NEW group \in Seq(RightRows), EachOnce(group),
         Partners(leftRow) = {r \in ToSet(group) : residual_holds(leftRow, r)}
  PROVE  /\ HasPaid(Emitted(group), {leftRow}, {})
         /\ ~ is_filtering(plan.type) => Marked(group) = Partners(leftRow)
  <1>1. PICK l, A, hits, found, type : /\ l = leftRow /\ A = Answer /\ hits = Matches(group)
                                       /\ found = Partners(leftRow) /\ type = plan.type
    OBVIOUS
  <1>2. hits \in Seq(RightRows) /\ EachOnce(hits) /\ ToSet(hits) = found
    <2>1. PICK kept : kept = {m \in RightRows : residual_holds(leftRow, m)}
      OBVIOUS
    <2>2. hits = Those(group, kept)
      BY <1>1, <2>1 DEF Matches
    <2>3. hits \in Seq(RightRows) /\ EachOnce(hits) /\ ToSet(hits) = ToSet(group) \cap kept
      BY ONLY <2>2, group \in Seq(RightRows), EachOnce(group), Selected
    <2>4. ToSet(group) \cap kept = found
      <3>1. \A r \in found : r \in RightRows
        BY <1>1 DEF Partners
      <3>. QED BY <1>1, <2>1, <3>1
    <2>. QED BY <2>3, <2>4
  <1>3. hits = <<>> <=> found = {}
    BY <1>2, EmptyListed
  <1>4. type \in JoinType /\ l \in LeftRows
    BY <1>1, JoinPlan
  <1>5. /\ FromLeft({l}) \subseteq A
        /\ type = "semi" => FromLeft({l}) = IF found = {} THEN {} ELSE {<<l, 0>>}
        /\ type = "anti" => FromLeft({l}) = IF found = {} THEN {<<l, 0>>} ELSE {}
        /\ ~ is_filtering(type) =>
             FromLeft({l}) = {<<l, r>> : r \in found}
               \cup (IF preserves_left(type) /\ found = {} THEN {<<l, 0>>} ELSE {})
    <2>1. FromLeft({l}) \subseteq A
      BY <1>1 DEF FromLeft
    <2>2. /\ Padded({x \in {l} : Partners(x) # {}}) = IF found = {} THEN {} ELSE {<<l, 0>>}
          /\ Padded({x \in {l} : Partners(x) = {}}) = IF found = {} THEN {<<l, 0>>} ELSE {}
      BY <1>1 DEF Padded
    <2>3. {p \in {l} \X RightRows : On(p[1], p[2])} = {<<l, r>> : r \in found}
      BY <1>1 DEF Partners
    <2>4. {l} \in SUBSET LeftRows
      BY <1>4
    <2>5. /\ plan.type = "semi" => FromLeft({l}) = Padded({x \in {l} : Partners(x) # {}})
          /\ plan.type = "anti" => FromLeft({l}) = Padded({x \in {l} : Partners(x) = {}})
          /\ ~ is_filtering(plan.type) =>
               FromLeft({l}) = {p \in {l} \X RightRows : On(p[1], p[2])}
                 \cup (IF preserves_left(plan.type) THEN Padded({x \in {l} : Partners(x) = {}}) ELSE {})
      BY ONLY <2>4, IsJoin, Owing
    <2>. QED BY <1>1, <2>1, <2>2, <2>3, <2>5
  <1>6. FromRight({}) = {}
    BY DEF FromRight
  <1>7. <<>> \in Seq(A) /\ EachOnce(<<>>) /\ ToSet(<<>>) = {}
    BY <1>1, NothingPaid DEF HasPaid, FromLeft, FromRight
  <1>8. PICK list : list = Emitted(group)
    OBVIOUS
  <1>9. list \in Seq(A) /\ EachOnce(list) /\ ToSet(list) = FromLeft({l})
    <2>1. CASE type = "semi"
      <3>1. list = IF found = {} THEN <<>> ELSE <<<<l, 0>>>>
        BY <1>1, <1>3, <1>8, <2>1 DEF Emitted
      <3>. QED BY <1>5, <1>7, <2>1, <3>1, OneListed
    <2>2. CASE type = "anti"
      <3>1. list = IF found = {} THEN <<<<l, 0>>>> ELSE <<>>
        BY <1>1, <1>3, <1>8, <2>2 DEF Emitted
      <3>. QED BY <1>5, <1>7, <2>2, <3>1, OneListed
    <2>3. CASE type \notin {"semi", "anti"} /\ found = {} /\ preserves_left(type)
      <3>1. list = <<<<l, 0>>>>
        BY <1>1, <1>3, <1>8, <2>3 DEF Emitted
      <3>2. FromLeft({l}) = {<<l, 0>>}
        BY <1>5, <2>3 DEF is_filtering
      <3>. QED BY <1>5, <3>1, <3>2, OneListed
    <2>4. CASE type \notin {"semi", "anti"} /\ ~ (found = {} /\ preserves_left(type))
      <3>1. list = [i \in DOMAIN hits |-> <<l, hits[i]>>]
        BY <1>1, <1>3, <1>8, <2>4 DEF Emitted
      <3>2. FromLeft({l}) = {<<l, r>> : r \in found}
        BY <1>5, <2>4 DEF is_filtering
      <3>3. PairsOf(l, ToSet(hits)) = FromLeft({l}) /\ PairsUp(list, l, hits)
        BY <1>2, <3>1, <3>2 DEF PairsOf, PairsUp
      <3>4. PairsOf(l, ToSet(hits)) \in SUBSET A
        BY <1>5, <3>3
      <3>5. list \in Seq(A) /\ EachOnce(list) /\ ToSet(list) = PairsOf(l, ToSet(hits))
        BY ONLY <1>2, <3>3, <3>4, PairedListed
      <3>. QED BY <3>3, <3>5
    <2>. QED BY <2>1, <2>2, <2>3, <2>4
  <1>10. HasPaid(list, {l}, {})
    BY <1>1, <1>6, <1>9 DEF HasPaid
  <1>11. ~ is_filtering(type) => Marked(group) = found
    BY <1>1, <1>2 DEF Marked
  <1>. QED BY <1>1, <1>8, <1>10, <1>11

\* What a left row without partners owes, and a right one.
LEMMA AlonePays ==
  ASSUME IsJoin
  PROVE  /\ \A l \in LeftRows : Partners(l) = {} =>
              HasPaid(IF preserves_left(plan.type) \/ plan.type = "anti" THEN <<<<l, 0>>>> ELSE <<>>, {l}, {})
         /\ \A r \in RightRows : Lonely(r) =>
              HasPaid(IF preserves_right(plan.type) THEN <<<<0, r>>>> ELSE <<>>, {}, {r})
  <1>1. PICK A, type : A = Answer /\ type = plan.type
    OBVIOUS
  <1>2. type \in JoinType
    BY <1>1, JoinPlan
  <1>3. <<>> \in Seq(A) /\ EachOnce(<<>>) /\ ToSet(<<>>) = {} /\ FromLeft({}) = {} /\ FromRight({}) = {}
    BY <1>1, NothingPaid DEF HasPaid, FromLeft, FromRight
  <1>4. ASSUME NEW l \in LeftRows, Partners(l) = {}
        PROVE  HasPaid(IF preserves_left(type) \/ type = "anti" THEN <<<<l, 0>>>> ELSE <<>>, {l}, {})
    <2>1. /\ Padded({x \in {l} : Partners(x) # {}}) = {}
          /\ Padded({x \in {l} : Partners(x) = {}}) = {<<l, 0>>}
      BY <1>4 DEF Padded
    <2>2. {p \in {l} \X RightRows : On(p[1], p[2])} = {}
      BY <1>4 DEF Partners
    <2>3. {l} \in SUBSET LeftRows
      OBVIOUS
    <2>4. /\ plan.type = "semi" => FromLeft({l}) = Padded({x \in {l} : Partners(x) # {}})
          /\ plan.type = "anti" => FromLeft({l}) = Padded({x \in {l} : Partners(x) = {}})
          /\ ~ is_filtering(plan.type) =>
               FromLeft({l}) = {p \in {l} \X RightRows : On(p[1], p[2])}
                 \cup (IF preserves_left(plan.type) THEN Padded({x \in {l} : Partners(x) = {}}) ELSE {})
      BY ONLY <2>3, IsJoin, Owing
    <2>5. FromLeft({l}) = IF preserves_left(type) \/ type = "anti" THEN {<<l, 0>>} ELSE {}
      BY <1>1, <1>2, <2>1, <2>2, <2>4 DEF is_filtering, preserves_left
    <2>6. FromLeft({l}) \subseteq A
      BY <1>1 DEF FromLeft
    <2>7. CASE preserves_left(type) \/ type = "anti"
      <3>1. <<l, 0>> \in A /\ FromLeft({l}) = {<<l, 0>>}
        BY <2>5, <2>6, <2>7
      <3>2. <<<<l, 0>>>> \in Seq(A) /\ EachOnce(<<<<l, 0>>>>) /\ ToSet(<<<<l, 0>>>>) = {<<l, 0>>}
        BY ONLY <3>1, OneListed
      <3>3. HasPaid(<<<<l, 0>>>>, {l}, {})
        BY <1>1, <1>3, <3>1, <3>2 DEF HasPaid
      <3>. QED BY <2>7, <3>3
    <2>8. CASE ~ (preserves_left(type) \/ type = "anti")
      <3>1. HasPaid(<<>>, {l}, {})
        BY <1>1, <1>3, <2>5, <2>8 DEF HasPaid
      <3>. QED BY <2>8, <3>1
    <2>. QED BY <2>7, <2>8
  <1>5. ASSUME NEW r \in RightRows, Lonely(r)
        PROVE  HasPaid(IF preserves_right(type) THEN <<<<0, r>>>> ELSE <<>>, {}, {r})
    <2>1. FromRight({r}) = IF preserves_right(type) THEN {<<0, s>> : s \in {t \in {r} : Lonely(t)}} ELSE {}
      <3>1. {r} \in SUBSET RightRows
        OBVIOUS
      <3>2. FromRight({r}) = IF preserves_right(plan.type) THEN {<<0, s>> : s \in {t \in {r} : Lonely(t)}} ELSE {}
        BY ONLY <3>1, IsJoin, Owing
      <3>. QED BY <1>1, <3>2
    <2>2. {<<0, s>> : s \in {t \in {r} : Lonely(t)}} = {<<0, r>>}
      BY <1>5
    <2>3. FromRight({r}) \subseteq A
      BY <1>1 DEF FromRight
    <2>4. CASE preserves_right(type)
      <3>1. <<0, r>> \in A /\ FromRight({r}) = {<<0, r>>}
        BY <2>1, <2>2, <2>3, <2>4
      <3>2. <<<<0, r>>>> \in Seq(A) /\ EachOnce(<<<<0, r>>>>) /\ ToSet(<<<<0, r>>>>) = {<<0, r>>}
        BY ONLY <3>1, OneListed
      <3>3. HasPaid(<<<<0, r>>>>, {}, {r})
        BY <1>1, <1>3, <3>1, <3>2 DEF HasPaid
      <3>. QED BY <2>4, <3>3
    <2>5. CASE ~ preserves_right(type)
      <3>1. HasPaid(<<>>, {}, {r})
        BY <1>1, <1>3, <2>1, <2>5 DEF HasPaid
      <3>. QED BY <2>5, <3>1
    <2>. QED BY <2>4, <2>5
  <1>. QED BY <1>1, <1>4, <1>5

\* What a run owes once every row of it that joins any is marked.
LEMMA UnmatchedPays ==
  ASSUME IsJoin, run \in Seq(RightRows), EachOnce(run),
         preserves_right(plan.type) => \A r \in ToSet(run) : Lonely(r) <=> r \notin run_matched
  PROVE  HasPaid(Unmatched, {}, ToSet(run))
  <1>1. PICK A, some, list : A = Answer /\ some = ToSet(run) /\ list = Unmatched
    OBVIOUS
  <1>2. some \in SUBSET RightRows
    <2>1. \A i \in DOMAIN run : run[i] \in RightRows
      BY LenProperties
    <2>. QED BY <1>1, <2>1 DEF ToSet
  <1>3. <<>> \in Seq(A) /\ EachOnce(<<>>) /\ ToSet(<<>>) = {} /\ FromLeft({}) = {}
    BY <1>1, NothingPaid DEF HasPaid, FromLeft, FromRight
  <1>4. FromRight(some) = IF preserves_right(plan.type) THEN {<<0, r>> : r \in {s \in some : Lonely(s)}} ELSE {}
    BY ONLY <1>2, IsJoin, Owing
  <1>5. CASE preserves_right(plan.type)
    <2>1. PICK lonely, kept : kept = RightRows \ run_matched /\ lonely = Those(run, kept)
      OBVIOUS
    <2>2. lonely \in Seq(RightRows) /\ EachOnce(lonely) /\ ToSet(lonely) = some \cap kept
      BY ONLY <1>1, <2>1, run \in Seq(RightRows), EachOnce(run), Selected
    <2>3. some \cap kept = {s \in some : Lonely(s)}
      BY <1>1, <1>2, <1>5, <2>1
    <2>4. list = [i \in DOMAIN lonely |-> <<0, lonely[i]>>]
      BY <1>1, <1>5, <2>1 DEF Unmatched
    <2>5. FromRight(some) = {<<0, r>> : r \in ToSet(lonely)}
      BY <1>4, <1>5, <2>2, <2>3
    <2>6. PairsOf(0, ToSet(lonely)) = FromRight(some) /\ PairsUp(list, 0, lonely)
      BY <2>4, <2>5 DEF PairsOf, PairsUp
    <2>7. PairsOf(0, ToSet(lonely)) \in SUBSET A
      <3>1. FromRight(some) \in SUBSET A
        BY <1>1 DEF FromRight
      <3>. QED BY <2>6, <3>1
    <2>8. list \in Seq(A) /\ EachOnce(list) /\ ToSet(list) = PairsOf(0, ToSet(lonely))
      BY ONLY <2>2, <2>6, <2>7, PairedListed
    <2>. QED BY <1>1, <1>3, <2>6, <2>8 DEF HasPaid
  <1>6. CASE ~ preserves_right(plan.type)
    <2>1. list = <<>> /\ FromRight(some) = {}
      BY <1>1, <1>4, <1>6 DEF Unmatched
    <2>. QED BY <1>1, <1>3, <2>1 DEF HasPaid
  <1>. QED BY <1>5, <1>6

-----------------------------------------------------------------------------
(* The steps of a merge join.                                              *)

MergeState ==
  /\ IsMerge /\ Arrived /\ Merging
  /\ out \in Seq(Answer) /\ pending \in Seq(Answer)

\* What is put behind the pending rows is behind everything returned, too.
Behind(w, t, u) == w = t \o u

LEMMA Regrouped ==
  ASSUME NEW S, NEW s \in Seq(S), NEW t \in Seq(S), NEW u \in Seq(S), NEW w, Behind(w, t, u)
  PROVE  w \in Seq(S) /\ Behind(s \o w, s \o t, u)
  <1>1. w = t \o u
    BY DEF Behind
  <1>2. w \in Seq(S)
    BY <1>1, ConcatProperties
  <1>3. (s \o t) \o u = s \o (t \o u)
    BY ConcatAssociative
  <1>. QED BY ONLY <1>1, <1>2, <1>3 DEF Behind

\* Unless the run is replayed, no left row at or behind the cursor joins a row the
\* right cursor is past, and the run is settled.
LEMMA RunEnds ==
  ASSUME MergeState, ~ Replays
  PROVE  /\ \A k \in DOMAIN left : left_at <= k => LeftKey(left[k]) # run_key
         /\ \A i \in DOMAIN right, k \in DOMAIN left :
              i < right_at /\ left_at <= k => ~ SameKey(left[k], right[i])
         /\ HasPaid(Unmatched, {}, ToSet(run))
         /\ HasPaid((out \o pending) \o Unmatched, RowsBefore(left, left_at), RowsBefore(right, right_at))
  <1>. IsMerge /\ IsJoin /\ Arrived
    BY DEF MergeState, IsMerge
  <1>1. /\ left_at \in 1..AfterLeft /\ right_at \in 1..AfterRight
        /\ Passed(left_at, right_at, run_key)
        /\ HasRun(left_at, right_at, run, run_key) /\ HasMarked(left_at, run, run_matched)
        /\ HasPaid(out \o pending, RowsBefore(left, left_at), RowsBefore(right, right_at) \ ToSet(run))
    BY DEF MergeState, Merging, MergeAt
  <1>2. PICK m : m = Len(plan.left)
    OBVIOUS
  <1>3. m \in Nat /\ DOMAIN left = 1..m /\ Len(left) = m /\ left_at \in 1..m + 1
    BY <1>1, <1>2, Sides DEF AfterLeft
  <1>4. ASSUME NEW k \in DOMAIN left, left_at <= k
        PROVE  LeftKey(left[k]) # run_key
    <2>1. SUFFICES ASSUME LeftKey(left[k]) = run_key
                   PROVE  FALSE
      OBVIOUS
    <2>2. left[k] \in LeftRows
      BY Sides
    <2>3. run_key # NoKey /\ run_key \in PlainKey(Parts)
      BY <2>1, <2>2, MergeParts
    <2>4. PICK h \in DOMAIN left : left_at = h + 1 /\ run_key = LeftKey(left[h])
      BY <1>1, <2>3 DEF HasRun
    <2>5. k \in 1..m /\ h \in 1..m /\ left_at \in 1..m /\ h <= left_at
      BY ONLY <1>3, <1>4, <2>4
    <2>6. LeftKey(left[left_at]) = LeftKey(left[h])
      <3>1. left_at \in DOMAIN left /\ LeftKey(left[h]) = LeftKey(left[k])
        BY <1>3, <2>1, <2>4, <2>5
      <3>2. \A i, j, g \in DOMAIN left :
               i <= g /\ g <= j /\ LeftKey(left[i]) = LeftKey(left[j]) => LeftKey(left[g]) = LeftKey(left[i])
        BY Ascending
      <3>. QED BY ONLY <1>4, <2>4, <2>5, <3>1, <3>2
    <2>7. LeftKey(leftRow) = run_key
      BY <2>4, <2>6 DEF leftRow
    <2>8. compare(LeftKey(leftRow), run_key) = "equal"
      BY <2>3, <2>7, MergeKeys
    <2>9. HasLeft
      BY <1>3, <2>5 DEF HasLeft
    <2>. QED BY <2>3, <2>8, <2>9 DEF Replays
  <1>5. ASSUME NEW i \in DOMAIN right, NEW k \in DOMAIN left, i < right_at, left_at <= k
        PROVE  ~ SameKey(left[k], right[i])
    <2>1. CASE RightKey(right[i]) = run_key
      BY <1>4, <1>5, <2>1 DEF SameKey
    <2>2. CASE RightKey(right[i]) # run_key
      BY <1>1, <1>5, <2>2 DEF Passed
    <2>. QED BY <2>1, <2>2
  <1>6. HasPaid(Unmatched, {}, ToSet(run))
    <2>1. run \in Seq(RightRows) /\ EachOnce(run)
      BY <1>1 DEF HasRun
    <2>2. ASSUME preserves_right(plan.type), NEW r \in ToSet(run)
          PROVE  Lonely(r) <=> r \notin run_matched
      <3>1. RightKey(r) = run_key /\ r \in RightRows
        <4>1. r \in RowsBefore(right, right_at) /\ RightKey(r) = run_key
          BY <1>1, <2>2 DEF HasRun
        <4>2. r \in ToSet(right) /\ ListsRows(right, Len(plan.right))
          BY <4>1 DEF RowsBefore, Arrived
        <4>. QED BY <4>1, <4>2, Sides DEF ListsRows
      <3>2. r \in run_matched <=> \E l \in RowsBefore(left, left_at) : On(l, r)
        BY <1>1, <2>2 DEF HasMarked
      <3>3. ASSUME NEW l \in LeftRows, On(l, r)
            PROVE  l \in RowsBefore(left, left_at)
        <4>1. PICK k \in DOMAIN left : left[k] = l
          BY Sides
        <4>2. LeftKey(l) = run_key
          BY <3>1, <3>3, KeysMeet DEF SameKey
        <4>3. ~ left_at <= k
          BY <1>4, <4>1, <4>2
        <4>4. k < left_at
          BY ONLY <1>3, <4>3
        <4>5. l \in ToSet(left)
          BY <4>1 DEF ToSet
        <4>. QED BY <4>1, <4>4, <4>5 DEF RowsBefore
      <3>4. \A l \in RowsBefore(left, left_at) : l \in LeftRows
        BY Sides DEF RowsBefore, ToSet
      <3>. QED BY <3>2, <3>3, <3>4 DEF Lonely
    <2>. QED BY <2>1, <2>2, UnmatchedPays
  <1>7. HasPaid((out \o pending) \o Unmatched, RowsBefore(left, left_at), RowsBefore(right, right_at))
    <2>1. PICK L, B, R, list, more : /\ L = RowsBefore(left, left_at) /\ B = RowsBefore(right, right_at)
                                     /\ R = ToSet(run) /\ list = out \o pending /\ more = Unmatched
      OBVIOUS
    <2>2. L \in SUBSET LeftRows
      BY <2>1, Sides DEF RowsBefore, ToSet
    <2>3. HasPaid(list, L, B \ R) /\ HasPaid(more, {}, R)
      BY <1>1, <1>6, <2>1
    <2>4. {} \in SUBSET LeftRows /\ L \cap {} = {} /\ (B \ R) \cap R = {}
      OBVIOUS
    <2>5. HasPaid(list \o more, L \cup {}, (B \ R) \cup R)
      BY ONLY IsJoin, <2>2, <2>3, <2>4, Paying
    <2>6. R \subseteq B
      BY <1>1, <2>1 DEF HasRun
    <2>7. L \cup {} = L /\ (B \ R) \cup R = B
      BY ONLY <2>6
    <2>. QED BY ONLY <2>1, <2>5, <2>7
  <1>. QED BY <1>4, <1>5, <1>6, <1>7

\* With no run there is nothing more to show of it.
LEMMA NoneRun ==
  ASSUME IsMerge, Arrived, NEW la, NEW ra
  PROVE  /\ HasRun(la, ra, <<>>, NoKey) /\ HasMarked(la, <<>>, {}) /\ ToSet(<<>>) = {}
  <1>1. <<>> \in Seq(RightRows) /\ EachOnce(<<>>) /\ ToSet(<<>>) = {}
    BY DEF EachOnce, ToSet
  <1>2. \A r \in RowsBefore(right, ra) : r \in RightRows
    BY Sides DEF RowsBefore, ToSet
  <1>3. {r \in RowsBefore(right, ra) : RightKey(r) = NoKey} = {}
    BY <1>2, MergeParts
  <1>. QED BY <1>1, <1>3 DEF HasRun, HasMarked

\* A left row that is stepped over joins nothing still to come ...
LEMMA LonelyLeft ==
  ASSUME MergeState, HasLeft, LeftIsLonely
  PROVE  \A i \in DOMAIN right : right_at <= i => ~ SameKey(leftRow, right[i])
  <1>. IsMerge /\ Arrived
    BY DEF MergeState
  <1>1. SUFFICES ASSUME NEW i \in DOMAIN right, right_at <= i, SameKey(leftRow, right[i])
                 PROVE  FALSE
    OBVIOUS
  <1>2. PICK n, la, ra : n = Len(plan.right) /\ la = left_at /\ ra = right_at
    OBVIOUS
  <1>3. la \in DOMAIN left /\ ra \in DOMAIN right /\ i \in Int /\ ra \in Int /\ HasRight
    <2>1. PICK m : m = Len(plan.left)
      OBVIOUS
    <2>2. la \in 1..m + 1 /\ ra \in 1..n + 1
      BY <1>2, <2>1 DEF MergeState, Merging, MergeAt, AfterLeft, AfterRight
    <2>3. /\ m \in Nat /\ DOMAIN left = 1..m /\ Len(left) = m
          /\ n \in Nat /\ DOMAIN right = 1..n /\ Len(right) = n
      BY <1>2, <2>1, Sides
    <2>4. la <= m
      BY <1>2, <2>3 DEF HasLeft
    <2>5. i \in 1..n /\ ra <= i
      BY <1>1, <1>2, <2>3
    <2>6. la \in 1..m /\ ra \in 1..n /\ ra <= n /\ i \in Int /\ ra \in Int
      BY ONLY <2>2, <2>3, <2>4, <2>5
    <2>. QED BY <1>2, <2>3, <2>6 DEF HasRight
  <1>4. PICK a, b : a = LeftKey(left[la]) /\ b = RightKey(right[ra])
    OBVIOUS
  <1>5. a \in PlainKey(Parts) /\ b \in PlainKey(Parts)
    BY <1>3, <1>4, Sides, MergeParts
  <1>6. a = RightKey(right[i]) /\ ~ has_null(a)
    <2>1. leftRow = left[la] /\ left[la] \in LeftRows
      BY <1>2, <1>3, Sides DEF leftRow
    <2>. QED BY <1>1, <1>4, <2>1, MergeSame
  <1>7. ~ has_null(b) /\ compare(a, b) = "less"
    BY <1>2, <1>3, <1>4, <1>6 DEF LeftIsLonely, leftRow, rightRow
  <1>8. compare(b, a) = "greater" /\ a # b
    BY <1>5, <1>7, MergeKeys
  <1>9. CASE i = ra
    BY <1>4, <1>6, <1>8, <1>9
  <1>10. CASE i # ra
    <2>1. ra < i
      BY <1>1, <1>2, <1>3, <1>10
    <2>2. compare(b, RightKey(right[i])) # "greater"
      BY <1>3, <1>4, <1>6, <1>7, <2>1, Ascending
    <2>. QED BY <1>6, <1>8, <2>2
  <1>. QED BY <1>9, <1>10

\* ... and so does a right one.
LEMMA LonelyRight ==
  ASSUME MergeState, RightIsLonely
  PROVE  \A k \in DOMAIN left : left_at <= k => ~ SameKey(left[k], rightRow)
  <1>. IsMerge /\ Arrived
    BY DEF MergeState
  <1>1. SUFFICES ASSUME NEW k \in DOMAIN left, left_at <= k, SameKey(left[k], rightRow)
                 PROVE  FALSE
    OBVIOUS
  <1>2. PICK la, ra : la = left_at /\ ra = right_at
    OBVIOUS
  <1>3. la \in DOMAIN left /\ ra \in DOMAIN right /\ k \in Int /\ la \in Int /\ HasLeft /\ HasRight
    <2>1. PICK m, n : m = Len(plan.left) /\ n = Len(plan.right)
      OBVIOUS
    <2>2. la \in 1..m + 1 /\ ra \in 1..n + 1
      BY <1>2, <2>1 DEF MergeState, Merging, MergeAt, AfterLeft, AfterRight
    <2>3. /\ m \in Nat /\ DOMAIN left = 1..m /\ Len(left) = m
          /\ n \in Nat /\ DOMAIN right = 1..n /\ Len(right) = n
      BY <1>2, <2>1, Sides
    <2>4. ra <= n /\ HasRight
      BY <1>2, <2>3 DEF RightIsLonely, HasRight
    <2>5. k \in 1..m /\ la <= k
      BY <1>1, <1>2, <2>3
    <2>6. la \in 1..m /\ ra \in 1..n /\ la <= m /\ k \in Int /\ la \in Int
      BY ONLY <2>2, <2>3, <2>4, <2>5
    <2>. QED BY <1>2, <2>3, <2>4, <2>6 DEF HasLeft
  <1>4. PICK a, b : a = LeftKey(left[la]) /\ b = RightKey(right[ra])
    OBVIOUS
  <1>5. a \in PlainKey(Parts) /\ b \in PlainKey(Parts)
    BY <1>3, <1>4, Sides, MergeParts
  <1>6. b = LeftKey(left[k]) /\ ~ has_null(b)
    <2>1. rightRow = right[ra] /\ left[k] \in LeftRows
      BY <1>2, <1>3, Sides DEF rightRow
    <2>. QED BY <1>1, <1>4, <2>1, MergeSame
  <1>7. ~ has_null(a) /\ compare(a, b) = "greater"
    BY <1>2, <1>3, <1>4, <1>6 DEF RightIsLonely, LeftIsLonely, leftRow, rightRow
  <1>8. a # b
    BY <1>5, <1>7, MergeKeys
  <1>9. CASE k = la
    BY <1>4, <1>6, <1>8, <1>9
  <1>10. CASE k # la
    <2>1. la < k
      BY <1>1, <1>2, <1>3, <1>10
    <2>2. compare(a, LeftKey(left[k])) # "greater"
      BY <1>3, <1>4, <1>6, <1>7, <2>1, Ascending
    <2>. QED BY <1>6, <1>7, <2>2
  <1>. QED BY <1>9, <1>10

\* Of the places of the cursors, and the row at hand on the left.
LEMMA AtLeft ==
  ASSUME MergeState, HasLeft
  PROVE  /\ left_at \in DOMAIN left /\ left_at + 1 \in 1..AfterLeft /\ leftRow = left[left_at]
         /\ leftRow \in LeftRows
         /\ RowsBefore(left, left_at + 1) = RowsBefore(left, left_at) \cup {leftRow}
         /\ RowsBefore(left, left_at) \cap {leftRow} = {} /\ RowsBefore(left, left_at) \in SUBSET LeftRows
         /\ \A k \in DOMAIN left : k < left_at + 1 => k < left_at \/ k = left_at
         /\ \A k \in DOMAIN left : left_at + 1 <= k => left_at <= k
  <1>. IsMerge /\ Arrived
    BY DEF MergeState
  <1>1. PICK m, la : m = Len(plan.left) /\ la = left_at
    OBVIOUS
  <1>2. m \in Nat /\ DOMAIN left = 1..m /\ LeftRows = 1..m /\ AfterLeft = m + 1 /\ la \in 1..m
    <2>1. left_at \in 1..AfterLeft
      BY DEF MergeState, Merging, MergeAt
    <2>. QED BY <1>1, <2>1, Sides DEF AfterLeft, HasLeft
  <1>3. ListsRows(left, m)
    BY <1>1 DEF Arrived
  <1>4. /\ RowsBefore(left, la + 1) = RowsBefore(left, la) \cup {left[la]}
        /\ left[la] \notin RowsBefore(left, la) /\ left[la] \in 1..m
    BY <1>2, <1>3, OneMore
  <1>5. RowsBefore(left, la) \in SUBSET (1..m)
    BY <1>3, AllOrNone
  <1>6. leftRow = left[la]
    BY <1>1 DEF leftRow
  <1>7. la + 1 \in 1..m + 1 /\ \A k \in 1..m : (k < la + 1 => k < la \/ k = la) /\ (la + 1 <= k => la <= k)
    BY <1>2
  <1>. QED BY <1>1, <1>2, <1>4, <1>5, <1>6, <1>7

\* The same on the right.
LEMMA AtRight ==
  ASSUME MergeState, HasRight
  PROVE  /\ right_at \in DOMAIN right /\ right_at + 1 \in 1..AfterRight /\ rightRow = right[right_at]
         /\ rightRow \in RightRows
         /\ RowsBefore(right, right_at + 1) = RowsBefore(right, right_at) \cup {rightRow}
         /\ RowsBefore(right, right_at) \cap {rightRow} = {}
         /\ \A i \in DOMAIN right : i < right_at + 1 => i < right_at \/ i = right_at
         /\ \A i \in DOMAIN right : right_at + 1 <= i => right_at <= i
  <1>. IsMerge /\ Arrived
    BY DEF MergeState
  <1>1. PICK m, ra : m = Len(plan.right) /\ ra = right_at
    OBVIOUS
  <1>2. m \in Nat /\ DOMAIN right = 1..m /\ RightRows = 1..m /\ AfterRight = m + 1 /\ ra \in 1..m
    <2>1. right_at \in 1..AfterRight
      BY DEF MergeState, Merging, MergeAt
    <2>. QED BY <1>1, <2>1, Sides DEF AfterRight, HasRight
  <1>3. ListsRows(right, m)
    BY <1>1 DEF Arrived
  <1>4. /\ RowsBefore(right, ra + 1) = RowsBefore(right, ra) \cup {right[ra]}
        /\ right[ra] \notin RowsBefore(right, ra) /\ right[ra] \in 1..m
    BY <1>2, <1>3, OneMore
  <1>5. rightRow = right[ra]
    BY <1>1 DEF rightRow
  <1>6. ra + 1 \in 1..m + 1 /\ \A i \in 1..m : (i < ra + 1 => i < ra \/ i = ra) /\ (ra + 1 <= i => ra <= i)
    BY <1>2
  <1>. QED BY <1>1, <1>2, <1>4, <1>5, <1>6

\* Every place is before the cursor or not.
LEMMA BothSides ==
  ASSUME MergeState
  PROVE  /\ \A k \in DOMAIN left : k < left_at \/ left_at <= k
         /\ \A i \in DOMAIN right : i < right_at \/ right_at <= i
         /\ left_at \in 1..AfterLeft /\ right_at \in 1..AfterRight
  <1>1. left_at \in 1..AfterLeft /\ right_at \in 1..AfterRight
    BY DEF MergeState, Merging, MergeAt
  <1>2. /\ Len(plan.left) \in Nat /\ DOMAIN left = 1..Len(plan.left)
        /\ Len(plan.right) \in Nat /\ DOMAIN right = 1..Len(plan.right)
    BY Sides DEF MergeState
  <1>. QED BY <1>1, <1>2 DEF AfterLeft, AfterRight

LEMMA StepLeftKept ==
  ASSUME MergeState, StepLeft
  PROVE  /\ MergeAt(left_at', right_at', run', run_key', run_matched', out' \o pending')
         /\ pending' \in Seq(Answer)
  <1>. IsMerge /\ IsJoin /\ Arrived
    BY DEF MergeState, IsMerge
  <1>1. PICK own : own = IF preserves_left(plan.type) \/ plan.type = "anti" THEN <<<<leftRow, 0>>>> ELSE <<>>
    OBVIOUS
  <1>2. /\ ~ Replays /\ HasLeft /\ LeftIsLonely
        /\ left_at' = left_at + 1 /\ right_at' = right_at /\ out' = out
        /\ run' = <<>> /\ run_matched' = {} /\ run_key' = NoKey
        /\ pending' = (pending \o Unmatched) \o own
    BY <1>1 DEF StepLeft, LeftIsLonely, NoRun
  <1>3. \A i \in DOMAIN right : right_at <= i => ~ SameKey(left[left_at], right[i])
    BY <1>2, LonelyLeft DEF leftRow
  <1>4. \A i \in DOMAIN right, k \in DOMAIN left : i < right_at /\ left_at <= k => ~ SameKey(left[k], right[i])
    BY <1>2, RunEnds
  <1>5. Ahead(left_at + 1, right_at)
    <2>1. Ahead(left_at, right_at)
      BY DEF MergeState, Merging, MergeAt
    <2>. QED BY <1>2, <1>3, <2>1, AtLeft DEF Ahead
  <1>6. Passed(left_at + 1, right_at, NoKey)
    BY <1>2, <1>4, AtLeft DEF Passed
  <1>7. Partners(leftRow) = {}
    <2>1. SUFFICES ASSUME NEW r \in RightRows, On(leftRow, r)
                   PROVE  FALSE
      BY DEF Partners
    <2>2. PICK i \in DOMAIN right : right[i] = r
      BY Sides
    <2>3. SameKey(left[left_at], right[i]) /\ left_at \in DOMAIN left
      BY <1>2, <2>1, <2>2, AtLeft, KeysMeet
    <2>4. left_at <= left_at
      BY <2>3, Sides
    <2>. QED BY <1>3, <1>4, <2>3, <2>4, BothSides
  <1>8. HasPaid(own, {leftRow}, {})
    BY <1>1, <1>2, <1>7, AtLeft, AlonePays
  <1>9. HasPaid(((out \o pending) \o Unmatched) \o own, RowsBefore(left, left_at + 1), RowsBefore(right, right_at))
    <2>1. PICK L, B, list : L = RowsBefore(left, left_at) /\ B = RowsBefore(right, right_at)
                            /\ list = (out \o pending) \o Unmatched
      OBVIOUS
    <2>2. HasPaid(list, L, B)
      BY <1>2, <2>1, RunEnds
    <2>3. /\ L \in SUBSET LeftRows /\ {leftRow} \in SUBSET LeftRows /\ L \cap {leftRow} = {}
          /\ B \cap {} = {}
      BY <1>2, <2>1, AtLeft
    <2>4. HasPaid(list \o own, L \cup {leftRow}, B \cup {})
      BY ONLY IsJoin, <1>8, <2>2, <2>3, Paying
    <2>5. L \cup {leftRow} = RowsBefore(left, left_at + 1) /\ B \cup {} = B
      BY <1>2, <2>1, AtLeft
    <2>. QED BY ONLY <2>1, <2>4, <2>5
  <1>10. Unmatched \in Seq(Answer) /\ own \in Seq(Answer)
    BY <1>2, <1>8, RunEnds DEF HasPaid
  <1>11. /\ out' \o pending' = ((out \o pending) \o Unmatched) \o own
         /\ pending' \in Seq(Answer)
    <2>1. PICK A, more : A = Answer /\ more = Unmatched
      OBVIOUS
    <2>2. out \in Seq(A) /\ pending \in Seq(A) /\ more \in Seq(A) /\ own \in Seq(A)
      BY <1>10, <2>1 DEF MergeState
    <2>3. PICK x : x = pending \o more
      OBVIOUS
    <2>4. Behind(x, pending, more) /\ Behind(pending', x, own)
      BY <1>2, <2>1, <2>3 DEF Behind
    <2>5. x \in Seq(A) /\ Behind(out \o x, out \o pending, more)
      BY ONLY <2>2, <2>4, Regrouped
    <2>6. pending' \in Seq(A) /\ Behind(out \o pending', out \o x, own)
      BY ONLY <2>2, <2>4, <2>5, Regrouped
    <2>. QED BY ONLY <1>2, <2>1, <2>5, <2>6 DEF Behind
  <1>12. RowsBefore(right, right_at) \ ToSet(<<>>) = RowsBefore(right, right_at)
    BY NoneRun
  <1>13. MergeAt(left_at + 1, right_at, <<>>, NoKey, {}, ((out \o pending) \o Unmatched) \o own)
    BY <1>2, <1>5, <1>6, <1>9, <1>12, AtLeft, BothSides, NoneRun DEF MergeAt
  <1>. QED BY ONLY <1>2, <1>11, <1>13

LEMMA StepRightKept ==
  ASSUME MergeState, StepRight
  PROVE  /\ MergeAt(left_at', right_at', run', run_key', run_matched', out' \o pending')
         /\ pending' \in Seq(Answer)
  <1>. IsMerge /\ IsJoin /\ Arrived
    BY DEF MergeState, IsMerge
  <1>1. PICK own : own = IF preserves_right(plan.type) THEN <<<<0, rightRow>>>> ELSE <<>>
    OBVIOUS
  <1>2. /\ ~ Replays /\ HasRight /\ RightIsLonely
        /\ left_at' = left_at /\ right_at' = right_at + 1 /\ out' = out
        /\ run' = <<>> /\ run_matched' = {} /\ run_key' = NoKey
        /\ pending' = (pending \o Unmatched) \o own
    BY <1>1 DEF StepRight, RightIsLonely, NoRun
  <1>3. \A k \in DOMAIN left : left_at <= k => ~ SameKey(left[k], right[right_at])
    BY <1>2, LonelyRight DEF rightRow
  <1>4. \A i \in DOMAIN right, k \in DOMAIN left : i < right_at /\ left_at <= k => ~ SameKey(left[k], right[i])
    BY <1>2, RunEnds
  <1>5. Ahead(left_at, right_at)
    BY DEF MergeState, Merging, MergeAt
  <1>6. Ahead(left_at, right_at + 1)
    BY <1>2, <1>5, AtRight DEF Ahead
  <1>7. Passed(left_at, right_at + 1, NoKey)
    BY <1>2, <1>3, <1>4, AtRight DEF Passed
  <1>8. Lonely(rightRow)
    <2>1. SUFFICES ASSUME NEW l \in LeftRows, On(l, rightRow)
                   PROVE  FALSE
      BY DEF Lonely
    <2>2. PICK k \in DOMAIN left : left[k] = l
      BY Sides
    <2>3. SameKey(left[k], right[right_at]) /\ right_at \in DOMAIN right
      BY <1>2, <2>1, <2>2, AtRight, KeysMeet
    <2>4. right_at <= right_at
      BY <2>3, Sides
    <2>. QED BY <1>3, <1>5, <2>3, <2>4, BothSides DEF Ahead
  <1>9. HasPaid(own, {}, {rightRow})
    BY <1>1, <1>2, <1>8, AtRight, AlonePays
  <1>10. HasPaid(((out \o pending) \o Unmatched) \o own, RowsBefore(left, left_at), RowsBefore(right, right_at + 1))
    <2>1. PICK L, B, list : L = RowsBefore(left, left_at) /\ B = RowsBefore(right, right_at)
                            /\ list = (out \o pending) \o Unmatched
      OBVIOUS
    <2>2. HasPaid(list, L, B)
      BY <1>2, <2>1, RunEnds
    <2>3. /\ L \in SUBSET LeftRows /\ {} \in SUBSET LeftRows /\ L \cap {} = {}
          /\ B \cap {rightRow} = {}
      <3>1. L \in SUBSET LeftRows
        BY <2>1, Sides DEF RowsBefore, ToSet
      <3>. QED BY <1>2, <2>1, <3>1, AtRight
    <2>4. HasPaid(list \o own, L \cup {}, B \cup {rightRow})
      BY ONLY IsJoin, <1>9, <2>2, <2>3, Paying
    <2>5. L \cup {} = L /\ B \cup {rightRow} = RowsBefore(right, right_at + 1)
      BY <1>2, <2>1, AtRight
    <2>. QED BY ONLY <2>1, <2>4, <2>5
  <1>11. /\ out' \o pending' = ((out \o pending) \o Unmatched) \o own
         /\ pending' \in Seq(Answer)
    <2>1. PICK A, more, x : A = Answer /\ more = Unmatched /\ x = pending \o more
      OBVIOUS
    <2>2. out \in Seq(A) /\ pending \in Seq(A) /\ more \in Seq(A) /\ own \in Seq(A)
      BY <1>2, <1>9, <2>1, RunEnds DEF MergeState, HasPaid
    <2>4. Behind(x, pending, more) /\ Behind(pending', x, own)
      BY <1>2, <2>1 DEF Behind
    <2>5. x \in Seq(A) /\ Behind(out \o x, out \o pending, more)
      BY ONLY <2>2, <2>4, Regrouped
    <2>6. pending' \in Seq(A) /\ Behind(out \o pending', out \o x, own)
      BY ONLY <2>2, <2>4, <2>5, Regrouped
    <2>. QED BY ONLY <1>2, <2>1, <2>5, <2>6 DEF Behind
  <1>12. RowsBefore(right, right_at + 1) \ ToSet(<<>>) = RowsBefore(right, right_at + 1)
    BY NoneRun
  <1>13. MergeAt(left_at, right_at + 1, <<>>, NoKey, {}, ((out \o pending) \o Unmatched) \o own)
    BY <1>2, <1>6, <1>7, <1>10, <1>12, AtRight, BothSides, NoneRun DEF MergeAt
  <1>. QED BY ONLY <1>2, <1>11, <1>13

\* No row from a place on has the key of a left row.
NotAhead(l, ra) == \A i \in DOMAIN right : ra <= i => ~ SameKey(l, right[i])

\* The partners of a left row with the key of a run are in the run.
LEMMA RunPartners ==
  ASSUME IsMerge, Arrived, NEW l \in LeftRows, NEW ra \in 1..AfterRight, NotAhead(l, ra),
         NEW group, ToSet(group) = {r \in RowsBefore(right, ra) : RightKey(r) = LeftKey(l)},
         ~ has_null(LeftKey(l))
  PROVE  Partners(l) = {r \in ToSet(group) : residual_holds(l, r)}
  <1>. IsJoin
    BY DEF IsMerge
  <1>1. ASSUME NEW r \in RightRows, On(l, r)
        PROVE  r \in ToSet(group) /\ residual_holds(l, r)
    <2>1. SameKey(l, r) /\ residual_holds(l, r)
      BY <1>1, KeysMeet
    <2>2. PICK i \in DOMAIN right : right[i] = r
      BY Sides
    <2>3. ~ ra <= i
      BY <2>1, <2>2 DEF NotAhead
    <2>4. i < ra
      <3>1. i \in 1..Len(plan.right) /\ Len(plan.right) \in Nat /\ ra \in 1..Len(plan.right) + 1
        BY <2>2, Sides DEF AfterRight
      <3>. QED BY ONLY <2>3, <3>1
    <2>5. r \in RowsBefore(right, ra)
      BY <2>2, <2>4 DEF RowsBefore, ToSet
    <2>. QED BY <2>1, <2>5 DEF SameKey
  <1>2. ASSUME NEW r \in ToSet(group), residual_holds(l, r)
        PROVE  r \in RightRows /\ On(l, r)
    <2>1. r \in RowsBefore(right, ra) /\ RightKey(r) = LeftKey(l)
      BY <1>2
    <2>2. r \in ToSet(right)
      BY <2>1 DEF RowsBefore
    <2>3. r \in RightRows
      BY <2>2, Sides DEF ToSet
    <2>4. SameKey(l, r)
      BY <2>1, <2>3, MergeSame
    <2>. QED BY <1>2, <2>3, <2>4, KeysMeet
  <1>. QED BY <1>1, <1>2 DEF Partners

LEMMA ReplayKept ==
  ASSUME MergeState, Replay
  PROVE  /\ MergeAt(left_at', right_at', run', run_key', run_matched', out' \o pending')
         /\ pending' \in Seq(Answer)
  <1>. IsMerge /\ IsJoin /\ Arrived
    BY DEF MergeState, IsMerge
  <1>1. /\ HasLeft /\ run_key # NoKey /\ compare(LeftKey(leftRow), run_key) = "equal"
        /\ left_at' = left_at + 1 /\ pending' = pending \o Emitted(run)
        /\ run_matched' = run_matched \cup Marked(run)
        /\ right_at' = right_at /\ run' = run /\ run_key' = run_key /\ out' = out
    BY DEF Replay, Replays
  <1>2. /\ Passed(left_at, right_at, run_key) /\ Ahead(left_at, right_at)
        /\ HasRun(left_at, right_at, run, run_key) /\ HasMarked(left_at, run, run_matched)
        /\ HasPaid(out \o pending, RowsBefore(left, left_at), RowsBefore(right, right_at) \ ToSet(run))
    BY DEF MergeState, Merging, MergeAt
  <1>3. PICK h \in DOMAIN left : left_at = h + 1 /\ run_key = LeftKey(left[h]) /\ ~ has_null(run_key)
    BY <1>1, <1>2 DEF HasRun
  <1>4. LeftKey(leftRow) = run_key
    <2>1. LeftKey(leftRow) \in PlainKey(Parts) /\ run_key \in PlainKey(Parts)
      BY <1>1, <1>3, AtLeft, Sides, MergeParts
    <2>. QED BY <1>1, <2>1, MergeKeys
  <1>5. h < left_at
    <2>1. h \in Int
      BY Sides
    <2>. QED BY <1>3, <2>1
  <1>6. NotAhead(leftRow, right_at)
    <2>1. ASSUME NEW i \in DOMAIN right, right_at <= i, SameKey(leftRow, right[i])
          PROVE  FALSE
      <3>1. SameKey(left[h], right[i])
        BY <1>3, <1>4, <2>1 DEF SameKey
      <3>. QED BY <1>2, <1>5, <2>1, <3>1 DEF Ahead
    <2>. QED BY <2>1 DEF NotAhead
  <1>7. Ahead(left_at + 1, right_at)
    BY <1>1, <1>2, <1>6, AtLeft DEF Ahead, NotAhead
  <1>8. Passed(left_at + 1, right_at, run_key)
    BY <1>1, <1>2, AtLeft DEF Passed
  <1>9. HasRun(left_at + 1, right_at, run, run_key)
    BY <1>1, <1>2, <1>3, <1>4, AtLeft DEF HasRun
  <1>10. Partners(leftRow) = {r \in ToSet(run) : residual_holds(leftRow, r)}
    <2>1. ToSet(run) = {r \in RowsBefore(right, right_at) : RightKey(r) = LeftKey(leftRow)}
      BY <1>2, <1>4 DEF HasRun
    <2>. QED BY <1>1, <1>3, <1>4, <1>6, <2>1, AtLeft, BothSides, RunPartners
  <1>11. /\ HasPaid(Emitted(run), {leftRow}, {})
         /\ ~ is_filtering(plan.type) => Marked(run) = Partners(leftRow)
    BY <1>1, <1>2, <1>10, AtLeft, EmittedPays DEF HasRun
  <1>12. HasMarked(left_at + 1, run, run_matched \cup Marked(run))
    <2>1. SUFFICES ASSUME preserves_right(plan.type)
                   PROVE  run_matched \cup Marked(run)
                            = {r \in ToSet(run) : \E l \in RowsBefore(left, left_at + 1) : On(l, r)}
      BY DEF HasMarked
    <2>2. Marked(run) = Partners(leftRow)
      BY <1>11, <2>1 DEF preserves_right, is_filtering
    <2>3. run_matched = {r \in ToSet(run) : \E l \in RowsBefore(left, left_at) : On(l, r)}
      BY <1>2, <2>1 DEF HasMarked
    <2>4. \A r \in ToSet(run) : r \in Partners(leftRow) <=> On(leftRow, r)
      <3>1. \A r \in ToSet(run) : r \in RightRows
        BY <1>2, Sides DEF HasRun, RowsBefore, ToSet
      <3>. QED BY <3>1 DEF Partners
    <2>5. Partners(leftRow) \subseteq ToSet(run)
      BY <1>10
    <2>6. RowsBefore(left, left_at + 1) = RowsBefore(left, left_at) \cup {leftRow}
      BY <1>1, AtLeft
    <2>. QED BY ONLY <2>2, <2>3, <2>4, <2>5, <2>6
  <1>13. HasPaid((out \o pending) \o Emitted(run), RowsBefore(left, left_at + 1), RowsBefore(right, right_at) \ ToSet(run))
    <2>1. PICK L, B, list, more : /\ L = RowsBefore(left, left_at) /\ B = RowsBefore(right, right_at) \ ToSet(run)
                                  /\ list = out \o pending /\ more = Emitted(run)
      OBVIOUS
    <2>2. HasPaid(list, L, B) /\ HasPaid(more, {leftRow}, {})
      BY <1>2, <1>11, <2>1
    <2>3. /\ L \in SUBSET LeftRows /\ {leftRow} \in SUBSET LeftRows /\ L \cap {leftRow} = {}
          /\ B \cap {} = {}
      BY <1>1, <2>1, AtLeft
    <2>4. HasPaid(list \o more, L \cup {leftRow}, B \cup {})
      BY ONLY IsJoin, <2>2, <2>3, Paying
    <2>5. L \cup {leftRow} = RowsBefore(left, left_at + 1) /\ B \cup {} = B
      BY <1>1, <2>1, AtLeft
    <2>. QED BY ONLY <2>1, <2>4, <2>5
  <1>14. out' \o pending' = (out \o pending) \o Emitted(run) /\ pending' \in Seq(Answer)
    <2>1. PICK A, more : A = Answer /\ more = Emitted(run)
      OBVIOUS
    <2>2. out \in Seq(A) /\ pending \in Seq(A) /\ more \in Seq(A) /\ Behind(pending', pending, more)
      BY <1>1, <1>11, <2>1 DEF MergeState, HasPaid, Behind
    <2>3. pending' \in Seq(A) /\ Behind(out \o pending', out \o pending, more)
      BY ONLY <2>2, Regrouped
    <2>. QED BY ONLY <1>1, <2>1, <2>3 DEF Behind
  <1>15. MergeAt(left_at + 1, right_at, run, run_key, run_matched \cup Marked(run), (out \o pending) \o Emitted(run))
    BY <1>1, <1>7, <1>8, <1>9, <1>12, <1>13, AtLeft, BothSides DEF MergeAt
  <1>. QED BY ONLY <1>1, <1>14, <1>15

LEMMA ExhaustedKept ==
  ASSUME MergeState, Exhausted
  PROVE  /\ MergeAt(left_at', right_at', run', run_key', run_matched', out' \o pending')
         /\ pending' \in Seq(Answer)
         /\ left_at' = AfterLeft /\ right_at' = AfterRight /\ run' = <<>>
  <1>. IsMerge /\ IsJoin /\ Arrived
    BY DEF MergeState, IsMerge
  <1>1. /\ ~ Replays /\ ~ HasLeft /\ ~ HasRight
        /\ left_at' = left_at /\ right_at' = right_at /\ out' = out
        /\ run' = <<>> /\ run_matched' = {} /\ run_key' = NoKey
        /\ pending' = pending \o Unmatched
    BY DEF Exhausted, NoRun, sideVars
  <1>2. left_at = AfterLeft /\ right_at = AfterRight
    <2>1. PICK m, n : m = Len(plan.left) /\ n = Len(plan.right)
      OBVIOUS
    <2>2. left_at \in 1..m + 1 /\ right_at \in 1..n + 1
      BY <2>1, BothSides DEF AfterLeft, AfterRight
    <2>3. m \in Nat /\ n \in Nat /\ ~ left_at <= m /\ ~ right_at <= n
      BY <1>1, <2>1, Sides DEF HasLeft, HasRight
    <2>4. left_at = m + 1 /\ right_at = n + 1
      BY ONLY <2>2, <2>3
    <2>. QED BY <2>1, <2>4 DEF AfterLeft, AfterRight
  <1>3. Ahead(left_at, right_at)
    BY DEF MergeState, Merging, MergeAt
  <1>4. Passed(left_at, right_at, NoKey)
    BY <1>1, RunEnds DEF Passed
  <1>5. HasPaid((out \o pending) \o Unmatched, RowsBefore(left, left_at), RowsBefore(right, right_at) \ ToSet(<<>>))
    <2>1. RowsBefore(right, right_at) \ ToSet(<<>>) = RowsBefore(right, right_at)
      BY NoneRun
    <2>. QED BY <1>1, <2>1, RunEnds
  <1>6. out' \o pending' = (out \o pending) \o Unmatched /\ pending' \in Seq(Answer)
    <2>1. PICK A, more : A = Answer /\ more = Unmatched
      OBVIOUS
    <2>2. out \in Seq(A) /\ pending \in Seq(A) /\ more \in Seq(A) /\ Behind(pending', pending, more)
      BY <1>1, <2>1, RunEnds DEF MergeState, HasPaid, Behind
    <2>3. pending' \in Seq(A) /\ Behind(out \o pending', out \o pending, more)
      BY ONLY <2>2, Regrouped
    <2>. QED BY ONLY <1>1, <2>1, <2>3 DEF Behind
  <1>7. MergeAt(left_at, right_at, <<>>, NoKey, {}, (out \o pending) \o Unmatched)
    BY <1>3, <1>4, <1>5, BothSides, NoneRun DEF MergeAt
  <1>. QED BY ONLY <1>1, <1>2, <1>6, <1>7

\* What ReturnPending takes from the pending rows it puts behind those returned.
LEMMA ReturnPendingKept ==
  ASSUME MergeState, ReturnPending
  PROVE  /\ out' \o pending' = out \o pending
         /\ out' \in Seq(Answer) /\ pending' \in Seq(Answer)
  <1>1. PICK A, n, take : /\ A = Answer /\ n = Len(pending)
                          /\ take = IF Len(pending) < BatchSize THEN Len(pending) ELSE BatchSize
    OBVIOUS
  <1>2. PICK taken, kept : taken = SubSeq(pending, 1, take) /\ kept = SubSeq(pending, take + 1, n)
    OBVIOUS
  <1>3. out' = out \o taken /\ pending' = kept
    BY <1>1, <1>2 DEF ReturnPending
  <1>4. out \in Seq(A) /\ pending \in Seq(A) /\ n \in Nat /\ \A i \in 1..n : pending[i] \in A
    BY <1>1, LenProperties DEF MergeState
  <1>5. take \in 0..n
    BY <1>1, <1>4, BatchAssumption
  <1>6. taken \in Seq(A)
    <2>1. 1 \in Int /\ take \in Int /\ \A i \in 1..take : pending[i] \in A
      BY ONLY <1>4, <1>5
    <2>. QED BY ONLY <1>2, <2>1, SubSeqProperties
  <1>7. kept \in Seq(A)
    <2>1. n \in Int /\ take + 1 \in Int /\ \A i \in take + 1..n : pending[i] \in A
      BY ONLY <1>4, <1>5
    <2>. QED BY ONLY <1>2, <2>1, SubSeqProperties
  <1>8. taken \o kept = pending
    <2>1. 1 \in 1..n + 1 /\ take \in 1 - 1..n /\ n \in take..n
      BY ONLY <1>4, <1>5
    <2>2. SubSeq(pending, 1, take) \o SubSeq(pending, take + 1, n) = SubSeq(pending, 1, n)
      BY ONLY <1>1, <1>4, <2>1, ConcatAdjacentSubSeq
    <2>3. SubSeq(pending, 1, n) = pending
      BY ONLY <1>1, <1>4, SubSeqFull
    <2>. QED BY ONLY <1>2, <2>2, <2>3
  <1>9. (out \o taken) \o kept = out \o (taken \o kept)
    BY ONLY <1>4, <1>6, <1>7, ConcatAssociative
  <1>10. out \o taken \in Seq(A)
    BY ONLY <1>4, <1>6, ConcatProperties
  <1>. QED BY ONLY <1>1, <1>3, <1>7, <1>8, <1>9, <1>10

\* Where a run ends.
IsRunEnd(end) ==
  /\ end \in 1..AfterRight /\ right_at < end
  /\ \A i \in DOMAIN right :
       /\ i < end /\ right_at <= i => RightKey(right[i]) = LeftKey(leftRow)
       /\ end <= i => RightKey(right[i]) # LeftKey(leftRow)
       /\ i < end \/ end <= i
       /\ end <= i => right_at <= i

\* Rows of the same key stand together, so a run has them all.
LEMMA RunEnd ==
  ASSUME MergeState, HasLeft, HasRight, ~ LeftIsLonely, ~ RightIsLonely
  PROVE  ~ has_null(LeftKey(leftRow)) /\ IsRunEnd(right_at + Cardinality(Sharing))
  <1>. IsMerge /\ Arrived
    BY DEF MergeState
  <1>1. PICK a, b, n, ra : a = LeftKey(leftRow) /\ b = RightKey(rightRow) /\ n = Len(plan.right) /\ ra = right_at
    OBVIOUS
  <1>2. ~ has_null(a) /\ ~ has_null(b) /\ compare(a, b) # "less" /\ compare(a, b) # "greater"
    BY <1>1 DEF LeftIsLonely, RightIsLonely
  <1>3. a \in PlainKey(Parts) /\ b \in PlainKey(Parts)
    BY <1>1, AtLeft, AtRight, MergeParts
  <1>4. a = b
    BY <1>2, <1>3, MergeKeys DEF Ordering
  <1>5. /\ n \in Nat /\ DOMAIN right = 1..n /\ Len(right) = n /\ AfterRight = n + 1
        /\ ra \in 1..n /\ RightKey(right[ra]) = a
    BY <1>1, <1>4, Sides, AtRight DEF AfterRight
  <1>6. \A i, h \in 1..n : ra <= h /\ h <= i /\ RightKey(right[i]) = a => RightKey(right[h]) = a
    <2>1. \A i, j, h \in DOMAIN right :
             i <= h /\ h <= j /\ RightKey(right[i]) = RightKey(right[j]) => RightKey(right[h]) = RightKey(right[i])
      BY Ascending
    <2>. QED BY ONLY <1>5, <2>1
  <1>7. PICK S : S = {i \in 1..n : ra <= i /\ RightKey(right[i]) = a}
    OBVIOUS
  <1>8. Sharing = S
    <2>1. \A i \in 1..n : compare(RightKey(right[i]), a) = "equal" <=> RightKey(right[i]) = a
      <3>1. \A i \in 1..n : RightKey(right[i]) \in PlainKey(Parts)
        BY <1>5, Sides, MergeParts
      <3>. QED BY <1>3, <3>1, MergeKeys
    <2>2. Sharing = {i \in ra..n : \A k \in ra..i : compare(RightKey(right[k]), a) = "equal"}
      BY <1>1, <1>5 DEF Sharing
    <2>3. ASSUME NEW i \in S
          PROVE  i \in ra..n /\ \A k \in ra..i : compare(RightKey(right[k]), a) = "equal"
      <3>1. i \in 1..n /\ ra <= i /\ RightKey(right[i]) = a
        BY <1>7, <2>3
      <3>2. i \in ra..n /\ \A k \in ra..i : k \in 1..n /\ ra <= k /\ k <= i
        BY ONLY <1>5, <3>1
      <3>. QED BY ONLY <1>6, <2>1, <3>1, <3>2
    <2>4. ASSUME NEW i \in ra..n, \A k \in ra..i : compare(RightKey(right[k]), a) = "equal"
          PROVE  i \in S
      <3>1. i \in 1..n /\ ra <= i /\ i \in ra..i
        BY ONLY <1>5, <2>4
      <3>. QED BY ONLY <1>7, <2>1, <2>4, <3>1
    <2>5. \A i : i \in Sharing <=> i \in S
      BY ONLY <2>2, <2>3, <2>4
    <2>. QED BY ONLY <2>5
  <1>9. PICK last \in S : \A i \in S : i <= last
    <2>1. S \in SUBSET (1..n) /\ ra \in S
      BY ONLY <1>5, <1>7
    <2>2. S # {}
      BY ONLY <2>1
    <2>. QED BY ONLY <1>5, <2>1, <2>2, Greatest
  <1>10. last \in 1..n /\ ra <= last /\ RightKey(right[last]) = a
    BY ONLY <1>7, <1>9
  <1>11. S = ra..last
    <2>1. ASSUME NEW i \in ra..last
          PROVE  i \in S
      <3>1. i \in 1..n /\ ra <= i /\ i <= last
        BY ONLY <1>5, <1>10, <2>1
      <3>. QED BY ONLY <1>6, <1>7, <1>10, <3>1
    <2>2. ASSUME NEW i \in S
          PROVE  i \in ra..last
      <3>1. i \in 1..n /\ ra <= i /\ i <= last
        BY ONLY <1>7, <1>9, <2>2
      <3>. QED BY ONLY <1>5, <1>10, <3>1
    <2>. QED BY ONLY <2>1, <2>2
  <1>12. ra + Cardinality(Sharing) = last + 1
    <2>1. Cardinality(ra..last) = last - ra + 1
      BY ONLY <1>5, <1>10, FS_Interval
    <2>2. Cardinality(Sharing) = last - ra + 1
      BY ONLY <1>8, <1>11, <2>1
    <2>3. ra + (last - ra + 1) = last + 1
      BY ONLY <1>5, <1>10
    <2>. QED BY ONLY <2>2, <2>3
  <1>13. IsRunEnd(last + 1)
    <2>1. last + 1 \in 1..n + 1 /\ ra < last + 1
      BY ONLY <1>5, <1>10
    <2>2. ASSUME NEW i \in 1..n
          PROVE  /\ i < last + 1 /\ ra <= i => RightKey(right[i]) = a
                 /\ last + 1 <= i => RightKey(right[i]) # a
                 /\ i < last + 1 \/ last + 1 <= i
                 /\ last + 1 <= i => ra <= i
      <3>1. /\ i < last + 1 => i <= last
            /\ last + 1 <= i => ~ i <= last /\ ra <= i
            /\ i < last + 1 \/ last + 1 <= i
        BY ONLY <1>5, <1>10
      <3>2. i < last + 1 /\ ra <= i => RightKey(right[i]) = a
        BY ONLY <1>6, <1>10, <3>1
      <3>3. last + 1 <= i => i \notin S
        BY ONLY <1>9, <3>1
      <3>. QED BY ONLY <1>7, <3>1, <3>2, <3>3
    <2>. QED BY <1>1, <1>5, <2>1, <2>2 DEF IsRunEnd
  <1>. QED BY <1>1, <1>2, <1>12, <1>13

\* The rows of a list from one place to before another.
IsLoaded(loaded, list, n, from, end) ==
  /\ from \in 1..n /\ end \in 1..n + 1 /\ from < end
  /\ loaded = SubSeq(list, from, end - 1)

ListsPart(loaded, list, n, from, end) ==
  /\ loaded \in Seq(1..n) /\ EachOnce(loaded)
  /\ \A r : r \in ToSet(loaded) <=> \E i \in 1..n : from <= i /\ i < end /\ list[i] = r

LEMMA Loading ==
  ASSUME NEW n, NEW list, ListsRows(list, n), NEW from, NEW end, NEW loaded,
         IsLoaded(loaded, list, n, from, end)
  PROVE  ListsPart(loaded, list, n, from, end)
  <1>1. /\ n \in Nat /\ DOMAIN list = 1..n /\ list \in Seq(1..n) /\ Len(list) = n
        /\ \A i, j \in 1..n : i < j => list[i] # list[j]
        /\ \A i \in 1..n : list[i] \in 1..n
    <2>1. /\ n \in Nat /\ DOMAIN list = 1..n /\ list \in Seq(1..n) /\ Len(list) = n
          /\ \A i, j \in 1..n : i < j => list[i] # list[j]
      BY DEF ListsRows, EachOnce
    <2>2. \A i \in 1..n : list[i] \in 1..n
      BY ONLY <2>1, ElementOfSeq
    <2>. QED BY ONLY <2>1, <2>2
  <1>. /\ from \in 1..n /\ end \in 1..n + 1 /\ from < end
       /\ loaded = SubSeq(list, from, end - 1)
    BY DEF IsLoaded
  <1>2. PICK m : m = end - from
    OBVIOUS
  <1>3. m \in Nat /\ end - 1 \in Int /\ from <= end - 1 /\ end - 1 - from + 1 = m
    BY <1>1, <1>2
  <1>4. loaded \in Seq(1..n) /\ Len(loaded) = m /\ \A j \in 1..m : loaded[j] = list[from + j - 1]
    <2>. DEFINE part == SubSeq(list, from, end - 1)
    <2>1. from \in Int /\ \A i \in from..end - 1 : list[i] \in 1..n
      <3>1. from \in 1..n /\ end \in 1..n + 1
        BY DEF IsLoaded
      <3>2. from \in Int /\ \A i \in from..end - 1 : i \in 1..n
        BY ONLY <1>1, <3>1
      <3>. QED BY ONLY <1>1, <3>2
    <2>2. /\ part \in Seq(1..n) /\ Len(part) = IF from <= end - 1 THEN end - 1 - from + 1 ELSE 0
          /\ \A j \in 1..end - 1 - from + 1 : part[j] = list[from + j - 1]
      BY ONLY <1>3, <2>1, SubSeqProperties
    <2>3. part = loaded
      OBVIOUS
    <2>. HIDE DEF part
    <2>. QED BY ONLY <1>3, <2>2, <2>3
  <1>5. DOMAIN loaded = 1..m
    BY <1>4
  <1>6. EachOnce(loaded)
    <2>1. ASSUME NEW j \in 1..m, NEW k \in 1..m, j < k
          PROVE  loaded[j] # loaded[k]
      <3>1. PICK x, y : x = from + j - 1 /\ y = from + k - 1
        OBVIOUS
      <3>2. x \in 1..n /\ y \in 1..n /\ x < y
        BY <1>1, <1>2, <1>3, <2>1, <3>1
      <3>. QED BY <1>1, <1>4, <3>1, <3>2
    <2>. QED BY <1>4, <2>1 DEF EachOnce
  <1>7. ASSUME NEW r, r \in ToSet(loaded)
        PROVE  \E i \in 1..n : from <= i /\ i < end /\ list[i] = r
    <2>1. PICK j \in 1..m : r = loaded[j]
      BY <1>5, <1>7 DEF ToSet
    <2>2. PICK x : x = from + j - 1
      OBVIOUS
    <2>3. x \in 1..n /\ from <= x /\ x < end
      BY <1>1, <1>2, <1>3, <2>1, <2>2
    <2>. QED BY <1>4, <2>1, <2>2, <2>3
  <1>8. ASSUME NEW i \in 1..n, from <= i, i < end
        PROVE  list[i] \in ToSet(loaded)
    <2>1. PICK j : j = i - from + 1
      OBVIOUS
    <2>2. j \in 1..m /\ from + j - 1 = i
      BY <1>1, <1>2, <1>3, <1>8, <2>1
    <2>3. loaded[j] = list[i]
      BY <1>4, <2>2
    <2>. QED BY <1>5, <2>2, <2>3 DEF ToSet
  <1>. QED BY <1>4, <1>6, <1>7, <1>8 DEF ListsPart

LEMMA MeetKept ==
  ASSUME MergeState, Meet
  PROVE  /\ MergeAt(left_at', right_at', run', run_key', run_matched', out' \o pending')
         /\ pending' \in Seq(Answer)
  <1>. IsMerge /\ IsJoin /\ Arrived
    BY DEF MergeState, IsMerge
  <1>1. PICK l, a, end, loaded : /\ l = leftRow /\ a = LeftKey(leftRow)
                                 /\ end = right_at + Cardinality(Sharing)
                                 /\ loaded = SubSeq(right, right_at, end - 1)
    OBVIOUS
  <1>2. /\ ~ Replays /\ HasLeft /\ HasRight /\ ~ LeftIsLonely /\ ~ RightIsLonely
        /\ run' = loaded /\ run_key' = a /\ run_matched' = Marked(loaded)
        /\ right_at' = end /\ left_at' = left_at + 1 /\ out' = out
        /\ pending' = (pending \o Unmatched) \o Emitted(loaded)
    BY <1>1 DEF Meet
  <1>3. ~ has_null(a) /\ IsRunEnd(end)
    BY <1>1, <1>2, RunEnd
  <1>4. /\ end \in 1..AfterRight /\ right_at < end
        /\ \A i \in DOMAIN right :
             /\ i < end /\ right_at <= i => RightKey(right[i]) = a
             /\ end <= i => RightKey(right[i]) # a
             /\ i < end \/ end <= i
             /\ end <= i => right_at <= i
    BY <1>1, <1>3 DEF IsRunEnd
  <1>5. /\ left_at \in DOMAIN left /\ l = left[left_at] /\ l \in LeftRows /\ left_at <= left_at
        /\ a = LeftKey(l)
    <2>1. left_at \in DOMAIN left /\ leftRow = left[left_at] /\ leftRow \in LeftRows
      BY <1>2, AtLeft
    <2>2. left_at \in Int
      BY <2>1, Sides
    <2>. QED BY <1>1, <2>1, <2>2
  <1>6. \A i \in DOMAIN right, k \in DOMAIN left : i < right_at /\ left_at <= k => ~ SameKey(left[k], right[i])
    BY <1>2, RunEnds
  <1>7. \A i \in DOMAIN right : i < right_at => RightKey(right[i]) # a
    <2>1. \A i \in DOMAIN right : i < right_at => ~ SameKey(l, right[i])
      BY <1>5, <1>6
    <2>. QED BY <1>3, <1>5, <2>1, MergeSame
  <1>8. /\ loaded \in Seq(RightRows) /\ EachOnce(loaded)
        /\ \A r : r \in ToSet(loaded) <=> \E i \in DOMAIN right : right_at <= i /\ i < end /\ right[i] = r
    <2>1. PICK n, from : n = Len(plan.right) /\ from = right_at
      OBVIOUS
    <2>2. ListsRows(right, n) /\ RightRows = 1..n /\ DOMAIN right = 1..n
      BY <2>1, Sides DEF Arrived
    <2>3. IsLoaded(loaded, right, n, from, end)
      BY <1>1, <1>2, <1>4, <2>1, <2>2, AtRight DEF AfterRight, IsLoaded
    <2>4. ListsPart(loaded, right, n, from, end)
      BY ONLY <2>2, <2>3, Loading
    <2>. QED BY ONLY <2>1, <2>2, <2>4 DEF ListsPart
  <1>9. \A i \in DOMAIN right : (i < right_at \/ right_at <= i) /\ (i < right_at => i < end)
    <2>1. PICK n, ra : n = Len(plan.right) /\ ra = right_at
      OBVIOUS
    <2>2. n \in Nat /\ DOMAIN right = 1..n /\ ra \in 1..n + 1 /\ end \in 1..n + 1 /\ ra < end
      BY <1>4, <2>1, BothSides, Sides DEF AfterRight
    <2>. QED BY ONLY <2>1, <2>2
  <1>10. \A x, r : r \in RowsBefore(right, x) <=> \E i \in DOMAIN right : i < x /\ right[i] = r
    BY DEF RowsBefore, ToSet
  <1>11. ToSet(loaded) = {r \in RowsBefore(right, end) : RightKey(r) = a}
    <2>1. ASSUME NEW r \in ToSet(loaded)
          PROVE  r \in RowsBefore(right, end) /\ RightKey(r) = a
      BY <1>4, <1>8, <1>10, <2>1
    <2>2. ASSUME NEW r \in RowsBefore(right, end), RightKey(r) = a
          PROVE  r \in ToSet(loaded)
      <3>1. PICK i \in DOMAIN right : i < end /\ right[i] = r
        BY <1>10, <2>2
      <3>2. right_at <= i
        BY <1>7, <1>9, <2>2, <3>1
      <3>. QED BY <1>8, <3>1, <3>2
    <2>. QED BY ONLY <2>1, <2>2
  <1>12. RowsBefore(right, end) \ ToSet(loaded) = RowsBefore(right, right_at)
    <2>1. ASSUME NEW r \in RowsBefore(right, end), r \notin ToSet(loaded)
          PROVE  r \in RowsBefore(right, right_at)
      <3>1. PICK i \in DOMAIN right : i < end /\ right[i] = r
        BY <1>10, <2>1
      <3>2. ~ right_at <= i
        BY <1>8, <2>1, <3>1
      <3>. QED BY <1>9, <1>10, <3>1, <3>2
    <2>2. ASSUME NEW r \in RowsBefore(right, right_at)
          PROVE  r \in RowsBefore(right, end) /\ r \notin ToSet(loaded)
      <3>1. PICK i \in DOMAIN right : i < right_at /\ right[i] = r
        BY <1>10, <2>2
      <3>2. RightKey(r) # a
        BY <1>7, <3>1
      <3>. QED BY <1>9, <1>10, <1>11, <3>1, <3>2
    <2>. QED BY ONLY <2>1, <2>2
  <1>13. NotAhead(l, end)
    BY <1>4, <1>5 DEF NotAhead, SameKey
  <1>14. Ahead(left_at, right_at)
    BY DEF MergeState, Merging, MergeAt
  <1>15. Ahead(left_at + 1, end)
    <2>1. SUFFICES ASSUME NEW i \in DOMAIN right, NEW k \in DOMAIN left, k < left_at + 1, end <= i
                   PROVE  ~ SameKey(left[k], right[i])
      BY DEF Ahead
    <2>2. k < left_at \/ k = left_at
      BY <1>2, <2>1, AtLeft
    <2>3. right_at <= i
      BY <1>4, <2>1
    <2>. QED BY <1>5, <1>13, <1>14, <2>1, <2>2, <2>3 DEF Ahead, NotAhead
  <1>16. Passed(left_at + 1, end, a)
    <2>1. SUFFICES ASSUME NEW i \in DOMAIN right, NEW k \in DOMAIN left, i < end, left_at + 1 <= k,
                          RightKey(right[i]) # a
                   PROVE  ~ SameKey(left[k], right[i])
      BY DEF Passed
    <2>2. i < right_at
      BY <1>4, <1>9, <2>1
    <2>3. left_at <= k
      BY <1>2, <2>1, AtLeft
    <2>. QED BY <1>6, <2>2, <2>3
  <1>17. HasRun(left_at + 1, end, loaded, a)
    BY <1>3, <1>5, <1>8, <1>11 DEF HasRun
  <1>18. Partners(l) = {r \in ToSet(loaded) : residual_holds(l, r)}
    BY <1>3, <1>4, <1>5, <1>11, <1>13, RunPartners
  <1>19. /\ HasPaid(Emitted(loaded), {l}, {})
         /\ ~ is_filtering(plan.type) => Marked(loaded) = Partners(l)
    BY <1>1, <1>5, <1>8, <1>18, EmittedPays
  <1>20. HasMarked(left_at + 1, loaded, Marked(loaded))
    <2>1. SUFFICES ASSUME preserves_right(plan.type)
                   PROVE  Marked(loaded) = {r \in ToSet(loaded) : \E p \in RowsBefore(left, left_at + 1) : On(p, r)}
      BY DEF HasMarked
    <2>2. Marked(loaded) = Partners(l)
      BY <1>19, <2>1 DEF preserves_right, is_filtering
    <2>3. RowsBefore(left, left_at + 1) = RowsBefore(left, left_at) \cup {l}
      BY <1>1, <1>2, AtLeft
    <2>4. ASSUME NEW r \in ToSet(loaded), NEW p \in RowsBefore(left, left_at)
          PROVE  ~ On(p, r)
      <3>1. PICK k \in DOMAIN left : k < left_at /\ left[k] = p
        BY <2>4 DEF RowsBefore
      <3>2. PICK i \in DOMAIN right : right_at <= i /\ right[i] = r
        BY <1>8, <2>4
      <3>3. ~ SameKey(p, r) /\ p \in LeftRows /\ r \in RightRows
        BY <1>14, <3>1, <3>2, Sides DEF Ahead
      <3>. QED BY <3>3, KeysMeet
    <2>5. \A r \in ToSet(loaded) : r \in Partners(l) <=> On(l, r)
      <3>1. \A r \in ToSet(loaded) : r \in RightRows
        BY <1>8, Sides
      <3>. QED BY <3>1 DEF Partners
    <2>6. Partners(l) \subseteq ToSet(loaded)
      BY <1>18
    <2>. QED BY ONLY <2>2, <2>3, <2>4, <2>5, <2>6
  <1>21. HasPaid(((out \o pending) \o Unmatched) \o Emitted(loaded),
                 RowsBefore(left, left_at + 1), RowsBefore(right, end) \ ToSet(loaded))
    <2>1. PICK L, B, list, more : /\ L = RowsBefore(left, left_at) /\ B = RowsBefore(right, right_at)
                                  /\ list = (out \o pending) \o Unmatched /\ more = Emitted(loaded)
      OBVIOUS
    <2>2. HasPaid(list, L, B) /\ HasPaid(more, {l}, {})
      BY <1>2, <1>19, <2>1, RunEnds
    <2>3. /\ L \in SUBSET LeftRows /\ {l} \in SUBSET LeftRows /\ L \cap {l} = {}
          /\ B \cap {} = {}
      BY <1>1, <1>2, <2>1, AtLeft
    <2>4. HasPaid(list \o more, L \cup {l}, B \cup {})
      BY ONLY IsJoin, <2>2, <2>3, Paying
    <2>5. L \cup {l} = RowsBefore(left, left_at + 1) /\ B \cup {} = RowsBefore(right, end) \ ToSet(loaded)
      BY <1>1, <1>2, <1>12, <2>1, AtLeft
    <2>. QED BY ONLY <2>1, <2>4, <2>5
  <1>22. /\ out' \o pending' = ((out \o pending) \o Unmatched) \o Emitted(loaded)
         /\ pending' \in Seq(Answer)
    <2>1. PICK A, more, own, x : A = Answer /\ more = Unmatched /\ own = Emitted(loaded) /\ x = pending \o more
      OBVIOUS
    <2>2. out \in Seq(A) /\ pending \in Seq(A) /\ more \in Seq(A) /\ own \in Seq(A)
      BY <1>2, <1>19, <2>1, RunEnds DEF MergeState, HasPaid
    <2>4. Behind(x, pending, more) /\ Behind(pending', x, own)
      BY <1>2, <2>1 DEF Behind
    <2>5. x \in Seq(A) /\ Behind(out \o x, out \o pending, more)
      BY ONLY <2>2, <2>4, Regrouped
    <2>6. pending' \in Seq(A) /\ Behind(out \o pending', out \o x, own)
      BY ONLY <2>2, <2>4, <2>5, Regrouped
    <2>. QED BY ONLY <1>2, <2>1, <2>5, <2>6 DEF Behind
  <1>23. MergeAt(left_at + 1, end, loaded, a, Marked(loaded), ((out \o pending) \o Unmatched) \o Emitted(loaded))
    BY <1>2, <1>4, <1>15, <1>16, <1>17, <1>20, <1>21, AtLeft DEF MergeAt
  <1>. QED BY ONLY <1>2, <1>22, <1>23

-----------------------------------------------------------------------------
(* What every join returns.                                                *)

\* What holds of the cursors and the run is decided by the plan and by what arrives.
LEMMA MergeDecides ==
  ASSUME plan' = plan, left' = left, right' = right
  PROVE  /\ IsMerge' <=> IsMerge
         /\ Arrived' <=> Arrived
         /\ MergeAt(left_at', right_at', run', run_key', run_matched', out' \o pending') => Merging'
  <1>1. /\ LeftRows' = LeftRows /\ RightRows' = RightRows /\ Answer' = Answer
        /\ \A l : LeftKey(l)' = LeftKey(l)
        /\ \A r : RightKey(r)' = RightKey(r)
        /\ \A l, r : On(l, r)' <=> On(l, r)
        /\ \A L : FromLeft(L)' = FromLeft(L)
        /\ \A R : FromRight(R)' = FromRight(R)
    BY JoinDecides
  <1>2. IsMerge' <=> IsMerge
    <2>1. compares_as_sorted(plan)' <=> compares_as_sorted(plan)
      OBVIOUS
    <2>. QED BY <2>1, JoinDecides DEF IsMerge
  <1>3. Arrived' <=> Arrived
    <2>1. [k \in 1..Len(plan.left) |-> LeftKey(left[k])]' = [k \in 1..Len(plan.left) |-> LeftKey(left[k])]
      BY <1>1
    <2>2. [k \in 1..Len(plan.right) |-> RightKey(right[k])]' = [k \in 1..Len(plan.right) |-> RightKey(right[k])]
      BY <1>1
    <2>. QED BY <2>1, <2>2 DEF Arrived
  <1>4. \A l, r : SameKey(l, r)' <=> SameKey(l, r)
    BY <1>1 DEF SameKey
  <1>5. Passed(left_at', right_at', run_key') => Passed(left_at, right_at, run_key)'
    BY <1>1, <1>4 DEF Passed
  <1>6. Ahead(left_at', right_at') => Ahead(left_at, right_at)'
    BY <1>4 DEF Ahead
  <1>7. HasRun(left_at', right_at', run', run_key') => HasRun(left_at, right_at, run, run_key)'
    BY <1>1 DEF HasRun
  <1>8. HasMarked(left_at', run', run_matched') => HasMarked(left_at, run, run_matched)'
    BY <1>1 DEF HasMarked
  <1>9. \A L, R : HasPaid(out' \o pending', L, R) => HasPaid(out \o pending, L, R)'
    BY <1>1 DEF HasPaid
  <1>. QED BY <1>2, <1>3, <1>5, <1>6, <1>7, <1>8, <1>9 DEF Merging, MergeAt, AfterLeft, AfterRight

MergeEnds ==
  /\ finished => left_at = AfterLeft /\ right_at = AfterRight /\ run = <<>>
  /\ status = "done" => finished /\ pending = <<>>

MergeRun ==
  /\ Arrived /\ Merging /\ MergeEnds
  /\ out \in Seq(Answer) /\ pending \in Seq(Answer)

\* No row is read at first, and none is owed.
LEMMA MergeFirst ==
  ASSUME Init, IsMerge
  PROVE  MergeRun
  <1>1. /\ left_at = 1 /\ right_at = 1 /\ run = <<>> /\ run_matched = {} /\ run_key = NoKey
        /\ pending = <<>> /\ finished = FALSE /\ out = <<>> /\ status = "running"
    BY DEF Init, OperatorInit, MergeInit
  <1>2. Arrived
    BY ArrivedFirst
  <1>3. /\ Len(plan.left) \in Nat /\ DOMAIN left = 1..Len(plan.left)
        /\ Len(plan.right) \in Nat /\ DOMAIN right = 1..Len(plan.right)
    BY <1>2, Sides
  <1>4. RowsBefore(left, left_at) = {} /\ RowsBefore(right, right_at) = {}
    BY <1>1, <1>3 DEF RowsBefore
  <1>5. Passed(left_at, right_at, run_key) /\ Ahead(left_at, right_at)
    BY <1>1, <1>3 DEF Passed, Ahead
  <1>6. left_at \in 1..AfterLeft /\ right_at \in 1..AfterRight
    BY <1>1, <1>3 DEF AfterLeft, AfterRight
  <1>7. out \o pending = <<>>
    BY <1>1
  <1>8. /\ HasRun(left_at, right_at, run, run_key) /\ HasMarked(left_at, run, run_matched)
        /\ ToSet(run) = {}
    BY <1>1, <1>2, NoneRun
  <1>9. HasPaid(out \o pending, RowsBefore(left, left_at), RowsBefore(right, right_at) \ ToSet(run))
    BY <1>4, <1>7, NothingPaid
  <1>10. Merging
    BY <1>5, <1>6, <1>8, <1>9 DEF Merging, MergeAt
  <1>11. MergeEnds
    BY <1>1 DEF MergeEnds
  <1>. QED BY <1>1, <1>2, <1>10, <1>11 DEF MergeRun

\* Every step of a merge join keeps what it owes.
LEMMA MergeKept ==
  ASSUME IsMerge, MergeRun, MergeNext
  PROVE  MergeRun'
  <1>1. MergeState /\ status = "running"
    BY DEF MergeRun, MergeState, MergeNext
  <1>2. plan' = plan /\ left' = left /\ right' = right
    BY DEF MergeNext, Replay, StepLeft, StepRight, Meet, Exhausted, ReturnPending, sideVars
  <1>3. Arrived' /\ Answer' = Answer
    BY <1>2, MergeDecides, JoinDecides DEF MergeRun
  <1>4. CASE Replay \/ StepLeft \/ StepRight \/ Meet
    <2>1. /\ MergeAt(left_at', right_at', run', run_key', run_matched', out' \o pending')
          /\ pending' \in Seq(Answer)
      BY <1>1, <1>4, ReplayKept, StepLeftKept, StepRightKept, MeetKept
    <2>2. ~ finished' /\ status' = "running" /\ out' = out
      BY <1>1, <1>4 DEF Replay, StepLeft, StepRight, Meet, Filling
    <2>3. Merging'
      BY <1>2, <2>1, MergeDecides
    <2>4. MergeEnds'
      BY <2>2 DEF MergeEnds
    <2>. QED BY <1>3, <2>1, <2>2, <2>3, <2>4 DEF MergeRun
  <1>5. CASE Exhausted
    <2>1. /\ MergeAt(left_at', right_at', run', run_key', run_matched', out' \o pending')
          /\ pending' \in Seq(Answer)
          /\ left_at' = AfterLeft /\ right_at' = AfterRight /\ run' = <<>>
      BY <1>1, <1>5, ExhaustedKept
    <2>2. status' = "running" /\ out' = out
      BY <1>1, <1>5 DEF Exhausted
    <2>3. Merging'
      BY <1>2, <2>1, MergeDecides
    <2>4. MergeEnds'
      BY <1>2, <2>1, <2>2 DEF MergeEnds, AfterLeft, AfterRight
    <2>. QED BY <1>3, <2>1, <2>2, <2>3, <2>4 DEF MergeRun
  <1>6. CASE ReturnPending
    <2>1. out' \o pending' = out \o pending /\ out' \in Seq(Answer) /\ pending' \in Seq(Answer)
      BY <1>1, <1>6, ReturnPendingKept
    <2>2. /\ UNCHANGED <<left_at, right_at, run, run_key, run_matched, finished>>
          /\ ~ Filling
          /\ status' = IF pending = <<>> THEN "done" ELSE status
      BY <1>6 DEF ReturnPending, sideVars, runVars
    <2>3. MergeAt(left_at', right_at', run', run_key', run_matched', out' \o pending')
      BY <2>1, <2>2 DEF MergeRun, Merging
    <2>4. Merging'
      BY <1>2, <2>3, MergeDecides
    <2>5. ASSUME pending = <<>>
          PROVE  finished /\ pending' = <<>>
      <3>1. Len(pending) = 0 /\ BatchSize \in Nat \ {0}
        BY <2>5, BatchAssumption
      <3>2. finished
        BY <2>2, <3>1 DEF Filling
      <3>3. pending' = SubSeq(pending, 1, 0)
        BY <1>6, <3>1 DEF ReturnPending
      <3>4. pending' = <<>>
        BY <2>5, <3>3
      <3>. QED BY <3>2, <3>4
    <2>6. MergeEnds'
      BY <1>1, <1>2, <2>2, <2>5 DEF MergeRun, MergeEnds, AfterLeft, AfterRight
    <2>. QED BY <1>3, <2>1, <2>4, <2>6 DEF MergeRun
  <1>. QED BY <1>4, <1>5, <1>6 DEF MergeNext

\* A hash join and a nested loop go by HashRun, a merge join in step by MergeRun.
JoinRun ==
  plan.kind = "join" =>
    IF build_join(plan) = "merge" THEN compares_as_sorted(plan) => MergeRun ELSE HashRun

JoinInv == PlanGiven /\ JoinRun

LEMMA JoinFirst == Init => JoinInv
  <1>1. SUFFICES ASSUME Init
                 PROVE  JoinInv
    OBVIOUS
  <1>2. PlanGiven
    BY <1>1 DEF Init, OperatorInit, PlanGiven
  <1>3. ASSUME plan.kind = "join"
        PROVE  IF build_join(plan) = "merge" THEN compares_as_sorted(plan) => MergeRun ELSE HashRun
    BY <1>1, <1>2, <1>3, MergeFirst, HashFirst DEF IsMerge, IsJoin
  <1>. QED BY <1>2, <1>3 DEF JoinInv, JoinRun

\* For a join, only its own steps change anything but the status, which else
\* becomes "failed".
LEMMA JoinSteps ==
  ASSUME [Next]_vars, plan.kind = "join"
  PROVE  \/ Joins
         \/ UNCHANGED <<plan, out, joinVars>> /\ status' \in {status, "failed"}
  <1>1. CASE UNCHANGED vars
    BY <1>1 DEF vars, operatorVars
  <1>2. CASE Fail /\ UNCHANGED <<joinVars, unaryVars>>
    BY <1>2 DEF Fail
  <1>3. CASE Step
    BY <1>3 DEF Step, SortStep, SortBuild, TopNRow, TopNBuilt, AggregateStep, SetStep, WindowStep
  <1>. QED BY <1>1, <1>2, <1>3 DEF Next

\* A step of a hash join or a nested loop.
LEMMA HashKept ==
  ASSUME IsJoin, HashRun, NEW algorithm, ProbesBy(algorithm), HashNext(algorithm)
  PROVE  HashRun'
  <1>1. status = "running" /\ (Build \/ (\E n \in 1..BatchSize : Probe(algorithm, n)) \/ ProbeEnd \/ Flush)
    BY DEF HashNext
  <1>2. ASSUME NEW n \in 1..BatchSize, Probe(algorithm, n)
        PROVE  HashRun'
    BY <1>2, ProbeKept
  <1>. QED BY <1>1, <1>2, BuildKeeps, ProbeEndKeeps, FlushKept

\* Nothing is owed for a step in which no cursor moves.
LEMMA JoinIdle ==
  ASSUME IsJoin, JoinRun, UNCHANGED <<plan, out, joinVars>>, status' \in {status, "failed"}
  PROVE  JoinRun'
  <1>1. /\ plan' = plan /\ out' = out /\ build_read' = build_read /\ index' = index
        /\ probe_at' = probe_at /\ matched' = matched /\ flushing' = flushing /\ flush_pos' = flush_pos
        /\ left' = left /\ right' = right /\ left_at' = left_at /\ right_at' = right_at
        /\ run' = run /\ run_matched' = run_matched /\ run_key' = run_key
        /\ pending' = pending /\ finished' = finished
    BY DEF joinVars, hashVars, buildVars, flushVars, mergeVars, sideVars, runVars
  <1>2. ASSUME HashRun
        PROVE  HashRun'
    <2>1. HashPaid' /\ HasMatched'
      BY <1>1, <1>2, HashSame
    <2>2. HasIndex'
      BY <1>1, <1>2, JoinDecides DEF HashRun, HasIndex
    <2>3. HashRead'
      BY <1>1, <1>2 DEF HashRun, HashRead
    <2>. QED BY <2>1, <2>2, <2>3 DEF HashRun
  <1>3. ASSUME MergeRun
        PROVE  MergeRun'
    <2>1. Arrived' /\ Answer' = Answer
      BY <1>1, <1>3, MergeDecides, JoinDecides DEF MergeRun
    <2>2. MergeAt(left_at', right_at', run', run_key', run_matched', out' \o pending')
      BY <1>1, <1>3 DEF MergeRun, Merging
    <2>3. Merging'
      BY <1>1, <2>2, MergeDecides
    <2>4. MergeEnds'
      BY <1>1, <1>3 DEF MergeRun, MergeEnds, AfterLeft, AfterRight
    <2>. QED BY <1>1, <1>3, <2>1, <2>3, <2>4 DEF MergeRun
  <1>4. build_join(plan)' = build_join(plan) /\ (compares_as_sorted(plan)' <=> compares_as_sorted(plan))
    BY <1>1
  <1>. QED BY <1>1, <1>2, <1>3, <1>4, Zenon DEF JoinRun

LEMMA JoinKept ==
  ASSUME JoinInv, [Next]_vars
  PROVE  JoinInv'
  <1>1. plan' = plan
    BY HeapSteps
  <1>2. PlanGiven'
    BY <1>1 DEF JoinInv, PlanGiven
  <1>3. SUFFICES ASSUME plan.kind = "join" PROVE JoinRun'
    BY <1>1, <1>2 DEF JoinInv, JoinRun
  <1>4. IsJoin /\ JoinRun
    BY <1>3 DEF JoinInv, IsJoin
  <1>5. CASE UNCHANGED <<plan, out, joinVars>> /\ status' \in {status, "failed"}
    BY <1>4, <1>5, JoinIdle
  <1>6. CASE Joins
    <2>1. PICK how : how = build_join(plan)
      OBVIOUS
    <2>2. build_join(plan)' = how /\ (compares_as_sorted(plan)' <=> compares_as_sorted(plan))
      BY <1>1, <2>1
    <2>3. \/ how = "merge" /\ MergeNext
          \/ how # "merge" /\ \E algorithm : ProbesBy(algorithm) /\ HashNext(algorithm)
      BY <1>6, <2>1, Zenon DEF Joins, ProbesBy
    <2>4. CASE how = "merge" /\ MergeNext
      <3>1. ASSUME compares_as_sorted(plan)
            PROVE  MergeRun'
        <4>1. IsMerge /\ MergeRun
          BY <1>3, <1>4, <2>1, <2>4, <3>1 DEF IsMerge, JoinRun
        <4>. QED BY <2>4, <4>1, MergeKept
      <3>. QED BY <2>2, <2>4, <3>1 DEF JoinRun
    <2>5. CASE how # "merge" /\ \E algorithm : ProbesBy(algorithm) /\ HashNext(algorithm)
      <3>1. PICK algorithm : ProbesBy(algorithm) /\ HashNext(algorithm)
        BY <2>5
      <3>2. HashRun
        BY <1>3, <1>4, <2>1, <2>5 DEF JoinRun
      <3>3. HashRun'
        BY <1>4, <3>1, <3>2, HashKept
      <3>. QED BY <2>2, <2>5, <3>3 DEF JoinRun
    <2>. QED BY <2>3, <2>4, <2>5
  <1>. QED BY <1>3, <1>5, <1>6, JoinSteps

\* What is owed for some of the rows is a part of the answer, and for all of them it is
\* the answer.
LEMMA HashAnswered ==
  ASSUME IsJoin, HashRun
  PROVE  /\ out \in Seq(Answer) /\ EachOnce(out)
         /\ status = "done" => ToSet(out) = Answer
  <1>1. out \in Seq(Answer) /\ EachOnce(out)
    BY DEF HashRun, HashPaid, HasPaid
  <1>2. ASSUME status = "done"
        PROVE  ToSet(out) = Answer
    <2>1. 1..probe_at = LeftRows
      BY <1>2, JoinPlan DEF HashRun, HashRead
    <2>2. ToSet(out) = FromLeft(LeftRows) \cup FromRight(1..flush_pos)
      BY <2>1 DEF HashRun, HashPaid, HasPaid
    <2>3. /\ 1..flush_pos \in SUBSET RightRows
          /\ preserves_right(plan.type) => 1..flush_pos = RightRows
      BY <1>2, JoinPlan DEF HashRun, HashRead
    <2>4. FromRight(1..flush_pos) = FromRight(RightRows)
      <3>1. CASE preserves_right(plan.type)
        BY <2>3, <3>1
      <3>2. CASE ~ preserves_right(plan.type)
        <4>1. \A R \in SUBSET RightRows : FromRight(R) = {}
          BY <3>2, Owing
        <4>. QED BY <2>3, <4>1
      <3>. QED BY <3>1, <3>2
    <2>. QED BY <2>2, <2>4, Owing
  <1>. QED BY <1>1, <1>2

LEMMA MergeAnswered ==
  ASSUME IsMerge, MergeRun
  PROVE  /\ out \in Seq(Answer) /\ EachOnce(out)
         /\ status = "done" => ToSet(out) = Answer
  <1>. IsJoin
    BY DEF IsMerge
  <1>1. PICK A, all : A = Answer /\ all = out \o pending
    OBVIOUS
  <1>2. /\ out \in Seq(A) /\ pending \in Seq(A) /\ EachOnce(all) /\ all = out \o pending
        /\ ToSet(all) = FromLeft(RowsBefore(left, left_at))
             \cup FromRight(RowsBefore(right, right_at) \ ToSet(run))
    BY <1>1 DEF MergeRun, Merging, MergeAt, HasPaid
  <1>3. EachOnce(out)
    <2>1. PICK m, n : m = Len(out) /\ n = Len(pending)
      OBVIOUS
    <2>2. m \in Nat /\ n \in Nat /\ Len(all) = m + n /\ \A k \in 1..m : all[k] = out[k]
      BY ONLY <1>2, <2>1, LenProperties, ConcatProperties
    <2>3. \A k \in 1..m : k \in 1..m + n
      BY ONLY <2>2
    <2>. QED BY ONLY <1>2, <2>1, <2>2, <2>3 DEF EachOnce
  <1>4. ASSUME status = "done"
        PROVE  ToSet(out) = A
    <2>1. left_at = AfterLeft /\ right_at = AfterRight /\ run = <<>> /\ pending = <<>>
      BY <1>4 DEF MergeRun, MergeEnds
    <2>2. all = out
      BY <1>2, <2>1
    <2>3. RowsBefore(left, left_at) = LeftRows
      <3>1. \A k \in DOMAIN left : k < left_at
        BY <2>1, Sides DEF MergeRun, AfterLeft
      <3>2. /\ \A k \in DOMAIN left : left[k] \in LeftRows
            /\ \A l \in LeftRows : \E k \in DOMAIN left : left[k] = l
        BY Sides DEF MergeRun
      <3>. QED BY ONLY <3>1, <3>2 DEF RowsBefore, ToSet
    <2>4. RowsBefore(right, right_at) = RightRows
      <3>1. \A i \in DOMAIN right : i < right_at
        BY <2>1, Sides DEF MergeRun, AfterRight
      <3>2. /\ \A i \in DOMAIN right : right[i] \in RightRows
            /\ \A r \in RightRows : \E i \in DOMAIN right : right[i] = r
        BY Sides DEF MergeRun
      <3>. QED BY ONLY <3>1, <3>2 DEF RowsBefore, ToSet
    <2>5. RowsBefore(right, right_at) \ ToSet(run) = RightRows
      <3>1. ToSet(run) = {}
        BY <2>1 DEF ToSet
      <3>. QED BY <2>4, <3>1
    <2>. QED BY <1>1, <1>2, <2>2, <2>3, <2>5, Owing
  <1>. QED BY <1>1, <1>2, <1>3, <1>4

\* Whichever algorithm a join runs by, and wherever its batches end, it has returned, at
\* any time, rows of the answer only and none of them twice, and all of them when it is
\* done: a hash join and a nested loop of any inputs, a merge join of those it compares
\* as they are sorted.
THEOREM JoinIsRight == Spec => []ReturnsTheJoin
  <1>1. JoinInv => ReturnsTheJoin
    <2>1. SUFFICES ASSUME JoinInv, plan.kind = "join", InStep
                   PROVE  /\ ToSet(out) \subseteq Answer
                          /\ Len(out) = Cardinality(ToSet(out))
                          /\ status = "done" => ToSet(out) = Answer
      BY DEF ReturnsTheJoin, RowsOfTheJoin
    <2>2. IsJoin
      BY <2>1 DEF JoinInv, IsJoin
    <2>3. /\ out \in Seq(Answer) /\ EachOnce(out)
          /\ status = "done" => ToSet(out) = Answer
      <3>1. CASE build_join(plan) = "merge"
        <4>1. compares_as_sorted(plan)
          BY <2>1, <3>1 DEF InStep
        <4>. QED BY <2>1, <2>2, <3>1, <4>1, MergeAnswered DEF JoinInv, JoinRun, IsMerge
      <3>2. CASE build_join(plan) # "merge"
        BY <2>1, <2>2, <3>2, HashAnswered DEF JoinInv, JoinRun
      <3>. QED BY <3>1, <3>2
    <2>4. ToSet(out) \subseteq Answer
      <3>1. PICK A : A = Answer
        OBVIOUS
      <3>2. out \in Seq(A)
        BY <2>3, <3>1
      <3>3. \A k \in DOMAIN out : out[k] \in A
        BY ONLY <3>2
      <3>4. ToSet(out) \subseteq A
        BY ONLY <3>3 DEF ToSet
      <3>. QED BY <3>1, <3>4
    <2>5. Cardinality(ToSet(out)) = Len(out)
      BY <2>3, NoneTwice DEF EachOnce
    <2>. QED BY <2>3, <2>4, <2>5
  <1>. QED BY <1>1, JoinFirst, JoinKept, PTL DEF Spec
===============================================================================
