--------------------------- MODULE CatalogProofs ---------------------------
(***************************************************************************)
(* Proofs about the catalog, for every set of tables, predicates and open  *)
(* streams, names loaded again over their indexes included: tables,        *)
(* statistics and indexes stay together, and a stream returns the matches  *)
(* among the rows named to it, which are all there are unless the index    *)
(* that named them was built from another table.                           *)
(***************************************************************************)
EXTENDS Catalog, ProofBasics

-----------------------------------------------------------------------------
(* The invariant.                                                          *)

\* The matches that were named to a stream.
Wanted(stream) == Matches(stream) \cap stream.named

\* A stream has gone through its rows in table order: what it returned are the
\* matches before those it has still to read.
Reads(stream) ==
  /\ stream.status = "done" => stream.rows = {}
  /\ stream.rows \subseteq stream.named
  /\ stream.named \subseteq RowIds(stream.source)
  /\ \A gone \in Wanted(stream) \ stream.rows : \A r \in stream.rows : gone < r
  /\ stream.returned = InOrder(Wanted(stream) \ stream.rows)

\* If the rows were named from its own table, no match is missing.
MissesNothing(stream) ==
  stream.source = stream.table => /\ stream.status # "panicked"
                                  /\ Matches(stream) \subseteq stream.named

Proceeds(stream) == Reads(stream) /\ MissesNothing(stream)

Proceed == \A s \in Stream : streams[s].status # "closed" => Proceeds(streams[s])

IInv == CatalogConsistent /\ Proceed

-----------------------------------------------------------------------------
(* Rows in table order.                                                    *)

\* The rank of a member is a place in the sequence of them all.
LEMMA RankRange ==
  ASSUME NEW S \in SUBSET Nat, IsFiniteSet(S), NEW r \in S
  PROVE  Rank(S, r) \in 1..Cardinality(S)
  <1>. DEFINE upto == {x \in S : x <= r}
  <1>1. upto \in SUBSET S /\ r \in upto /\ Cardinality(S) \in Nat
    BY FS_CardinalityType
  <1>. HIDE DEF upto
  <1>2. IsFiniteSet(upto) /\ Cardinality(upto) <= Cardinality(S)
    BY <1>1, FS_Subset
  <1>3. Cardinality(upto) \in Nat /\ Cardinality(upto) # 0
    BY <1>1, <1>2, FS_CardinalityType, FS_EmptySet
  <1>. QED BY <1>1, <1>2, <1>3 DEF Rank, upto

\* A later row has a greater rank.
LEMMA RankGrows ==
  ASSUME NEW S \in SUBSET Nat, IsFiniteSet(S), NEW r \in S, NEW s \in S, r < s
  PROVE  Rank(S, r) < Rank(S, s)
  <1>. DEFINE below(x) == {y \in S : y <= x}
  <1>1. below(r) \in SUBSET below(s) /\ s \in below(s) /\ s \notin below(r)
    <2>1. s <= s /\ ~ (s <= r) /\ \A y \in S : y <= r => y <= s
      OBVIOUS
    <2>. QED BY <2>1
  <1>2. below(s) \in SUBSET S
    OBVIOUS
  <1>. HIDE DEF below
  <1>3. IsFiniteSet(below(s))
    BY <1>2, FS_Subset
  <1>4. /\ IsFiniteSet(below(r)) /\ Cardinality(below(r)) <= Cardinality(below(s))
        /\ Cardinality(below(s)) # Cardinality(below(r))
    BY <1>1, <1>3, FS_Subset
  <1>5. Cardinality(below(r)) \in Nat /\ Cardinality(below(s)) \in Nat
    BY <1>3, <1>4, FS_CardinalityType
  <1>6. Rank(S, r) = Cardinality(below(r)) /\ Rank(S, s) = Cardinality(below(s))
    BY DEF Rank, below
  <1>. QED BY <1>4, <1>5, <1>6

\* Every rank up to the size of the set is that of one member.
LEMMA RankAttained ==
  ASSUME NEW S \in SUBSET Nat, IsFiniteSet(S), NEW k \in 1..Cardinality(S)
  PROVE  \E r \in S : /\ Rank(S, r) = k
                      /\ \A s \in S : Rank(S, s) = k => s = r
  <1>. DEFINE f == [r \in S |-> Rank(S, r)]
              size == Cardinality(S)
  <1>1. size \in Nat
    BY FS_CardinalityType
  <1>2. \A r, s \in S : r # s => Rank(S, r) # Rank(S, s)
    <2>1. ASSUME NEW r \in S, NEW s \in S, r < s
          PROVE  Rank(S, r) # Rank(S, s)
      <3>1. Rank(S, r) \in Int /\ Rank(S, s) \in Int
        BY <1>1, RankRange
      <3>. QED BY <2>1, <3>1, RankGrows
    <2>2. \A r, s \in S : r # s => r < s \/ s < r
      OBVIOUS
    <2>. QED BY <2>1, <2>2
  <1>3. f \in Injection(S, 1..size)
    <2>1. \A r \in S : Rank(S, r) \in 1..size
      BY RankRange
    <2>. HIDE DEF size
    <2>. QED BY <1>2, <2>1 DEF Injection, IsInjective
  <1>4. IsFiniteSet(1..size) /\ Cardinality(1..size) = size
    BY <1>1, FS_Interval
  <1>5. f \in Surjection(S, 1..size)
    <2>. HIDE DEF f
    <2>. QED BY <1>3, <1>4, FS_Injection
  <1>6. PICK r \in S : f[r] = k
    <2>. HIDE DEF f
    <2>. QED BY <1>5 DEF Surjection
  <1>. QED BY <1>2, <1>6

\* InOrder lists the members of a set, each at its rank.
LEMMA Listed ==
  ASSUME NEW S \in SUBSET Nat, IsFiniteSet(S)
  PROVE  /\ InOrder(S) \in Seq(S) /\ Cardinality(S) \in Nat
         /\ Len(InOrder(S)) = Cardinality(S)
         /\ DOMAIN InOrder(S) = 1..Cardinality(S)
         /\ \A r \in S, k \in 1..Cardinality(S) : Rank(S, r) = k => InOrder(S)[k] = r
  <1>1. Cardinality(S) \in Nat
    BY FS_CardinalityType
  <1>2. \A k \in 1..Cardinality(S) :
          /\ InOrder(S)[k] \in S
          /\ \A r \in S : Rank(S, r) = k => InOrder(S)[k] = r
    <2>1. SUFFICES ASSUME NEW k \in 1..Cardinality(S)
                   PROVE  /\ InOrder(S)[k] \in S
                          /\ \A r \in S : Rank(S, r) = k => InOrder(S)[k] = r
      OBVIOUS
    <2>2. InOrder(S)[k] = CHOOSE r \in S : Rank(S, r) = k
      BY DEF InOrder
    <2>3. PICK r \in S : Rank(S, r) = k /\ \A s \in S : Rank(S, s) = k => s = r
      BY RankAttained
    <2>. QED BY <2>2, <2>3
  <1>3. InOrder(S) \in [1..Cardinality(S) -> S]
    BY <1>2 DEF InOrder
  <1>4. InOrder(S) \in Seq(S) /\ Len(InOrder(S)) = Cardinality(S)
    BY <1>1, <1>3, IsASeq
  <1>. QED BY <1>1, <1>2, <1>3, <1>4

\* What the rows of a later batch are appended to.
LEMMA InOrderContinues ==
  ASSUME NEW A \in SUBSET Nat, IsFiniteSet(A), NEW B \in SUBSET Nat, IsFiniteSet(B),
         \A a \in A : \A b \in B : a < b
  PROVE  /\ InOrder(A \cup B) = InOrder(A) \o InOrder(B)
         /\ \E k \in 0..Len(InOrder(A \cup B)) : InOrder(A) = SubSeq(InOrder(A \cup B), 1, k)
  <1>. DEFINE all == A \cup B
              m == Cardinality(A)
              n == Cardinality(B)
              joined == InOrder(A) \o InOrder(B)
  <1>1. /\ all \in SUBSET Nat /\ IsFiniteSet(all) /\ A \cap B = {}
        /\ m \in Nat /\ n \in Nat /\ Cardinality(all) = m + n
    <2>1. A \cap B = {}
      <3>1. ASSUME NEW x \in A, x \in B
            PROVE  FALSE
        <4>1. x < x /\ x \in Nat
          BY <3>1
        <4>. QED BY <4>1
      <3>. QED BY <3>1
    <2>2. Cardinality(A) \in Nat /\ Cardinality(B) \in Nat /\ IsFiniteSet(A \cup B)
      BY FS_CardinalityType, FS_Union
    <2>3. Cardinality(A \cup B) = Cardinality(A) + Cardinality(B) - Cardinality(A \cap B)
      BY FS_Union
    <2>4. Cardinality(A \cap B) = 0
      BY <2>1, FS_EmptySet
    <2>. QED BY <2>1, <2>2, <2>3, <2>4
  <1>2. /\ InOrder(A) \in Seq(A) /\ Len(InOrder(A)) = m
        /\ InOrder(B) \in Seq(B) /\ Len(InOrder(B)) = n
    BY Listed
  <1>3. /\ InOrder(A) \in Seq(all) /\ InOrder(B) \in Seq(all)
    BY <1>2, SeqMonotonic
  <1>4. /\ joined \in Seq(all) /\ Len(joined) = m + n
        /\ \A k \in 1..m + n : joined[k] = IF k <= m THEN InOrder(A)[k] ELSE InOrder(B)[k - m]
    <2>. HIDE DEF all, m, n
    <2>. QED BY <1>2, <1>3, ConcatProperties
  <1>5. InOrder(all) \in Seq(all) /\ Len(InOrder(all)) = m + n
    <2>. HIDE DEF all, m, n
    <2>. QED BY <1>1, Listed
  <1>6. ASSUME NEW k \in 1..m
        PROVE  InOrder(all)[k] = InOrder(A)[k]
    <2>1. PICK a \in A : Rank(A, a) = k
      BY RankAttained
    <2>2. {x \in all : x <= a} = {x \in A : x <= a}
      <3>1. \A b \in B : ~ (b <= a)
        OBVIOUS
      <3>. QED BY <3>1
    <2>3. Rank(all, a) = k
      BY <2>1, <2>2 DEF Rank
    <2>4. InOrder(A)[k] = a
      BY <2>1, Listed
    <2>5. a \in all /\ k \in 1..m + n
      BY <1>1
    <2>. HIDE DEF all, m, n
    <2>6. InOrder(all)[k] = a
      BY <1>1, <2>3, <2>5, Listed
    <2>. QED BY <2>4, <2>6
  <1>7. ASSUME NEW k \in 1..n
        PROVE  InOrder(all)[m + k] = InOrder(B)[k]
    <2>1. PICK b \in B : Rank(B, b) = k
      BY RankAttained
    <2>. DEFINE low == {x \in B : x <= b}
    <2>2. {x \in all : x <= b} = A \cup low
      <3>1. \A a \in A : a <= b
        OBVIOUS
      <3>. QED BY <3>1
    <2>3. Cardinality(A \cup low) = m + k
      <3>1. low \in SUBSET B /\ A \cap low = {}
        BY <1>1
      <3>2. Cardinality(low) = k
        BY <2>1 DEF Rank
      <3>. HIDE DEF low
      <3>3. IsFiniteSet(low)
        BY <3>1, FS_Subset
      <3>4. Cardinality(A \cup low) = Cardinality(A) + Cardinality(low) - Cardinality(A \cap low)
        BY <3>3, FS_Union
      <3>5. Cardinality(A \cap low) = 0
        BY <3>1, FS_EmptySet
      <3>. QED BY <1>1, <3>2, <3>4, <3>5
    <2>4. Rank(all, b) = m + k
      BY <2>2, <2>3 DEF Rank
    <2>5. InOrder(B)[k] = b
      BY <2>1, Listed
    <2>6. b \in all /\ m + k \in 1..m + n
      BY <1>1
    <2>. HIDE DEF all, m, n
    <2>7. InOrder(all)[m + k] = b
      BY <1>1, <2>4, <2>6, Listed
    <2>. QED BY <2>5, <2>7
  <1>8. InOrder(all) = joined
    <2>. HIDE DEF all, m, n, joined
    <2>1. ASSUME NEW k \in 1..m + n
          PROVE  InOrder(all)[k] = joined[k]
      <3>1. CASE k <= m
        BY <1>1, <1>4, <1>6, <3>1
      <3>2. CASE k > m
        <4>1. k - m \in 1..n /\ m + (k - m) = k /\ ~ (k <= m)
          BY <1>1, <3>2
        <4>2. InOrder(all)[m + (k - m)] = InOrder(B)[k - m]
          BY <1>7, <4>1
        <4>. QED BY <1>4, <4>1, <4>2
      <3>. QED BY <1>1, <3>1, <3>2
    <2>. QED BY <1>4, <1>5, <2>1, SeqEqual
  <1>9. InOrder(A) = SubSeq(joined, 1, m) /\ m \in 0..m + n
    <2>1. SubSeq(joined, 1, Len(InOrder(A))) = InOrder(A)
      BY <1>3, SubSeqOfConcat1, SubSeqFull
    <2>. QED BY <1>1, <1>2, <2>1
  <1>. QED BY <1>5, <1>8, <1>9

-----------------------------------------------------------------------------
(* The range a conjunction confines a column to.                           *)

Bounds == [kind : {"unbounded"}, value : {NULL}]
          \cup [kind : {"included", "excluded"}, value : Number]
Ranges == [lower : Bounds, upper : Bounds]
Conjuncts == [column : Column, op : ComparisonOps, value : Number \cup {NULL}, exact : BOOLEAN]
Holds(conjunct, value) == CompareOp(conjunct.op, value, conjunct.value) = "true"

\* A literal bounds the keys a comparison with it admits: tighten_lower.
LEMMA LowerSound ==
  ASSUME NEW range \in Ranges, NEW kind \in {"included", "excluded"}, NEW v \in Number
  PROVE  LET bound == [kind |-> kind, value |-> v]
         IN  /\ tighten_lower(range, bound) \in Ranges
             /\ \A key \in Number :
                  Admits(range, key) /\ (v < key \/ (kind = "included" /\ v = key))
                    => Admits(tighten_lower(range, bound), key)
  <1>. DEFINE bound == [kind |-> kind, value |-> v]
  <1>1. bound \in Bounds /\ bound.kind = kind /\ bound.value = v
    BY DEF Bounds
  <1>. HIDE DEF bound
  <1>2. CASE tighten_lower(range, bound) = range
    BY <1>2 DEF bound
  <1>3. CASE tighten_lower(range, bound) = [range EXCEPT !.lower = bound]
    <2>1. PICK tight : tight = tighten_lower(range, bound)
      OBVIOUS
    <2>2. tight \in Ranges /\ tight.lower = bound /\ tight.upper = range.upper
      BY <1>1, <1>3, <2>1 DEF Ranges
    <2>3. \A key \in Number :
            Admits(range, key) /\ (v < key \/ (kind = "included" /\ v = key)) => Admits(tight, key)
      BY <1>1, <2>2 DEF Admits
    <2>. QED BY <2>1, <2>2, <2>3 DEF bound
  <1>. QED BY <1>2, <1>3 DEF tighten_lower

\* The same from above: tighten_upper.
LEMMA UpperSound ==
  ASSUME NEW range \in Ranges, NEW kind \in {"included", "excluded"}, NEW v \in Number
  PROVE  LET bound == [kind |-> kind, value |-> v]
         IN  /\ tighten_upper(range, bound) \in Ranges
             /\ \A key \in Number :
                  Admits(range, key) /\ (v > key \/ (kind = "included" /\ v = key))
                    => Admits(tighten_upper(range, bound), key)
  <1>. DEFINE bound == [kind |-> kind, value |-> v]
  <1>1. bound \in Bounds /\ bound.kind = kind /\ bound.value = v
    BY DEF Bounds
  <1>. HIDE DEF bound
  <1>2. CASE tighten_upper(range, bound) = range
    BY <1>2 DEF bound
  <1>3. CASE tighten_upper(range, bound) = [range EXCEPT !.upper = bound]
    <2>1. PICK tight : tight = tighten_upper(range, bound)
      OBVIOUS
    <2>2. tight \in Ranges /\ tight.upper = bound /\ tight.lower = range.lower
      BY <1>1, <1>3, <2>1 DEF Ranges
    <2>3. \A key \in Number :
            Admits(range, key) /\ (v > key \/ (kind = "included" /\ v = key)) => Admits(tight, key)
      BY <1>1, <2>2 DEF Admits
    <2>. QED BY <2>1, <2>2, <2>3 DEF bound
  <1>. QED BY <1>2, <1>3 DEF tighten_upper

\* A comparison is true of keys on one side of its literal: compare_op.
LEMMA HoldsMeans ==
  ASSUME NEW conjunct \in Conjuncts, NEW key \in Number \cup {NULL}, Holds(conjunct, key)
  PROVE  /\ key \in Number /\ conjunct.value \in Number
         /\ conjunct.op = "=" => key = conjunct.value
         /\ conjunct.op = "<" => key < conjunct.value
         /\ conjunct.op = "<=" => key <= conjunct.value
         /\ conjunct.op = ">" => key > conjunct.value
         /\ conjunct.op = ">=" => key >= conjunct.value
  <1>1. PICK v \in Number \cup {NULL}, op \in ComparisonOps : v = conjunct.value /\ op = conjunct.op
    BY DEF Conjuncts
  <1>2. Compare(key, v) # "none" /\ Accepts(op, Compare(key, v))
    BY <1>1 DEF Holds, CompareOp
  <1>3. key \in Number /\ v \in Number
    BY <1>2 DEF Compare
  <1>4. key \in Int /\ v \in Int
    BY <1>3, ValuesAssumption
  <1>5. Compare(key, v) = IF key < v THEN "less" ELSE IF key = v THEN "equal" ELSE "greater"
    <2>1. key \notin {NULL, NaN} /\ v \notin {NULL, NaN}
      BY <1>4, ValuesAssumption
    <2>. QED BY <2>1 DEF Compare
  <1>. QED BY <1>1, <1>2, <1>3, <1>4, <1>5 DEF Accepts

\* A conjunct that holds narrows a range without losing the key, and one that
\* is not about the column, or cannot hold of a NULL, leaves it as it is.
LEMMA NarrowSound ==
  ASSUME NEW range \in Ranges, NEW conjunct \in Conjuncts, NEW column \in Column
  PROVE  /\ narrow(range, conjunct, column) \in Ranges
         /\ \A key \in Number :
              Admits(range, key) /\ (conjunct.column = column => Holds(conjunct, key))
                => Admits(narrow(range, conjunct, column), key)
         /\ (conjunct.column = column => Holds(conjunct, NULL))
              => narrow(range, conjunct, column) = range
  <1>. DEFINE v == conjunct.value
              narrowed == apply(conjunct.op, v, range)
  <1>1. CASE ~ (conjunct.column = column /\ conjunct.exact /\ v # NULL)
    BY <1>1 DEF narrow
  <1>2. CASE conjunct.column = column /\ conjunct.exact /\ v # NULL
    <2>1. narrow(range, conjunct, column) = narrowed
      BY <1>2 DEF narrow
    <2>2. v \in Number /\ conjunct.op \in ComparisonOps
      BY <1>2 DEF Conjuncts
    <2>3. ~ Holds(conjunct, NULL)
      BY ValuesAssumption, HoldsMeans
    <2>4. narrowed \in Ranges /\ \A key \in Number :
            Admits(range, key) /\ Holds(conjunct, key) => Admits(narrowed, key)
      <3>1. Included(v) = [kind |-> "included", value |-> v]
            /\ Excluded(v) = [kind |-> "excluded", value |-> v]
        BY DEF Included, Excluded
      <3>2. \A key \in Number : key \in Int /\ v \in Int
        BY <2>2, ValuesAssumption
      <3>. HIDE DEF v
      <3>3. CASE conjunct.op = "="
        <4>1. PICK lower : lower = tighten_lower(range, Included(v))
          OBVIOUS
        <4>2. lower \in Ranges /\ \A key \in Number :
                Admits(range, key) /\ v = key => Admits(lower, key)
          BY <2>2, <3>1, <4>1, LowerSound
        <4>3. /\ tighten_upper(lower, Included(v)) \in Ranges
              /\ \A key \in Number :
                   Admits(lower, key) /\ v = key => Admits(tighten_upper(lower, Included(v)), key)
          BY <2>2, <3>1, <4>2, UpperSound
        <4>4. narrowed = tighten_upper(lower, Included(v))
          BY <3>3, <4>1 DEF apply
        <4>5. \A key \in Number : Holds(conjunct, key) => v = key
          BY <3>3, HoldsMeans DEF v
        <4>. QED BY <4>2, <4>3, <4>4, <4>5
      <3>4. CASE conjunct.op \in {"<", "<="}
        <4>1. PICK kind \in {"included", "excluded"} :
                /\ narrowed = tighten_upper(range, [kind |-> kind, value |-> v])
                /\ conjunct.op = "<=" => kind = "included"
          BY <3>1, <3>4 DEF apply
        <4>2. \A key \in Number : Holds(conjunct, key) => v > key \/ (kind = "included" /\ v = key)
          BY <3>2, <3>4, <4>1, HoldsMeans DEF v
        <4>. QED BY <2>2, <4>1, <4>2, UpperSound
      <3>5. CASE conjunct.op \in {">", ">="}
        <4>1. PICK kind \in {"included", "excluded"} :
                /\ narrowed = tighten_lower(range, [kind |-> kind, value |-> v])
                /\ conjunct.op = ">=" => kind = "included"
          BY <3>1, <3>5 DEF apply
        <4>2. \A key \in Number : Holds(conjunct, key) => v < key \/ (kind = "included" /\ v = key)
          BY <3>2, <3>5, <4>1, HoldsMeans DEF v
        <4>. QED BY <2>2, <4>1, <4>2, LowerSound
      <3>6. CASE conjunct.op = "<>"
        BY <3>6 DEF apply
      <3>. QED BY <2>2, <3>3, <3>4, <3>5, <3>6 DEF ComparisonOps
    <2>. QED BY <1>2, <2>1, <2>3, <2>4
  <1>. QED BY <1>1, <1>2

\* A predicate is a sequence of conjuncts.
LEMMA ConjunctionShape ==
  ASSUME NEW p \in Predicates
  PROVE  /\ Len(p) \in Nat /\ DOMAIN p = 1..Len(p)
         /\ \A k \in 1..Len(p) : p[k] \in Conjuncts
  <1>1. p \in Seq(Conjuncts)
    BY CatalogAssumption DEF Conjuncts
  <1>. HIDE DEF Conjuncts
  <1>. QED BY <1>1

\* extract_range is the fold of narrow over the conjuncts.
LEMMA RangeStepwise ==
  ASSUME NEW p \in Predicates, NEW column \in Column
  PROVE  \E after \in [0..Len(p) -> Ranges] :
           /\ after[0] = Whole
           /\ \A k \in 1..Len(p) : after[k] = narrow(after[k - 1], p[k], column)
           /\ extract_range(p, column) = after[Len(p)]
  <1>. DEFINE n == Len(p)
              step == [k \in 1..n |-> [range \in Ranges |-> narrow(range, p[k], column)]]
              Folds(f) == f = [k \in 0..n |-> IF k = 0 THEN Whole
                                              ELSE narrow(f[k - 1], p[k], column)]
  <1>1. n \in Nat /\ \A k \in 1..n : p[k] \in Conjuncts
    BY ConjunctionShape
  <1>2. Whole \in Ranges
    BY DEF Whole, Unbounded, Ranges, Bounds
  <1>. HIDE DEF n
  <1>3. step \in Steps(n, Ranges)
    BY <1>1, NarrowSound DEF Steps
  <1>4. \A range \in Ranges, k \in 1..n : step[k][range] = narrow(range, p[k], column)
    OBVIOUS
  <1>. HIDE DEF step
  <1>5. PICK f \in [0..n -> Ranges] :
          f[0] = Whole /\ \A k \in 1..n : f[k] = step[k][f[k - 1]]
    BY <1>1, <1>2, <1>3, Recursion
  <1>6. Folds(f)
    <2>1. \A k \in 0..n : f[k] = IF k = 0 THEN Whole ELSE narrow(f[k - 1], p[k], column)
      <3>1. SUFFICES ASSUME NEW k \in 1..n
                     PROVE  f[k] = narrow(f[k - 1], p[k], column)
        BY <1>1, <1>5
      <3>2. f[k - 1] \in Ranges
        BY <1>1
      <3>. QED BY <1>4, <1>5, <3>2
    <2>. QED BY <2>1
  <1>. DEFINE after == CHOOSE g : Folds(g)
  <1>7. Folds(after)
    <2>. HIDE DEF Folds
    <2>. QED BY <1>6
  <1>8. extract_range(p, column) = after[n]
    BY DEF extract_range, n
  <1>. HIDE DEF after
  <1>9. /\ after[0] = Whole
        /\ \A k \in 1..n : after[k] = narrow(after[k - 1], p[k], column)
    BY <1>1, <1>7
  <1>10. \A k \in 0..n : after[k] \in Ranges
    <2>. DEFINE typed == {k \in 0..n : after[k] \in Ranges}
    <2>1. 0 \in typed
      BY <1>1, <1>2, <1>9
    <2>2. ASSUME NEW k \in typed, k < n
          PROVE  k + 1 \in typed
      <3>1. k + 1 \in 1..n /\ (k + 1) - 1 = k /\ after[k] \in Ranges
        BY <1>1, <2>2
      <3>2. after[k + 1] = narrow(after[k], p[k + 1], column)
        BY <1>9, <3>1
      <3>3. after[k + 1] \in Ranges
        BY <1>1, <3>1, <3>2, NarrowSound
      <3>. QED BY <3>1, <3>3
    <2>3. typed \in SUBSET Nat
      BY <1>1
    <2>. HIDE DEF typed
    <2>4. 0..n \subseteq typed
      BY <1>1, <2>1, <2>2, <2>3, InductionUpTo
    <2>. QED BY <2>4 DEF typed
  <1>11. after \in [0..n -> Ranges]
    BY <1>7, <1>10
  <1>. QED BY <1>8, <1>9, <1>11 DEF n

\* The range a conjunction confines a column to admits the key of every row
\* that satisfies it, and a row without a key satisfies only a conjunction that
\* does not confine the column: extract_range.
LEMMA RangeSound ==
  ASSUME NEW p \in Predicates, NEW column \in Column,
         NEW row \in [Column -> Number \cup {NULL}], Satisfies(row, p)
  PROVE  IF row[column] = NULL THEN extract_range(p, column) = Whole
         ELSE Admits(extract_range(p, column), row[column])
  <1>. DEFINE n == Len(p)
              key == row[column]
              Good(range) == IF key = NULL THEN range = Whole ELSE Admits(range, key)
  <1>1. n \in Nat /\ DOMAIN p = 1..n /\ \A k \in 1..n : p[k] \in Conjuncts
    BY ConjunctionShape
  <1>2. \A k \in 1..n : p[k].column = column => Holds(p[k], key)
    BY <1>1 DEF Satisfies, Holds
  <1>3. key \in Number \cup {NULL}
    OBVIOUS
  <1>4. PICK after \in [0..n -> Ranges] :
          /\ after[0] = Whole
          /\ \A k \in 1..n : after[k] = narrow(after[k - 1], p[k], column)
          /\ extract_range(p, column) = after[n]
    BY RangeStepwise
  <1>. HIDE DEF n, key
  <1>. DEFINE good == {k \in 0..n : Good(after[k])}
  <1>5. 0 \in good
    BY <1>1, <1>4 DEF Whole, Unbounded, Admits
  <1>6. ASSUME NEW k \in good, k < n
        PROVE  k + 1 \in good
    <2>1. k + 1 \in 1..n /\ (k + 1) - 1 = k /\ k \in 0..n /\ k + 1 \in 0..n
      BY <1>1, <1>6
    <2>2. after[k + 1] = narrow(after[k], p[k + 1], column) /\ after[k] \in Ranges
      BY <1>4, <2>1
    <2>3. p[k + 1] \in Conjuncts /\ (p[k + 1].column = column => Holds(p[k + 1], key))
      BY <1>1, <1>2, <2>1
    <2>4. CASE key = NULL
      BY <1>6, <2>1, <2>2, <2>3, <2>4, NarrowSound
    <2>5. CASE key # NULL
      <3>1. key \in Number /\ Admits(after[k], key)
        BY <1>3, <1>6, <2>5
      <3>2. Admits(narrow(after[k], p[k + 1], column), key)
        BY <2>2, <2>3, <3>1, NarrowSound
      <3>. QED BY <2>1, <2>2, <2>5, <3>2
    <2>. QED BY <2>4, <2>5
  <1>7. 0..n \subseteq good
    <2>1. good \in SUBSET Nat
      BY <1>1
    <2>. HIDE DEF good
    <2>. QED BY <1>1, <1>5, <1>6, <2>1, InductionUpTo
  <1>8. Good(after[n])
    BY <1>1, <1>7
  <1>. QED BY <1>4, <1>8 DEF key

-----------------------------------------------------------------------------
(* The indexes of a table.                                                 *)

OneIndexPerColumn(built) ==
  \A i, j \in DOMAIN built : i # j => built[i].column # built[j].column

\* Without goes through the indexes once.
LEMMA WithoutStepwise ==
  ASSUME NEW built \in Seq(Index), NEW column
  PROVE  \E kept \in [0..Len(built) -> Seq(Index)] :
           /\ kept[0] = <<>>
           /\ \A k \in 1..Len(built) :
                kept[k] = IF built[k].column = column THEN kept[k - 1]
                          ELSE Append(kept[k - 1], built[k])
           /\ Without(built, column) = kept[Len(built)]
  <1>. DEFINE n == Len(built)
              lists == Seq(Index)
              none == <<>>
              step == [k \in 1..n |-> [left \in Seq(Index) |->
                         IF built[k].column = column THEN left ELSE Append(left, built[k])]]
              Filters(f) == f = [k \in 0..n |->
                                   IF k = 0 THEN none
                                   ELSE IF built[k].column = column THEN f[k - 1]
                                   ELSE Append(f[k - 1], built[k])]
  <1>1. n \in Nat /\ \A k \in 1..n : built[k] \in Index
    <2>. HIDE DEF Index
    <2>. QED OBVIOUS
  <1>2. none \in lists
    OBVIOUS
  <1>. HIDE DEF n
  <1>3. step \in Steps(n, lists)
    <2>1. \A k \in 1..n, left \in Seq(Index) : Append(left, built[k]) \in Seq(Index)
      BY <1>1, Appended
    <2>. QED BY <2>1 DEF Steps
  <1>4. \A k \in 1..n, left \in Seq(Index) :
          step[k][left] = IF built[k].column = column THEN left ELSE Append(left, built[k])
    OBVIOUS
  <1>. HIDE DEF step
  <1>5. PICK f \in [0..n -> lists] :
          f[0] = none /\ \A k \in 1..n : f[k] = step[k][f[k - 1]]
    <2>. HIDE DEF lists, none
    <2>. QED BY <1>1, <1>2, <1>3, Recursion
  <1>6. \A k \in 1..n : f[k] = IF built[k].column = column THEN f[k - 1]
                               ELSE Append(f[k - 1], built[k])
    <2>1. \A k \in 1..n : f[k - 1] \in Seq(Index)
      BY <1>1
    <2>. QED BY <1>4, <1>5, <2>1
  <1>7. Filters(f)
    <2>1. \A k \in 0..n : f[k] = IF k = 0 THEN none
                                 ELSE IF built[k].column = column THEN f[k - 1]
                                 ELSE Append(f[k - 1], built[k])
      <3>1. \A k \in 0..n : k = 0 \/ (k # 0 /\ k \in 1..n)
        BY <1>1
      <3>. HIDE DEF none
      <3>. QED BY <1>5, <1>6, <3>1
    <2>. QED BY <2>1
  <1>. DEFINE kept == CHOOSE g : Filters(g)
  <1>8. Filters(kept)
    <2>. HIDE DEF Filters
    <2>. QED BY <1>7
  <1>9. Without(built, column) = kept[n]
    BY DEF Without, n
  <1>. HIDE DEF kept
  <1>10. /\ kept[0] = none
         /\ \A k \in 1..n : kept[k] = IF built[k].column = column THEN kept[k - 1]
                                      ELSE Append(kept[k - 1], built[k])
    <2>1. 0 \in 0..n /\ \A k \in 1..n : k \in 0..n /\ k # 0
      BY <1>1
    <2>2. \A k \in 0..n : kept[k] = IF k = 0 THEN none
                                    ELSE IF built[k].column = column THEN kept[k - 1]
                                    ELSE Append(kept[k - 1], built[k])
      <3>. HIDE DEF none
      <3>. QED BY <1>8
    <2>. HIDE DEF none, Filters
    <2>. QED BY <2>1, <2>2
  <1>11. 0..n \subseteq {k \in Nat : kept[k] \in Seq(Index)}
    <2>. DEFINE typed == {k \in Nat : kept[k] \in Seq(Index)}
    <2>1. 0 \in typed
      BY <1>2, <1>10
    <2>2. ASSUME NEW k \in typed, k < n
          PROVE  k + 1 \in typed
      <3>1. k + 1 \in 1..n /\ (k + 1) - 1 = k /\ kept[k] \in Seq(Index)
        BY <1>1, <2>2
      <3>2. built[k + 1] \in Index
        BY <1>1, <3>1
      <3>3. Append(kept[k], built[k + 1]) \in Seq(Index)
        BY <3>1, <3>2, Appended
      <3>4. kept[k + 1] \in Seq(Index)
        BY <1>10, <3>1, <3>3
      <3>. QED BY <3>1, <3>4
    <2>3. typed \in SUBSET Nat
      OBVIOUS
    <2>. HIDE DEF typed
    <2>4. 0..n \subseteq typed
      BY <1>1, <2>1, <2>2, <2>3, InductionUpTo
    <2>. QED BY <2>4 DEF typed
  <1>12. kept \in [0..n -> Seq(Index)]
    BY <1>8, <1>11
  <1>. QED BY <1>9, <1>10, <1>12 DEF n

\* What retain leaves of the indexes of a table: those on other columns, and
\* no two on one column if there were none before.
LEMMA WithoutLeaves ==
  ASSUME NEW built \in Seq(Index), NEW column
  PROVE  /\ Without(built, column) \in Seq(Index)
         /\ \A i \in DOMAIN Without(built, column) :
              /\ Without(built, column)[i].column # column
              /\ \E j \in DOMAIN built : Without(built, column)[i] = built[j]
         /\ OneIndexPerColumn(built) => OneIndexPerColumn(Without(built, column))
  <1>. DEFINE n == Len(built)
              From(left, k) ==
                /\ left \in Seq(Index)
                /\ \A i \in DOMAIN left : /\ left[i].column # column
                                          /\ \E j \in 1..k : left[i] = built[j]
                /\ OneIndexPerColumn(built) => OneIndexPerColumn(left)
  <1>1. n \in Nat /\ DOMAIN built = 1..n /\ \A k \in 1..n : built[k] \in Index
    <2>. HIDE DEF Index
    <2>. QED OBVIOUS
  <1>2. PICK kept \in [0..Len(built) -> Seq(Index)] :
           /\ kept[0] = <<>>
           /\ \A k \in 1..Len(built) :
                kept[k] = IF built[k].column = column THEN kept[k - 1]
                          ELSE Append(kept[k - 1], built[k])
           /\ Without(built, column) = kept[Len(built)]
    BY WithoutStepwise
  <1>. HIDE DEF n
  <1>. DEFINE good == {k \in 0..n : From(kept[k], k)}
  <1>3. 0 \in good
    BY <1>1, <1>2 DEF OneIndexPerColumn
  <1>4. ASSUME NEW k \in good, k < n
        PROVE  k + 1 \in good
    <2>1. k + 1 \in 1..n /\ (k + 1) - 1 = k /\ k \in Nat /\ k + 1 \in 0..n
      BY <1>1, <1>4
    <2>2. From(kept[k], k)
      OBVIOUS
    <2>3. PICK left : left = kept[k]
      OBVIOUS
    <2>4. kept[k + 1] = IF built[k + 1].column = column THEN left ELSE Append(left, built[k + 1])
      BY <1>2, <2>1, <2>3 DEF n
    <2>5. /\ left \in Seq(Index)
          /\ \A i \in DOMAIN left : left[i].column # column /\ \E j \in 1..k : left[i] = built[j]
          /\ OneIndexPerColumn(built) => OneIndexPerColumn(left)
      BY <2>2, <2>3
    <2>6. CASE built[k + 1].column = column
      <3>1. \A j \in 1..k : j \in 1..k + 1
        BY <2>1
      <3>2. From(left, k + 1)
        BY <2>5, <3>1
      <3>3. kept[k + 1] = left
        BY <2>4, <2>6
      <3>. HIDE DEF From
      <3>. QED BY <2>1, <3>2, <3>3
    <2>7. CASE built[k + 1].column # column
      <3>1. PICK more : more = Append(left, built[k + 1])
        OBVIOUS
      <3>2. built[k + 1] \in Index
        BY <1>1, <2>1
      <3>3. /\ more \in Seq(Index)
            /\ DOMAIN more = 1..Len(left) + 1 /\ DOMAIN left = 1..Len(left) /\ Len(left) \in Nat
            /\ \A i \in DOMAIN left : more[i] = left[i]
            /\ more[Len(left) + 1] = built[k + 1]
        <4>. HIDE DEF Index
        <4>. QED BY <2>5, <3>1, <3>2, Appended
      <3>4. \A i \in DOMAIN more : i \in DOMAIN left \/ i = Len(left) + 1
        BY <3>3
      <3>5. \A i \in DOMAIN more : /\ more[i].column # column
                                   /\ \E j \in 1..k + 1 : more[i] = built[j]
        <4>1. \A j \in 1..k : j \in 1..k + 1
          BY <2>1
        <4>2. k + 1 \in 1..k + 1
          BY <2>1
        <4>3. SUFFICES ASSUME NEW i \in DOMAIN more
                       PROVE  more[i].column # column /\ \E j \in 1..k + 1 : more[i] = built[j]
          OBVIOUS
        <4>4. CASE i \in DOMAIN left
          BY <2>5, <3>3, <4>1, <4>4
        <4>5. CASE i = Len(left) + 1
          BY <2>7, <3>3, <4>2, <4>5
        <4>. QED BY <3>4, <4>4, <4>5
      <3>6. ASSUME OneIndexPerColumn(built)
            PROVE  OneIndexPerColumn(more)
        <4>1. \A i \in DOMAIN left : left[i].column # built[k + 1].column
          <5>1. \A j \in 1..k : j # k + 1 /\ j \in DOMAIN built /\ k + 1 \in DOMAIN built
            BY <1>1, <2>1
          <5>2. SUFFICES ASSUME NEW i \in DOMAIN left
                         PROVE  left[i].column # built[k + 1].column
            OBVIOUS
          <5>3. PICK j \in 1..k : left[i] = built[j]
            BY <2>5
          <5>. QED BY <3>6, <5>1, <5>3 DEF OneIndexPerColumn
        <4>2. \A i, j \in DOMAIN left : i # j => left[i].column # left[j].column
          BY <2>5, <3>6 DEF OneIndexPerColumn
        <4>3. PICK m : m = Len(left) + 1
          OBVIOUS
        <4>4. PICK index : index = built[k + 1]
          OBVIOUS
        <4>5. SUFFICES ASSUME NEW i \in DOMAIN more, NEW j \in DOMAIN more, i # j
                       PROVE  more[i].column # more[j].column
          BY DEF OneIndexPerColumn
        <4>6. /\ i \in DOMAIN left => more[i] = left[i]
              /\ j \in DOMAIN left => more[j] = left[j]
              /\ i \notin DOMAIN left => i = m /\ more[i] = index
              /\ j \notin DOMAIN left => j = m /\ more[j] = index
          BY <3>3, <3>4, <4>3, <4>4
        <4>7. CASE i \in DOMAIN left /\ j \in DOMAIN left
          BY <4>2, <4>5, <4>6, <4>7
        <4>8. CASE i \in DOMAIN left /\ j \notin DOMAIN left
          BY <4>1, <4>4, <4>6, <4>8
        <4>9. CASE i \notin DOMAIN left /\ j \in DOMAIN left
          BY <4>1, <4>4, <4>6, <4>9
        <4>. QED BY <4>5, <4>6, <4>7, <4>8, <4>9
      <3>7. From(more, k + 1)
        BY <3>3, <3>5, <3>6
      <3>8. kept[k + 1] = more
        BY <2>4, <2>7, <3>1
      <3>. HIDE DEF From
      <3>. QED BY <2>1, <3>7, <3>8
    <2>. QED BY <2>6, <2>7
  <1>5. 0..n \subseteq good
    <2>1. good \in SUBSET Nat
      BY <1>1
    <2>. HIDE DEF good
    <2>. QED BY <1>1, <1>3, <1>4, <2>1, InductionUpTo
  <1>6. From(kept[n], n)
    BY <1>1, <1>5
  <1>7. Without(built, column) = kept[n]
    BY <1>2 DEF n
  <1>. HIDE DEF good
  <1>. QED BY <1>1, <1>6, <1>7

\* The tables, their statistics and their indexes change together: what
\* register, remove, create_index and drop_index leave is consistent.
LEMMA CatalogNext ==
  ASSUME CatalogConsistent, Next
  PROVE  /\ tables' \in [Name -> Version \cup {None}] /\ statistics' = tables'
         /\ indexes' \in [Name -> Seq(Index)]
         /\ \A n \in Name : /\ tables'[n] = None => indexes'[n] = <<>>
                            /\ OneIndexPerColumn(indexes'[n])
  <1>. DEFINE Fits(built, v) ==
                /\ built \in Seq(Index)
                /\ v = None => built = <<>>
                /\ OneIndexPerColumn(built)
  <1>1. /\ tables \in [Name -> Version \cup {None}] /\ statistics = tables
        /\ indexes \in [Name -> Seq(Index)]
        /\ \A n \in Name : Fits(indexes[n], tables[n])
    BY DEF CatalogConsistent, TypeOK, OneIndexPerColumn
  <1>2. Fits(<<>>, None) /\ None \notin Version
    BY CatalogAssumption DEF OneIndexPerColumn, None
  <1>3. ASSUME NEW n \in Name, NEW v \in Version \cup {None}, NEW built, Fits(built, v),
               tables' = [tables EXCEPT ![n] = v], statistics' = [statistics EXCEPT ![n] = v],
               indexes' = [indexes EXCEPT ![n] = built]
        PROVE  /\ tables' \in [Name -> Version \cup {None}] /\ statistics' = tables'
               /\ indexes' \in [Name -> Seq(Index)]
               /\ \A m \in Name : Fits(indexes'[m], tables'[m])
    <2>1. built \in Seq(Index)
      BY <1>3
    <2>. HIDE DEF Fits
    <2>2. \A m \in Name : Fits(indexes'[m], tables'[m])
      BY <1>1, <1>3
    <2>. QED BY <1>1, <1>3, <2>1, <2>2
  <1>4. ASSUME NEW n \in Name, NEW v \in Version, register(n, v)
        PROVE  \A m \in Name : Fits(indexes'[m], tables'[m])
    <2>1. indexes' = [indexes EXCEPT ![n] = indexes[n]] /\ Fits(indexes[n], v)
      <3>1. indexes' = indexes /\ v # None
        BY <1>2, <1>4 DEF register
      <3>2. Fits(indexes[n], tables[n])
        BY <1>1
      <3>. QED BY <1>1, <3>1, <3>2
    <2>2. tables' = [tables EXCEPT ![n] = v] /\ statistics' = [statistics EXCEPT ![n] = v]
      BY <1>4 DEF register
    <2>. HIDE DEF Fits
    <2>. QED BY <1>3, <2>1, <2>2
  <1>5. ASSUME NEW n \in Name, NEW v \in Version, register(n, v)
        PROVE  /\ tables' \in [Name -> Version \cup {None}] /\ statistics' = tables'
               /\ indexes' \in [Name -> Seq(Index)]
    BY <1>1, <1>5 DEF register
  <1>6. ASSUME NEW n \in Name, remove(n)
        PROVE  /\ tables' \in [Name -> Version \cup {None}] /\ statistics' = tables'
               /\ indexes' \in [Name -> Seq(Index)]
               /\ \A m \in Name : Fits(indexes'[m], tables'[m])
    <2>1. /\ tables' = [tables EXCEPT ![n] = None] /\ statistics' = [statistics EXCEPT ![n] = None]
          /\ indexes' = [indexes EXCEPT ![n] = <<>>] /\ None \in Version \cup {None}
      BY <1>6 DEF remove
    <2>. HIDE DEF Fits
    <2>. QED BY <1>2, <1>3, <2>1
  <1>7. ASSUME NEW n \in Name, NEW built, Fits(built, tables[n]),
               indexes' = [indexes EXCEPT ![n] = built], UNCHANGED <<tables, statistics>>
        PROVE  /\ tables' \in [Name -> Version \cup {None}] /\ statistics' = tables'
               /\ indexes' \in [Name -> Seq(Index)]
               /\ \A m \in Name : Fits(indexes'[m], tables'[m])
    <2>1. built \in Seq(Index)
      BY <1>7
    <2>. HIDE DEF Fits
    <2>2. \A m \in Name : Fits(indexes'[m], tables'[m])
      BY <1>1, <1>7
    <2>. QED BY <1>1, <1>7, <2>1, <2>2
  <1>8. ASSUME NEW n \in Name, NEW column \in Column
        PROVE  /\ Without(indexes[n], column) \in Seq(Index)
               /\ OneIndexPerColumn(Without(indexes[n], column))
               /\ indexes[n] = <<>> => Without(indexes[n], column) = <<>>
               /\ \A i \in DOMAIN Without(indexes[n], column) :
                    Without(indexes[n], column)[i].column # column
    <2>1. Fits(indexes[n], tables[n])
      BY <1>1
    <2>2. indexes[n] \in Seq(Index)
      BY <2>1
    <2>3. indexes[n] = <<>> => Without(indexes[n], column) = <<>>
      <3>1. SUFFICES ASSUME indexes[n] = <<>>
                     PROVE  Without(indexes[n], column) = <<>>
        OBVIOUS
      <3>2. PICK left \in Seq(Index) : left = Without(indexes[n], column)
        BY <2>2, WithoutLeaves
      <3>3. \A i \in DOMAIN left : \E j \in DOMAIN indexes[n] : left[i] = indexes[n][j]
        BY <2>2, <3>2, WithoutLeaves
      <3>4. DOMAIN left = {}
        <4>1. \A j \in DOMAIN indexes[n] : FALSE
          BY <3>1
        <4>. QED BY ONLY <3>3, <4>1
      <3>5. Len(left) \in Nat /\ DOMAIN left = 1..Len(left)
        BY <3>2, LenProperties
      <3>6. Len(left) = 0
        BY <3>4, <3>5
      <3>. QED BY <3>2, <3>6, EmptySeq
    <2>. QED BY <2>1, <2>2, <2>3, WithoutLeaves
  <1>9. ASSUME NEW n \in Name, NEW column \in Column, drop_index(n, column)
        PROVE  /\ tables' \in [Name -> Version \cup {None}] /\ statistics' = tables'
               /\ indexes' \in [Name -> Seq(Index)]
               /\ \A m \in Name : Fits(indexes'[m], tables'[m])
    <2>1. /\ indexes' = [indexes EXCEPT ![n] = Without(indexes[n], column)]
          /\ UNCHANGED <<tables, statistics>>
      BY <1>9 DEF drop_index
    <2>2. Fits(Without(indexes[n], column), tables[n])
      <3>1. Fits(indexes[n], tables[n])
        BY <1>1
      <3>. QED BY <1>8, <3>1
    <2>. HIDE DEF Fits
    <2>. QED BY <1>7, <2>1, <2>2
  <1>10. ASSUME NEW n \in Name, NEW column \in Column, create_index(n, column)
         PROVE  /\ tables' \in [Name -> Version \cup {None}] /\ statistics' = tables'
                /\ indexes' \in [Name -> Seq(Index)]
                /\ \A m \in Name : Fits(indexes'[m], tables'[m])
    <2>1. PICK left : left = Without(indexes[n], column)
      OBVIOUS
    <2>2. PICK index : index = [column |-> column, version |-> tables[n]]
      OBVIOUS
    <2>3. PICK more : more = Append(left, index)
      OBVIOUS
    <2>4. /\ indexes' = [indexes EXCEPT ![n] = more]
          /\ tables[n] # None /\ UNCHANGED <<tables, statistics>>
      BY <1>10, <2>1, <2>2, <2>3 DEF create_index
    <2>5. /\ left \in Seq(Index) /\ OneIndexPerColumn(left)
          /\ \A i \in DOMAIN left : left[i].column # column
      BY <1>8, <2>1
    <2>6. index \in Index /\ index.column = column
      BY <1>1, <2>2, <2>4 DEF Index
    <2>7. /\ more \in Seq(Index)
          /\ DOMAIN more = 1..Len(left) + 1 /\ DOMAIN left = 1..Len(left) /\ Len(left) \in Nat
          /\ \A i \in DOMAIN left : more[i] = left[i]
          /\ more[Len(left) + 1] = index
      <3>1. left \in Seq(Index)
        BY <2>5
      <3>. QED BY <2>3, <2>6, <3>1, Appended
    <2>8. \A i \in DOMAIN more : i \in DOMAIN left \/ i = Len(left) + 1
      BY <2>7
    <2>9. Fits(more, tables[n])
      <3>1. OneIndexPerColumn(more)
        BY <2>5, <2>6, <2>7, <2>8 DEF OneIndexPerColumn
      <3>. QED BY <2>4, <2>7, <3>1
    <2>. HIDE DEF Fits
    <2>. QED BY <1>7, <2>4, <2>9
  <1>11. ASSUME UNCHANGED catalog
         PROVE  /\ tables' \in [Name -> Version \cup {None}] /\ statistics' = tables'
                /\ indexes' \in [Name -> Seq(Index)]
                /\ \A m \in Name : Fits(indexes'[m], tables'[m])
    <2>1. tables' = tables /\ statistics' = statistics /\ indexes' = indexes
      BY <1>11 DEF catalog
    <2>. HIDE DEF Fits
    <2>. QED BY <1>1, <2>1
  <1>12. ASSUME NEW s \in Stream, next_batch(s) \/ drop(s)
         PROVE  UNCHANGED catalog
    BY <1>12 DEF next_batch, drop
  <1>13. ASSUME NEW s \in Stream, NEW n \in Name, NEW p \in Predicates, execute_streaming(s, n, p)
         PROVE  UNCHANGED catalog
    BY <1>13 DEF execute_streaming
  <1>14. /\ tables' \in [Name -> Version \cup {None}] /\ statistics' = tables'
         /\ indexes' \in [Name -> Seq(Index)]
         /\ \A m \in Name : Fits(indexes'[m], tables'[m])
    <2>. HIDE DEF Fits
    <2>. QED BY <1>4, <1>5, <1>6, <1>9, <1>10, <1>11, <1>12, <1>13 DEF Next
  <1>. QED BY <1>14

-----------------------------------------------------------------------------
(* The rows an index scan reads.                                           *)

\* The rows of a table are numbered from 0.
LEMMA RowsOfTable ==
  ASSUME NEW v \in Version
  PROVE  /\ RowIds(v) \in SUBSET Nat /\ IsFiniteSet(RowIds(v))
         /\ \A S \in SUBSET RowIds(v) : S \in SUBSET Nat /\ IsFiniteSet(S)
         /\ \A r \in RowIds(v) : Row(v, r) \in [Column -> Number \cup {NULL}]
  <1>. DEFINE n == Len(Content[v])
              rows == [Column -> Number \cup {NULL}]
  <1>1. Content[v] \in Seq(rows)
    BY CatalogAssumption
  <1>. HIDE DEF rows
  <1>2. n \in Nat /\ \A k \in 1..n : Content[v][k] \in rows
    BY <1>1
  <1>. HIDE DEF n
  <1>3. RowIds(v) = 0..n - 1
    BY DEF RowIds, n
  <1>4. RowIds(v) \in SUBSET Nat
    BY <1>2, <1>3
  <1>5. IsFiniteSet(0..n - 1)
    BY <1>2, FS_Interval
  <1>6. \A S \in SUBSET RowIds(v) : S \in SUBSET Nat /\ IsFiniteSet(S)
    BY <1>3, <1>4, <1>5, FS_Subset
  <1>7. ASSUME NEW r \in RowIds(v)
        PROVE  Row(v, r) \in rows
    <2>1. r + 1 \in 1..n
      BY <1>2, <1>3
    <2>. QED BY <1>2, <2>1 DEF Row
  <1>. QED BY <1>3, <1>4, <1>5, <1>6, <1>7 DEF rows

\* An index that serves a predicate names every row that satisfies it.
LEMMA NamesEveryMatch ==
  ASSUME NEW index \in Index, NEW p \in Predicates, Serves(index, p),
         NEW r \in RowIds(index.version), Satisfies(Row(index.version, r), p)
  PROVE  r \in NamedBy(index, p)
  <1>1. PICK v \in Version, column \in Column : v = index.version /\ column = index.column
    BY DEF Index
  <1>2. PICK row \in [Column -> Number \cup {NULL}] : row = Row(v, r)
    BY <1>1, RowsOfTable
  <1>3. PICK range : range = extract_range(p, column)
    OBVIOUS
  <1>4. range # Whole
    BY <1>1, <1>3 DEF Serves
  <1>5. row[column] # NULL /\ Admits(range, row[column])
    <2>1. Satisfies(row, p)
      BY <1>1, <1>2
    <2>2. IF row[column] = NULL THEN extract_range(p, column) = Whole
          ELSE Admits(extract_range(p, column), row[column])
      BY <1>1, <1>2, <2>1, RangeSound
    <2>. QED BY <1>3, <1>4, <2>2
  <1>. QED BY <1>1, <1>2, <1>3, <1>5 DEF NamedBy, Names

\* What an index scan reads are rows of the table its index was built from, and
\* all those that satisfy the predicate: index_scan.
LEMMA IndexScanSound ==
  ASSUME CatalogConsistent, NEW n \in Name, NEW p \in Predicates, index_scan(n, p).found
  PROVE  \E v \in Version :
           /\ index_scan(n, p).source = v
           /\ index_scan(n, p).rows \in SUBSET RowIds(v)
           /\ \A r \in RowIds(v) : Satisfies(Row(v, r), p) => r \in index_scan(n, p).rows
  <1>. DEFINE serving == {i \in DOMAIN indexes[n] : Serves(indexes[n][i], p)}
              count(i) == Cardinality(NamedBy(indexes[n][i], p))
              Best(i) == \A j \in serving : count(i) < count(j) \/ (count(i) = count(j) /\ i <= j)
              best == CHOOSE i \in serving : Best(i)
  <1>1. serving # {}
    BY DEF index_scan
  <1>2. /\ index_scan(n, p).rows = NamedBy(indexes[n][best], p)
        /\ index_scan(n, p).source = indexes[n][best].version
    BY <1>1 DEF index_scan
  <1>3. \A i \in serving :
          /\ i \in Nat /\ indexes[n][i] \in Index /\ indexes[n][i].version \in Version
          /\ Serves(indexes[n][i], p)
    <2>1. indexes[n] \in Seq(Index) /\ \A index \in Index : index.version \in Version
      BY DEF CatalogConsistent, TypeOK, Index
    <2>2. \A i \in DOMAIN indexes[n] : i \in Nat /\ indexes[n][i] \in Index
      <3>. HIDE DEF Index
      <3>. QED BY <2>1
    <2>. QED BY <2>1, <2>2
  <1>4. \A i \in serving : NamedBy(indexes[n][i], p) \in SUBSET RowIds(indexes[n][i].version)
    BY <1>3 DEF NamedBy, Names
  <1>5. \A i \in serving : count(i) \in Nat
    <2>1. \A i \in serving : IsFiniteSet(NamedBy(indexes[n][i], p))
      BY <1>3, <1>4, RowsOfTable
    <2>. QED BY <2>1, FS_CardinalityType
  <1>. HIDE DEF serving, count
  <1>6. \E i \in serving : Best(i)
    <2>. DEFINE counts == {count(i) : i \in serving}
    <2>1. counts \in SUBSET Nat /\ counts # {}
      BY <1>1, <1>5
    <2>2. PICK least \in counts : \A other \in counts : least <= other
      <3>. HIDE DEF counts
      <3>. QED BY <2>1, Least
    <2>. DEFINE candidates == {i \in serving : count(i) = least}
    <2>3. candidates \in SUBSET Nat /\ candidates # {}
      BY <1>3, <2>2
    <2>4. PICK first \in candidates : \A other \in candidates : first <= other
      <3>. HIDE DEF candidates
      <3>. QED BY <2>3, Least
    <2>5. ASSUME NEW j \in serving
          PROVE  count(first) < count(j) \/ (count(first) = count(j) /\ first <= j)
      <3>1. count(first) = least /\ least <= count(j) /\ least \in Nat /\ count(j) \in Nat
        BY <1>5, <2>1, <2>2
      <3>2. CASE count(j) = least
        BY <2>4, <3>1, <3>2
      <3>. QED BY <3>1, <3>2
    <2>. QED BY <2>5
  <1>7. best \in serving
    <2>. HIDE DEF Best
    <2>. QED BY <1>6
  <1>8. PICK index \in Index : index = indexes[n][best] /\ Serves(index, p)
    BY <1>3, <1>7
  <1>9. PICK v \in Version : v = index.version
    BY <1>3, <1>7, <1>8
  <1>10. index_scan(n, p).rows = NamedBy(index, p) /\ index_scan(n, p).source = v
    BY <1>2, <1>8, <1>9
  <1>11. NamedBy(index, p) \in SUBSET RowIds(v)
    BY <1>4, <1>7, <1>8, <1>9
  <1>12. \A r \in RowIds(v) : Satisfies(Row(v, r), p) => r \in NamedBy(index, p)
    BY <1>8, <1>9, NamesEveryMatch
  <1>. QED BY <1>10, <1>11, <1>12

-----------------------------------------------------------------------------
(* Open streams.                                                           *)

\* What a stream that is not closed consists of.
LEMMA StreamShape ==
  ASSUME NEW stream \in StreamState, stream.status # "closed"
  PROVE  /\ stream = [status |-> stream.status, table |-> stream.table,
                      predicate |-> stream.predicate, source |-> stream.source,
                      named |-> stream.named, rows |-> stream.rows,
                      returned |-> stream.returned]
         /\ stream.status \in {"open", "done", "panicked"}
         /\ stream.table \in Version /\ stream.predicate \in Predicates
         /\ stream.source \in Version /\ stream.named \in SUBSET Nat
         /\ stream.rows \in SUBSET Nat /\ stream.returned \in Seq(Nat)
         /\ Matches(stream) \in SUBSET RowIds(stream.table)
  BY DEF StreamState, Matches

\* A stream starts with the rows that hold every match of some table: those an
\* index of that table names, or all of its own (execute_streaming).
LEMMA StreamOpens ==
  ASSUME CatalogConsistent, NEW s \in Stream, NEW n \in Name, NEW p \in Predicates,
         execute_streaming(s, n, p)
  PROVE  \E stream \in StreamState : /\ streams' = [streams EXCEPT ![s] = stream]
                                     /\ Proceeds(stream)
  <1>1. PICK v : v = tables[n]
    OBVIOUS
  <1>2. v \in Version
    BY <1>1 DEF execute_streaming, CatalogConsistent, TypeOK
  <1>3. PICK rows, w : /\ rows = IF index_scan(n, p).found THEN index_scan(n, p).rows ELSE RowIds(v)
                       /\ w = IF index_scan(n, p).found THEN index_scan(n, p).source ELSE v
    OBVIOUS
  <1>4. PICK stream : stream = [status |-> "open", table |-> v, predicate |-> p, source |-> w,
                                named |-> rows, rows |-> rows, returned |-> <<>>]
    OBVIOUS
  <1>5. streams' = [streams EXCEPT ![s] = stream]
    BY <1>1, <1>3, <1>4 DEF execute_streaming
  <1>6. /\ w \in Version /\ rows \in SUBSET RowIds(w)
        /\ \A r \in RowIds(w) : Satisfies(Row(w, r), p) => r \in rows
    BY <1>2, <1>3, IndexScanSound
  <1>7. rows \in SUBSET Nat
    BY <1>6, RowsOfTable
  <1>8. stream \in StreamState
    BY <1>2, <1>4, <1>6, <1>7 DEF StreamState
  <1>9. Wanted(stream) \ rows = {} /\ (w = v => Matches(stream) \subseteq rows)
    BY <1>4, <1>6 DEF Matches, Wanted
  <1>10. InOrder({}) = <<>>
    <2>1. Cardinality({}) = 0
      BY FS_EmptySet
    <2>. QED BY <2>1 DEF InOrder
  <1>11. Proceeds(stream)
    BY <1>4, <1>6, <1>9, <1>10 DEF Proceeds, Reads, MissesNothing
  <1>. QED BY <1>5, <1>8, <1>11

\* A batch takes the first of the rows left, and what it returns of them comes
\* after all that was returned (next_batch).
LEMMA StreamAdvances ==
  ASSUME NEW stream \in StreamState, stream.status = "open", Proceeds(stream),
         NEW read,
         read = {r \in stream.rows \cap RowIds(stream.table) : Rank(stream.rows, r) <= BatchSize},
         NEW kept, kept = {r \in read : Satisfies(Row(stream.table, r), stream.predicate)}
  PROVE  LET next == [stream EXCEPT !.rows = @ \ read, !.returned = @ \o InOrder(kept)]
         IN  next \in StreamState /\ Proceeds(next)
  <1>. DEFINE next == [stream EXCEPT !.rows = @ \ read, !.returned = @ \o InOrder(kept)]
  <1>1. PICK v \in Version, p \in Predicates, w \in Version, named \in SUBSET Nat,
             rows \in SUBSET Nat, returned \in Seq(Nat) :
          /\ v = stream.table /\ p = stream.predicate /\ rows = stream.rows
          /\ w = stream.source /\ named = stream.named /\ returned = stream.returned
          /\ stream = [status |-> "open", table |-> v, predicate |-> p, source |-> w,
                       named |-> named, rows |-> rows, returned |-> returned]
    BY StreamShape
  <1>2. PICK matches : matches = Wanted(stream)
    OBVIOUS
  <1>3. matches = {r \in RowIds(v) : Satisfies(Row(v, r), p)} \cap named
    BY <1>1, <1>2 DEF Matches, Wanted
  <1>4. /\ rows \in SUBSET named /\ named \in SUBSET RowIds(w)
        /\ \A gone \in matches \ rows : \A r \in rows : gone < r
        /\ returned = InOrder(matches \ rows)
    BY <1>1, <1>2 DEF Proceeds, Reads
  <1>5. /\ read \in SUBSET (rows \cap RowIds(v)) /\ kept = read \cap matches
        /\ rows \in SUBSET Nat /\ IsFiniteSet(rows)
        /\ kept \in SUBSET Nat /\ IsFiniteSet(kept)
        /\ matches \ rows \in SUBSET Nat /\ IsFiniteSet(matches \ rows)
    <2>1. read \in SUBSET (rows \cap RowIds(v)) /\ kept = read \cap matches
      BY <1>1, <1>3, <1>4
    <2>2. kept \in SUBSET RowIds(v) /\ matches \ rows \in SUBSET RowIds(v)
      BY <1>3, <2>1
    <2>3. rows \in SUBSET RowIds(w)
      BY <1>4
    <2>. QED BY <2>1, <2>2, <2>3, RowsOfTable
  <1>6. ASSUME NEW a \in read, NEW r \in rows \ read
        PROVE  a < r
    <2>1. a \in rows /\ r \in rows /\ a \in Nat /\ r \in Nat
      BY <1>5
    <2>2. CASE r \notin RowIds(v)
      <3>1. a \in RowIds(v)
        BY <1>5
      <3>2. Len(Content[v]) \in Nat
        <4>1. Content[v] \in Seq([Column -> Number \cup {NULL}])
          BY CatalogAssumption
        <4>. QED BY <4>1, LenProperties
      <3>. QED BY <2>1, <2>2, <3>1, <3>2 DEF RowIds
    <2>6. SUFFICES ASSUME r \in RowIds(v)
                   PROVE  a < r
      BY <2>2
    <2>7. Rank(rows, a) <= BatchSize /\ ~ (Rank(rows, r) <= BatchSize)
      BY <1>1, <1>6, <2>6
    <2>3. Rank(rows, a) \in Int /\ Rank(rows, r) \in Int /\ BatchSize \in Int
      <3>1. Cardinality(rows) \in Nat
        BY <1>5, FS_CardinalityType
      <3>2. Rank(rows, a) \in 1..Cardinality(rows) /\ Rank(rows, r) \in 1..Cardinality(rows)
        BY <1>5, <2>1, RankRange
      <3>3. BatchSize \in Int
        BY CatalogAssumption
      <3>. QED BY <3>1, <3>2, <3>3
    <2>4. a # r
      BY <1>6
    <2>5. ~ (r < a)
      <3>1. SUFFICES ASSUME r < a PROVE FALSE
        OBVIOUS
      <3>2. Rank(rows, r) < Rank(rows, a)
        BY <1>5, <2>1, <3>1, RankGrows
      <3>. QED BY <2>3, <2>7, <3>2
    <2>. QED BY <2>1, <2>4, <2>5
  <1>7. InOrder((matches \ rows) \cup kept) = returned \o InOrder(kept)
    <2>1. \A a \in matches \ rows : \A b \in kept : a < b
      BY <1>4, <1>5
    <2>. QED BY <1>4, <1>5, <2>1, InOrderContinues
  <1>8. matches \ (rows \ read) = (matches \ rows) \cup kept
    BY <1>5
  <1>9. \A gone \in matches \ (rows \ read) : \A r \in rows \ read : gone < r
    BY <1>4, <1>5, <1>6, <1>8
  <1>10. PICK after : after = returned \o InOrder(kept)
    OBVIOUS
  <1>11. next = [status |-> "open", table |-> v, predicate |-> p, source |-> w,
                 named |-> named, rows |-> rows \ read, returned |-> after]
    <2>1. stream = [status |-> "open", table |-> v, predicate |-> p, source |-> w,
                    named |-> named, rows |-> rows, returned |-> returned]
      BY <1>1
    <2>2. PICK left : left = rows \ read
      OBVIOUS
    <2>3. next = [stream EXCEPT !.rows = left, !.returned = after]
      BY <1>1, <1>10, <2>2
    <2>. HIDE DEF next
    <2>. QED BY <2>1, <2>2, <2>3
  <1>12. after \in Seq(Nat)
    <2>1. InOrder(kept) \in Seq(kept)
      BY <1>5, Listed
    <2>2. InOrder(kept) \in Seq(Nat)
      BY <1>5, <2>1, SeqMonotonic
    <2>. QED BY <1>10, <2>2, ConcatProperties
  <1>13. rows \ read \in SUBSET Nat
    BY <1>5
  <1>. HIDE DEF next
  <1>14. next \in StreamState
    BY <1>11, <1>12, <1>13 DEF StreamState
  <1>15. /\ next.status = "open" /\ next.table = v /\ next.predicate = p
         /\ next.source = w /\ next.named = named
         /\ next.rows = rows \ read /\ next.returned = after
    BY <1>11
  <1>16. Wanted(next) = matches /\ Matches(next) = Matches(stream)
    BY <1>1, <1>3, <1>15 DEF Matches, Wanted
  <1>17. Proceeds(next)
    <2>1. Reads(next)
      <3>1. rows \ read \subseteq named
        BY <1>4
      <3>. QED BY <1>4, <1>7, <1>8, <1>9, <1>10, <1>15, <1>16, <3>1 DEF Reads
    <2>2. MissesNothing(next)
      BY <1>1, <1>15, <1>16 DEF Proceeds, MissesNothing
    <2>. QED BY <2>1, <2>2 DEF Proceeds
  <1>. QED BY <1>14, <1>17 DEF next

\* A batch of a table's own rows starts with one of them.
LEMMA SomeRead ==
  ASSUME NEW v \in Version, NEW rows \in SUBSET RowIds(v), rows # {}
  PROVE  {r \in rows \cap RowIds(v) : Rank(rows, r) <= BatchSize} # {}
  <1>1. rows \in SUBSET Nat /\ IsFiniteSet(rows)
    BY RowsOfTable
  <1>2. Cardinality(rows) \in Nat /\ Cardinality(rows) # 0
    BY <1>1, FS_CardinalityType, FS_EmptySet
  <1>3. 1 \in 1..Cardinality(rows)
    BY <1>2
  <1>4. PICK r \in rows : Rank(rows, r) = 1
    BY <1>1, <1>3, RankAttained
  <1>5. 1 <= BatchSize
    BY CatalogAssumption
  <1>. QED BY <1>4, <1>5

\* Nothing that happens to the catalog or to another stream disturbs a stream.
LEMMA StreamsNext ==
  ASSUME IInv, Next
  PROVE  streams' \in [Stream -> StreamState] /\ Proceed'
  <1>1. streams \in [Stream -> StreamState] /\ Proceed /\ CatalogConsistent
    BY DEF IInv, CatalogConsistent, TypeOK
  <1>2. ASSUME NEW s \in Stream, NEW stream \in StreamState,
               streams' = [streams EXCEPT ![s] = stream],
               stream.status # "closed" => Proceeds(stream)
        PROVE  streams' \in [Stream -> StreamState] /\ Proceed'
    <2>1. streams' \in [Stream -> StreamState]
      BY <1>1, <1>2
    <2>2. \A t \in Stream : streams'[t] = IF t = s THEN stream ELSE streams[t]
      BY <1>1, <1>2
    <2>. QED BY <1>1, <1>2, <2>1, <2>2 DEF Proceed
  <1>3. ASSUME NEW s \in Stream, NEW n \in Name, NEW p \in Predicates, execute_streaming(s, n, p)
        PROVE  streams' \in [Stream -> StreamState] /\ Proceed'
    <2>1. PICK stream \in StreamState : streams' = [streams EXCEPT ![s] = stream] /\ Proceeds(stream)
      BY <1>1, <1>3, StreamOpens
    <2>. QED BY <1>2, <2>1
  <1>4. ASSUME NEW s \in Stream, next_batch(s)
        PROVE  streams' \in [Stream -> StreamState] /\ Proceed'
    <2>1. PICK stream \in StreamState : stream = streams[s]
      BY <1>1
    <2>2. PICK read :
            read = {r \in stream.rows \cap RowIds(stream.table) : Rank(stream.rows, r) <= BatchSize}
      OBVIOUS
    <2>3. PICK kept : kept = {r \in read : Satisfies(Row(stream.table, r), stream.predicate)}
      OBVIOUS
    <2>4. /\ stream.status = "open"
          /\ streams' = [streams EXCEPT ![s] =
               IF stream.rows = {} THEN [stream EXCEPT !.status = "done"]
               ELSE IF read = {} THEN [stream EXCEPT !.status = "panicked"]
               ELSE [stream EXCEPT !.rows = @ \ read, !.returned = @ \o InOrder(kept)]]
      BY <1>4, <2>1, <2>2, <2>3 DEF next_batch
    <2>5. Proceeds(stream)
      BY <1>1, <2>1, <2>4 DEF Proceed
    <2>6. stream.source = stream.table /\ stream.rows # {} => read # {}
      <3>1. SUFFICES ASSUME stream.source = stream.table, stream.rows # {}
                     PROVE  read # {}
        OBVIOUS
      <3>2. stream.rows \in SUBSET RowIds(stream.table) /\ stream.table \in Version
        BY <2>4, <2>5, <3>1, StreamShape DEF Proceeds, Reads
      <3>. QED BY <2>2, <3>1, <3>2, SomeRead
    <2>7. CASE stream.rows = {}
      <3>1. PICK done : done = [stream EXCEPT !.status = "done"]
        OBVIOUS
      <3>2. done = [status |-> "done", table |-> stream.table, predicate |-> stream.predicate,
                    source |-> stream.source, named |-> stream.named, rows |-> stream.rows, returned |-> stream.returned]
        BY <2>4, <3>1, StreamShape
      <3>3. done \in StreamState
        BY <2>4, <3>2, StreamShape DEF StreamState
      <3>4. /\ done.status = "done" /\ done.table = stream.table
            /\ done.predicate = stream.predicate /\ done.rows = {} /\ stream.rows = {}
            /\ done.source = stream.source /\ done.named = stream.named
            /\ done.returned = stream.returned /\ stream.status # "panicked"
        BY <2>4, <2>7, <3>2
      <3>5. Matches(done) = Matches(stream) /\ Wanted(done) = Wanted(stream)
        BY <3>4 DEF Matches, Wanted
      <3>6. Proceeds(done)
        BY <2>5, <3>4, <3>5 DEF Proceeds, Reads, MissesNothing
      <3>7. streams' = [streams EXCEPT ![s] = done]
        BY <2>4, <2>7, <3>1
      <3>. QED BY <1>2, <3>3, <3>6, <3>7
    <2>9. CASE stream.rows # {} /\ read = {}
      <3>1. PICK lost : lost = [stream EXCEPT !.status = "panicked"]
        OBVIOUS
      <3>2. lost = [status |-> "panicked", table |-> stream.table, predicate |-> stream.predicate,
                    source |-> stream.source, named |-> stream.named, rows |-> stream.rows,
                    returned |-> stream.returned]
        BY <2>4, <3>1, StreamShape
      <3>3. lost \in StreamState
        BY <2>4, <3>2, StreamShape DEF StreamState
      <3>4. /\ lost.status = "panicked" /\ lost.table = stream.table
            /\ lost.predicate = stream.predicate /\ lost.rows = stream.rows
            /\ lost.source = stream.source /\ lost.named = stream.named
            /\ lost.returned = stream.returned /\ stream.source # stream.table
        BY <2>6, <2>9, <3>2
      <3>5. Matches(lost) = Matches(stream) /\ Wanted(lost) = Wanted(stream)
        BY <3>4 DEF Matches, Wanted
      <3>6. Proceeds(lost)
        BY <2>5, <3>4, <3>5 DEF Proceeds, Reads, MissesNothing
      <3>7. streams' = [streams EXCEPT ![s] = lost]
        BY <2>4, <2>9, <3>1
      <3>. QED BY <1>2, <3>3, <3>6, <3>7
    <2>8. CASE stream.rows # {} /\ read # {}
      <3>1. PICK next : next = [stream EXCEPT !.rows = @ \ read, !.returned = @ \o InOrder(kept)]
        OBVIOUS
      <3>2. next \in StreamState /\ Proceeds(next)
        BY <2>2, <2>3, <2>4, <2>5, <3>1, StreamAdvances
      <3>3. streams' = [streams EXCEPT ![s] = next]
        BY <2>4, <2>8, <3>1
      <3>. QED BY <1>2, <3>2, <3>3
    <2>. QED BY <2>7, <2>8, <2>9
  <1>5. ASSUME NEW s \in Stream, drop(s)
        PROVE  streams' \in [Stream -> StreamState] /\ Proceed'
    <2>1. Closed \in StreamState /\ Closed.status = "closed"
      BY DEF Closed, StreamState
    <2>2. streams' = [streams EXCEPT ![s] = Closed]
      BY <1>5 DEF drop
    <2>. QED BY <1>2, <2>1, <2>2
  <1>6. CASE UNCHANGED streams
    BY <1>1, <1>6 DEF Proceed
  <1>7. ASSUME NEW n \in Name, \/ \E v \in Version : register(n, v)
                               \/ remove(n)
                               \/ \E c \in Column : create_index(n, c) \/ drop_index(n, c)
        PROVE  UNCHANGED streams
    BY <1>7 DEF register, remove, create_index, drop_index
  <1>. QED BY <1>3, <1>4, <1>5, <1>6, <1>7 DEF Next

-----------------------------------------------------------------------------
(* The theorems.                                                           *)

LEMMA InitInv == Init => IInv
  <1>1. SUFFICES ASSUME Init PROVE IInv
    OBVIOUS
  <1>2. TypeOK
    BY <1>1 DEF Init, TypeOK, StreamState, Closed
  <1>3. CatalogConsistent
    BY <1>1, <1>2 DEF Init, CatalogConsistent
  <1>4. Proceed
    BY <1>1 DEF Init, Proceed, Closed
  <1>. QED BY <1>3, <1>4 DEF IInv

LEMMA InvNext == ASSUME IInv, [Next]_vars PROVE IInv'
  <1>1. CASE Next
    <2>1. TypeOK' /\ CatalogConsistent'
      BY <1>1, CatalogNext, StreamsNext DEF IInv, TypeOK, CatalogConsistent, OneIndexPerColumn
    <2>. QED BY <1>1, <2>1, StreamsNext DEF IInv
  <1>2. CASE UNCHANGED vars
    <2>1. tables' = tables /\ statistics' = statistics /\ indexes' = indexes /\ streams' = streams
      BY <1>2 DEF vars
    <2>2. CatalogConsistent'
      BY <2>1 DEF IInv, CatalogConsistent, TypeOK
    <2>3. Proceed'
      BY <2>1 DEF IInv, Proceed
    <2>. QED BY <2>2, <2>3 DEF IInv
  <1>. QED BY <1>1, <1>2

\* The invariant holds at every step.
LEMMA Invariance == Spec => []IInv
  BY InitInv, InvNext, PTL DEF Spec

\* However the catalog is changed (register, over a name in use or not, remove,
\* create_index, drop_index), tables come and go with their statistics and their
\* indexes, and a column has one index at most.
THEOREM StaysConsistent == Spec => []CatalogConsistent
  <1>1. IInv => CatalogConsistent
    BY DEF IInv
  <1>. QED BY <1>1, Invariance, PTL

\* What a stream has returned is the beginning of the matches named to it, and
\* all of them once the stream is done.
LEMMA ProceedsTowardsAnswer ==
  ASSUME NEW stream \in StreamState, stream.status # "closed", Proceeds(stream)
  PROVE  LET wanted == InOrder(Matches(stream) \cap stream.named)
         IN  /\ Begins(stream.returned, wanted)
             /\ stream.status = "done" => stream.returned = wanted
             /\ stream.source = stream.table =>
                  stream.status # "panicked" /\ wanted = Answer(stream)
  <1>1. PICK matches, rows : matches = Wanted(stream) /\ rows = stream.rows
    OBVIOUS
  <1>2. /\ matches \ rows \in SUBSET Nat /\ IsFiniteSet(matches \ rows)
        /\ matches \cap rows \in SUBSET Nat /\ IsFiniteSet(matches \cap rows)
    <2>1. matches \in SUBSET RowIds(stream.table) /\ stream.table \in Version
      BY <1>1, StreamShape DEF Wanted
    <2>2. matches \ rows \in SUBSET RowIds(stream.table) /\ matches \cap rows \in SUBSET RowIds(stream.table)
      BY <2>1
    <2>. QED BY <2>1, <2>2, RowsOfTable
  <1>3. /\ \A a \in matches \ rows : \A b \in matches \cap rows : a < b
        /\ stream.returned = InOrder(matches \ rows)
    BY <1>1 DEF Proceeds, Reads
  <1>4. Begins(stream.returned, InOrder(matches))
    <2>1. PICK A, B : A = matches \ rows /\ B = matches \cap rows
      OBVIOUS
    <2>2. \E k \in 0..Len(InOrder(A \cup B)) : InOrder(A) = SubSeq(InOrder(A \cup B), 1, k)
      BY <1>2, <1>3, <2>1, InOrderContinues
    <2>3. A \cup B = matches
      BY <2>1
    <2>. QED BY <1>3, <2>1, <2>2, <2>3 DEF Begins
  <1>5. stream.status = "done" => stream.returned = InOrder(matches)
    <2>1. stream.status = "done" => matches \ rows = matches
      BY <1>1 DEF Proceeds, Reads
    <2>. QED BY <1>3, <2>1
  <1>6. stream.source = stream.table =>
          stream.status # "panicked" /\ InOrder(matches) = Answer(stream)
    <2>1. stream.source = stream.table => stream.status # "panicked" /\ matches = Matches(stream)
      BY <1>1 DEF Proceeds, MissesNothing, Wanted
    <2>. QED BY <2>1 DEF Answer
  <1>7. matches = Matches(stream) \cap stream.named
    BY <1>1 DEF Wanted
  <1>. QED BY <1>4, <1>5, <1>6, <1>7

\* Whatever happens to the catalog, before a stream is opened or while it is
\* (index_scan, next_batch): an index of the stream's own table narrows what it
\* reads and does not decide what it returns, and one of a table that was replaced
\* can only keep matches from it.
THEOREM IndexOnlyNarrows == Spec => []IndexNarrows
  <1>1. IInv => IndexNarrows
    <2>1. SUFFICES ASSUME IInv, NEW s \in Stream, streams[s].status # "closed"
                   PROVE  LET wanted == InOrder(Matches(streams[s]) \cap streams[s].named)
                          IN  /\ Begins(streams[s].returned, wanted)
                              /\ streams[s].status = "done" => streams[s].returned = wanted
                              /\ streams[s].source = streams[s].table =>
                                   streams[s].status # "panicked" /\ wanted = Answer(streams[s])
      BY DEF IndexNarrows
    <2>2. PICK stream \in StreamState : stream = streams[s]
      <3>1. streams \in [Stream -> StreamState]
        BY <2>1 DEF IInv, CatalogConsistent, TypeOK
      <3>. QED BY <3>1
    <2>3. Proceeds(stream)
      BY <2>1, <2>2 DEF IInv, Proceed
    <2>. QED BY <2>1, <2>2, <2>3, ProceedsTowardsAnswer
  <1>. QED BY <1>1, Invariance, PTL

=============================================================================
