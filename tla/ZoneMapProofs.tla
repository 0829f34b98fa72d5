---------------------------- MODULE ZoneMapProofs ----------------------------
(***************************************************************************)
(* Pruning never loses a row, for every predicate, every row group and     *)
(* every statistics a file may carry.  The invariant that makes it         *)
(* inductive is the symmetric pair "AlwaysFalse: no row is TRUE" and       *)
(* "AlwaysTrue: no row is FALSE", which NOT swaps and AND and OR preserve. *)
(***************************************************************************)
EXTENDS ZoneMap, FiniteSetTheorems, TLAPS

\* What a null count proves about the rows of a column.
NullCountHolds(s, col) ==
  /\ s.null_count = Cardinality(Rows(col)) => \A i \in Rows(col) : col[i] = NULL
  /\ s.null_count = 0 => \A i \in Rows(col) : col[i] # NULL

BoundsHold(s, col) ==
  \A i \in Rows(col) : col[i] \in Number =>
    /\ s.min \in Number => s.min <= col[i]
    /\ s.max \in Number => s.max >= col[i]

FilterHolds(filter, class, col) ==
  filter # NoFilter => \A i \in Valid(col) : HashBits[class][col[i]] \subseteq filter

\* The metadata of every column speaks about that column.
MetadataHolds ==
  \A c \in Scanned : /\ BoundsHold(stats[c], group[c])
                     /\ NullCountHolds(stats[c], group[c])
                     /\ FilterHolds(blooms[c], ClassOf[c], group[c])

\* A verdict and the values it speaks of, as one entry of the stack pairs them.
Sound(certainty, rejected, truth, n) ==
  /\ certainty \in Certainty
  /\ rejected \in BOOLEAN
  /\ truth \in [1..n -> Tri]
  /\ certainty = "AlwaysFalse" => \A i \in 1..n : truth[i] # "true"
  /\ certainty = "AlwaysTrue" => \A i \in 1..n : truth[i] # "false"
  /\ rejected => \A i \in 1..n : truth[i] # "true"

\* Every entry of the stack is sound.
StackSound ==
  \A k \in DOMAIN stack :
    Sound(stack[k].certainty, stack[k].rejected, stack[k].truth, num_rows)

\* The inductive invariant.
Inv == WalkTypeOK /\ MetadataHolds /\ StackSound
-----------------------------------------------------------------------------
\* types::compare orders two numbers and nothing else.
LEMMA CompareType ==
  ASSUME NEW a \in Datum, NEW b \in Datum
  PROVE  /\ Compare(a, b) \in {"none", "less", "equal", "greater"}
         /\ Compare(a, b) = "none" <=> {a, b} \cap {NULL, NaN} # {}
         /\ Compare(a, b) = "less" <=> a \in Number /\ b \in Number /\ a < b
         /\ Compare(a, b) = "equal" <=> a \in Number /\ b \in Number /\ a = b
         /\ Compare(a, b) = "greater" <=> a \in Number /\ b \in Number /\ a > b
  <1>1. Number \subseteq Int /\ NULL \notin Number /\ NaN \notin Number
    BY ValuesAssumption
  <1>2. CASE a \in Number /\ b \in Number
    <2>1. {a, b} \cap {NULL, NaN} = {}
      BY <1>1, <1>2
    <2>. QED BY <1>1, <1>2, <2>1 DEF Compare
  <1>3. CASE a \in {NULL, NaN} \/ b \in {NULL, NaN}
    <2>1. {a, b} \cap {NULL, NaN} # {}
      BY <1>3
    <2>. QED BY <1>1, <1>3, <2>1 DEF Compare
  <1>. QED BY <1>2, <1>3 DEF Datum

\* The value of a comparison, as a relation between numbers.
LEMMA CompareOpValue ==
  ASSUME NEW op \in ComparisonOps, NEW a \in Datum, NEW b \in Datum
  PROVE  /\ CompareOp(op, a, b) \in Tri
         /\ CompareOp(op, a, b) # "unknown" => a \in Number /\ b \in Number
         /\ CompareOp(op, a, b) = "unknown" <=> {a, b} \cap {NULL, NaN} # {}
         /\ a \in Number /\ b \in Number =>
              /\ op = "="  => (CompareOp(op, a, b) = "true" <=> a = b)
              /\ op = "<>" => (CompareOp(op, a, b) = "true" <=> a # b)
              /\ op = "<"  => (CompareOp(op, a, b) = "true" <=> a < b)
              /\ op = "<=" => (CompareOp(op, a, b) = "true" <=> a <= b)
              /\ op = ">"  => (CompareOp(op, a, b) = "true" <=> a > b)
              /\ op = ">=" => (CompareOp(op, a, b) = "true" <=> a >= b)
  <1>1. Number \subseteq Int /\ NULL \notin Number /\ NaN \notin Number
    BY ValuesAssumption
  <1>2. CASE {a, b} \cap {NULL, NaN} # {}
    <2>1. Compare(a, b) = "none"
      BY <1>2, CompareType
    <2>2. ~ (a \in Number /\ b \in Number)
      BY <1>1, <1>2
    <2>. QED BY <1>2, <2>1, <2>2 DEF CompareOp, Tri
  <1>3. CASE {a, b} \cap {NULL, NaN} = {}
    <2>1. Compare(a, b) \in {"less", "equal", "greater"}
      BY <1>3, CompareType
    <2>2. a \in Number /\ b \in Number
      BY <1>3 DEF Datum
    <2>3. CompareOp(op, a, b) = IF Accepts(op, Compare(a, b)) THEN "true" ELSE "false"
      BY <2>1 DEF CompareOp
    <2>4. /\ Compare(a, b) = "less" <=> a < b
          /\ Compare(a, b) = "equal" <=> a = b
          /\ Compare(a, b) = "greater" <=> a > b
      BY <2>2, CompareType
    <2>5. CASE op = "="
      BY <1>1, <1>3, <2>1, <2>2, <2>3, <2>4, <2>5 DEF Accepts, Tri
    <2>6. CASE op = "<>"
      BY <1>1, <1>3, <2>1, <2>2, <2>3, <2>4, <2>6 DEF Accepts, Tri
    <2>7. CASE op = "<"
      BY <1>1, <1>3, <2>1, <2>2, <2>3, <2>4, <2>7 DEF Accepts, Tri
    <2>8. CASE op = "<="
      BY <1>1, <1>3, <2>1, <2>2, <2>3, <2>4, <2>8 DEF Accepts, Tri
    <2>9. CASE op = ">"
      BY <1>1, <1>3, <2>1, <2>2, <2>3, <2>4, <2>9 DEF Accepts, Tri
    <2>10. CASE op = ">="
      BY <1>1, <1>3, <2>1, <2>2, <2>3, <2>4, <2>10 DEF Accepts, Tri
    <2>. QED BY <2>5, <2>6, <2>7, <2>8, <2>9, <2>10 DEF ComparisonOps
  <1>. QED BY <1>2, <1>3

\* The rows of a column of a group are numbered from 1.
LEMMA RowCount ==
  ASSUME NEW n \in Nat, NEW col \in [1..n -> Datum]
  PROVE  Rows(col) = 1..n /\ Cardinality(Rows(col)) = n
  BY FS_Interval DEF Rows

\* compare_bounds over statistics that hold, for one row.
LEMMA CompareBoundsSound ==
  ASSUME NEW op \in ComparisonOps, NEW s \in ColumnStats, NEW n \in Nat,
         NEW col \in [1..n -> Datum], NEW v \in Datum, NEW i \in 1..n,
         BoundsHold(s, col), NullCountHolds(s, col)
  PROVE  /\ compare_bounds(op, s, v, n) \in Certainty
         /\ compare_bounds(op, s, v, n) = "AlwaysFalse" => CompareOp(op, col[i], v) # "true"
         /\ compare_bounds(op, s, v, n) = "AlwaysTrue" => CompareOp(op, col[i], v) # "false"
  <1>. DEFINE result == compare_bounds(op, s, v, n)
              truth == CompareOp(op, col[i], v)
  <1>1. /\ s.min \in Datum /\ s.max \in Datum /\ col[i] \in Datum
        /\ Number \subseteq Int /\ NULL \notin Number /\ NaN \notin Number /\ NULL # NaN
    BY ValuesAssumption DEF ColumnStats
  <1>2. Rows(col) = 1..n /\ Cardinality(Rows(col)) = n
    BY RowCount
  <1>3. truth # "unknown" => col[i] \in Number /\ v \in Number
    BY <1>1, CompareOpValue
  <1>4. CASE v = NULL
    <2>1. result = "AlwaysFalse"
      BY <1>4 DEF compare_bounds
    <2>. QED BY <1>1, <1>3, <1>4, <2>1 DEF Certainty
  <1>5. CASE v # NULL /\ NULL \in {s.min, s.max}
    <2>1. result = IF s.null_count = n THEN "AlwaysFalse" ELSE "Unknown"
      BY <1>5 DEF compare_bounds, WithoutBounds
    <2>2. s.null_count = n => col[i] = NULL
      BY <1>2 DEF NullCountHolds
    <2>. QED BY <1>1, <1>3, <2>1, <2>2 DEF Certainty
  <1>6. CASE v # NULL /\ NULL \notin {s.min, s.max}
    <2>. DEFINE vmin == Compare(v, s.min)
                vmax == Compare(v, s.max)
                same == Compare(s.min, s.max) = "equal"
    <2>1. CASE "none" \in {vmin, vmax}
      <3>1. result = "Unknown"
        BY <1>6, <2>1 DEF compare_bounds
      <3>. QED BY <3>1 DEF Certainty
    <2>2. CASE "none" \notin {vmin, vmax}
      <3>1. v \in Number /\ s.min \in Number /\ s.max \in Number
        <4>1. {v, s.min} \cap {NULL, NaN} = {} /\ {v, s.max} \cap {NULL, NaN} = {}
          BY <1>1, <2>2, CompareType
        <4>. QED BY <1>1, <4>1 DEF Datum
      <3>2. result = IF NoRowPasses(op, vmin, vmax, same) THEN "AlwaysFalse"
                     ELSE IF EveryRowPasses(op, vmin, vmax, same) /\ s.null_count = 0
                     THEN "AlwaysTrue" ELSE "Unknown"
        BY <1>6, <2>2 DEF compare_bounds
      <3>3. /\ vmin \in {"less", "equal", "greater"}
            /\ vmin = "less" <=> v < s.min
            /\ vmin = "equal" <=> v = s.min
            /\ vmin = "greater" <=> v > s.min
        BY <1>1, <2>2, <3>1, CompareType
      <3>4. /\ vmax \in {"less", "equal", "greater"}
            /\ vmax = "less" <=> v < s.max
            /\ vmax = "equal" <=> v = s.max
            /\ vmax = "greater" <=> v > s.max
        BY <1>1, <2>2, <3>1, CompareType
      <3>5. same <=> s.min = s.max
        BY <1>1, <3>1, CompareType
      <3>6. result \in Certainty
        BY <3>2 DEF Certainty
      <3>7. CASE truth = "unknown"
        BY <3>6, <3>7
      <3>8. CASE truth # "unknown"
        <4>. DEFINE x == col[i]
        <4>1. /\ x \in Int /\ v \in Int /\ s.min \in Int /\ s.max \in Int
              /\ x \in Number /\ v \in Number
              /\ s.min <= x /\ x <= s.max
          BY <1>1, <1>2, <1>3, <3>1, <3>8 DEF BoundsHold
        <4>2. /\ truth \in Tri
              /\ op = "="  => (truth = "true" <=> x = v)
              /\ op = "<>" => (truth = "true" <=> x # v)
              /\ op = "<"  => (truth = "true" <=> x < v)
              /\ op = "<=" => (truth = "true" <=> x <= v)
              /\ op = ">"  => (truth = "true" <=> x > v)
              /\ op = ">=" => (truth = "true" <=> x >= v)
          BY <1>1, <4>1, CompareOpValue
        <4>3. NoRowPasses(op, vmin, vmax, same) => truth # "true"
          <5>. HIDE DEF truth, vmin, vmax, same, x, result
          <5>. QED BY <3>3, <3>4, <3>5, <4>1, <4>2 DEF NoRowPasses
        <4>4. EveryRowPasses(op, vmin, vmax, same) => truth # "false"
          <5>. HIDE DEF truth, vmin, vmax, same, x, result
          <5>. QED BY <3>3, <3>4, <3>5, <4>1, <4>2 DEF EveryRowPasses
        <4>. QED BY <3>2, <3>6, <4>3, <4>4
      <3>. QED BY <3>7, <3>8
    <2>. QED BY <2>1, <2>2
  <1>. QED BY <1>4, <1>5, <1>6
-----------------------------------------------------------------------------
\* A verdict needs no row to be a verdict.
LEMMA BoundsCertainty ==
  ASSUME NEW op, NEW s, NEW v, NEW n
  PROVE  compare_bounds(op, s, v, n) \in Certainty
  BY DEF compare_bounds, WithoutBounds, Certainty

\* A finite set of integers has a least element, which is the one
\* Lowest picks (min_max) ...
LEMMA LowestExists ==
  ASSUME NEW S \in SUBSET Int, IsFiniteSet(S), S # {}
  PROVE  Lowest(S) \in S /\ \A y \in S : Lowest(S) <= y
  <1>. DEFINE Below(x) == {y \in S : y < x}
              Sets == {Below(x) : x \in S}
  <1>1. Sets \subseteq FiniteSubsetsOf(S)
    BY FS_Subset DEF FiniteSubsetsOf
  <1>2. PICK B \in Sets : \A C \in Sets : <<C, B>> \notin StrictSubsetOrdering(S)
    <2>1. Sets # {}
      OBVIOUS
    <2>2. IsWellFoundedOn(StrictSubsetOrdering(S), FiniteSubsetsOf(S))
      BY FS_StrictSubsetOrderingWellFounded
    <2>. HIDE DEF Sets
    <2>. QED BY <1>1, <2>1, <2>2, WFMin
  <1>3. PICK x \in S : B = Below(x)
    OBVIOUS
  <1>4. ASSUME NEW y \in S, y < x
        PROVE  FALSE
    <2>1. \A z \in S : z < y => z < x
      BY <1>4
    <2>2. y \in Int /\ ~ (y < y)
      OBVIOUS
    <2>3. Below(y) \subseteq Below(x)
      BY <2>1
    <2>4. y \in Below(x) /\ y \notin Below(y)
      BY <1>4, <2>2
    <2>5. <<Below(y), Below(x)>> \in StrictSubsetOrdering(S)
      BY <2>3, <2>4 DEF StrictSubsetOrdering
    <2>. QED BY <1>2, <1>3, <2>5
  <1>5. \A y \in S : x <= y
    BY <1>4
  <1>. QED BY <1>5 DEF Lowest

\* ... and a greatest one, which is the one Highest picks.
LEMMA HighestExists ==
  ASSUME NEW S \in SUBSET Int, IsFiniteSet(S), S # {}
  PROVE  Highest(S) \in S /\ \A y \in S : Highest(S) >= y
  <1>. DEFINE Above(x) == {y \in S : y > x}
              Sets == {Above(x) : x \in S}
  <1>1. Sets \subseteq FiniteSubsetsOf(S)
    BY FS_Subset DEF FiniteSubsetsOf
  <1>2. PICK B \in Sets : \A C \in Sets : <<C, B>> \notin StrictSubsetOrdering(S)
    <2>1. Sets # {}
      OBVIOUS
    <2>2. IsWellFoundedOn(StrictSubsetOrdering(S), FiniteSubsetsOf(S))
      BY FS_StrictSubsetOrderingWellFounded
    <2>. HIDE DEF Sets
    <2>. QED BY <1>1, <2>1, <2>2, WFMin
  <1>3. PICK x \in S : B = Above(x)
    OBVIOUS
  <1>4. ASSUME NEW y \in S, y > x
        PROVE  FALSE
    <2>1. \A z \in S : z > y => z > x
      BY <1>4
    <2>2. y \in Int /\ ~ (y > y)
      OBVIOUS
    <2>3. Above(y) \subseteq Above(x)
      BY <2>1
    <2>4. y \in Above(x) /\ y \notin Above(y)
      BY <1>4, <2>2
    <2>5. <<Above(y), Above(x)>> \in StrictSubsetOrdering(S)
      BY <2>3, <2>4 DEF StrictSubsetOrdering
    <2>. QED BY <1>2, <1>3, <2>5
  <1>5. \A y \in S : x >= y
    BY <1>4
  <1>. QED BY <1>5 DEF Highest

\* What min_max returns bounds every number of the column.
LEMMA MinMaxBounds ==
  ASSUME NEW n \in Nat, NEW col \in [1..n -> Datum]
  PROVE  /\ min_max(col).min \in Datum
         /\ min_max(col).max \in Datum
         /\ \A i \in Rows(col) : col[i] \in Number =>
              /\ min_max(col).min \in Number => min_max(col).min <= col[i]
              /\ min_max(col).max \in Number => min_max(col).max >= col[i]
  <1>. DEFINE numbers == {col[i] : i \in Valid(col)} \ {NaN}
              first == col[Lowest(Valid(col))]
  <1>1. /\ Number \subseteq Int /\ NULL \notin Number /\ NaN \notin Number /\ NULL # NaN
        /\ Rows(col) = 1..n /\ IsFiniteSet(1..n)
    <2>1. IsFiniteSet(1..n)
      BY FS_Interval
    <2>. QED BY <2>1, ValuesAssumption DEF Rows
  <1>2. Valid(col) \subseteq 1..n /\ IsFiniteSet(Valid(col))
    BY <1>1, FS_Subset DEF Valid
  <1>3. numbers \subseteq Number
    BY <1>1, <1>2 DEF Valid, Datum
  <1>4. IsFiniteSet(numbers)
    <2>. DEFINE values == {col[i] : i \in Valid(col)}
                read == [i \in Valid(col) |-> col[i]]
    <2>1. read \in Surjection(Valid(col), values)
      BY DEF Surjection
    <2>2. IsFiniteSet(values)
      BY <1>2, <2>1, FS_Surjection
    <2>. QED BY <2>2, FS_Subset
  <1>5. \A i \in Rows(col) : col[i] \in Number => i \in Valid(col) /\ col[i] \in numbers
    BY <1>1 DEF Valid
  <1>6. CASE Valid(col) = {}
    <2>1. min_max(col) = [min |-> NULL, max |-> NULL]
      BY <1>6 DEF min_max
    <2>. QED BY <1>1, <2>1 DEF Datum
  <1>7. CASE Valid(col) # {} /\ first = NaN
    <2>1. min_max(col) = [min |-> NaN, max |-> NaN]
      BY <1>7 DEF min_max
    <2>. QED BY <1>1, <2>1 DEF Datum
  <1>8. CASE Valid(col) # {} /\ first # NaN
    <2>1. min_max(col) = [min |-> Lowest(numbers), max |-> Highest(numbers)]
      BY <1>8 DEF min_max
    <2>2. Lowest(Valid(col)) \in Valid(col)
      BY <1>1, <1>2, <1>8, LowestExists
    <2>3. first \in numbers
      BY <1>8, <2>2
    <2>4. numbers \in SUBSET Int /\ numbers # {}
      BY <1>1, <1>3, <2>3
    <2>5. /\ Lowest(numbers) \in numbers /\ \A y \in numbers : Lowest(numbers) <= y
          /\ Highest(numbers) \in numbers /\ \A y \in numbers : Highest(numbers) >= y
      <3>. HIDE DEF numbers
      <3>. QED BY <1>4, <2>4, LowestExists, HighestExists
    <2>6. min_max(col).min \in Datum /\ min_max(col).max \in Datum
      BY <1>3, <2>1, <2>5 DEF Datum
    <2>7. min_max(col).min = Lowest(numbers) /\ min_max(col).max = Highest(numbers)
      BY <2>1
    <2>. QED
      <3>. HIDE DEF numbers
      <3>. QED BY <1>5, <2>5, <2>6, <2>7
  <1>. QED BY <1>6, <1>7, <1>8

\* Statistics whose null count is right say what NullCountHolds says.
LEMMA NullCountMeaning ==
  ASSUME NEW n \in Nat, NEW col \in [1..n -> Datum], NEW s \in ColumnStats,
         s.null_count \in {Unrecorded, Cardinality(Rows(col) \ Valid(col))}
  PROVE  NullCountHolds(s, col)
  <1>. DEFINE nulls == Rows(col) \ Valid(col)
  <1>1. Rows(col) = 1..n /\ IsFiniteSet(Rows(col)) /\ Cardinality(Rows(col)) = n
    BY FS_Interval DEF Rows
  <1>2. IsFiniteSet(nulls) /\ (Cardinality(Rows(col)) = Cardinality(nulls) => Rows(col) = nulls)
    <2>1. nulls \in SUBSET Rows(col)
      OBVIOUS
    <2>. QED BY <1>1, <2>1, FS_Subset
  <1>3. s.null_count \in Nat => s.null_count = Cardinality(nulls)
    BY DEF Unrecorded
  <1>4. s.null_count = Cardinality(Rows(col)) => \A i \in Rows(col) : col[i] = NULL
    BY <1>1, <1>2, <1>3 DEF Valid
  <1>5. s.null_count = 0 => nulls = {}
    BY <1>2, <1>3, FS_EmptySet
  <1>6. s.null_count = 0 => \A i \in Rows(col) : col[i] # NULL
    BY <1>5 DEF Valid
  <1>. QED BY <1>4, <1>6 DEF NullCountHolds

\* ColumnStats::compute describes the column it read, NaN and NULLs included.
LEMMA ComputedStatsHold ==
  ASSUME NEW n \in Nat, NEW col \in [1..n -> Datum]
  PROVE  /\ compute(col) \in ColumnStats
         /\ BoundsHold(compute(col), col)
         /\ NullCountHolds(compute(col), col)
  <1>1. Cardinality(Rows(col) \ Valid(col)) \in Nat
    <2>1. IsFiniteSet(Rows(col))
      BY FS_Interval DEF Rows
    <2>2. IsFiniteSet(Rows(col) \ Valid(col))
      BY <2>1, FS_Subset
    <2>. QED BY <2>2, FS_CardinalityType
  <1>2. compute(col) \in ColumnStats
    BY <1>1, MinMaxBounds DEF compute, ColumnStats
  <1>3. /\ compute(col).min = min_max(col).min
        /\ compute(col).max = min_max(col).max
        /\ compute(col).null_count = Cardinality(Rows(col) \ Valid(col))
    BY DEF compute
  <1>. QED BY <1>2, <1>3, MinMaxBounds, NullCountMeaning DEF BoundsHold
-----------------------------------------------------------------------------
\* The verdict on BETWEEN, for one row: its two bounds are compared like any
\* literal, and NULL bounds decide what they can.
LEMMA BetweenSound ==
  ASSUME NEW s \in ColumnStats, NEW n \in Nat, NEW col \in [1..n -> Datum],
         NEW lo \in Datum, NEW hi \in Datum, NEW negated \in BOOLEAN, NEW i \in 1..n,
         BoundsHold(s, col), NullCountHolds(s, col)
  PROVE  LET c == BetweenCertainty(s, lo, hi, negated, n)
             t == BetweenTruth(col[i], lo, hi, negated)
         IN  /\ c \in Certainty
             /\ t \in Tri
             /\ c = "AlwaysFalse" => t # "true"
             /\ c = "AlwaysTrue" => t # "false"
  <1>. DEFINE cge == compare_bounds(">=", s, lo, n)
              cle == compare_bounds("<=", s, hi, n)
              tge == CompareOp(">=", col[i], lo)
              tle == CompareOp("<=", col[i], hi)
  <1>1. ">=" \in ComparisonOps /\ "<=" \in ComparisonOps
    BY DEF ComparisonOps
  <1>2. cge \in Certainty /\ (cge = "AlwaysFalse" => tge # "true")
                          /\ (cge = "AlwaysTrue" => tge # "false")
    BY <1>1, CompareBoundsSound
  <1>3. cle \in Certainty /\ (cle = "AlwaysFalse" => tle # "true")
                          /\ (cle = "AlwaysTrue" => tle # "false")
    BY <1>1, CompareBoundsSound
  <1>4. tge \in Tri /\ tle \in Tri
    BY <1>1, CompareOpValue
  <1>5. /\ BetweenCertainty(s, lo, hi, negated, n) = IF negated THEN not(and(cge, cle)) ELSE and(cge, cle)
        /\ BetweenTruth(col[i], lo, hi, negated) =
             IF negated THEN three_valued_not(three_valued_and(tge, tle))
                        ELSE three_valued_and(tge, tle)
    BY DEF BetweenCertainty, BetweenTruth
  <1>. HIDE DEF cge, cle, tge, tle
  <1>. QED
    BY <1>2, <1>3, <1>4, <1>5
    DEF Certainty, Tri, and, not, three_valued_and, three_valued_not

\* The verdict on IN, for one row; no list is ever AlwaysTrue.
LEMMA InListSound ==
  ASSUME NEW s \in ColumnStats, NEW n \in Nat, NEW col \in [1..n -> Datum],
         NEW items \in SUBSET Datum, NEW negated \in BOOLEAN, NEW i \in 1..n,
         BoundsHold(s, col), NullCountHolds(s, col)
  PROVE  LET c == InListCertainty(s, items, negated, n)
             t == InListTruth(col[i], items, negated)
         IN  /\ c \in Certainty \ {"AlwaysTrue"}
             /\ t \in Tri
             /\ c = "AlwaysFalse" => t # "true"
  <1>. DEFINE c == InListCertainty(s, items, negated, n)
              t == InListTruth(col[i], items, negated)
              x == col[i]
  <1>1. /\ s.min \in Datum /\ s.max \in Datum /\ x \in Datum
        /\ Number \subseteq Int /\ NULL \notin Number /\ NaN \notin Number
        /\ Rows(col) = 1..n /\ Cardinality(Rows(col)) = n
    BY ValuesAssumption, RowCount DEF ColumnStats
  <1>2. c \in {"AlwaysFalse", "Unknown"}
    BY DEF InListCertainty, WithoutBounds
  <1>3. t \in Tri
    BY DEF InListTruth, three_valued_not, Tri
  <1>4. ASSUME c = "AlwaysFalse"
        PROVE  t # "true"
    <2>1. negated = FALSE
      BY <1>4 DEF InListCertainty
    <2>2. t = "true" => \E v \in items : Compare(x, v) = "equal"
      BY <2>1 DEF InListTruth
    <2>3. ASSUME NEW v \in items, Compare(x, v) = "equal"
          PROVE  FALSE
      <3>1. x \in Number /\ v \in Number /\ x = v
        BY <1>1, <2>3, CompareType
      <3>2. CASE NULL \in {s.min, s.max}
        <4>1. s.null_count = n
          BY <1>4, <2>1, <3>2 DEF InListCertainty, WithoutBounds
        <4>. QED BY <1>1, <3>1, <4>1 DEF NullCountHolds
      <3>3. CASE NULL \notin {s.min, s.max}
        <4>1. v = NULL \/ Compare(v, s.min) = "less" \/ Compare(v, s.max) = "greater"
          BY <1>4, <2>1, <3>3 DEF InListCertainty
        <4>2. \/ s.min \in Number /\ v < s.min
              \/ s.max \in Number /\ v > s.max
          BY <1>1, <3>1, <4>1, CompareType
        <4>3. (s.min \in Number => s.min <= x) /\ (s.max \in Number => s.max >= x)
          BY <1>1, <3>1 DEF BoundsHold
        <4>4. CASE s.min \in Number /\ v < s.min
          <5>1. s.min <= v /\ v \in Int /\ s.min \in Int
            BY <1>1, <3>1, <4>3, <4>4
          <5>. QED BY <4>4, <5>1
        <4>5. CASE s.max \in Number /\ v > s.max
          <5>1. s.max >= v /\ v \in Int /\ s.max \in Int
            BY <1>1, <3>1, <4>3, <4>5
          <5>. QED BY <4>5, <5>1
        <4>. QED BY <4>2, <4>4, <4>5
      <3>. QED BY <3>2, <3>3
    <2>. QED BY <2>2, <2>3
  <1>. QED BY <1>2, <1>3, <1>4 DEF Certainty

\* The verdict on IS NULL, for one row: it rests on the null count alone.
LEMMA IsNullSound ==
  ASSUME NEW s \in ColumnStats, NEW n \in Nat, NEW col \in [1..n -> Datum],
         NEW negated \in BOOLEAN, NEW i \in 1..n, NullCountHolds(s, col)
  PROVE  LET c == IsNullCertainty(s, negated, n)
             t == IsNullTruth(col[i], negated)
         IN  /\ c \in Certainty
             /\ t \in Tri
             /\ c = "AlwaysFalse" => t # "true"
             /\ c = "AlwaysTrue" => t # "false"
  <1>1. Rows(col) = 1..n /\ Cardinality(Rows(col)) = n
    BY RowCount
  <1>2. /\ s.null_count = n => col[i] = NULL
        /\ s.null_count = 0 => col[i] # NULL
    BY <1>1 DEF NullCountHolds
  <1>. QED BY <1>2 DEF IsNullCertainty, IsNullTruth, Certainty, Tri

\* An absent literal equals no value of the column.
LEMMA AbsentSound ==
  ASSUME NEW n \in Nat, NEW col \in [1..n -> Datum], NEW i \in 1..n, NEW filter,
         NEW class \in Class, NEW lit, lit.value \in Datum,
         filter # NoFilter, FilterHolds(filter, class, col),
         lit.value = NULL \/ absent(filter, class, lit)
  PROVE  Compare(col[i], lit.value) # "equal"
  <1>. SUFFICES ASSUME Compare(col[i], lit.value) = "equal"
                PROVE  FALSE
    OBVIOUS
  <1>1. col[i] \in Number /\ lit.value = col[i] /\ NULL \notin Number
    BY CompareType, ValuesAssumption
  <1>2. i \in Valid(col)
    BY <1>1 DEF Valid, Rows
  <1>3. HashBits[class][col[i]] \subseteq filter
    BY <1>2 DEF FilterHolds
  <1>4. lit.class = class /\ ~ might_contain(filter, lit.value, lit.class)
    BY <1>1 DEF absent
  <1>. QED BY <1>1, <1>3, <1>4 DEF might_contain

\* A literal on the left is the flipped comparison (column_and_literal).
LEMMA MirroredCompare ==
  ASSUME NEW op \in ComparisonOps, NEW a \in Datum, NEW b \in Datum
  PROVE  flip(op) \in ComparisonOps /\ CompareOp(flip(op), b, a) = CompareOp(op, a, b)
  <1>1. Number \subseteq Int /\ NULL \notin Number /\ NaN \notin Number
    BY ValuesAssumption
  <1>2. Compare(a, b) \in {"none", "less", "equal", "greater"}
    BY CompareType
  <1>3. /\ Compare(b, a) = "none" <=> Compare(a, b) = "none"
        /\ Compare(b, a) = "less" <=> Compare(a, b) = "greater"
        /\ Compare(b, a) = "equal" <=> Compare(a, b) = "equal"
        /\ Compare(b, a) = "greater" <=> Compare(a, b) = "less"
    <2>1. {a, b} = {b, a}
      OBVIOUS
    <2>2. \A p, q \in Number : (p < q <=> q > p) /\ (p = q <=> q = p)
      BY <1>1
    <2>. QED BY <2>1, <2>2, CompareType
  <1>4. Compare(b, a) \in {"none", "less", "equal", "greater"}
    BY CompareType
  <1>. QED BY <1>2, <1>3, <1>4 DEF flip, CompareOp, Accepts, ComparisonOps
-----------------------------------------------------------------------------
\* The metadata of a row group built in memory or read from a file holds.
LEMMA InitInv == WalkInit => Inv
  <1>. SUFFICES ASSUME WalkInit PROVE Inv
    OBVIOUS
  <1>1. /\ num_rows \in Nat /\ group \in [Scanned -> [1..num_rows -> Datum]]
        /\ num_rows \in RowCounts /\ stack = <<>>
    BY EvalAssumption DEF WalkInit
  <1>2. CASE InMemory(group)
    <2>1. stats = [c \in Scanned |-> compute(group[c])]
      BY <1>2 DEF InMemory
    <2>2. PICK filtered \in SUBSET Scanned :
            blooms = [c \in Scanned |-> IF c \in filtered
                                        THEN build_bloom(group[c], ClassOf[c]) ELSE NoFilter]
      BY <1>2 DEF InMemory
    <2>3. ASSUME NEW c \in Scanned
          PROVE  /\ stats[c] \in ColumnStats
                 /\ BoundsHold(stats[c], group[c])
                 /\ NullCountHolds(stats[c], group[c])
      BY <1>1, <2>1, ComputedStatsHold
    <2>4. ASSUME NEW c \in Scanned
          PROVE  blooms[c] \in SUBSET Int /\ FilterHolds(blooms[c], ClassOf[c], group[c])
      <3>1. ClassOf[c] \in Class /\ group[c] \in [1..num_rows -> Datum]
        BY <1>1, EvalAssumption
      <3>2. \A i \in Valid(group[c]) : group[c][i] \in Number \cup {NaN}
        BY <3>1 DEF Valid, Rows, Datum
      <3>3. \A i \in Valid(group[c]) : HashBits[ClassOf[c]][group[c][i]] \in SUBSET Nat
        BY <3>1, <3>2, HashAssumption
      <3>4. build_bloom(group[c], ClassOf[c]) \in SUBSET Int
        BY <3>3 DEF build_bloom
      <3>5. FilterHolds(build_bloom(group[c], ClassOf[c]), ClassOf[c], group[c])
        BY DEF FilterHolds, build_bloom
      <3>6. NoFilter \in SUBSET Int /\ FilterHolds(NoFilter, ClassOf[c], group[c])
        BY DEF NoFilter, FilterHolds
      <3>. QED BY <2>2, <3>4, <3>5, <3>6
    <2>5. stats \in [Scanned -> ColumnStats] /\ blooms \in [Scanned -> SUBSET Int]
      BY <2>1, <2>2, <2>3, <2>4
    <2>. QED BY <1>1, <2>3, <2>4, <2>5 DEF Inv, WalkTypeOK, MetadataHolds, StackSound
  <1>3. CASE Pending(group)
    <2>1. stats \in [Scanned -> ColumnStats] /\ blooms = [c \in Scanned |-> NoFilter]
      BY <1>3, EvalAssumption DEF Pending
    <2>2. ASSUME NEW c \in Scanned
          PROVE  BoundsHold(stats[c], group[c]) /\ NullCountHolds(stats[c], group[c])
      <3>1. Describes(stats[c], group[c])
        BY <1>3 DEF Pending
      <3>2. group[c] \in [1..num_rows -> Datum] /\ stats[c] \in ColumnStats
        BY <1>1, <2>1
      <3>. QED BY <1>1, <3>1, <3>2, NullCountMeaning DEF Describes, BoundsHold
    <2>3. ASSUME NEW c \in Scanned
          PROVE  blooms[c] \in SUBSET Int /\ FilterHolds(blooms[c], ClassOf[c], group[c])
      BY <2>1 DEF NoFilter, FilterHolds
    <2>4. blooms \in [Scanned -> SUBSET Int]
      BY <2>1, <2>3
    <2>. QED BY <1>1, <2>1, <2>2, <2>3, <2>4 DEF Inv, WalkTypeOK, MetadataHolds, StackSound
  <1>. QED BY <1>2, <1>3 DEF WalkInit

\* Pushing a sound verdict keeps the invariant.
LEMMA PushInv ==
  ASSUME Inv, NEW c, NEW r, NEW t, Push(c, r, t), Sound(c, r, t, num_rows)
  PROVE  Inv'
  <1>. DEFINE e == [certainty |-> c, rejected |-> r, truth |-> t]
              Entry == [certainty : Certainty, rejected : BOOLEAN, truth : [1..num_rows -> Tri]]
  <1>1. stack \in Seq(Entry) /\ e \in Entry
    BY DEF Inv, WalkTypeOK, Sound
  <1>2. stack' = Append(stack, e)
    BY DEF Push
  <1>3. stack' \in Seq(Entry)
    BY <1>1, <1>2
  <1>4. ASSUME NEW k \in DOMAIN stack'
        PROVE  Sound(stack'[k].certainty, stack'[k].rejected, stack'[k].truth, num_rows)
    <2>1. CASE k \in DOMAIN stack
      <3>1. stack'[k] = stack[k]
        BY <1>1, <1>2, <2>1
      <3>. QED BY <2>1, <3>1 DEF Inv, StackSound
    <2>2. CASE k \notin DOMAIN stack
      <3>1. stack'[k] = e
        BY <1>1, <1>2, <1>4, <2>2
      <3>. QED BY <3>1
    <2>. QED BY <2>1, <2>2
  <1>5. UNCHANGED <<num_rows, group, stats, blooms>>
    BY DEF Push
  <1>6. MetadataHolds'
    BY <1>5 DEF Inv, MetadataHolds
  <1>7. WalkTypeOK'
    BY <1>3, <1>5 DEF Inv, WalkTypeOK
  <1>8. StackSound'
    BY <1>4, <1>5 DEF StackSound
  <1>. QED BY <1>6, <1>7, <1>8 DEF Inv

\* The connectives keep verdicts sound.
LEMMA NotSound ==
  ASSUME NEW n, NEW c, NEW r, NEW t, Sound(c, r, t, n)
  PROVE  Sound(not(c), FALSE, [i \in 1..n |-> three_valued_not(t[i])], n)
  <1>1. not(c) \in Certainty
    BY DEF Sound, Certainty, not
  <1>2. \A i \in 1..n : three_valued_not(t[i]) \in Tri
    BY DEF three_valued_not, Tri
  <1>3. not(c) = "AlwaysFalse" => \A i \in 1..n : three_valued_not(t[i]) # "true"
    BY DEF Sound, Certainty, not, three_valued_not, Tri
  <1>4. not(c) = "AlwaysTrue" => \A i \in 1..n : three_valued_not(t[i]) # "false"
    BY DEF Sound, Certainty, not, three_valued_not, Tri
  <1>. QED BY <1>1, <1>2, <1>3, <1>4 DEF Sound

\* AND is false when either side is, and rejected when either side is.
LEMMA AndSound ==
  ASSUME NEW n, NEW c1, NEW r1, NEW t1, Sound(c1, r1, t1, n),
                NEW c2, NEW r2, NEW t2, Sound(c2, r2, t2, n)
  PROVE  Sound(and(c1, c2), r1 \/ r2, [i \in 1..n |-> three_valued_and(t1[i], t2[i])], n)
  <1>1. and(c1, c2) \in Certainty
    BY DEF Certainty, and
  <1>2. \A i \in 1..n : three_valued_and(t1[i], t2[i]) \in Tri
    BY DEF three_valued_and, Tri
  <1>3. \A i \in 1..n : t1[i] \in Tri /\ t2[i] \in Tri
    BY DEF Sound
  <1>4. and(c1, c2) = "AlwaysFalse" => \A i \in 1..n : three_valued_and(t1[i], t2[i]) # "true"
    BY <1>3 DEF Sound, and, three_valued_and
  <1>5. and(c1, c2) = "AlwaysTrue" => \A i \in 1..n : three_valued_and(t1[i], t2[i]) # "false"
    <2>1. and(c1, c2) = "AlwaysTrue" => c1 = "AlwaysTrue" /\ c2 = "AlwaysTrue"
      BY DEF and
    <2>. QED BY <1>3, <2>1 DEF Sound, three_valued_and
  <1>6. r1 \/ r2 => \A i \in 1..n : three_valued_and(t1[i], t2[i]) # "true"
    BY <1>3 DEF Sound, three_valued_and
  <1>7. (r1 \/ r2) \in BOOLEAN
    OBVIOUS
  <1>. QED BY <1>1, <1>2, <1>4, <1>5, <1>6, <1>7 DEF Sound

\* OR is false only when both sides are; a filter says nothing of it.
LEMMA OrSound ==
  ASSUME NEW n, NEW c1, NEW r1, NEW t1, Sound(c1, r1, t1, n),
                NEW c2, NEW r2, NEW t2, Sound(c2, r2, t2, n)
  PROVE  Sound(or(c1, c2), FALSE, [i \in 1..n |-> three_valued_or(t1[i], t2[i])], n)
  <1>1. or(c1, c2) \in Certainty
    BY DEF Certainty, or
  <1>2. \A i \in 1..n : three_valued_or(t1[i], t2[i]) \in Tri
    BY DEF three_valued_or, Tri
  <1>3. \A i \in 1..n : t1[i] \in Tri /\ t2[i] \in Tri
    BY DEF Sound
  <1>4. or(c1, c2) = "AlwaysFalse" => \A i \in 1..n : three_valued_or(t1[i], t2[i]) # "true"
    <2>1. or(c1, c2) = "AlwaysFalse" => c1 = "AlwaysFalse" /\ c2 = "AlwaysFalse"
      BY DEF or
    <2>. QED BY <1>3, <2>1 DEF Sound, three_valued_or
  <1>5. or(c1, c2) = "AlwaysTrue" => \A i \in 1..n : three_valued_or(t1[i], t2[i]) # "false"
    BY <1>3 DEF Sound, or, three_valued_or
  <1>. QED BY <1>1, <1>2, <1>4, <1>5 DEF Sound

\* A connective that leaves one sound verdict in its operands' place keeps the
\* invariant; m is the stack's new depth.
LEMMA ReplaceInv ==
  ASSUME Inv, NEW m \in 1..Len(stack), NEW c, NEW r, NEW t, Sound(c, r, t, num_rows),
         stack' = [k \in 1..m |-> IF k = m THEN [certainty |-> c, rejected |-> r, truth |-> t]
                                  ELSE stack[k]],
         UNCHANGED <<num_rows, group, stats, blooms>>
  PROVE  Inv'
  <1>. DEFINE e == [certainty |-> c, rejected |-> r, truth |-> t]
              Entry == [certainty : Certainty, rejected : BOOLEAN, truth : [1..num_rows -> Tri]]
  <1>1. stack \in Seq(Entry) /\ e \in Entry
    BY DEF Inv, WalkTypeOK, Sound
  <1>2. Len(stack) \in Nat /\ DOMAIN stack = 1..Len(stack) /\ m \in Nat /\ DOMAIN stack' = 1..m
    BY <1>1
  <1>3. \A k \in 1..m : stack'[k] = IF k = m THEN e ELSE stack[k]
    OBVIOUS
  <1>. HIDE DEF Entry, e
  <1>13. stack \in [1..Len(stack) -> Entry]
    <2>1. ASSUME NEW S, NEW s \in Seq(S) PROVE s \in [1..Len(s) -> S]
      OBVIOUS
    <2>. QED BY <1>1, <2>1
  <1>4. \A k \in 1..m : stack[k] \in Entry
    BY <1>2, <1>13
  <1>5. stack' \in [1..m -> Entry]
    BY <1>1, <1>3, <1>4
  <1>. USE DEF Entry, e
  <1>6. stack' \in Seq(Entry)
    BY <1>2, <1>5
  <1>7. ASSUME NEW k \in 1..m
        PROVE  Sound(stack'[k].certainty, stack'[k].rejected, stack'[k].truth, num_rows)
    <2>1. CASE k = m
      BY <1>3, <2>1
    <2>2. CASE k # m
      <3>1. k \in DOMAIN stack /\ stack'[k] = stack[k]
        BY <1>2, <1>3, <2>2
      <3>. QED BY <3>1 DEF Inv, StackSound
    <2>. QED BY <2>1, <2>2
  <1>8. MetadataHolds'
    BY DEF Inv, MetadataHolds
  <1>9. WalkTypeOK'
    BY <1>6 DEF Inv, WalkTypeOK
  <1>10. StackSound'
    BY <1>2, <1>7 DEF StackSound
  <1>. QED BY <1>8, <1>9, <1>10 DEF Inv

\* An entry of the stack is sound, and the stack is a sequence.
LEMMA EntrySound ==
  ASSUME Inv, NEW k \in 1..Len(stack)
  PROVE  /\ k \in DOMAIN stack
         /\ Sound(stack[k].certainty, stack[k].rejected, stack[k].truth, num_rows)
  <1>1. k \in DOMAIN stack
    BY DEF Inv, WalkTypeOK
  <1>. QED BY <1>1 DEF Inv, StackSound

\* The And, Or and Not arms of prune::evaluate keep the invariant.
LEMMA ConnectiveInv ==
  ASSUME Inv, Not \/ And \/ Or
  PROVE  Inv'
  <1>1. Len(stack) \in Nat /\ DOMAIN stack = 1..Len(stack)
    BY DEF Inv, WalkTypeOK
  <1>2. CASE Not
    <2>. DEFINE m == Len(stack)
                t == [i \in 1..num_rows |-> three_valued_not(Top.truth[i])]
    <2>1. stack # <<>>
      BY <1>2 DEF Not
    <2>2. m \in 1..Len(stack)
      BY <1>1, <2>1 DEF Inv, WalkTypeOK
    <2>3. Sound(Top.certainty, Top.rejected, Top.truth, num_rows)
      BY <2>2, EntrySound DEF Top
    <2>4. Sound(not(Top.certainty), FALSE, t, num_rows)
      BY <2>3, NotSound
    <2>5. stack' = [k \in 1..m |-> IF k = m
                      THEN [certainty |-> not(Top.certainty), rejected |-> FALSE, truth |-> t]
                      ELSE stack[k]]
      BY <1>1, <1>2, <2>2 DEF Not
    <2>6. UNCHANGED <<num_rows, group, stats, blooms>>
      BY <1>2 DEF Not
    <2>. HIDE DEF m, t
    <2>. QED BY <2>2, <2>4, <2>5, <2>6, ReplaceInv, ZenonT(60)
  <1>3. ASSUME Len(stack) >= 2, NEW c, NEW r, NEW t, Combine(c, r, t),
               Sound(c, r, t, num_rows)
        PROVE  Inv'
    <2>. DEFINE m == Len(stack) - 1
    <2>1. m \in 1..Len(stack)
      BY <1>1, <1>3
    <2>2. stack' = [k \in 1..m |-> IF k = m
                      THEN [certainty |-> c, rejected |-> r, truth |-> t] ELSE stack[k]]
      BY <1>3 DEF Combine
    <2>3. UNCHANGED <<num_rows, group, stats, blooms>>
      BY <1>3 DEF Combine
    <2>. HIDE DEF m
    <2>. QED BY <1>3, <2>1, <2>2, <2>3, ReplaceInv
  <1>4. ASSUME Len(stack) >= 2
        PROVE  /\ Sound(Top.certainty, Top.rejected, Top.truth, num_rows)
               /\ Sound(Under.certainty, Under.rejected, Under.truth, num_rows)
    <2>1. Len(stack) \in 1..Len(stack) /\ Len(stack) - 1 \in 1..Len(stack)
      BY <1>1, <1>4
    <2>. QED BY <2>1, EntrySound DEF Top, Under
  <1>5. CASE And
    <2>1. Len(stack) >= 2
      BY <1>5 DEF And
    <2>2. Sound(and(Under.certainty, Top.certainty), Under.rejected \/ Top.rejected,
                [i \in 1..num_rows |-> three_valued_and(Under.truth[i], Top.truth[i])],
                num_rows)
      BY <1>4, <2>1, AndSound
    <2>. QED BY <1>3, <1>5, <2>1, <2>2 DEF And
  <1>6. CASE Or
    <2>1. Len(stack) >= 2
      BY <1>6 DEF Or
    <2>2. Sound(or(Under.certainty, Top.certainty), FALSE,
                [i \in 1..num_rows |-> three_valued_or(Under.truth[i], Top.truth[i])],
                num_rows)
      BY <1>4, <2>1, OrSound
    <2>. QED BY <1>3, <1>6, <2>1, <2>2 DEF Or
  <1>. QED BY <1>2, <1>5, <1>6

\* The columns, statistics and filters a leaf looks at.
LEMMA ColumnFacts ==
  ASSUME Inv, NEW c \in Scanned
  PROVE  /\ num_rows \in Nat
         /\ group[c] \in [1..num_rows -> Datum]
         /\ stats[c] \in ColumnStats
         /\ ClassOf[c] \in Class
         /\ BoundsHold(stats[c], group[c])
         /\ NullCountHolds(stats[c], group[c])
         /\ FilterHolds(blooms[c], ClassOf[c], group[c])
  BY EvalAssumption DEF Inv, WalkTypeOK, MetadataHolds

\* So do a TRUE, FALSE or NULL literal,
LEMMA LiteralInv ==
  ASSUME Inv, NEW b \in Tri, Literal(b)
  PROVE  Inv'
  <1>. DEFINE c == IF b = "true" THEN "AlwaysTrue" ELSE "AlwaysFalse"
              t == [i \in 1..num_rows |-> b]
  <1>1. Sound(c, FALSE, t, num_rows)
    BY DEF Sound, Certainty, Tri
  <1>2. Push(c, FALSE, t)
    BY DEF Literal
  <1>. HIDE DEF c, t
  <1>. QED BY <1>1, <1>2, PushInv

\* an expression evaluate knows nothing about,
LEMMA OpaqueInv ==
  ASSUME Inv, NEW t \in [1..num_rows -> Tri], Opaque(t)
  PROVE  Inv'
  <1>1. Sound("Unknown", FALSE, t, num_rows)
    BY DEF Sound, Certainty
  <1>. QED BY <1>1, PushInv DEF Opaque

\* An equality the filter rejects is TRUE of no row.
LEMMA EqRejectedSound ==
  ASSUME Inv, NEW c \in Scanned, NEW lit \in Literals, NEW i \in 1..num_rows,
         EqRejected("=", c, lit)
  PROVE  CompareOp("=", group[c][i], lit.value) # "true"
  <1>1. lit.value \in Datum
    BY EvalAssumption
  <1>2. Compare(group[c][i], lit.value) # "equal"
    BY <1>1, ColumnFacts, AbsentSound DEF EqRejected
  <1>3. group[c][i] \in Datum
    BY ColumnFacts
  <1>. QED BY <1>1, <1>2, <1>3, CompareType DEF CompareOp, Accepts

\* a comparison of a column with a literal, whichever way round,
LEMMA ComparisonInv ==
  ASSUME Inv, NEW op \in ComparisonOps, NEW c \in Scanned, NEW lit \in Literals,
         Comparison(op, c, lit) \/ Mirrored(op, c, lit)
  PROVE  Inv'
  <1>. DEFINE r == EqRejected(op, c, lit)
              v == lit.value
  <1>1. v \in Datum
    BY EvalAssumption
  <1>2. \A i \in 1..num_rows : group[c][i] \in Datum
    BY ColumnFacts
  <1>3. r \in BOOLEAN
    BY DEF EqRejected, absent
  <1>4. r => op = "=" /\ \A i \in 1..num_rows : CompareOp(op, group[c][i], v) # "true"
    <2>1. r => op = "="
      BY DEF EqRejected
    <2>. QED BY <2>1, EqRejectedSound
  <1>. HIDE DEF r
  <1>5. CASE Comparison(op, c, lit)
    <2>. DEFINE d == compare_bounds(op, stats[c], v, num_rows)
                t == [i \in 1..num_rows |-> CompareOp(op, group[c][i], v)]
    <2>1. t \in [1..num_rows -> Tri]
      BY <1>1, <1>2, CompareOpValue
    <2>2. d \in Certainty
      BY <1>1, ColumnFacts, BoundsCertainty
    <2>3. \A i \in 1..num_rows : /\ d = "AlwaysFalse" => t[i] # "true"
                                 /\ d = "AlwaysTrue" => t[i] # "false"
      BY <1>1, ColumnFacts, CompareBoundsSound
    <2>4. r => \A i \in 1..num_rows : t[i] # "true"
      BY <1>4
    <2>5. Push(d, r, t)
      BY <1>5 DEF Comparison, r
    <2>. HIDE DEF d, t
    <2>6. Sound(d, r, t, num_rows)
      BY <1>3, <2>1, <2>2, <2>3, <2>4 DEF Sound
    <2>. QED BY <2>5, <2>6, PushInv
  <1>6. CASE Mirrored(op, c, lit)
    <2>. DEFINE d == compare_bounds(flip(op), stats[c], v, num_rows)
                t == [i \in 1..num_rows |-> CompareOp(op, v, group[c][i])]
    <2>1. t \in [1..num_rows -> Tri]
      BY <1>1, <1>2, CompareOpValue
    <2>2. flip(op) \in ComparisonOps
      BY DEF flip, ComparisonOps
    <2>3. \A i \in 1..num_rows : t[i] = CompareOp(flip(op), group[c][i], v)
      BY <1>1, <1>2, MirroredCompare
    <2>4. d \in Certainty
      BY <1>1, <2>2, ColumnFacts, BoundsCertainty
    <2>5. \A i \in 1..num_rows : /\ d = "AlwaysFalse" => t[i] # "true"
                                 /\ d = "AlwaysTrue" => t[i] # "false"
      BY <1>1, <2>2, <2>3, ColumnFacts, CompareBoundsSound
    <2>6. r => \A i \in 1..num_rows : t[i] # "true"
      BY <1>4, <2>3 DEF flip
    <2>7. Push(d, r, t)
      BY <1>6 DEF Mirrored, r
    <2>. HIDE DEF d, t
    <2>8. Sound(d, r, t, num_rows)
      BY <1>3, <2>1, <2>4, <2>5, <2>6 DEF Sound
    <2>. QED BY <2>7, <2>8, PushInv
  <1>. QED BY <1>5, <1>6

\* The verdict on a leaf is a verdict, whatever it is given.
LEMMA LeafCertainty ==
  ASSUME NEW s, NEW lo, NEW hi, NEW items, NEW negated \in BOOLEAN, NEW n
  PROVE  /\ IsNullCertainty(s, negated, n) \in Certainty
         /\ BetweenCertainty(s, lo, hi, negated, n) \in Certainty
         /\ InListCertainty(s, items, negated, n) \in Certainty
  <1>1. IsNullCertainty(s, negated, n) \in Certainty
    BY DEF IsNullCertainty, Certainty
  <1>2. BetweenCertainty(s, lo, hi, negated, n) \in Certainty
    BY DEF BetweenCertainty, and, not, Certainty
  <1>3. InListCertainty(s, items, negated, n) \in Certainty
    BY DEF InListCertainty, WithoutBounds, Certainty
  <1>. QED BY <1>1, <1>2, <1>3

\* Pushing a leaf whose verdict is sound for each row on its own.
LEMMA LeafInv ==
  ASSUME Inv, NEW d \in Certainty, NEW r \in BOOLEAN, NEW t \in [1..num_rows -> Tri],
         Push(d, r, t),
         \A i \in 1..num_rows : /\ d = "AlwaysFalse" => t[i] # "true"
                                /\ d = "AlwaysTrue" => t[i] # "false"
                                /\ r => t[i] # "true"
  PROVE  Inv'
  <1>1. Sound(d, r, t, num_rows)
    BY DEF Sound
  <1>. QED BY <1>1, PushInv

\* an IS NULL,
LEMMA IsNullInv ==
  ASSUME Inv, NEW c \in Scanned, NEW negated \in BOOLEAN, IsNull(c, negated)
  PROVE  Inv'
  <1>. DEFINE d == IsNullCertainty(stats[c], negated, num_rows)
              t == [i \in 1..num_rows |-> IsNullTruth(group[c][i], negated)]
  <1>1. t \in [1..num_rows -> Tri]
    BY DEF IsNullTruth, Tri
  <1>2. d \in Certainty
    BY LeafCertainty
  <1>3. \A i \in 1..num_rows : /\ d = "AlwaysFalse" => t[i] # "true"
                               /\ d = "AlwaysTrue" => t[i] # "false"
    BY ColumnFacts, IsNullSound
  <1>4. Push(d, FALSE, t)
    BY DEF IsNull
  <1>. HIDE DEF d, t
  <1>. QED BY <1>1, <1>2, <1>3, <1>4, LeafInv

\* a BETWEEN,
LEMMA BetweenInv ==
  ASSUME Inv, NEW c \in Scanned, NEW lo \in Literals, NEW hi \in Literals,
         NEW negated \in BOOLEAN, Between(c, lo, hi, negated)
  PROVE  Inv'
  <1>. DEFINE d == BetweenCertainty(stats[c], lo.value, hi.value, negated, num_rows)
              t == [i \in 1..num_rows |-> BetweenTruth(group[c][i], lo.value, hi.value, negated)]
  <1>1. lo.value \in Datum /\ hi.value \in Datum
    BY EvalAssumption
  <1>2. \A i \in 1..num_rows : /\ t[i] \in Tri
                               /\ d = "AlwaysFalse" => t[i] # "true"
                               /\ d = "AlwaysTrue" => t[i] # "false"
    BY <1>1, ColumnFacts, BetweenSound
  <1>3. d \in Certainty
    BY LeafCertainty
  <1>4. t \in [1..num_rows -> Tri]
    BY <1>2
  <1>5. Push(d, FALSE, t)
    BY DEF Between
  <1>. HIDE DEF d, t
  <1>. QED BY <1>2, <1>3, <1>4, <1>5, LeafInv

\* A positive IN list the filter rejects is TRUE of no row.
LEMMA InListRejectedSound ==
  ASSUME Inv, NEW c \in Scanned, NEW items \in ItemLists, NEW i \in 1..num_rows,
         blooms[c] # NoFilter, InListRejected(blooms[c], ClassOf[c], items)
  PROVE  InListTruth(group[c][i], {lit.value : lit \in items}, FALSE) # "true"
  <1>1. ASSUME NEW lit \in items
        PROVE  Compare(group[c][i], lit.value) # "equal"
    <2>1. lit.value \in Datum
      BY EvalAssumption
    <2>2. lit.value = NULL \/ absent(blooms[c], ClassOf[c], lit)
      BY DEF InListRejected
    <2>. QED BY <2>1, <2>2, ColumnFacts, AbsentSound
  <1>2. ~ \E v \in {lit.value : lit \in items} : Compare(group[c][i], v) = "equal"
    BY <1>1
  <1>. QED BY <1>2 DEF InListTruth

\* and an IN.
LEMMA InListInv ==
  ASSUME Inv, NEW c \in Scanned, NEW items \in ItemLists,
         NEW negated \in BOOLEAN, InList(c, items, negated)
  PROVE  Inv'
  <1>. DEFINE values == {lit.value : lit \in items}
              d == InListCertainty(stats[c], values, negated, num_rows)
              r == /\ ~ negated
                   /\ blooms[c] # NoFilter
                   /\ InListRejected(blooms[c], ClassOf[c], items)
              t == [i \in 1..num_rows |-> InListTruth(group[c][i], values, negated)]
  <1>1. values \in SUBSET Datum
    BY EvalAssumption
  <1>2. \A i \in 1..num_rows : /\ t[i] \in Tri
                               /\ d \in Certainty \ {"AlwaysTrue"}
                               /\ d = "AlwaysFalse" => t[i] # "true"
    <2>. HIDE DEF values
    <2>. QED BY <1>1, ColumnFacts, InListSound
  <1>3. \A i \in 1..num_rows : r => t[i] # "true"
    BY InListRejectedSound
  <1>4. d \in Certainty
    BY LeafCertainty
  <1>5. t \in [1..num_rows -> Tri]
    BY <1>2
  <1>6. r \in BOOLEAN
    OBVIOUS
  <1>7. Push(d, r, t)
    BY DEF InList
  <1>. HIDE DEF d, r, t, values
  <1>. QED BY <1>2, <1>3, <1>4, <1>5, <1>6, <1>7, LeafInv

\* Every step of the walk keeps the invariant.
LEMMA NextInv ==
  ASSUME Inv, [WalkNext]_walkVars
  PROVE  Inv'
  <1>1. CASE \E b \in Tri : Literal(b)
    BY <1>1, LiteralInv
  <1>2. CASE \E op \in ComparisonOps, c \in Scanned, lit \in Literals :
               Comparison(op, c, lit) \/ Mirrored(op, c, lit)
    BY <1>2, ComparisonInv
  <1>3. CASE \E c \in Scanned, negated \in BOOLEAN : IsNull(c, negated)
    BY <1>3, IsNullInv
  <1>4. CASE \E c \in Scanned, negated \in BOOLEAN : \E lo, hi \in Literals :
               Between(c, lo, hi, negated)
    BY <1>4, BetweenInv
  <1>5. CASE \E c \in Scanned, negated \in BOOLEAN : \E items \in ItemLists :
               InList(c, items, negated)
    BY <1>5, InListInv
  <1>6. CASE \E truth \in [1..num_rows -> Tri] : Opaque(truth)
    BY <1>6, OpaqueInv
  <1>7. CASE Not \/ And \/ Or
    BY <1>7, ConnectiveInv
  <1>8. CASE UNCHANGED walkVars
    BY <1>8 DEF Inv, WalkTypeOK, MetadataHolds, StackSound, walkVars
  <1>. QED BY <1>1, <1>2, <1>3, <1>4, <1>5, <1>6, <1>7, <1>8 DEF WalkNext

\* The metadata keeps describing its row group, and every verdict reached is
\* sound: the invariant the pruning theorems rest on.
LEMMA Invariance == WalkSpec => []Inv
  <1>1. WalkInit => Inv
    BY InitInv
  <1>2. Inv /\ [WalkNext]_walkVars => Inv'
    BY NextInv
  <1>. QED BY <1>1, <1>2, PTL DEF WalkSpec
-----------------------------------------------------------------------------
\* Every state of the walk is well typed: the verdicts are verdicts, and each
\* entry has a truth value for every row of the group (prune::evaluate).
THEOREM TypeCorrect == WalkSpec => []WalkTypeOK
  BY Invariance, PTL DEF Inv

\* Pruning is sound for every predicate, column type, row group size and
\* statistics, computed or read from a footer: a row group that
\* row_group_can_match discards holds no row the WHERE clause keeps.
THEOREM PruningSound == WalkSpec => []ZoneMapKeepsEveryMatch
  <1>1. Inv => ZoneMapKeepsEveryMatch
    BY DEF Inv, StackSound, Sound, ZoneMapKeepsEveryMatch, NeverTrue
  <1>. QED BY <1>1, Invariance, PTL

\* A bloom filter never discards a match either, whatever the hash functions:
\* a row group bloom_rejects discards holds no row the WHERE clause keeps.
THEOREM BloomSound == WalkSpec => []BloomKeepsEveryMatch
  <1>1. Inv => BloomKeepsEveryMatch
    BY DEF Inv, StackSound, Sound, BloomKeepsEveryMatch, NeverTrue
  <1>. QED BY <1>1, Invariance, PTL

\* The reading of Certainty::AlwaysTrue that makes the NOT arm of
\* prune::evaluate sound: under it no row of the group is FALSE.
THEOREM NegationSound == WalkSpec => []AlwaysTrueRefutesFalse
  <1>1. Inv => AlwaysTrueRefutesFalse
    BY DEF Inv, StackSound, Sound, AlwaysTrueRefutesFalse, NeverFalse
  <1>. QED BY <1>1, Invariance, PTL
=============================================================================
