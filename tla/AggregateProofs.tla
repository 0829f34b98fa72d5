---------------------------- MODULE AggregateProofs ----------------------------
(***************************************************************************)
(* Proofs about what the operators hold between their steps, for every     *)
(* plan and every size of a batch: a merge join never needs a row it has   *)
(* dropped, no cursor leaves its input, and an aggregate returns each      *)
(* group once, with what the function means for its rows.                  *)
(***************************************************************************)
EXTENDS JoinProofs

-----------------------------------------------------------------------------
(* What is in the variables of a join.                                     *)

\* Every row of a join is a pair of places.
LEMMA AnswerPairs ==
  ASSUME IsJoin
  PROVE  Answer \in SUBSET Pairs(plan.left, plan.right)
  <1>1. PICK m, n : m = Len(plan.left) /\ n = Len(plan.right)
    OBVIOUS
  <1>2. m \in Nat /\ n \in Nat /\ LeftRows = 1..m /\ RightRows = 1..n
    BY <1>1, JoinPlan
  <1>3. Joined \in SUBSET ((0..m) \X (0..n))
    BY <1>2 DEF Joined
  <1>4. MatchedLeft \in SUBSET (1..m)
    BY <1>2 DEF MatchedLeft, Joined
  <1>5. ASSUME NEW L \in SUBSET (1..m)
        PROVE  {<<l, 0>> : l \in L} \in SUBSET ((0..m) \X (0..n))
    BY <1>2
  <1>6. ASSUME NEW R \in SUBSET (1..n)
        PROVE  {<<0, r>> : r \in R} \in SUBSET ((0..m) \X (0..n))
    BY <1>2
  <1>7. /\ {<<l, 0>> : l \in MatchedLeft} \in SUBSET ((0..m) \X (0..n))
        /\ {<<l, 0>> : l \in LeftRows \ MatchedLeft} \in SUBSET ((0..m) \X (0..n))
        /\ {<<0, r>> : r \in RightRows \ MatchedRight} \in SUBSET ((0..m) \X (0..n))
    BY <1>2, <1>4, <1>5, <1>6
  <1>8. Answer \in SUBSET ((0..m) \X (0..n))
    BY ONLY <1>3, <1>7 DEF Answer
  <1>. QED BY <1>1, <1>8 DEF Pairs

\* The rows of an input in the order they arrive.
LEMMA AsTheyAre ==
  ASSUME NEW input, NEW n \in Nat, DOMAIN input = 1..n
  PROVE  ListsRows([i \in DOMAIN input |-> i], n)
  <1>1. PICK list : list = [i \in DOMAIN input |-> i]
    OBVIOUS
  <1>2. list \in [1..n -> 1..n] /\ \A i \in 1..n : list[i] = i
    BY <1>1
  <1>3. list \in Seq(1..n) /\ Len(list) = n /\ DOMAIN list = 1..n
    BY <1>2, IsASeq
  <1>4. EachOnce(list)
    BY <1>2, <1>3 DEF EachOnce
  <1>5. ToSet(list) = 1..n
    BY <1>2, <1>3 DEF ToSet
  <1>. QED BY <1>1, <1>3, <1>4, <1>5 DEF ListsRows

\* A join reads every row of its inputs once, sorted first or not.
LEMMA InputArrives ==
  ASSUME NEW input, NEW n \in Nat, DOMAIN input = 1..n,
         NEW columns \in Seq(Nat \ {0}),
         \A r \in 1..n, c \in DOMAIN columns : input[r][columns[c]] \in Datum
  PROVE  ListsRows(Arrival(input, columns), n)
  <1>1. ListsRows(sort(input, sorted_on(columns)), n)
    <2>1. PICK specs : specs = sorted_on(columns)
      OBVIOUS
    <2>2. PICK m \in Nat : m = Len(columns) /\ DOMAIN columns = 1..m
      BY LenProperties
    <2>3. specs = [c \in 1..m |-> [column |-> columns[c], ascending |-> TRUE, nulls_first |-> TRUE]]
      BY <2>1, <2>2 DEF sorted_on
    <2>4. \A c \in 1..m : columns[c] \in Nat \ {0}
      BY <2>2
    <2>5. specs \in [1..m -> OrderKey]
      BY <2>3, <2>4 DEF OrderKey
    <2>6. specs \in Seq(OrderKey) /\ DOMAIN specs = 1..m
      BY <2>5, IsASeq
    <2>7. \A c \in 1..m : specs[c].column = columns[c]
      BY <2>3
    <2>8. \A r \in 1..n : HasKeys(input[r], specs)
      BY <2>2, <2>6, <2>7 DEF HasKeys
    <2>9. Sortable(input, n, specs)
      BY <2>6, <2>8 DEF Sortable
    <2>. QED BY <2>1, <2>9, SortLists
  <1>2. ListsRows([i \in DOMAIN input |-> i], n)
    BY AsTheyAre
  <1>. QED BY <1>1, <1>2 DEF Arrival

LEMMA SidesArrive ==
  ASSUME Init, IsJoin
  PROVE  ListsRows(left, Len(plan.left)) /\ ListsRows(right, Len(plan.right))
  <1>1. PICK m, n, q, a, b : /\ m = Len(plan.left) /\ n = Len(plan.right) /\ q = plan.equi
                             /\ a = [i \in DOMAIN plan.equi |-> plan.equi[i].left]
                             /\ b = [i \in DOMAIN plan.equi |-> plan.equi[i].right]
    OBVIOUS
  <1>2. /\ m \in Nat /\ DOMAIN plan.left = 1..m /\ n \in Nat /\ DOMAIN plan.right = 1..n
        /\ q \in Seq([left : Nat \ {0}, right : Nat \ {0}, bare : BOOLEAN])
    BY <1>1, JoinPlan DEF LeftRows, RightRows
  <1>3. PICK k \in Nat : k = Len(q) /\ DOMAIN q = 1..k
    BY <1>2, LenProperties
  <1>4. \A i \in 1..k : q[i].left \in Nat \ {0} /\ q[i].right \in Nat \ {0}
    <2>1. \A i \in 1..k : q[i] \in [left : Nat \ {0}, right : Nat \ {0}, bare : BOOLEAN]
      BY ONLY <1>2, <1>3, ElementOfSeq
    <2>. QED BY ONLY <2>1
  <1>5. a = [i \in 1..k |-> q[i].left] /\ b = [i \in 1..k |-> q[i].right]
    BY <1>1, <1>3
  <1>6. a \in Seq(Nat \ {0}) /\ DOMAIN a = 1..k
    <2>1. a \in [1..k -> Nat \ {0}]
      BY ONLY <1>4, <1>5
    <2>. QED BY ONLY <1>3, <2>1, IsASeq
  <1>7. b \in Seq(Nat \ {0}) /\ DOMAIN b = 1..k
    <2>1. b \in [1..k -> Nat \ {0}]
      BY ONLY <1>4, <1>5
    <2>. QED BY ONLY <1>3, <2>1, IsASeq
  <1>8. PICK V : V = KeyParts(plan)
    OBVIOUS
  <1>9. V \subseteq Datum
    BY <1>8, KeysOf
  <1>10. \A i \in 1..k : q[i] \in ToSet(q)
    BY <1>3 DEF ToSet
  <1>11. \A r \in 1..m, c \in 1..k : plan.left[r][a[c]] \in V
    <2>1. PICK C : C = {e.left : e \in ToSet(q)}
      OBVIOUS
    <2>2. \A c \in 1..k : a[c] \in C
      BY ONLY <1>5, <1>10, <2>1
    <2>3. \A r \in 1..m, c \in C : plan.left[r][c] \in Held(plan.left, C)
      BY ONLY <1>2 DEF Held
    <2>4. Held(plan.left, C) \subseteq V
      BY ONLY <1>1, <1>8, <2>1 DEF KeyParts
    <2>. QED BY ONLY <2>2, <2>3, <2>4
  <1>12. \A r \in 1..n, c \in 1..k : plan.right[r][b[c]] \in V
    <2>1. PICK C : C = {e.right : e \in ToSet(q)}
      OBVIOUS
    <2>2. \A c \in 1..k : b[c] \in C
      BY ONLY <1>5, <1>10, <2>1
    <2>3. \A r \in 1..n, c \in C : plan.right[r][c] \in Held(plan.right, C)
      BY ONLY <1>2 DEF Held
    <2>4. Held(plan.right, C) \subseteq V
      BY ONLY <1>1, <1>8, <2>1 DEF KeyParts
    <2>. QED BY ONLY <2>2, <2>3, <2>4
  <1>13. left = Arrival(plan.left, a) /\ right = Arrival(plan.right, b)
    BY <1>1 DEF Init, MergeInit, IsJoin
  <1>14. ListsRows(left, m)
    BY <1>2, <1>6, <1>9, <1>11, <1>13, InputArrives
  <1>15. ListsRows(right, n)
    BY <1>2, <1>7, <1>9, <1>12, <1>13, InputArrives
  <1>. QED BY <1>1, <1>14, <1>15

\* What a join holds beside what it owes: only the variables of its algorithm ever
\* change, and, in step or not, a merge join reads rows of its inputs and marks those
\* of a run.
HashShape ==
  /\ build_read \in BOOLEAN /\ flushing \in BOOLEAN
  /\ ~ build_read => index = <<>>
  /\ ~ preserves_right(plan.type) => matched = {}

NoHash ==
  build_read = FALSE /\ index = <<>> /\ probe_at = 0 /\ matched = {} /\ flushing = FALSE /\ flush_pos = 0

NoMerge ==
  /\ left \in Seq(LeftRows) /\ right \in Seq(RightRows)
  /\ left_at = 1 /\ right_at = 1 /\ run = <<>> /\ run_matched = {}
  /\ pending = <<>> /\ finished = FALSE

JoinRows == Pairs(plan.left, plan.right)

MergeShape ==
  /\ ListsRows(left, Len(plan.left)) /\ ListsRows(right, Len(plan.right))
  /\ left_at \in 1..AfterLeft /\ right_at \in 1..AfterRight
  /\ run \in Seq(RightRows) /\ EachOnce(run)
  /\ run_matched \subseteq ToSet(run) /\ finished \in BOOLEAN
  /\ out \in Seq(JoinRows) /\ pending \in Seq(JoinRows)

JoinShape ==
  plan.kind = "join" =>
    IF build_join(plan) = "merge" THEN NoHash /\ MergeShape ELSE HashShape /\ NoMerge

LEMMA JoinShapeFirst ==
  ASSUME Init, plan.kind = "join"
  PROVE  JoinShape
  <1>1. IsJoin
    BY DEF Init, OperatorInit, IsJoin, PlanGiven
  <1>2. NoHash /\ HashShape
    BY DEF Init, HashInit, NoHash, HashShape
  <1>3. /\ left_at = 1 /\ right_at = 1 /\ run = <<>> /\ run_matched = {}
        /\ pending = <<>> /\ finished = FALSE /\ out = <<>>
    BY DEF Init, MergeInit, OperatorInit
  <1>4. ListsRows(left, Len(plan.left)) /\ ListsRows(right, Len(plan.right))
    BY <1>1, SidesArrive
  <1>5. /\ Len(plan.left) \in Nat /\ LeftRows = 1..Len(plan.left)
        /\ Len(plan.right) \in Nat /\ RightRows = 1..Len(plan.right)
    BY <1>1, JoinPlan
  <1>6. MergeShape
    <2>1. left_at \in 1..AfterLeft /\ right_at \in 1..AfterRight
      BY <1>3, <1>5 DEF AfterLeft, AfterRight
    <2>2. run \in Seq(RightRows) /\ out \in Seq(JoinRows) /\ pending \in Seq(JoinRows) /\ Len(run) = 0
      BY <1>3, EmptySeq
    <2>3. EachOnce(run)
      BY <2>2 DEF EachOnce
    <2>. QED BY <1>3, <1>4, <2>1, <2>2, <2>3 DEF MergeShape
  <1>7. NoMerge
    BY <1>3, <1>4, <1>5 DEF NoMerge, ListsRows
  <1>. QED BY <1>2, <1>6, <1>7, Zenon DEF JoinShape

\* What are marked of a run are rows of it.
LEMMA MarkedInRun ==
  ASSUME NEW group \in Seq(RightRows), EachOnce(group)
  PROVE  Marked(group) \in SUBSET ToSet(group)
  <1>1. PICK kept, hits : /\ kept = {m \in RightRows : residual_holds(leftRow, m)}
                          /\ hits = Those(group, kept)
    OBVIOUS
  <1>2. hits \in Seq(RightRows) /\ ToSet(hits) = ToSet(group) \cap kept
    BY <1>1, Selected
  <1>3. Marked(group) = IF is_filtering(plan.type) /\ hits # <<>> THEN {hits[1]} ELSE ToSet(hits)
    BY <1>1 DEF Marked, Matches
  <1>4. hits # <<>> => hits[1] \in ToSet(hits)
    <2>1. hits # <<>> => Len(hits) \in Nat \ {0}
      BY <1>2, EmptySeq
    <2>2. DOMAIN hits = 1..Len(hits)
      BY <1>2, LenProperties
    <2>. QED BY <2>1, <2>2 DEF ToSet
  <1>. QED BY <1>2, <1>3, <1>4

\* What a merge join adds to its output are pairs of places.
LEMMA PairedRows ==
  ASSUME NEW P, NEW R, NEW x, \A r \in R : <<x, r>> \in P, NEW s \in Seq(R)
  PROVE  [i \in DOMAIN s |-> <<x, s[i]>>] \in Seq(P)
  <1>1. PICK n \in Nat : n = Len(s) /\ DOMAIN s = 1..n
    BY LenProperties
  <1>2. \A i \in 1..n : s[i] \in R
    BY <1>1
  <1>3. [i \in DOMAIN s |-> <<x, s[i]>>] \in [1..n -> P]
    BY <1>1, <1>2
  <1>. QED BY <1>3, IsASeq

LEMMA JoinRowsOf ==
  ASSUME IsJoin
  PROVE  /\ \A l \in LeftRows : <<l, 0>> \in JoinRows
         /\ \A r \in RightRows : <<0, r>> \in JoinRows
         /\ \A l \in LeftRows, r \in RightRows : <<l, r>> \in JoinRows
  BY JoinPlan DEF JoinRows, Pairs

LEMMA OneRow ==
  ASSUME NEW P, NEW p \in P
  PROVE  <<p>> \in Seq(P) /\ <<>> \in Seq(P)
  OBVIOUS

LEMMA EmittedRows ==
  ASSUME IsJoin, leftRow \in LeftRows, NEW group \in Seq(RightRows), EachOnce(group)
  PROVE  Emitted(group) \in Seq(JoinRows)
  <1>1. PICK l, P, hits : l = leftRow /\ P = JoinRows /\ hits = Matches(group)
    OBVIOUS
  <1>2. hits \in Seq(RightRows)
    BY <1>1, Selected DEF Matches
  <1>3. <<l, 0>> \in P /\ \A r \in RightRows : <<l, r>> \in P
    BY <1>1, JoinRowsOf
  <1>4. <<<<l, 0>>>> \in Seq(P) /\ <<>> \in Seq(P)
    BY <1>3, OneRow
  <1>5. [i \in DOMAIN hits |-> <<l, hits[i]>>] \in Seq(P)
    BY ONLY <1>2, <1>3, PairedRows
  <1>. QED BY <1>1, <1>4, <1>5 DEF Emitted

LEMMA UnmatchedRows ==
  ASSUME IsJoin, run \in Seq(RightRows), EachOnce(run)
  PROVE  Unmatched \in Seq(JoinRows)
  <1>1. PICK P, lonely : P = JoinRows /\ lonely = Those(run, RightRows \ run_matched)
    OBVIOUS
  <1>2. lonely \in Seq(RightRows)
    BY <1>1, Selected
  <1>3. \A r \in RightRows : <<0, r>> \in P
    BY <1>1, JoinRowsOf
  <1>4. [i \in DOMAIN lonely |-> <<0, lonely[i]>>] \in Seq(P)
    BY ONLY <1>2, <1>3, PairedRows
  <1>5. <<>> \in Seq(P)
    OBVIOUS
  <1>. QED BY <1>1, <1>4, <1>5 DEF Unmatched

LEMMA Joining ==
  ASSUME NEW P, NEW s \in Seq(P), NEW t \in Seq(P), NEW u \in Seq(P)
  PROVE  s \o t \in Seq(P) /\ (s \o t) \o u \in Seq(P)
  OBVIOUS

\* What the cursors of a merge join are at.
LEMMA Cursors ==
  ASSUME IsJoin, MergeShape
  PROVE  /\ HasLeft => leftRow \in LeftRows /\ left_at + 1 \in 1..AfterLeft
         /\ HasRight => rightRow \in RightRows /\ right_at + 1 \in 1..AfterRight
         /\ Len(right) = Len(plan.right) /\ right_at \in Nat \ {0}
  <1>1. PICK m, n, la, ra : m = Len(plan.left) /\ n = Len(plan.right) /\ la = left_at /\ ra = right_at
    OBVIOUS
  <1>2. m \in Nat /\ LeftRows = 1..m /\ n \in Nat /\ RightRows = 1..n
    BY <1>1, JoinPlan
  <1>3. /\ left \in Seq(1..m) /\ Len(left) = m /\ right \in Seq(1..n) /\ Len(right) = n
        /\ la \in 1..m + 1 /\ ra \in 1..n + 1
    BY <1>1 DEF MergeShape, ListsRows, AfterLeft, AfterRight
  <1>4. la <= m => left[la] \in 1..m /\ la + 1 \in 1..m + 1
    BY <1>2, <1>3
  <1>5. ra <= n => right[ra] \in 1..n /\ ra + 1 \in 1..n + 1
    BY <1>2, <1>3
  <1>. QED BY <1>1, <1>2, <1>3, <1>4, <1>5 DEF HasLeft, HasRight, leftRow, rightRow, AfterLeft, AfterRight

\* Where a run that is loaded ends, and its rows.
LEMMA Loaded ==
  ASSUME IsJoin, MergeShape, HasRight,
         NEW end, end = right_at + Cardinality(Sharing)
  PROVE  /\ end \in 1..AfterRight
         /\ SubSeq(right, right_at, end - 1) \in Seq(RightRows)
         /\ EachOnce(SubSeq(right, right_at, end - 1))
  <1>1. PICK n, ra, list : n = Len(plan.right) /\ ra = right_at /\ list = SubSeq(right, right_at, end - 1)
    OBVIOUS
  <1>2. n \in Nat /\ RightRows = 1..n /\ ListsRows(right, n) /\ Len(right) = n /\ right \in Seq(1..n)
    BY <1>1, JoinPlan DEF MergeShape, ListsRows
  <1>3. ra \in 1..n
    <2>1. ra \in 1..n + 1 /\ ra <= n
      BY <1>1, <1>2 DEF MergeShape, HasRight, AfterRight
    <2>. QED BY ONLY <1>2, <2>1
  <1>4. Cardinality(Sharing) \in 0..n - ra + 1
    <2>1. Sharing \in SUBSET (ra..n)
      BY <1>1, <1>2 DEF Sharing
    <2>2. IsFiniteSet(ra..n) /\ Cardinality(ra..n) = n - ra + 1
      BY ONLY <1>2, <1>3, FS_Interval
    <2>3. Cardinality(Sharing) \in Nat /\ Cardinality(Sharing) <= n - ra + 1
      BY ONLY <2>1, <2>2, FS_Subset, FS_CardinalityType
    <2>. QED BY ONLY <1>2, <1>3, <2>3
  <1>5. end \in 1..n + 1 /\ ra <= end
    <2>1. PICK c : c = Cardinality(Sharing)
      OBVIOUS
    <2>2. c \in 0..n - ra + 1 /\ end = ra + c
      BY <1>1, <1>4, <2>1
    <2>. QED BY ONLY <1>2, <1>3, <2>2
  <1>6. list \in Seq(1..n) /\ EachOnce(list)
    <2>1. CASE ra = end
      <3>1. list = <<>>
        <4>1. list = SubSeq(right, ra, end - 1) /\ end - 1 < ra /\ ra \in Int /\ end - 1 \in Int
          BY <1>1, <1>3, <1>5, <2>1
        <4>. QED BY ONLY <4>1, SubSeqEmpty
      <3>2. <<>> \in Seq(1..n) /\ Len(<<>>) = 0
        BY EmptySeq
      <3>. QED BY <3>1, <3>2 DEF EachOnce
    <2>2. CASE ra # end
      <3>1. IsLoaded(list, right, n, ra, end)
        BY <1>1, <1>3, <1>5, <2>2 DEF IsLoaded
      <3>2. ListsPart(list, right, n, ra, end)
        BY ONLY <1>2, <3>1, Loading
      <3>. QED BY <3>2 DEF ListsPart
    <2>. QED BY <2>1, <2>2
  <1>. QED BY <1>1, <1>2, <1>5, <1>6 DEF AfterRight

\* What ReturnPending takes from the pending rows are rows, and so are those it leaves.
LEMMA TakenRows ==
  ASSUME NEW P, NEW s \in Seq(P), NEW take \in 0..Len(s)
  PROVE  SubSeq(s, 1, take) \in Seq(P) /\ SubSeq(s, take + 1, Len(s)) \in Seq(P)
  <1>1. PICK n \in Nat : n = Len(s) /\ \A i \in 1..n : s[i] \in P
    BY LenProperties
  <1>2. SubSeq(s, 1, take) \in Seq(P)
    <2>1. 1 \in Int /\ take \in Int /\ \A i \in 1..take : s[i] \in P
      BY <1>1
    <2>. QED BY ONLY <2>1, SubSeqProperties
  <1>3. SubSeq(s, take + 1, n) \in Seq(P)
    <2>1. n \in Int /\ take + 1 \in Int /\ \A i \in take + 1..n : s[i] \in P
      BY <1>1
    <2>. QED BY ONLY <2>1, SubSeqProperties
  <1>. QED BY <1>1, <1>2, <1>3

\* Every step of a merge join keeps its shape,
LEMMA MergeShapeKept ==
  ASSUME IsJoin, MergeShape, MergeNext
  PROVE  MergeShape'
  <1>1. PICK P, R : P = JoinRows /\ R = RightRows
    OBVIOUS
  <1>2. plan' = plan /\ left' = left /\ right' = right
    BY DEF MergeNext, Replay, StepLeft, StepRight, Meet, Exhausted, ReturnPending, sideVars
  <1>3. JoinRows' = P /\ RightRows' = R /\ AfterLeft' = AfterLeft /\ AfterRight' = AfterRight
    BY <1>1, <1>2, JoinDecides DEF JoinRows, AfterLeft, AfterRight
  <1>4. ListsRows(left, Len(plan.left))' /\ ListsRows(right, Len(plan.right))'
    BY <1>2 DEF MergeShape
  <1>5. /\ left_at \in 1..AfterLeft /\ right_at \in 1..AfterRight
        /\ run \in Seq(R) /\ EachOnce(run) /\ run_matched \subseteq ToSet(run)
        /\ finished \in BOOLEAN /\ out \in Seq(P) /\ pending \in Seq(P)
    BY <1>1 DEF MergeShape
  <1>6. Unmatched \in Seq(P) /\ <<>> \in Seq(P)
    BY <1>1, <1>5, UnmatchedRows
  <1>7. <<>> \in Seq(R) /\ EachOnce(<<>>)
    BY EmptySeq DEF EachOnce
  <1>8. SUFFICES /\ left_at' \in 1..AfterLeft /\ right_at' \in 1..AfterRight
                 /\ run' \in Seq(R) /\ EachOnce(run)' /\ run_matched' \subseteq ToSet(run')
                 /\ finished' \in BOOLEAN /\ out' \in Seq(P) /\ pending' \in Seq(P)
    BY <1>3, <1>4 DEF MergeShape
  <1>9. CASE Replay
    <2>1. /\ run' = run /\ run_matched' = run_matched \cup Marked(run) /\ finished' = finished
          /\ left_at' = left_at + 1 /\ right_at' = right_at /\ out' = out
          /\ pending' = pending \o Emitted(run) /\ HasLeft
      BY <1>9 DEF Replay, Replays
    <2>2. leftRow \in LeftRows /\ left_at' \in 1..AfterLeft
      BY <2>1, Cursors
    <2>3. Marked(run) \in SUBSET ToSet(run) /\ Emitted(run) \in Seq(P)
      BY <1>1, <1>5, <2>2, MarkedInRun, EmittedRows
    <2>4. pending' \in Seq(P)
      BY ONLY <1>5, <2>1, <2>3, Joining
    <2>. QED BY <1>5, <2>1, <2>2, <2>3, <2>4 DEF EachOnce
  <1>10. CASE StepLeft
    <2>1. /\ run' = <<>> /\ run_matched' = {} /\ finished' = finished
          /\ left_at' = left_at + 1 /\ right_at' = right_at /\ out' = out /\ HasLeft
          /\ \E t \in {<<>>, <<<<leftRow, 0>>>>} : pending' = (pending \o Unmatched) \o t
      BY <1>10 DEF StepLeft, LeftIsLonely, NoRun
    <2>2. leftRow \in LeftRows /\ left_at' \in 1..AfterLeft
      BY <2>1, Cursors
    <2>3. <<<<leftRow, 0>>>> \in Seq(P)
      BY <1>1, <2>2, JoinRowsOf, OneRow
    <2>4. pending' \in Seq(P)
      <3>1. PICK t \in Seq(P) : pending' = (pending \o Unmatched) \o t
        BY <1>6, <2>1, <2>3
      <3>. QED BY ONLY <1>5, <1>6, <3>1, Joining
    <2>. QED BY <1>5, <1>7, <2>1, <2>2, <2>4 DEF EachOnce
  <1>11. CASE StepRight
    <2>1. /\ run' = <<>> /\ run_matched' = {} /\ finished' = finished
          /\ right_at' = right_at + 1 /\ left_at' = left_at /\ out' = out /\ HasRight
          /\ \E t \in {<<>>, <<<<0, rightRow>>>>} : pending' = (pending \o Unmatched) \o t
      BY <1>11 DEF StepRight, RightIsLonely, NoRun
    <2>2. rightRow \in RightRows /\ right_at' \in 1..AfterRight
      BY <2>1, Cursors
    <2>3. <<<<0, rightRow>>>> \in Seq(P)
      BY <1>1, <2>2, JoinRowsOf, OneRow
    <2>4. pending' \in Seq(P)
      <3>1. PICK t \in Seq(P) : pending' = (pending \o Unmatched) \o t
        BY <1>6, <2>1, <2>3
      <3>. QED BY ONLY <1>5, <1>6, <3>1, Joining
    <2>. QED BY <1>5, <1>7, <2>1, <2>2, <2>4 DEF EachOnce
  <1>12. CASE Meet
    <2>1. PICK end, loaded : /\ end = right_at + Cardinality(Sharing)
                             /\ loaded = SubSeq(right, right_at, end - 1)
      OBVIOUS
    <2>2. /\ run' = loaded /\ run_matched' = Marked(loaded) /\ finished' = finished
          /\ left_at' = left_at + 1 /\ right_at' = end /\ out' = out /\ HasLeft /\ HasRight
          /\ pending' = (pending \o Unmatched) \o Emitted(loaded)
      BY <1>12, <2>1 DEF Meet
    <2>3. leftRow \in LeftRows /\ left_at' \in 1..AfterLeft
      BY <2>2, Cursors
    <2>4. end \in 1..AfterRight /\ loaded \in Seq(R) /\ EachOnce(loaded)
      BY <1>1, <2>1, <2>2, Loaded
    <2>5. Marked(loaded) \in SUBSET ToSet(loaded) /\ Emitted(loaded) \in Seq(P)
      BY <1>1, <2>3, <2>4, MarkedInRun, EmittedRows
    <2>6. pending' \in Seq(P)
      BY ONLY <1>5, <1>6, <2>2, <2>5, Joining
    <2>. QED BY <1>5, <2>2, <2>3, <2>4, <2>5, <2>6 DEF EachOnce
  <1>13. CASE Exhausted
    <2>1. /\ run' = <<>> /\ run_matched' = {} /\ finished' = TRUE
          /\ right_at' = right_at /\ left_at' = left_at /\ out' = out
          /\ pending' = pending \o Unmatched
      BY <1>13 DEF Exhausted, NoRun, sideVars
    <2>2. pending' \in Seq(P)
      BY ONLY <1>5, <1>6, <2>1, Joining
    <2>. QED BY <1>5, <1>7, <2>1, <2>2 DEF EachOnce
  <1>14. CASE ReturnPending
    <2>1. PICK take : take = IF Len(pending) < BatchSize THEN Len(pending) ELSE BatchSize
      OBVIOUS
    <2>2. take \in 0..Len(pending)
      <3>1. Len(pending) \in Nat
        BY <1>5, LenProperties
      <3>. QED BY <2>1, <3>1, BatchAssumption
    <2>3. /\ out' = out \o SubSeq(pending, 1, take)
          /\ pending' = SubSeq(pending, take + 1, Len(pending))
          /\ UNCHANGED <<left_at, right_at, run, run_matched, finished>>
      BY <1>14, <2>1 DEF ReturnPending, sideVars, runVars
    <2>4. SubSeq(pending, 1, take) \in Seq(P) /\ SubSeq(pending, take + 1, Len(pending)) \in Seq(P)
      BY ONLY <1>5, <2>2, TakenRows
    <2>5. out' \in Seq(P)
      BY ONLY <1>5, <2>3, <2>4, Joining
    <2>. QED BY <1>5, <2>3, <2>4, <2>5 DEF EachOnce
  <1>. QED BY <1>9, <1>10, <1>11, <1>12, <1>13, <1>14 DEF MergeNext

\* and every step of a hash join or a nested loop.
LEMMA HashShapeKept ==
  ASSUME HashShape, NEW algorithm, HashNext(algorithm)
  PROVE  HashShape'
  <1>1. plan' = plan
    BY DEF HashNext, Build, Probe, ProbeEnd, Flush
  <1>2. CASE Build
    BY <1>1, <1>2 DEF Build, HashShape, flushVars
  <1>3. ASSUME NEW n \in 1..BatchSize, Probe(algorithm, n)
        PROVE  HashShape'
    BY <1>1, <1>3 DEF Probe, HashShape, buildVars, flushVars
  <1>4. CASE ProbeEnd
    BY <1>1, <1>4 DEF ProbeEnd, HashShape, buildVars
  <1>5. CASE Flush
    BY <1>1, <1>5 DEF Flush, HashShape, buildVars
  <1>. QED BY <1>2, <1>3, <1>4, <1>5 DEF HashNext

LEMMA JoinShapeKept ==
  ASSUME JoinInv, JoinShape, [Next]_vars, plan.kind = "join"
  PROVE  JoinShape'
  <1>1. plan' = plan /\ IsJoin
    BY HeapSteps DEF JoinInv, IsJoin
  <1>2. PICK how : how = build_join(plan)
    OBVIOUS
  <1>3. build_join(plan)' = how
    BY <1>1, <1>2
  <1>4. UNCHANGED hashVars /\ NoHash => NoHash'
    BY DEF hashVars, buildVars, flushVars, NoHash
  <1>5. UNCHANGED mergeVars /\ NoMerge => NoMerge'
    BY <1>1, JoinDecides DEF mergeVars, sideVars, runVars, NoMerge
  <1>6. UNCHANGED <<mergeVars, out>> /\ MergeShape => MergeShape'
    BY <1>1, JoinDecides DEF mergeVars, sideVars, runVars, MergeShape, AfterLeft, AfterRight, JoinRows, EachOnce
  <1>7. UNCHANGED hashVars /\ HashShape => HashShape'
    BY <1>1 DEF hashVars, buildVars, flushVars, HashShape
  <1>8. CASE how = "merge"
    <2>1. NoHash /\ MergeShape
      BY <1>1, <1>2, <1>8 DEF IsJoin, JoinShape
    <2>2. NoHash' /\ MergeShape'
      <3>1. CASE UNCHANGED <<plan, out, joinVars>>
        BY <1>4, <1>6, <2>1, <3>1 DEF joinVars
      <3>2. CASE Joins
        <4>1. UNCHANGED hashVars /\ MergeNext
          BY <1>2, <1>8, <3>2, Zenon DEF Joins
        <4>. QED BY <1>1, <1>4, <2>1, <4>1, MergeShapeKept
      <3>. QED BY <3>1, <3>2, JoinSteps
    <2>. QED BY <1>3, <1>8, <2>2 DEF JoinShape
  <1>9. CASE how # "merge"
    <2>1. HashShape /\ NoMerge
      BY <1>1, <1>2, <1>9 DEF IsJoin, JoinShape
    <2>2. HashShape' /\ NoMerge'
      <3>1. CASE UNCHANGED joinVars
        BY <1>5, <1>7, <2>1, <3>1 DEF joinVars
      <3>2. CASE Joins
        <4>1. UNCHANGED mergeVars /\ \E algorithm : HashNext(algorithm)
          BY <1>2, <1>9, <3>2, Zenon DEF Joins
        <4>. QED BY <1>5, <2>1, <4>1, HashShapeKept
      <3>. QED BY <3>1, <3>2, JoinSteps
    <2>. QED BY <1>3, <1>9, <2>2 DEF JoinShape
  <1>. QED BY <1>8, <1>9

\* What the variables of a join are, then.
LEMMA JoinTyped ==
  ASSUME IsJoin, JoinInv, JoinShape
  PROVE  JoinTypeOK
  <1>1. PICK m, n, P : m = Len(plan.left) /\ n = Len(plan.right) /\ P = Pairs(plan.left, plan.right)
    OBVIOUS
  <1>2. m \in Nat /\ LeftRows = 1..m /\ n \in Nat /\ RightRows = 1..n /\ plan \in Join
    BY <1>1, JoinPlan
  <1>3. Answer \in SUBSET P
    BY <1>1, AnswerPairs
  <1>4. CASE build_join(plan) = "merge"
    <2>1. NoHash /\ MergeShape
      BY <1>4 DEF IsJoin, JoinShape
    <2>2. out \in Seq(P) /\ pending \in Seq(P)
      BY <1>1, <2>1 DEF MergeShape, JoinRows
    <2>3. /\ left \in Seq(1..m) /\ Len(left) = m
          /\ right \in Seq(1..n) /\ Len(right) = n
      BY <1>1, <2>1 DEF MergeShape, ListsRows
    <2>4. left_at \in 1..m + 1 /\ right_at \in 1..n + 1 /\ run \in Seq(1..n)
      BY <1>1, <1>2, <2>1 DEF MergeShape, AfterLeft, AfterRight
    <2>5. /\ build_read \in BOOLEAN /\ \A k \in DOMAIN index : index[k] \subseteq 1..n
          /\ probe_at \in 0..m /\ matched \subseteq 1..n /\ flushing \in BOOLEAN /\ flush_pos \in 0..n
      <3>1. build_read = FALSE /\ index = <<>> /\ probe_at = 0 /\ matched = {} /\ flushing = FALSE /\ flush_pos = 0
        BY <2>1 DEF NoHash
      <3>2. \A k \in DOMAIN index : index[k] \subseteq 1..n
        <4>1. DOMAIN <<>> = {}
          OBVIOUS
        <4>. QED BY <3>1, <4>1
      <3>3. 0 \in 0..m /\ 0 \in 0..n
        BY ONLY <1>2
      <3>. QED BY ONLY <3>1, <3>2, <3>3
    <2>6. run_matched \subseteq ToSet(run) /\ finished \in BOOLEAN
      BY <2>1 DEF MergeShape
    <2>. QED BY <1>1, <1>2, <2>2, <2>3, <2>4, <2>5, <2>6 DEF JoinTypeOK, Places
  <1>5. CASE build_join(plan) # "merge"
    <2>1. HashRun /\ HashShape /\ NoMerge
      BY <1>5 DEF IsJoin, JoinInv, JoinRun, JoinShape
    <2>2. out \in Seq(P) /\ pending \in Seq(P)
      <3>1. out \in Seq(Answer) /\ pending = <<>>
        BY <2>1 DEF HashRun, HashPaid, HasPaid, NoMerge
      <3>. QED BY <1>3, <3>1, Widened
    <2>3. \A k \in DOMAIN index : index[k] \subseteq 1..n
      <3>1. CASE build_read
        <4>1. index = KeyIndex
          BY <2>1, <3>1 DEF HashRun, HasIndex
        <4>2. \A k \in DOMAIN KeyIndex : KeyIndex[k] \subseteq RightRows
          BY DEF KeyIndex, KeyedRows
        <4>. QED BY <1>2, <4>1, <4>2
      <3>2. CASE ~ build_read
        <4>1. index = <<>>
          BY <2>1, <3>2 DEF HashShape
        <4>2. DOMAIN <<>> = {}
          OBVIOUS
        <4>. QED BY <4>1, <4>2
      <3>. QED BY <3>1, <3>2
    <2>4. matched \subseteq 1..n
      BY <1>2, <2>1 DEF HashRun, HasMatched, MatchedBy, HashShape
    <2>5. probe_at \in 0..m /\ flush_pos \in 0..n
      BY <1>1, <2>1 DEF HashRun, HashRead
    <2>6. /\ left \in Seq(1..m) /\ right \in Seq(1..n) /\ left_at = 1 /\ right_at = 1
          /\ run = <<>> /\ run_matched = {} /\ finished = FALSE
      BY <1>2, <2>1 DEF NoMerge
    <2>7. left_at \in 1..Len(left) + 1 /\ right_at \in 1..Len(right) + 1
      <3>1. Len(left) \in Nat /\ Len(right) \in Nat
        BY <2>6, LenProperties
      <3>. QED BY <2>6, <3>1
    <2>8. run \in Seq(1..n) /\ run_matched \subseteq ToSet(run) /\ finished \in BOOLEAN
      <3>1. <<>> \in Seq(1..n)
        BY EmptySeq
      <3>. QED BY ONLY <2>6, <3>1
    <2>. QED BY <1>1, <1>2, <2>1, <2>2, <2>3, <2>4, <2>5, <2>6, <2>7, <2>8 DEF JoinTypeOK, Places, HashShape
  <1>. QED BY <1>4, <1>5

\* What a merge join is past and has not kept, no left row to come joins.
LEMMA NeverLooksBack ==
  ASSUME IsJoin, InStep, JoinInv, JoinShape,
         NEW i \in 1..right_at - 1, NEW k \in left_at..Len(left), right[i] \notin ToSet(run)
  PROVE  ~ On(left[k], right[i])
  <1>1. CASE build_join(plan) # "merge"
    <2>1. right_at = 1
      BY <1>1 DEF IsJoin, JoinShape, NoMerge
    <2>. QED BY <2>1
  <1>2. CASE build_join(plan) = "merge"
    <2>1. IsMerge /\ MergeRun
      BY <1>2 DEF IsMerge, IsJoin, InStep, JoinInv, JoinRun
    <2>2. PICK m, n, la, ra : m = Len(plan.left) /\ n = Len(plan.right) /\ la = left_at /\ ra = right_at
      OBVIOUS
    <2>3. /\ m \in Nat /\ n \in Nat /\ Len(left) = m /\ DOMAIN left = 1..m /\ DOMAIN right = 1..n
          /\ la \in 1..m + 1 /\ ra \in 1..n + 1
      BY <2>1, <2>2, Sides DEF MergeRun, Merging, MergeAt, AfterLeft, AfterRight
    <2>4. i \in DOMAIN right /\ k \in DOMAIN left /\ i < ra /\ la <= k
      BY ONLY <2>2, <2>3, i \in 1..right_at - 1, k \in left_at..Len(left)
    <2>5. right[i] \in RowsBefore(right, right_at)
      BY <2>2, <2>4 DEF RowsBefore, ToSet
    <2>6. RightKey(right[i]) # run_key
      BY <2>1, <2>5 DEF MergeRun, Merging, MergeAt, HasRun
    <2>7. ~ SameKey(left[k], right[i])
      BY <2>1, <2>2, <2>4, <2>6 DEF MergeRun, Merging, MergeAt, Passed
    <2>8. left[k] \in LeftRows /\ right[i] \in RightRows
      BY <2>1, <2>4, Sides DEF MergeRun
    <2>. QED BY <2>7, <2>8, KeysMeet
  <1>. QED BY <1>1, <1>2

-----------------------------------------------------------------------------
(* What is in the variables of a sort, a top-N and a set operation.        *)

Statuses == {"running", "done", "failed"}

LEMMA StatusKept ==
  ASSUME status \in Statuses, [Next]_vars
  PROVE  status' \in Statuses
  <1>1. CASE UNCHANGED vars
    BY <1>1 DEF vars, operatorVars
  <1>2. CASE Fail
    BY <1>2 DEF Fail, Statuses
  <1>3. CASE Joins
    <2>1. ASSUME NEW algorithm, HashNext(algorithm)
          PROVE  status' \in Statuses
      BY <2>1 DEF HashNext, Build, Probe, ProbeEnd, Flush, Statuses
    <2>2. ASSUME MergeNext
          PROVE  status' \in Statuses
      BY <2>2 DEF MergeNext, Replay, StepLeft, StepRight, Meet, Exhausted, ReturnPending, Statuses
    <2>. QED BY <1>3, <2>1, <2>2 DEF Joins
  <1>4. CASE SortStep
    BY <1>4 DEF SortStep, SortBuild, TopNRow, TopNBuilt, EmitBuilt, EndBuilt, operatorVars, Statuses
  <1>5. CASE AggregateStep
    <2>1. ASSUME NEW n, StreamBatch(n)
          PROVE  status' \in Statuses
      BY <2>1 DEF StreamBatch, Statuses
    <2>. QED BY <1>5, <2>1
         DEF AggregateStep, HashOpen, HashRow, HashEmit, StreamEnd, StreamEmit, operatorVars, Statuses
  <1>6. CASE SetStep
    BY <1>6 DEF SetStep, CountRight, LeftBatch, RightBatch, LeftEnd, SetEnd, operatorVars, Statuses
  <1>7. CASE WindowStep
    BY <1>7 DEF WindowStep, WindowBuild, EmitBuilt, EndBuilt, operatorVars, Statuses
  <1>. QED BY <1>1, <1>2, <1>3, <1>4, <1>5, <1>6, <1>7 DEF Next, Step

\* What a sort and a top-N hold beside what they return.
SortShape ==
  plan.kind \in {"sort", "top-n"} =>
    /\ built \in BOOLEAN /\ at \in 0..Len(plan.input)
    /\ plan.kind = "sort" => heap = {}
    /\ ~ built => rows = <<>>

LEMMA SortShapeFirst ==
  ASSUME Init
  PROVE  SortShape
  <1>1. PlanGiven /\ built = FALSE /\ at = 0 /\ heap = {} /\ rows = <<>>
    BY DEF Init, OperatorInit, RowInit, PlanGiven
  <1>2. plan.kind \in {"sort", "top-n"} => 0 \in 0..Len(plan.input)
    <2>1. plan.kind \in {"sort", "top-n"} => Len(plan.input) \in Nat
      BY <1>1, SortPlan
    <2>. QED BY <2>1
  <1>. QED BY <1>1, <1>2 DEF SortShape

LEMMA SortShapeKept ==
  ASSUME SortInv, SortShape, [Next]_vars, plan.kind \in {"sort", "top-n"}
  PROVE  SortShape'
  <1>1. plan' = plan
    BY HeapSteps
  <1>2. PICK n : n = Len(plan.input)
    OBVIOUS
  <1>3. n \in Nat
    BY <1>2, SortPlan DEF SortInv, HeapInv
  <1>4. /\ built \in BOOLEAN /\ at \in 0..n /\ (plan.kind = "sort" => heap = {})
        /\ ~ built => rows = <<>>
    BY <1>2 DEF SortShape
  <1>5. CASE UNCHANGED <<plan, out, rowVars, heap>>
    BY <1>4, <1>2, <1>5 DEF SortShape, rowVars, builtVars
  <1>6. CASE SortBuild
    BY <1>1, <1>2, <1>3, <1>4, <1>6 DEF SortBuild, SortShape
  <1>7. CASE TopNRow
    <2>1. /\ plan.kind = "top-n" /\ at < n /\ at' = at + 1
          /\ built' = built /\ rows' = rows
      BY <1>2, <1>7 DEF TopNRow, builtVars
    <2>2. at' \in 0..n
      BY ONLY <1>3, <1>4, <2>1
    <2>. QED BY <1>1, <1>2, <1>4, <2>1, <2>2 DEF SortShape
  <1>8. CASE TopNBuilt
    BY <1>1, <1>2, <1>4, <1>8 DEF TopNBuilt, SortShape
  <1>9. CASE (EmitBuilt \/ EndBuilt) /\ UNCHANGED heap
    <2>1. built /\ built' = built /\ at' = at /\ heap' = heap
      BY <1>9 DEF EmitBuilt, EndBuilt, rowVars, builtVars
    <2>. QED BY <1>1, <1>2, <1>4, <2>1 DEF SortShape
  <1>. QED BY <1>5, <1>6, <1>7, <1>8, <1>9, SortSteps DEF SortStep

LEMMA SortTyped ==
  ASSUME SortInv, SortShape, plan.kind \in {"sort", "top-n"}
  PROVE  /\ BuiltTypeOK /\ {out, rows} \subseteq Seq(Places(plan.input))
         /\ plan.kind = "sort" => plan \in Sort
         /\ plan.kind = "top-n" => plan \in TopN
  <1>1. PICK n : n = Len(plan.input)
    OBVIOUS
  <1>2. /\ n \in Nat /\ DOMAIN plan.input = 1..n
        /\ plan.kind = "sort" => plan \in Sort
        /\ plan.kind = "top-n" => plan \in TopN /\ plan.limit \in Nat
    BY <1>1, SortPlan DEF SortInv, HeapInv
  <1>3. built \in BOOLEAN /\ at \in 0..n
    BY <1>1 DEF SortShape
  <1>4. heap \subseteq 1..n
    <2>1. CASE plan.kind = "sort"
      BY <2>1 DEF SortShape
    <2>2. CASE plan.kind = "top-n"
      <3>1. heap \subseteq 1..at
        BY <2>2 DEF SortInv, HeapInv, HeapRead
      <3>2. 1..at \subseteq 1..n
        BY ONLY <1>2, <1>3
      <3>. QED BY <3>1, <3>2
    <2>. QED BY <2>1, <2>2
  <1>5. CASE built
    <2>1. rows \in Seq(1..n) /\ Len(rows) \in 0..n
      <3>1. SortBuilt
        BY <1>5 DEF SortInv, SortRun
      <3>2. rows \in Seq(DOMAIN plan.input) /\ Len(rows) \in Nat /\ Len(rows) <= n
        BY <1>1, <1>2, <3>1, BuiltRows DEF SortInv
      <3>. QED BY ONLY <1>2, <3>2
    <2>2. out \in Seq(1..n) /\ emitted \in 0..Len(rows)
      BY <1>2, <1>5, Returned
    <2>3. emitted \in 0..n + 1
      BY ONLY <1>2, <2>1, <2>2
    <2>. QED BY <1>1, <1>2, <1>3, <1>4, <2>1, <2>2, <2>3 DEF BuiltTypeOK, Places
  <1>6. CASE ~ built
    <2>1. out = <<>> /\ rows = <<>> /\ emitted = 0
      BY <1>6 DEF SortInv, SortRun, SortShape
    <2>2. <<>> \in Seq(1..n) /\ 0 \in 0..n + 1
      BY <1>2, EmptySeq
    <2>. QED BY <1>1, <1>2, <1>3, <1>4, <2>1, <2>2 DEF BuiltTypeOK, Places
  <1>. QED BY <1>5, <1>6

\* What a set operation counts and marks.
SetShape ==
  plan.kind \in {"distinct", "set"} =>
    left_done \in BOOLEAN /\ \A key \in DOMAIN counts : counts[key] \in Nat

LEMMA SetShapeFirst ==
  ASSUME Init
  PROVE  SetShape
  BY DEF Init, NotCounted, SetShape

\* A count of the rows of a list.
LEMMA CopiesCounted ==
  ASSUME NEW n \in Nat, NEW keys, DOMAIN keys = 1..n, NEW key
  PROVE  Copies(key, keys) \in Nat
  <1>1. PICK places : places = {i \in DOMAIN keys : keys[i] = key}
    OBVIOUS
  <1>2. IsFiniteSet(1..n) /\ places \in SUBSET (1..n)
    BY <1>1, FS_Interval
  <1>3. IsFiniteSet(places)
    BY <1>2, FS_Subset
  <1>4. Cardinality(places) \in Nat
    BY <1>3, FS_CardinalityType
  <1>. QED BY <1>1, <1>4 DEF Copies

LEMMA CountedTyped ==
  ASSUME \A key \in DOMAIN counts : counts[key] \in Nat,
         NEW n \in Nat, NEW keys, DOMAIN keys = 1..n
  PROVE  \A key \in DOMAIN CountedDown(keys) : CountedDown(keys)[key] \in Nat
  <1>1. PICK c : c = counts
    OBVIOUS
  <1>2. PICK some : some = [key \in DOMAIN c |-> IF Copies(key, keys) < c[key] THEN c[key] - Copies(key, keys) ELSE 0]
    OBVIOUS
  <1>3. ASSUME NEW key \in DOMAIN c
        PROVE  some[key] \in Nat
    <2>1. Copies(key, keys) \in Nat /\ c[key] \in Nat
      BY <1>1, CopiesCounted
    <2>. QED BY <1>2, <2>1
  <1>4. DOMAIN some = DOMAIN c
    BY <1>2
  <1>5. CountedDown(keys) = c \/ CountedDown(keys) = some
    BY <1>1, <1>2 DEF CountedDown
  <1>. QED BY <1>1, <1>3, <1>4, <1>5

LEMMA SetShapeKept ==
  ASSUME SetInv, SetShape, [Next]_vars, plan.kind \in {"distinct", "set"}
  PROVE  SetShape'
  <1>1. plan' = plan
    BY HeapSteps
  <1>2. left_done \in BOOLEAN /\ \A key \in DOMAIN counts : counts[key] \in Nat
    BY DEF SetShape
  <1>3. CASE UNCHANGED <<plan, out, rowVars, setVars>>
    BY <1>2, <1>3 DEF SetShape, setVars
  <1>4. CASE CountRight
    <2>1. PICK keys : /\ keys = [r \in DOMAIN plan.right |-> RightRowKey(r)]
                      /\ counts' = [key \in Range(keys) |-> Copies(key, keys)]
                      /\ left_done' = left_done /\ plan.kind = "set"
      BY <1>4 DEF CountRight
    <2>2. plan.right \in Seq(Row) /\ Len(plan.right) \in Nat
      BY <2>1, SetPlan DEF SetInv
    <2>3. DOMAIN keys = 1..Len(plan.right)
      BY <2>1, <2>2, LenProperties
    <2>4. \A key : Copies(key, keys) \in Nat
      BY <2>2, <2>3, CopiesCounted
    <2>. QED BY <1>2, <2>1, <2>4 DEF SetShape
  <1>5. ASSUME NEW n \in 1..BatchSize, LeftBatch(n) \/ RightBatch(n)
        PROVE  SetShape'
    <2>1. PICK keys : DOMAIN keys = 1..n /\ counts' = CountedDown(keys)
      BY <1>5 DEF LeftBatch, RightBatch, Keep
    <2>2. left_done' = left_done /\ n \in Nat
      BY <1>5, BatchAssumption DEF LeftBatch, RightBatch
    <2>3. \A key \in DOMAIN counts' : counts'[key] \in Nat
      BY <1>2, <2>1, <2>2, CountedTyped
    <2>. QED BY <1>2, <2>2, <2>3 DEF SetShape
  <1>6. CASE LeftEnd
    BY <1>2, <1>6 DEF LeftEnd, SetShape
  <1>7. CASE SetEnd
    BY <1>2, <1>7 DEF SetEnd, SetShape, setVars
  <1>. QED BY <1>3, <1>4, <1>5, <1>6, <1>7, SetSteps DEF SetStep

LEMMA SetTyped ==
  ASSUME SetInv, SetShape, plan.kind \in {"distinct", "set"}
  PROVE  /\ plan \in Distinct \cup SetOp
         /\ at \in 0..Len(plan.left)
         /\ \A key \in DOMAIN counts : counts[key] \in Nat
         /\ left_done \in BOOLEAN
         /\ right_read \in Nat
  <1>1. plan \in Distinct \cup SetOp
    BY SetAssumption, KindAssumption DEF SetInv, PlanGiven
  <1>2. at \in 0..Len(plan.left) /\ right_read \in Nat
    BY DEF SetInv, SetRun, SetRead
  <1>. QED BY <1>1, <1>2 DEF SetShape

-----------------------------------------------------------------------------
(* What is in the variables of a window.                                   *)

\* The order in which an operator that has to sort asks for its rows.
LEMMA SortedOn ==
  ASSUME NEW columns \in Seq(Nat \ {0}), NEW m, m = Len(columns)
  PROVE  /\ sorted_on(columns) \in Seq(OrderKey)
         /\ Len(sorted_on(columns)) = m /\ DOMAIN sorted_on(columns) = 1..m
         /\ \A i \in 1..m : sorted_on(columns)[i].column = columns[i]
  <1>1. PICK specs : specs = sorted_on(columns)
    OBVIOUS
  <1>2. m \in Nat /\ DOMAIN columns = 1..m
    BY LenProperties
  <1>3. specs = [i \in 1..m |-> [column |-> columns[i], ascending |-> TRUE, nulls_first |-> TRUE]]
    BY <1>1, <1>2 DEF sorted_on
  <1>4. \A i \in 1..m : columns[i] \in Nat \ {0}
    BY ElementOfSeq
  <1>5. specs \in [1..m -> OrderKey]
    BY <1>3, <1>4 DEF OrderKey
  <1>6. specs \in Seq(OrderKey) /\ Len(specs) = m /\ DOMAIN specs = 1..m
    BY <1>2, <1>5, IsASeq
  <1>. QED BY <1>1, <1>3, <1>6

IsWindow == PlanGiven /\ plan.kind = "window"

LEMMA WindowPlanned ==
  ASSUME IsWindow
  PROVE  /\ plan \in WindowPlan
         /\ plan.input \in Seq(Row) /\ Len(plan.input) \in Nat
         /\ Sortable(plan.input, Len(plan.input), Specs)
  <1>1. plan \in Inputs("window")
    BY KindAssumption DEF IsWindow, PlanGiven
  <1>2. PICK p, by, order : p = plan /\ by = plan.partition_by /\ order = plan.order_by
    OBVIOUS
  <1>3. PICK columns : columns = ToSet(by) \cup {k.column : k \in ToSet(order)}
    OBVIOUS
  <1>4. p \in WindowPlan /\ Held(p.input, columns) \subseteq Datum
    BY <1>1, <1>2, <1>3, WindowAssumption
  <1>5. p.input \in Seq(Row) /\ by \in Seq(Nat \ {0}) /\ order \in Seq(OrderKey)
    BY <1>2, <1>4 DEF WindowPlan
  <1>6. PICK n, m, k : n = Len(p.input) /\ m = Len(by) /\ k = Len(order)
    OBVIOUS
  <1>7. /\ n \in Nat /\ m \in Nat /\ k \in Nat
        /\ DOMAIN p.input = 1..n /\ DOMAIN by = 1..m /\ DOMAIN order = 1..k
    BY <1>5, <1>6, LenProperties
  <1>8. PICK first : first = sorted_on(by)
    OBVIOUS
  <1>9. /\ first \in Seq(OrderKey) /\ Len(first) = m
        /\ \A i \in 1..m : first[i].column = by[i]
    BY <1>5, <1>6, <1>8, SortedOn
  <1>10. PICK specs : specs = Specs
    OBVIOUS
  <1>11. specs = first \o order
    BY <1>2, <1>8, <1>10 DEF Specs
  <1>12. /\ specs \in Seq(OrderKey) /\ Len(specs) = m + k
         /\ \A i \in 1..m + k : specs[i] = IF i <= m THEN first[i] ELSE order[i - m]
    <2>. DEFINE both == first \o order
    <2>1. first \in Seq(OrderKey) /\ order \in Seq(OrderKey)
      BY <1>5, <1>9
    <2>2. /\ both \in Seq(OrderKey) /\ Len(both) = Len(first) + Len(order)
          /\ \A i \in 1..Len(first) + Len(order) :
               both[i] = IF i <= Len(first) THEN first[i] ELSE order[i - Len(first)]
      BY ONLY <2>1, ConcatProperties
    <2>3. specs = both
      BY <1>11
    <2>. HIDE DEF both
    <2>. QED BY ONLY <1>6, <1>9, <2>2, <2>3
  <1>13. DOMAIN specs = 1..m + k
    BY <1>12, LenProperties
  <1>14. ASSUME NEW i \in 1..m + k
         PROVE  specs[i].column \in columns
    <2>1. CASE i <= m
      <3>1. i \in 1..m
        BY <1>7, <2>1
      <3>2. specs[i].column = by[i]
        BY <1>9, <1>12, <2>1, <3>1
      <3>3. by[i] \in ToSet(by)
        BY <1>7, <3>1 DEF ToSet
      <3>. QED BY <1>3, <3>2, <3>3
    <2>2. CASE ~ i <= m
      <3>1. i - m \in 1..k
        BY <1>7, <2>2
      <3>2. specs[i] = order[i - m]
        BY <1>12, <2>2
      <3>3. order[i - m] \in ToSet(order)
        BY <1>7, <3>1 DEF ToSet
      <3>. QED BY <1>3, <3>2, <3>3
    <2>. QED BY <2>1, <2>2
  <1>15. ASSUME NEW r \in 1..n
         PROVE  HasKeys(p.input[r], specs)
    <2>1. \A c \in columns : p.input[r][c] \in Datum
      BY <1>4, <1>7 DEF Held
    <2>. QED BY <1>13, <1>14, <2>1 DEF HasKeys
  <1>16. Sortable(p.input, n, specs)
    BY <1>7, <1>12, <1>15 DEF Sortable
  <1>. QED BY <1>2, <1>4, <1>5, <1>6, <1>7, <1>10, <1>16

\* A window returns what it built, and that is of rows of its input.
OfPlaces(list) == \A v \in ToSet(list) : v.row \in Places(plan.input)

WindowShape ==
  plan.kind = "window" =>
    /\ built \in BOOLEAN /\ at \in 0..Len(plan.input) /\ heap = {}
    /\ rows \in Seq(ToSet(rows)) /\ OfPlaces(rows)
    /\ Len(rows) = IF built THEN Len(plan.input) ELSE 0
    /\ emitted \in 0..Len(rows)
    /\ out \in Seq(ToSet(rows)) /\ (~ built => out = <<>>)

LEMMA WindowShapeFirst ==
  ASSUME Init
  PROVE  WindowShape
  <1>1. PlanGiven /\ built = FALSE /\ at = 0 /\ heap = {} /\ rows = <<>> /\ emitted = 0 /\ out = <<>>
    BY DEF Init, OperatorInit, RowInit, PlanGiven
  <1>2. Len(<<>>) = 0 /\ DOMAIN <<>> = {} /\ \A S : <<>> \in Seq(S)
    BY EmptySeq
  <1>3. plan.kind = "window" => 0 \in 0..Len(plan.input)
    <2>1. plan.kind = "window" => Len(plan.input) \in Nat
      BY <1>1, WindowPlanned DEF IsWindow
    <2>. QED BY <2>1
  <1>4. OfPlaces(<<>>)
    BY <1>2 DEF OfPlaces, ToSet
  <1>5. rows \in Seq(ToSet(rows)) /\ out \in Seq(ToSet(rows)) /\ Len(rows) = 0
    BY ONLY <1>1, <1>2
  <1>6. OfPlaces(rows) /\ emitted \in 0..0
    BY ONLY <1>1, <1>4
  <1>7. /\ built \in BOOLEAN /\ ~ built
        /\ plan.kind = "window" => at \in 0..Len(plan.input)
        /\ emitted \in 0..Len(rows)
    BY ONLY <1>1, <1>3, <1>5, <1>6
  <1>8. Len(rows) = (IF built THEN Len(plan.input) ELSE 0) /\ (~ built => out = <<>>)
    BY ONLY <1>1, <1>5, <1>7
  <1>. QED BY ONLY <1>1, <1>5, <1>6, <1>7, <1>8, Zenon DEF WindowShape

\* For a window, only its own steps change anything but the status.
LEMMA WindowSteps ==
  ASSUME [Next]_vars, plan.kind = "window"
  PROVE  \/ WindowStep /\ UNCHANGED heap
         \/ UNCHANGED <<plan, out, rowVars, heap>>
  <1>1. CASE UNCHANGED vars
    BY <1>1 DEF vars, operatorVars, unaryVars
  <1>2. CASE Fail /\ UNCHANGED <<joinVars, unaryVars>>
    BY <1>2 DEF Fail, unaryVars
  <1>3. CASE Step
    BY <1>3 DEF Step, Joins, AggregateStep, SetStep, SortStep, SortBuild, TopNRow, TopNBuilt
  <1>. QED BY <1>1, <1>2, <1>3 DEF Next

\* A window is built of each row of its input.
LEMMA WindowBuilt ==
  ASSUME IsWindow, WindowBuild
  PROVE  /\ rows' \in Seq(ToSet(rows')) /\ OfPlaces(rows') /\ Len(rows') = Len(plan.input)
  <1>1. PICK n, order : n = Len(plan.input) /\ order = sort(plan.input, Specs)
    OBVIOUS
  <1>2. SortedRows(order, plan.input, n, Specs) /\ n \in Nat
    BY <1>1, WindowPlanned, SortSorts
  <1>3. order \in Seq(1..n) /\ Len(order) = n /\ DOMAIN order = 1..n
    BY <1>2 DEF SortedRows
  <1>4. \A k \in 1..n : order[k] \in 1..n
    BY <1>3, ElementOfSeq
  <1>5. PICK b : b = rows'
    OBVIOUS
  <1>6. b = [k \in 1..n |-> [row |-> order[k], value |-> Computed(order, k)]]
    BY <1>1, <1>3, <1>5 DEF WindowBuild
  <1>7. DOMAIN b = 1..n /\ \A k \in 1..n : b[k].row \in 1..n
    BY <1>4, <1>6
  <1>8. \A k \in 1..n : b[k] \in ToSet(b)
    BY <1>7 DEF ToSet
  <1>9. b \in [1..n -> ToSet(b)]
    BY <1>6, <1>8
  <1>10. b \in Seq(ToSet(b)) /\ Len(b) = n
    BY <1>2, <1>7, <1>9, IsASeq
  <1>11. \A v \in ToSet(b) : v.row \in 1..n
    BY <1>7 DEF ToSet
  <1>. QED BY <1>1, <1>5, <1>10, <1>11 DEF OfPlaces, Places

\* The next of some rows, and how far that is.
LEMMA NextRows ==
  ASSUME NEW S, NEW list \in Seq(S), NEW from \in 0..Len(list)
  PROVE  /\ Lesser(from + BatchSize, Len(list)) \in from..Len(list)
         /\ SubSeq(list, from + 1, Lesser(from + BatchSize, Len(list))) \in Seq(S)
  <1>1. PICK n, end : n = Len(list) /\ end = Lesser(from + BatchSize, n)
    OBVIOUS
  <1>2. n \in Nat /\ from \in 0..n /\ BatchSize \in Nat \ {0}
    BY <1>1, LenProperties, BatchAssumption
  <1>3. end \in from..n
    BY ONLY <1>1, <1>2 DEF Lesser
  <1>4. \A i \in from + 1..end : list[i] \in S
    <2>1. \A i \in from + 1..end : i \in 1..n
      BY ONLY <1>2, <1>3
    <2>. QED BY <1>1, <2>1, ElementOfSeq
  <1>5. from + 1 \in Int /\ end \in Int
    BY ONLY <1>2, <1>3
  <1>6. SubSeq(list, from + 1, end) \in Seq(S)
    BY ONLY <1>4, <1>5, SubSeqProperties
  <1>. QED BY <1>1, <1>3, <1>6

LEMMA WindowShapeKept ==
  ASSUME IsWindow, WindowShape, [Next]_vars
  PROVE  WindowShape'
  <1>1. plan' = plan /\ plan.kind = "window"
    BY HeapSteps DEF IsWindow
  <1>2. PICK n : n = Len(plan.input)
    OBVIOUS
  <1>3. n \in Nat
    BY <1>2, WindowPlanned
  <1>4. /\ built \in BOOLEAN /\ at \in 0..n /\ heap = {}
        /\ rows \in Seq(ToSet(rows)) /\ OfPlaces(rows)
        /\ Len(rows) = IF built THEN n ELSE 0
        /\ emitted \in 0..Len(rows)
        /\ out \in Seq(ToSet(rows)) /\ (~ built => out = <<>>)
    BY <1>1, <1>2 DEF WindowShape
  <1>5. \A list : OfPlaces(list)' <=> \A v \in ToSet(list') : v.row \in Places(plan.input)
    BY <1>1 DEF OfPlaces
  <1>6. CASE UNCHANGED <<plan, out, rowVars, heap>>
    <2>1. /\ plan' = plan /\ built' = built /\ at' = at /\ heap' = heap /\ rows' = rows
          /\ emitted' = emitted /\ out' = out
      BY <1>6 DEF rowVars, builtVars
    <2>. QED BY <1>2, <1>4, <2>1 DEF WindowShape, OfPlaces
  <1>7. CASE WindowBuild /\ UNCHANGED heap
    <2>1. /\ rows' \in Seq(ToSet(rows')) /\ OfPlaces(rows') /\ Len(rows') = n
      BY <1>2, <1>7, WindowBuilt
    <2>2. /\ ~ built /\ built' = TRUE /\ at' = n /\ heap' = heap /\ emitted' = emitted /\ out' = out
      BY <1>2, <1>7 DEF WindowBuild, operatorVars
    <2>3. emitted = 0 /\ out = <<>> /\ out \in Seq(ToSet(rows'))
      BY <1>4, <2>2, EmptySeq
    <2>4. OfPlaces(rows)'
      BY <1>1, <2>1 DEF OfPlaces
    <2>5. at' \in 0..n /\ emitted' \in 0..Len(rows')
      BY <1>3, <2>1, <2>2, <2>3
    <2>. QED BY <1>1, <1>2, <1>4, <2>1, <2>2, <2>3, <2>4, <2>5 DEF WindowShape
  <1>8. CASE EmitBuilt /\ UNCHANGED heap
    <2>1. PICK end, V : end = Lesser(emitted + BatchSize, Len(rows)) /\ V = ToSet(rows)
      OBVIOUS
    <2>2. /\ built /\ built' = built /\ at' = at /\ heap' = heap /\ rows' = rows
          /\ emitted' = end /\ out' = out \o SubSeq(rows, emitted + 1, end)
      BY <1>8, <2>1 DEF EmitBuilt
    <2>3. end \in emitted..Len(rows) /\ SubSeq(rows, emitted + 1, end) \in Seq(V)
      BY <1>4, <2>1, NextRows
    <2>4. out' \in Seq(V)
      BY <1>4, <2>1, <2>2, <2>3, ConcatProperties
    <2>5. emitted' \in 0..Len(rows)
      <3>1. Len(rows) \in Nat
        BY <1>4, LenProperties
      <3>. QED BY <1>4, <2>2, <2>3, <3>1
    <2>6. OfPlaces(rows)'
      BY <1>1, <1>4, <2>2 DEF OfPlaces
    <2>. QED BY <1>1, <1>2, <1>4, <2>1, <2>2, <2>4, <2>5, <2>6 DEF WindowShape
  <1>9. CASE EndBuilt /\ UNCHANGED heap
    <2>1. /\ plan' = plan /\ built' = built /\ at' = at /\ heap' = heap /\ rows' = rows
          /\ emitted' = emitted /\ out' = out
      BY <1>9 DEF EndBuilt, rowVars, builtVars
    <2>. QED BY <1>2, <1>4, <2>1 DEF WindowShape, OfPlaces
  <1>. QED BY <1>6, <1>7, <1>8, <1>9, <1>1, WindowSteps DEF WindowStep

LEMMA WindowTyped ==
  ASSUME IsWindow, WindowShape
  PROVE  /\ plan \in WindowPlan /\ BuiltTypeOK
         /\ \A i \in DOMAIN out : out[i].row \in Places(plan.input)
  <1>1. PICK n : n = Len(plan.input)
    OBVIOUS
  <1>2. n \in Nat /\ plan \in WindowPlan
    BY <1>1, WindowPlanned
  <1>3. /\ built \in BOOLEAN /\ at \in 0..n /\ heap = {} /\ OfPlaces(rows)
        /\ Len(rows) = (IF built THEN n ELSE 0) /\ emitted \in 0..Len(rows)
        /\ out \in Seq(ToSet(rows))
    BY <1>1 DEF IsWindow, WindowShape
  <1>4. emitted \in 0..n + 1
    BY ONLY <1>2, <1>3
  <1>5. \A i \in DOMAIN out : out[i] \in ToSet(rows)
    BY <1>3, LenProperties, ElementOfSeq
  <1>6. \A i \in DOMAIN out : out[i].row \in Places(plan.input)
    BY <1>3, <1>5 DEF OfPlaces
  <1>. QED BY <1>1, <1>2, <1>3, <1>4, <1>6 DEF BuiltTypeOK

-----------------------------------------------------------------------------
(* What is in the variables of an aggregate.                               *)

IsAggregate == PlanGiven /\ plan.kind = "aggregate"

InputSize == Len(plan.input)

\* The rows as they arrive are rows of the input, and have the values they need.
LEMMA AggregatePlanned ==
  ASSUME IsAggregate
  PROVE  /\ plan \in Aggregate
         /\ InputSize \in Nat /\ DOMAIN plan.input = 1..InputSize
         /\ Arriving \in [1..InputSize -> 1..InputSize]
         /\ \A r \in 1..InputSize : GroupValues(r) \in Row
         /\ plan.column # 0 => \A r \in 1..InputSize : plan.input[r][plan.column] \in Datum
  <1>1. plan \in Inputs("aggregate")
    BY KindAssumption DEF IsAggregate, PlanGiven
  <1>2. PICK p, by, columns : p = plan /\ by = plan.group_by /\ columns = ToSet(by) \cup ({p.column} \ {0})
    OBVIOUS
  <1>3. p \in Aggregate /\ Held(p.input, columns) \subseteq Datum
    BY <1>1, <1>2, AggregateAssumption
  <1>4. p.input \in Seq(Row) /\ by \in Seq(Nat \ {0}) /\ p.column \in Nat
    BY <1>2, <1>3 DEF Aggregate
  <1>5. PICK n, m : n = Len(p.input) /\ m = Len(by)
    OBVIOUS
  <1>6. n \in Nat /\ m \in Nat /\ DOMAIN p.input = 1..n /\ DOMAIN by = 1..m
    BY <1>4, <1>5, LenProperties
  <1>7. \A r \in 1..n, c \in columns : p.input[r][c] \in Datum
    BY <1>3, <1>6 DEF Held
  <1>8. \A i \in 1..m : by[i] \in columns
    BY <1>2, <1>6 DEF ToSet
  <1>9. ASSUME NEW r \in 1..n
        PROVE  GroupValues(r) \in Row
    <2>1. GroupValues(r) = [i \in 1..m |-> p.input[r][by[i]]]
      BY <1>2, <1>6 DEF GroupValues, Columns
    <2>2. GroupValues(r) \in [1..m -> Datum]
      BY <1>7, <1>8, <2>1
    <2>. QED BY <1>6, <2>2, IsASeq DEF Row
  <1>10. Arriving \in [1..n -> 1..n]
    <2>1. CASE plan.forced /\ by # <<>>
      <3>1. PICK order, specs : specs = sorted_on(by) /\ order = sort(p.input, specs)
        OBVIOUS
      <3>2. /\ specs \in Seq(OrderKey) /\ DOMAIN specs = 1..m
            /\ \A i \in 1..m : specs[i].column = by[i]
        BY <1>4, <1>5, <3>1, SortedOn
      <3>3. \A r \in 1..n : HasKeys(p.input[r], specs)
        BY <1>7, <1>8, <3>2 DEF HasKeys
      <3>4. Sortable(p.input, n, specs)
        BY <1>6, <3>2, <3>3 DEF Sortable
      <3>5. SortedRows(order, p.input, n, specs)
        BY <3>1, <3>4, SortSorts
      <3>6. order \in Seq(1..n) /\ Len(order) = n
        BY <3>5 DEF SortedRows
      <3>7. order \in [1..n -> 1..n]
        <4>. DEFINE D == 1..n
        <4>1. order \in Seq(D)
          BY <3>6
        <4>. HIDE DEF D
        <4>2. order \in [1..Len(order) -> D]
          BY <4>1, LenProperties
        <4>. QED BY <3>6, <4>2 DEF D
      <3>. QED BY <1>2, <2>1, <3>1, <3>7 DEF Arriving
    <2>2. CASE ~ (plan.forced /\ by # <<>>)
      <3>1. Arriving = [i \in 1..n |-> i]
        BY <1>2, <1>6, <2>2 DEF Arriving
      <3>. QED BY <3>1
    <2>. QED BY <2>1, <2>2
  <1>11. p.column # 0 => \A r \in 1..n : p.input[r][p.column] \in Datum
    BY <1>2, <1>7
  <1>. QED BY <1>2, <1>3, <1>5, <1>6, <1>9, <1>10, <1>11 DEF InputSize

\* What an accumulator can hold, and what a group.
Accumulators ==
  [n : Nat, sum : Int \cup {NaN}, best : Datum, seen : SUBSET (Int \cup {NULL, NaN})]

GroupRecords == [key : Row, acc : Accumulators]

LEMMA EmptyGroup ==
  ASSUME NEW values \in Row
  PROVE  NewGroup(values) \in GroupRecords
  BY DEF NewGroup, Accumulator, Accumulators, GroupRecords, Datum

\* A row leaves an accumulator one.
LEMMA UpdateTyped ==
  ASSUME NEW acc \in Accumulators, NEW row,
         plan.column # 0 => plan.input[row][plan.column] \in Datum
  PROVE  update(acc, row) \in Accumulators
  <1>1. CASE plan.column = 0
    <2>1. update(acc, row) = [acc EXCEPT !.n = acc.n + 1]
      BY <1>1 DEF update
    <2>2. acc.n + 1 \in Nat
      BY DEF Accumulators
    <2>. QED BY <2>1, <2>2 DEF Accumulators
  <1>2. CASE plan.column # 0
    <2>1. PICK v : v = plan.input[row][plan.column]
      OBVIOUS
    <2>2. v \in Datum
      BY <1>2, <2>1
    <2>3. CASE Ignored(acc, v)
      BY <1>2, <2>1, <2>3 DEF update
    <2>4. CASE ~ Ignored(acc, v)
      <3>1. update(acc, row) = [n |-> acc.n + 1, sum |-> Plus(acc.sum, v),
                                best |-> IF Displaces(v, acc.best) THEN v ELSE acc.best,
                                seen |-> acc.seen \cup {KeyValue(v)}]
        BY <1>2, <2>1, <2>4 DEF update
      <3>2. v \in Int \cup {NaN}
        BY <2>2, <2>4, ValuesAssumption DEF Ignored, Datum
      <3>3. acc.n + 1 \in Nat /\ (IF Displaces(v, acc.best) THEN v ELSE acc.best) \in Datum
        BY <2>2 DEF Accumulators
      <3>4. Plus(acc.sum, v) \in Int \cup {NaN}
        BY <3>2 DEF Plus, Accumulators
      <3>5. KeyValue(v) \in Int \cup {NULL, NaN}
        BY <3>2, RowKeyAssumption DEF KeyValue
      <3>6. acc.seen \cup {KeyValue(v)} \in SUBSET (Int \cup {NULL, NaN})
        BY <3>5 DEF Accumulators
      <3>. QED BY <3>1, <3>3, <3>4, <3>6 DEF Accumulators
    <2>. QED BY <2>3, <2>4
  <1>. QED BY <1>1, <1>2

\* The groups that are ready, and the one that is open, along a batch.
GroupStates == [ready : Seq(GroupRecords), open : {some \in Seq(GroupRecords) : Len(some) <= 1}]

LEMMA RowOfGroup ==
  ASSUME IsAggregate, NEW state \in GroupStates, NEW row \in 1..InputSize
  PROVE  GroupRow(state, row) \in GroupStates
  <1>1. PICK G, ready, some : G = GroupRecords /\ ready = state.ready /\ some = state.open
    OBVIOUS
  <1>2. ready \in Seq(G) /\ some \in Seq(G)
    BY <1>1 DEF GroupStates
  <1>3. PICK same, base : /\ same = (some # <<>> /\ Same(some[1], row))
                          /\ base = IF same THEN some[1] ELSE NewGroup(GroupValues(row))
    OBVIOUS
  <1>4. base \in G
    <2>1. CASE same
      <3>1. some # <<>>
        BY <1>3, <2>1
      <3>2. Len(some) \in Nat /\ Len(some) # 0
        BY <1>2, <3>1, EmptySeq, LenProperties
      <3>3. 1 \in 1..Len(some)
        BY ONLY <3>2
      <3>. QED BY <1>2, <1>3, <2>1, <3>3, ElementOfSeq
    <2>2. CASE ~ same
      BY <1>1, <1>3, <2>2, AggregatePlanned, EmptyGroup
    <2>. QED BY <2>1, <2>2
  <1>5. PICK acc : acc = update(base.acc, row)
    OBVIOUS
  <1>6. acc \in Accumulators
    <2>1. base.acc \in Accumulators
      BY <1>1, <1>4 DEF GroupRecords
    <2>2. plan.column # 0 => plan.input[row][plan.column] \in Datum
      BY AggregatePlanned
    <2>. QED BY <1>5, <2>1, <2>2, UpdateTyped
  <1>7. [base EXCEPT !.acc = acc] \in G
    BY <1>1, <1>4, <1>6 DEF GroupRecords
  <1>8. PICK one : one = <<[base EXCEPT !.acc = acc]>>
    OBVIOUS
  <1>9. one \in Seq(G) /\ Len(one) <= 1
    BY <1>7, <1>8
  <1>10. (IF same THEN ready ELSE ready \o some) \in Seq(G)
    BY <1>2, ConcatProperties
  <1>11. GroupRow(state, row) = [ready |-> IF same THEN ready ELSE ready \o some, open |-> one]
    BY <1>1, <1>3, <1>5, <1>8 DEF GroupRow
  <1>. QED BY <1>1, <1>9, <1>10, <1>11 DEF GroupStates

\* The states along a batch of n rows, as StreamBatch has them.
AlongBatch(n, arriving) ==
  LET states[i \in 0..n] ==
        IF i = 0 THEN [ready |-> groups, open |-> open]
        ELSE GroupRow(states[i - 1], arriving[at + i])
  IN  states

\* A function that is what a recursion says of it.
Along(f, n, arriving) ==
  f = [i \in 0..n |-> IF i = 0 THEN [ready |-> groups, open |-> open]
                      ELSE GroupRow(f[i - 1], arriving[at + i])]

LEMMA BatchStates ==
  ASSUME IsAggregate, [ready |-> groups, open |-> open] \in GroupStates,
         NEW n \in Nat, NEW arriving, \A i \in 1..n : arriving[at + i] \in 1..InputSize
  PROVE  /\ AlongBatch(n, arriving) \in [0..n -> GroupStates]
         /\ AlongBatch(n, arriving)[0] = [ready |-> groups, open |-> open]
         /\ \A i \in 1..n : AlongBatch(n, arriving)[i] = GroupRow(AlongBatch(n, arriving)[i - 1], arriving[at + i])
  <1>1. PICK T, first : T = GroupStates /\ first = [ready |-> groups, open |-> open]
    OBVIOUS
  <1>2. PICK step : step = [i \in 1..n |-> [state \in T |-> GroupRow(state, arriving[at + i])]]
    OBVIOUS
  <1>3. step \in Steps(n, T)
    <2>1. ASSUME NEW i \in 1..n, NEW state \in T
          PROVE  GroupRow(state, arriving[at + i]) \in T
      BY <1>1, <2>1, RowOfGroup
    <2>. QED BY <1>2, <2>1 DEF Steps
  <1>4. PICK f \in [0..n -> T] : f[0] = first /\ \A i \in 1..n : f[i] = step[i][f[i - 1]]
    BY <1>1, <1>3, Recursion
  <1>5. \A i \in 1..n : f[i] = GroupRow(f[i - 1], arriving[at + i])
    <2>1. ASSUME NEW i \in 1..n
          PROVE  f[i - 1] \in T
      <3>1. i - 1 \in 0..n
        OBVIOUS
      <3>. QED BY <3>1
    <2>. QED BY <1>2, <1>4, <2>1
  <1>6. Along(f, n, arriving)
    <2>1. \A i \in 0..n : f[i] = IF i = 0 THEN first ELSE GroupRow(f[i - 1], arriving[at + i])
      BY <1>4, <1>5
    <2>2. f = [i \in 0..n |-> f[i]]
      OBVIOUS
    <2>. QED BY <1>1, <2>1, <2>2, Zenon DEF Along
  <1>7. PICK g : g = AlongBatch(n, arriving)
    OBVIOUS
  <1>8. g = CHOOSE h : Along(h, n, arriving)
    BY <1>7, Zenon DEF AlongBatch, Along
  <1>9. Along(g, n, arriving)
    BY <1>6, <1>8
  <1>10. /\ DOMAIN g = 0..n
         /\ g[0] = first
         /\ \A i \in 1..n : g[i] = GroupRow(g[i - 1], arriving[at + i])
    BY <1>1, <1>9 DEF Along
  <1>11. \A i \in 0..n : g[i] \in T
    <2>1. PICK S : S = {i \in 0..n : g[i] \in T}
      OBVIOUS
    <2>2. ASSUME NEW i \in S, i < n
          PROVE  i + 1 \in S
      <3>1. i \in Nat /\ i + 1 \in 1..n /\ (i + 1) - 1 = i /\ g[i] \in T /\ i + 1 \in 0..n
        BY <2>1, <2>2
      <3>2. g[i + 1] = GroupRow(g[i], arriving[at + (i + 1)])
        BY <1>10, <3>1
      <3>3. arriving[at + (i + 1)] \in 1..InputSize
        BY <3>1
      <3>4. g[i + 1] \in T
        BY <1>1, <3>1, <3>2, <3>3, RowOfGroup
      <3>. QED BY <2>1, <3>1, <3>4
    <2>3. 0 \in S /\ S \in SUBSET Nat
      BY <1>1, <1>10, <2>1
    <2>4. 0..n \subseteq S
      BY ONLY n \in Nat, <2>2, <2>3, InductionUpTo
    <2>. QED BY <2>1, <2>4
  <1>12. g \in [0..n -> T]
    BY <1>9, <1>10, <1>11 DEF Along
  <1>. QED BY <1>1, <1>7, <1>10, <1>12

\* What an aggregate holds: groups, one of them open, and a hash table of no more
\* of them than rows were read, but for the one there is without a GROUP BY.
AggregateShape ==
  plan.kind = "aggregate" =>
    /\ built \in BOOLEAN /\ input_ended \in BOOLEAN /\ heap = {}
    /\ at \in 0..InputSize /\ emitted \in 0..InputSize + 1
    /\ [ready |-> groups, open |-> open] \in GroupStates
    /\ ~ streams => Len(groups) <= at + 1

LEMMA NoGroups ==
  ASSUME groups = <<>>, open = <<>>
  PROVE  [ready |-> groups, open |-> open] \in GroupStates /\ Len(groups) = 0
  <1>1. <<>> \in Seq(GroupRecords) /\ Len(<<>>) = 0
    BY EmptySeq
  <1>. QED BY <1>1 DEF GroupStates

LEMMA AggregateShapeFirst ==
  ASSUME Init
  PROVE  AggregateShape
  <1>1. /\ PlanGiven /\ built = FALSE /\ at = 0 /\ heap = {} /\ emitted = 0
        /\ groups = <<>> /\ open = <<>> /\ input_ended = FALSE
    BY DEF Init, OperatorInit, RowInit, PlanGiven
  <1>2. plan.kind = "aggregate" => InputSize \in Nat
    BY <1>1, AggregatePlanned DEF IsAggregate
  <1>3. [ready |-> groups, open |-> open] \in GroupStates /\ Len(groups) = 0
    BY <1>1, NoGroups
  <1>4. plan.kind = "aggregate" =>
          at \in 0..InputSize /\ emitted \in 0..InputSize + 1 /\ Len(groups) <= at + 1
    BY ONLY <1>1, <1>2, <1>3
  <1>. QED BY <1>1, <1>3, <1>4 DEF AggregateShape

\* For an aggregate, only its own steps change anything but the status.
LEMMA AggregateSteps ==
  ASSUME [Next]_vars, plan.kind = "aggregate"
  PROVE  \/ AggregateStep /\ UNCHANGED heap
         \/ UNCHANGED <<plan, out, rowVars, heap, groupVars>> /\ status' \in {status, "failed"}
  <1>1. CASE UNCHANGED vars
    BY <1>1 DEF vars, operatorVars, unaryVars
  <1>2. CASE Fail /\ UNCHANGED <<joinVars, unaryVars>>
    BY <1>2 DEF Fail, unaryVars
  <1>3. CASE Step
    BY <1>3 DEF Step, Joins, WindowStep, SetStep, SortStep, SortBuild, TopNRow, TopNBuilt
  <1>. QED BY <1>1, <1>2, <1>3 DEF Next

\* A row of the hash table's loop.
LEMMA HashRowTyped ==
  ASSUME IsAggregate, groups \in Seq(GroupRecords), at \in 0..InputSize, HashRow
  PROVE  groups' \in Seq(GroupRecords) /\ Len(groups') <= Len(groups) + 1
  <1>1. PICK G, n, row, g : G = GroupRecords /\ n = InputSize /\ row = at + 1 /\ g = groups
    OBVIOUS
  <1>2. n \in Nat /\ at < Len(plan.input)
    BY <1>1, AggregatePlanned DEF HashRow
  <1>3. row \in 1..n
    BY <1>1, <1>2 DEF InputSize
  <1>4. PICK known, table, k, acc :
          /\ known = {i \in DOMAIN g : Same(g[i], row)}
          /\ table = IF known = {} THEN Append(g, NewGroup(GroupValues(row))) ELSE g
          /\ k = IF known = {} THEN Len(table) ELSE CHOOSE i \in known : TRUE
          /\ acc = update(table[k].acc, row)
    OBVIOUS
  <1>5. groups' = [table EXCEPT ![k].acc = acc]
    BY <1>1, <1>4 DEF HashRow
  <1>6. NewGroup(GroupValues(row)) \in G
    BY <1>1, <1>3, AggregatePlanned, EmptyGroup
  <1>7. g \in Seq(G) /\ Len(g) \in Nat /\ DOMAIN g = 1..Len(g)
    BY <1>1, LenProperties
  <1>8. table \in Seq(G) /\ Len(table) \in Nat /\ Len(table) <= Len(g) + 1 /\ k \in 1..Len(table)
    <2>1. CASE known = {}
      <3>1. table = Append(g, NewGroup(GroupValues(row))) /\ k = Len(table)
        BY <1>4, <2>1
      <3>2. table \in Seq(G) /\ Len(table) = Len(g) + 1
        BY <1>6, <1>7, <3>1, AppendProperties
      <3>. QED BY ONLY <1>7, <3>1, <3>2
    <2>2. CASE known # {}
      <3>1. table = g /\ k \in known
        BY <1>4, <2>2
      <3>2. k \in DOMAIN g
        BY <1>4, <3>1
      <3>3. Len(g) <= Len(g) + 1
        BY ONLY <1>7
      <3>. QED BY ONLY <1>7, <3>1, <3>2, <3>3
    <2>. QED BY <2>1, <2>2
  <1>9. table[k] \in G
    BY <1>8, ElementOfSeq
  <1>10. acc \in Accumulators
    <2>1. table[k].acc \in Accumulators
      BY <1>1, <1>9 DEF GroupRecords
    <2>2. plan.column # 0 => plan.input[row][plan.column] \in Datum
      BY <1>1, <1>3, AggregatePlanned
    <2>. QED BY <1>4, <2>1, <2>2, UpdateTyped
  <1>11. [table[k] EXCEPT !.acc = acc] \in G
    BY <1>1, <1>9, <1>10 DEF GroupRecords
  <1>12. PICK e : e = [table[k] EXCEPT !.acc = acc]
    OBVIOUS
  <1>13. groups' = [table EXCEPT ![k] = e]
    BY <1>5, <1>12
  <1>14. groups' \in Seq(G) /\ Len(groups') = Len(table)
    BY <1>8, <1>11, <1>12, <1>13, ExceptSeq
  <1>. QED BY <1>1, <1>8, <1>14

LEMMA AggregateShapeKept ==
  ASSUME IsAggregate, AggregateShape, [Next]_vars
  PROVE  AggregateShape'
  <1>1. plan' = plan /\ plan.kind = "aggregate" /\ InputSize' = InputSize /\ streams' = streams
    BY HeapSteps DEF IsAggregate, InputSize, streams
  <1>2. PICK n, G : n = InputSize /\ G = GroupRecords
    OBVIOUS
  <1>3. n \in Nat /\ n = Len(plan.input)
    BY <1>2, AggregatePlanned DEF InputSize
  <1>4. /\ built \in BOOLEAN /\ input_ended \in BOOLEAN /\ heap = {}
        /\ at \in 0..n /\ emitted \in 0..n + 1
        /\ [ready |-> groups, open |-> open] \in GroupStates
        /\ groups \in Seq(G) /\ open \in Seq(G) /\ Len(open) <= 1
        /\ ~ streams => Len(groups) <= at + 1
    BY <1>1, <1>2 DEF AggregateShape, GroupStates
  <1>5. Len(groups) \in Nat
    BY <1>4, LenProperties
  <1>6. SUFFICES ASSUME heap' = heap
                 PROVE  /\ built' \in BOOLEAN /\ input_ended' \in BOOLEAN
                        /\ at' \in 0..n /\ emitted' \in 0..n + 1
                        /\ groups' \in Seq(G) /\ open' \in Seq(G) /\ Len(open') <= 1
                        /\ ~ streams => Len(groups') <= at' + 1
    BY <1>1, <1>2, <1>4, AggregateSteps DEF AggregateShape, GroupStates
  <1>7. CASE UNCHANGED <<plan, out, rowVars, heap, groupVars>>
    <2>1. /\ built' = built /\ input_ended' = input_ended /\ at' = at /\ emitted' = emitted
          /\ groups' = groups /\ open' = open
      BY <1>7 DEF rowVars, builtVars, groupVars
    <2>. QED BY <1>4, <2>1
  <1>8. CASE HashOpen
    <2>1. /\ ~ streams /\ built' = TRUE /\ input_ended' = input_ended /\ at' = at
          /\ emitted' = emitted /\ open' = open
          /\ groups' = IF plan.group_by = <<>> THEN <<NewGroup(<<>>)>> ELSE <<>>
      BY <1>8 DEF HashOpen
    <2>2. NewGroup(<<>>) \in G
      <3>1. <<>> \in Row
        BY EmptySeq DEF Row
      <3>. QED BY <1>2, <3>1, EmptyGroup
    <2>3. groups' \in Seq(G) /\ Len(groups') <= 1
      <3>1. PICK g : g = NewGroup(<<>>)
        OBVIOUS
      <3>2. g \in G
        BY <2>2, <3>1
      <3>3. <<g>> \in Seq(G) /\ Len(<<g>>) = 1 /\ <<>> \in Seq(G) /\ Len(<<>>) = 0
        BY <3>2, EmptySeq
      <3>. QED BY <2>1, <3>1, <3>3
    <2>4. Len(groups') <= at' + 1
      <3>1. Len(groups') \in Nat
        BY <2>3, LenProperties
      <3>. QED BY ONLY <1>3, <1>4, <2>1, <2>3, <3>1
    <2>. QED BY <1>4, <2>1, <2>3, <2>4
  <1>9. CASE HashRow
    <2>1. /\ built' = built /\ input_ended' = input_ended /\ at' = at + 1 /\ at < n
          /\ emitted' = emitted /\ open' = open /\ ~ streams
      BY <1>3, <1>9 DEF HashRow, builtVars
    <2>2. groups' \in Seq(G) /\ Len(groups') <= Len(groups) + 1
      BY <1>2, <1>4, <1>9, HashRowTyped
    <2>3. at' \in 0..n /\ Len(groups') <= at' + 1
      <3>1. Len(groups') \in Nat
        BY <2>2, LenProperties
      <3>. QED BY ONLY <1>3, <1>4, <1>5, <2>1, <2>2, <3>1
    <2>. QED BY <1>4, <2>1, <2>2, <2>3
  <1>10. CASE HashEmit
    <2>1. /\ built' = built /\ input_ended' = input_ended /\ at' = at /\ at = n
          /\ emitted' = Lesser(emitted + BatchSize, Len(groups)) /\ open' = open /\ ~ streams
          /\ groups' = groups
      BY <1>3, <1>10 DEF HashEmit, groupVars
    <2>2. emitted' \in 0..n + 1
      BY ONLY <1>3, <1>4, <1>5, <2>1, BatchAssumption DEF Lesser
    <2>. QED BY <1>4, <2>1, <2>2
  <1>11. ASSUME NEW m \in 1..BatchSize, StreamBatch(m)
         PROVE  /\ built' \in BOOLEAN /\ input_ended' \in BOOLEAN
                /\ at' \in 0..n /\ emitted' \in 0..n + 1
                /\ groups' \in Seq(G) /\ open' \in Seq(G) /\ Len(open') <= 1
                /\ ~ streams => Len(groups') <= at' + 1
    <2>1. /\ built' = built /\ input_ended' = input_ended /\ at' = at + m /\ at + m <= n
          /\ emitted' = emitted /\ streams
      BY <1>3, <1>11 DEF StreamBatch, builtVars
    <2>2. PICK states : states = AlongBatch(m, Arriving)
      OBVIOUS
    <2>3. groups' = states[m].ready /\ open' = states[m].open
      BY <1>11, <2>2, Zenon DEF StreamBatch, AlongBatch
    <2>4. m \in Nat /\ m \in 0..m
      BY BatchAssumption
    <2>5. \A i \in 1..m : Arriving[at + i] \in 1..InputSize
      <3>1. \A i \in 1..m : at + i \in 1..n
        BY ONLY <1>3, <1>4, <2>1, <2>4
      <3>. QED BY <1>2, <3>1, AggregatePlanned
    <2>6. states \in [0..m -> GroupStates]
      BY <1>4, <2>2, <2>4, <2>5, BatchStates
    <2>7. states[m] \in GroupStates
      BY <2>4, <2>6
    <2>8. at' \in 0..n
      BY ONLY <1>3, <1>4, <2>1, <2>4
    <2>. QED BY <1>2, <1>4, <2>1, <2>3, <2>7, <2>8 DEF GroupStates
  <1>12. CASE StreamEnd
    <2>1. /\ built' = built /\ input_ended' = TRUE /\ at' = at /\ emitted' = emitted
          /\ groups' = groups \o LastGroup /\ open' = <<>> /\ streams
      BY <1>12 DEF StreamEnd, rowVars, builtVars
    <2>2. LastGroup \in Seq(G) /\ <<>> \in Seq(G) /\ Len(<<>>) = 0
      <3>1. <<>> \in Row
        BY EmptySeq DEF Row
      <3>2. PICK g : g = NewGroup(<<>>)
        OBVIOUS
      <3>3. g \in G
        BY <1>2, <3>1, <3>2, EmptyGroup
      <3>4. <<g>> \in Seq(G) /\ <<>> \in Seq(G) /\ Len(<<>>) = 0
        BY <3>3, EmptySeq
      <3>. QED BY <1>4, <3>2, <3>4 DEF LastGroup
    <2>3. groups' \in Seq(G)
      BY <1>4, <2>1, <2>2, ConcatProperties
    <2>. QED BY <1>4, <2>1, <2>2, <2>3
  <1>13. CASE StreamEmit
    <2>1. PICK take, total : take = Lesser(Len(groups), BatchSize) /\ total = Len(groups)
      OBVIOUS
    <2>2. /\ built' = built /\ input_ended' = input_ended /\ at' = at /\ emitted' = emitted
          /\ groups' = SubSeq(groups, take + 1, total) /\ open' = open /\ streams
      BY <1>13, <2>1 DEF StreamEmit, rowVars, builtVars
    <2>3. take \in 0..total /\ total \in Nat
      BY ONLY <1>5, <2>1, BatchAssumption DEF Lesser
    <2>4. \A i \in take + 1..total : groups[i] \in G
      <3>1. \A i \in take + 1..total : i \in 1..total
        BY ONLY <2>3
      <3>. QED BY <1>4, <2>1, <3>1, ElementOfSeq
    <2>5. take + 1 \in Int /\ total \in Int
      BY ONLY <2>3
    <2>6. SubSeq(groups, take + 1, total) \in Seq(G)
      BY ONLY <2>4, <2>5, SubSeqProperties
    <2>. QED BY <1>4, <2>2, <2>6
  <1>. QED BY <1>1, <1>7, <1>8, <1>9, <1>10, <1>11, <1>12, <1>13, AggregateSteps DEF AggregateStep

LEMMA AggregateTyped ==
  ASSUME IsAggregate, AggregateShape
  PROVE  /\ plan \in Aggregate /\ BuiltTypeOK
         /\ Len(open) <= 1
         /\ \A i \in DOMAIN groups : groups[i].key \in Row /\ groups[i].acc.n \in Nat
         /\ input_ended \in BOOLEAN
  <1>1. /\ built \in BOOLEAN /\ input_ended \in BOOLEAN /\ heap = {}
        /\ at \in 0..InputSize /\ emitted \in 0..InputSize + 1
        /\ groups \in Seq(GroupRecords) /\ Len(open) <= 1
    BY DEF IsAggregate, AggregateShape, GroupStates
  <1>2. \A i \in DOMAIN groups : groups[i] \in GroupRecords
    BY <1>1, LenProperties, ElementOfSeq
  <1>3. \A i \in DOMAIN groups : groups[i].key \in Row /\ groups[i].acc.n \in Nat
    BY <1>2 DEF GroupRecords, Accumulators
  <1>. QED BY <1>1, <1>3, AggregatePlanned DEF BuiltTypeOK, InputSize

-----------------------------------------------------------------------------
(* What every operator holds.                                              *)

TypeInv ==
  /\ status \in Statuses
  /\ JoinInv /\ JoinShape
  /\ SortInv /\ SortShape
  /\ SetInv /\ SetShape
  /\ WindowShape
  /\ AggregateShape

LEMMA TypeKept ==
  ASSUME TypeInv, [Next]_vars
  PROVE  TypeInv'
  <1>. USE DEF TypeInv
  <1>1. plan' = plan /\ PlanGiven
    BY HeapSteps DEF JoinInv
  <1>2. status' \in Statuses
    BY StatusKept
  <1>3. JoinInv' /\ SortInv' /\ SetInv'
    BY JoinKept, SortInvKept, SetKept
  <1>4. JoinShape'
    <2>1. CASE plan.kind = "join"
      BY <2>1, JoinShapeKept
    <2>. QED BY <1>1, <2>1 DEF JoinShape
  <1>5. SortShape'
    <2>1. CASE plan.kind \in {"sort", "top-n"}
      BY <2>1, SortShapeKept
    <2>. QED BY <1>1, <2>1 DEF SortShape
  <1>6. SetShape'
    <2>1. CASE plan.kind \in {"distinct", "set"}
      BY <2>1, SetShapeKept
    <2>. QED BY <1>1, <2>1 DEF SetShape
  <1>7. WindowShape'
    <2>1. CASE plan.kind = "window"
      BY <1>1, <2>1, WindowShapeKept DEF IsWindow
    <2>. QED BY <1>1, <2>1 DEF WindowShape
  <1>8. AggregateShape'
    <2>1. CASE plan.kind = "aggregate"
      BY <1>1, <2>1, AggregateShapeKept DEF IsAggregate
    <2>. QED BY <1>1, <2>1 DEF AggregateShape
  <1>. QED BY <1>2, <1>3, <1>4, <1>5, <1>6, <1>7, <1>8

\* Which is what TypeOK says of the kind of plan there is.
LEMMA AllTyped ==
  ASSUME TypeInv
  PROVE  TypeOK
  <1>. USE DEF TypeInv
  <1>1. PlanGiven /\ status \in {"running", "done", "failed"}
    BY DEF JoinInv, Statuses
  <1>2. plan.kind \in Kinds
    BY <1>1, KindAssumption DEF PlanGiven
  <1>3. plan.kind = "join" => JoinTypeOK
    BY <1>1, JoinTyped DEF IsJoin
  <1>4. plan.kind = "sort" =>
          plan \in Sort /\ BuiltTypeOK /\ {out, rows} \subseteq Seq(Places(plan.input))
    BY SortTyped
  <1>5. plan.kind = "top-n" =>
          plan \in TopN /\ BuiltTypeOK /\ {out, rows} \subseteq Seq(Places(plan.input))
    BY SortTyped
  <1>6. plan.kind = "aggregate" =>
          /\ plan \in Aggregate /\ BuiltTypeOK
          /\ Len(open) <= 1
          /\ \A i \in DOMAIN groups : groups[i].key \in Row /\ groups[i].acc.n \in Nat
          /\ input_ended \in BOOLEAN
    BY <1>1, AggregateTyped DEF IsAggregate
  <1>7. plan.kind \in {"distinct", "set"} =>
          /\ plan \in Distinct \cup SetOp
          /\ at \in 0..Len(plan.left)
          /\ \A key \in DOMAIN counts : counts[key] \in Nat
          /\ left_done \in BOOLEAN
          /\ right_read \in Nat
    BY SetTyped
  <1>8. plan.kind = "window" =>
          plan \in WindowPlan /\ BuiltTypeOK /\ \A i \in DOMAIN out : out[i].row \in Places(plan.input)
    BY <1>1, WindowTyped DEF IsWindow
  <1>. QED BY ONLY <1>1, <1>2, <1>3, <1>4, <1>5, <1>6, <1>7, <1>8 DEF TypeOK, Kinds

LEMMA TypeFirst ==
  ASSUME Init
  PROVE  TypeInv
  <1>1. JoinShape
    <2>1. CASE plan.kind = "join"
      BY <2>1, JoinShapeFirst
    <2>. QED BY <2>1 DEF JoinShape
  <1>2. status \in Statuses
    BY DEF Init, OperatorInit, Statuses
  <1>. QED BY <1>1, <1>2, JoinFirst, SortFirst, SortShapeFirst, SetFirst, SetShapeFirst,
              WindowShapeFirst, AggregateShapeFirst DEF TypeInv

(***************************************************************************)
(* Whatever an operator is built for, its cursors stay within its inputs   *)
(* and what it holds is what it should be, whether a merge join is in step *)
(* or not; and of the right rows one that is in step has passed and        *)
(* dropped, none joins a left row to come.                                 *)
(***************************************************************************)
THEOREM MergeNeverLooksBack == Spec => []NothingBehindIsWanted
  <1>1. Init => TypeInv
    BY TypeFirst
  <1>2. TypeInv => NothingBehindIsWanted
    <2>1. SUFFICES ASSUME TypeInv
                   PROVE  NothingBehindIsWanted
      OBVIOUS
    <2>2. TypeOK
      BY <2>1, AllTyped
    <2>3. ASSUME plan.kind = "join", InStep,
                 NEW i \in 1..right_at - 1, NEW k \in left_at..Len(left), right[i] \notin ToSet(run)
          PROVE  ~ On(left[k], right[i])
      BY <2>1, <2>3, NeverLooksBack DEF TypeInv, JoinInv, IsJoin
    <2>. QED BY <2>2, <2>3 DEF NothingBehindIsWanted
  <1>. QED BY <1>1, <1>2, TypeKept, PTL DEF Spec

-----------------------------------------------------------------------------
(* Sums.                                                                   *)

SumOf(S) == MapThenSumSet(Second, S)

\* What the fold of a sum does with a set: one member goes, whichever is chosen.
IsFold(f, S) ==
  f = [s \in SUBSET S |->
         IF s = {} THEN 0
         ELSE Second(CHOOSE x \in s : TRUE) + f[s \ {CHOOSE x \in s : TRUE}]]

\* Pairs that can be added.
Summable(S) == IsFiniteSet(S) /\ \A p \in S : p[2] \in Int

\* There is such a function, of the parts of a finite set of pairs.
LEMMA FoldExists ==
  ASSUME NEW S, Summable(S)
  PROVE  \E f \in [SUBSET S -> Int] : IsFold(f, S)
  <1>. IsFiniteSet(S) /\ \A p \in S : p[2] \in Int
    BY DEF Summable
  <1>1. PICK pick : pick = [s \in SUBSET S |-> CHOOSE x \in s : TRUE]
    OBVIOUS
  <1>2. \A s \in SUBSET S : s # {} => pick[s] \in s
    BY <1>1
  <1>3. PICK T, zero : T = [SUBSET S -> Int] /\ zero = [s \in SUBSET S |-> 0]
    OBVIOUS
  <1>4. PICK once : once = [f \in T |-> [s \in SUBSET S |-> IF s = {} THEN 0 ELSE pick[s][2] + f[s \ {pick[s]}]]]
    OBVIOUS
  <1>5. ASSUME NEW f \in T
        PROVE  /\ once[f] \in T
               /\ \A s \in SUBSET S : once[f][s] = IF s = {} THEN 0 ELSE pick[s][2] + f[s \ {pick[s]}]
    <2>1. once[f] = [s \in SUBSET S |-> IF s = {} THEN 0 ELSE pick[s][2] + f[s \ {pick[s]}]]
      BY <1>4
    <2>2. \A s \in SUBSET S : s # {} => pick[s][2] \in Int /\ f[s \ {pick[s]}] \in Int
      BY <1>2, <1>3
    <2>3. ASSUME NEW s \in SUBSET S
          PROVE  (IF s = {} THEN 0 ELSE pick[s][2] + f[s \ {pick[s]}]) \in Int
      <3>1. PICK a, b : a = pick[s][2] /\ b = f[s \ {pick[s]}]
        OBVIOUS
      <3>2. s # {} => a \in Int /\ b \in Int
        BY <2>2, <3>1
      <3>3. s # {} => a + b \in Int
        BY ONLY <3>2
      <3>. QED BY <3>1, <3>3
    <2>. QED BY <1>3, <2>1, <2>3
  <1>6. PICK n : n = Cardinality(S) + 1
    OBVIOUS
  <1>7. n \in Nat /\ Cardinality(S) \in Nat
    BY <1>6, FS_CardinalityType
  <1>8. PICK g \in [0..n -> T] : g[0] = zero /\ \A k \in 1..n : g[k] = once[g[k - 1]]
    <2>1. PICK step : step = [k \in 1..n |-> once]
      OBVIOUS
    <2>2. step \in Steps(n, T)
      <3>1. once \in [T -> T]
        BY <1>4, <1>5
      <3>. QED BY <2>1, <3>1 DEF Steps
    <2>3. zero \in T
      BY <1>3
    <2>4. \E g \in [0..n -> T] : g[0] = zero /\ \A k \in 1..n : g[k] = step[k][g[k - 1]]
      BY ONLY <1>7, <2>2, <2>3, Recursion
    <2>. QED BY <2>1, <2>4
  <1>9. PICK settled : settled = {k \in 0..n : k < n => \A s \in SUBSET S : Cardinality(s) <= k => g[k][s] = g[k + 1][s]}
    OBVIOUS
  <1>10. 0..n \subseteq settled
    <2>1. settled \in SUBSET Nat /\ 0 \in settled
      <3>1. ASSUME NEW s \in SUBSET S, Cardinality(s) <= 0, 0 < n
            PROVE  g[0][s] = g[1][s]
        <4>1. IsFiniteSet(s)
          BY FS_Subset
        <4>2. s = {}
          <5>1. Cardinality(s) \in Nat /\ (Cardinality(s) = 0 <=> s = {})
            BY <4>1, FS_CardinalityType, FS_EmptySet
          <5>. QED BY ONLY <3>1, <5>1
        <4>3. 1 \in 1..n /\ g[1] = once[g[0]] /\ g[0] \in T
          BY <1>7, <1>8, <3>1
        <4>4. g[0][s] = 0
          BY <1>3, <1>8
        <4>5. once[g[0]][s] = 0
          BY <1>5, <4>2, <4>3
        <4>. QED BY <4>3, <4>4, <4>5
      <3>. QED BY <1>7, <1>9, <3>1
    <2>2. ASSUME NEW k \in settled, k < n
          PROVE  k + 1 \in settled
      <3>1. k \in Nat /\ k + 1 \in 0..n
        BY <1>7, <1>9, <2>2
      <3>2. SUFFICES ASSUME k + 1 < n, NEW s \in SUBSET S, Cardinality(s) <= k + 1
                     PROVE  g[k + 1][s] = g[(k + 1) + 1][s]
        BY <1>9, <3>1
      <3>3. /\ k + 1 \in 1..n /\ (k + 1) + 1 \in 1..n /\ (k + 1) - 1 = k /\ ((k + 1) + 1) - 1 = k + 1
            /\ k \in 0..n
        BY <1>7, <3>1, <3>2
      <3>4. g[k + 1] = once[g[k]] /\ g[(k + 1) + 1] = once[g[k + 1]] /\ g[k] \in T /\ g[k + 1] \in T
        BY <1>8, <3>1, <3>3
      <3>5. CASE s = {}
        BY <1>5, <3>4, <3>5
      <3>6. CASE s # {}
        <4>1. PICK t : t = s \ {pick[s]}
          OBVIOUS
        <4>2. IsFiniteSet(s) /\ pick[s] \in s
          BY <1>2, <3>6, FS_Subset
        <4>3. Cardinality(t) = Cardinality(s) - 1 /\ Cardinality(s) \in Nat
          BY <4>1, <4>2, FS_RemoveElement, FS_CardinalityType
        <4>4. Cardinality(t) <= k /\ t \in SUBSET S
          BY <3>1, <3>2, <4>1, <4>3
        <4>5. g[k][t] = g[k + 1][t]
          BY <1>9, <2>2, <4>4
        <4>6. PICK a, b : a = g[k] /\ b = g[k + 1]
          OBVIOUS
        <4>7. /\ a \in T /\ b \in T /\ b = once[a] /\ g[(k + 1) + 1] = once[b]
              /\ a[t] = b[t]
          BY ONLY <3>4, <4>5, <4>6
        <4>8. once[a][s] = pick[s][2] + a[t]
          BY <1>5, <3>6, <4>1, <4>7
        <4>9. once[b][s] = pick[s][2] + b[t]
          BY <1>5, <3>6, <4>1, <4>7
        <4>. QED BY ONLY <4>6, <4>7, <4>8, <4>9
      <3>. QED BY <3>5, <3>6
    <2>. QED BY <1>7, <2>1, <2>2, InductionUpTo
  <1>11. PICK k : k = Cardinality(S)
    OBVIOUS
  <1>12. k \in Nat /\ n = k + 1 /\ k \in 0..n /\ k < n /\ k + 1 \in 1..n /\ (k + 1) - 1 = k
    BY <1>6, <1>7, <1>11
  <1>13. g[k] \in T /\ g[k + 1] = once[g[k]]
    BY <1>8, <1>12
  <1>14. \A s \in SUBSET S : g[k][s] = once[g[k]][s]
    <2>1. \A s \in SUBSET S : Cardinality(s) <= k
      BY <1>11, FS_Subset
    <2>. QED BY <1>9, <1>10, <1>12, <1>13, <2>1
  <1>15. PICK f : f = g[k]
    OBVIOUS
  <1>16. f \in [SUBSET S -> Int] /\ \A s \in SUBSET S : f[s] = IF s = {} THEN 0 ELSE pick[s][2] + f[s \ {pick[s]}]
    BY <1>3, <1>5, <1>13, <1>14, <1>15
  <1>17. \A s \in SUBSET S : f[s] = IF s = {} THEN 0 ELSE Second(CHOOSE x \in s : TRUE) + f[s \ {CHOOSE x \in s : TRUE}]
    BY <1>1, <1>16 DEF Second
  <1>18. f = [s \in SUBSET S |-> f[s]]
    BY <1>16
  <1>19. IsFold(f, S)
    BY <1>17, <1>18, Zenon DEF IsFold
  <1>. QED BY <1>16, <1>19

\* What holds of a part of a set when it holds of all smaller ones holds of all.
LEMMA PartByPart ==
  ASSUME NEW S, IsFiniteSet(S), NEW P \in SUBSET (SUBSET S),
         \A t \in SUBSET S :
            (\A u \in SUBSET S : Cardinality(u) < Cardinality(t) => u \in P) => t \in P
  PROVE  P = SUBSET S
  <1>1. \A t \in SUBSET S : Cardinality(t) \in Nat /\ Cardinality(t) <= Cardinality(S)
    BY FS_Subset, FS_CardinalityType
  <1>2. PICK n, D : n = Cardinality(S) + 1 /\ D = {k \in 0..n : \A t \in SUBSET S : Cardinality(t) < k => t \in P}
    OBVIOUS
  <1>3. Cardinality(S) \in Nat /\ n \in Nat
    BY <1>2, FS_CardinalityType
  <1>4. 0 \in D /\ D \in SUBSET Nat
    <2>1. \A t \in SUBSET S : ~ Cardinality(t) < 0
      BY <1>1
    <2>. QED BY <1>2, <1>3, <2>1
  <1>5. ASSUME NEW k \in D, k < n
        PROVE  k + 1 \in D
    <2>1. k \in Nat /\ k + 1 \in 0..n
      BY <1>2, <1>3, <1>5
    <2>2. ASSUME NEW t \in SUBSET S, Cardinality(t) < k + 1
          PROVE  t \in P
      <3>1. \A u \in SUBSET S : Cardinality(u) < Cardinality(t) => Cardinality(u) < k
        BY <1>1, <2>1, <2>2
      <3>. QED BY <1>2, <1>5, <3>1
    <2>. QED BY <1>2, <2>1, <2>2
  <1>6. 0..n \subseteq D
    BY <1>3, <1>4, <1>5, InductionUpTo
  <1>7. n \in D /\ \A t \in SUBSET S : Cardinality(t) < n
    BY <1>1, <1>2, <1>3, <1>6
  <1>. QED BY <1>2, <1>7

\* A part without one of its members is smaller.
LEMMA Without ==
  ASSUME NEW S, IsFiniteSet(S), NEW t \in SUBSET S, NEW x \in t
  PROVE  t \ {x} \in SUBSET S /\ Cardinality(t \ {x}) < Cardinality(t)
  <1>1. IsFiniteSet(t)
    BY FS_Subset
  <1>2. Cardinality(t \ {x}) = Cardinality(t) - 1 /\ Cardinality(t) \in Nat
    BY <1>1, FS_RemoveElement, FS_CardinalityType
  <1>. QED BY <1>2

\* A sum is what any such fold gives.
LEMMA SumFolds ==
  ASSUME NEW S, Summable(S), NEW f, IsFold(f, S), NEW T \in SUBSET S
  PROVE  SumOf(T) = f[T]
  <1>1. Summable(T) /\ IsFiniteSet(S)
    BY FS_Subset DEF Summable
  <1>2. PICK g : g = CHOOSE h : IsFold(h, T)
    OBVIOUS
  <1>3. IsFold(g, T)
    BY <1>1, <1>2, FoldExists
  <1>4. SumOf(T) = g[T]
    BY <1>2, Zenon DEF SumOf, MapThenSumSet, MapThenFoldSet, IsFold
  <1>5. PICK P : P = {t \in SUBSET T : g[t] = f[t]}
    OBVIOUS
  <1>6. ASSUME NEW t \in SUBSET T, \A u \in SUBSET T : Cardinality(u) < Cardinality(t) => u \in P
        PROVE  t \in P
    <2>1. PICK x : x = CHOOSE y \in t : TRUE
      OBVIOUS
    <2>2. t \in SUBSET S
      OBVIOUS
    <2>3. g[t] = (IF t = {} THEN 0 ELSE Second(x) + g[t \ {x}])
      BY <1>3, <2>1 DEF IsFold
    <2>4. f[t] = (IF t = {} THEN 0 ELSE Second(x) + f[t \ {x}])
      BY <2>1, <2>2 DEF IsFold
    <2>5. t # {} => g[t \ {x}] = f[t \ {x}]
      <3>1. t # {} => x \in t
        BY <2>1
      <3>2. t # {} => t \ {x} \in P
        BY <1>1, <1>6, <3>1, Without DEF Summable
      <3>. QED BY <1>5, <3>2
    <2>. QED BY <1>5, <2>3, <2>4, <2>5
  <1>7. P = SUBSET T
    <2>1. P \in SUBSET (SUBSET T) /\ IsFiniteSet(T)
      BY <1>1, <1>5 DEF Summable
    <2>. QED BY <1>6, <2>1, PartByPart
  <1>. QED BY <1>4, <1>5, <1>7

\* The sum of one pair more.
LEMMA SumOneMore ==
  ASSUME NEW S, Summable(S), NEW p, p[2] \in Int, p \notin S
  PROVE  /\ SumOf(S \cup {p}) = SumOf(S) + p[2]
         /\ SumOf(S) \in Int
         /\ Summable(S \cup {p})
  <1>1. PICK D : D = S \cup {p}
    OBVIOUS
  <1>2. Summable(D)
    BY <1>1, FS_AddElement DEF Summable
  <1>3. PICK f \in [SUBSET D -> Int] : IsFold(f, D)
    BY <1>2, FoldExists
  <1>4. \A t \in SUBSET D : SumOf(t) = f[t]
    BY <1>2, <1>3, SumFolds
  <1>5. PICK P : P = {t \in SUBSET D : \A q \in D : q \notin t => f[t \cup {q}] = f[t] + q[2]}
    OBVIOUS
  <1>6. ASSUME NEW t \in SUBSET D, \A u \in SUBSET D : Cardinality(u) < Cardinality(t) => u \in P
        PROVE  t \in P
    <2>1. SUFFICES ASSUME NEW q \in D, q \notin t
                   PROVE  f[t \cup {q}] = f[t] + q[2]
      BY <1>5
    <2>2. PICK v, x : v = t \cup {q} /\ x = CHOOSE y \in v : TRUE
      OBVIOUS
    <2>3. v \in SUBSET D /\ x \in v /\ v # {}
      BY <2>2
    <2>4. f[v] = Second(x) + f[v \ {x}]
      BY <1>3, <2>2, <2>3 DEF IsFold
    <2>5. q[2] \in Int /\ x[2] \in Int /\ f[t] \in Int /\ f[v \ {x}] \in Int
      BY <1>2, <1>3, <2>3 DEF Summable
    <2>6. CASE x = q
      <3>1. v \ {x} = t
        BY <2>1, <2>2, <2>6
      <3>2. f[v] = q[2] + f[t]
        BY <2>4, <2>6, <3>1 DEF Second
      <3>3. \A a, b \in Int : a + b = b + a
        OBVIOUS
      <3>. QED BY <2>2, <2>5, <3>2, <3>3
    <2>7. CASE x # q
      <3>1. PICK u : u = t \ {x}
        OBVIOUS
      <3>2. x \in t /\ u \in SUBSET D /\ v \ {x} = u \cup {q} /\ q \notin u /\ x \notin u /\ t = u \cup {x}
        BY <2>1, <2>2, <2>3, <2>7, <3>1
      <3>3. u \in P
        <4>1. IsFiniteSet(D)
          BY <1>2 DEF Summable
        <4>. QED BY <1>6, <3>1, <3>2, <4>1, Without
      <3>4. f[u \cup {q}] = f[u] + q[2] /\ f[u \cup {x}] = f[u] + x[2]
        BY <1>5, <3>2, <3>3
      <3>5. f[u] \in Int
        BY <1>3, <3>2
      <3>. QED BY <2>2, <2>4, <2>5, <3>2, <3>4, <3>5 DEF Second
    <2>. QED BY <2>6, <2>7
  <1>7. P = SUBSET D
    <2>1. P \in SUBSET (SUBSET D) /\ IsFiniteSet(D)
      BY <1>2, <1>5 DEF Summable
    <2>. QED BY <1>6, <2>1, PartByPart
  <1>8. S \in SUBSET D /\ D \in SUBSET D /\ p \in D
    BY <1>1
  <1>9. f[D] = f[S] + p[2] /\ f[S] \in Int
    BY <1>1, <1>3, <1>5, <1>7, <1>8
  <1>10. SumOf(D) = f[D] /\ SumOf(S) = f[S]
    BY <1>4, <1>8
  <1>. QED BY <1>1, <1>2, <1>9, <1>10

LEMMA SumOfNone == SumOf({}) = 0 /\ Summable({})
  <1>1. Summable({})
    BY FS_EmptySet DEF Summable
  <1>2. PICK f : IsFold(f, {})
    BY <1>1, FoldExists
  <1>3. SumOf({}) = f[{}]
    BY <1>1, <1>2, SumFolds
  <1>4. f[{}] = 0
    BY <1>2 DEF IsFold
  <1>. QED BY <1>1, <1>3, <1>4

-----------------------------------------------------------------------------
(* What an accumulator knows of the rows it was given.                     *)

\* What a function is of, and that the hash table and DISTINCT tell apart what differs.
LEMMA ArgumentsTold ==
  ASSUME IsAggregate
  PROVE  /\ \A r \in 1..InputSize : Argument(r) \in Datum
         /\ plan.column = 0 => plan.func = "count" /\ ~ plan.distinct
         /\ plan.column # 0 =>
              \A r, o \in 1..InputSize :
                 KeyValue(Argument(r)) = KeyValue(Argument(o)) => Argument(r) = Argument(o)
  <1>1. plan \in Inputs("aggregate")
    BY KindAssumption DEF IsAggregate, PlanGiven
  <1>2. PICK p, columns : p = plan /\ columns = ToSet(plan.group_by) \cup ({plan.column} \ {0})
    OBVIOUS
  <1>3. /\ p.column = 0 => p.func = "count" /\ ~ p.distinct
        /\ \A a, b \in Held(p.input, columns) : KeyValue(a) = KeyValue(b) => a = b
    BY <1>1, <1>2, AggregateAssumption
  <1>4. DOMAIN p.input = 1..InputSize
    BY <1>2, AggregatePlanned
  <1>5. ASSUME plan.column # 0, NEW r \in 1..InputSize
        PROVE  Argument(r) \in Held(p.input, columns)
    <2>1. Argument(r) = p.input[r][p.column] /\ p.column \in columns
      BY <1>2, <1>5 DEF Argument
    <2>. QED BY <1>4, <2>1 DEF Held
  <1>6. \A r \in 1..InputSize : Argument(r) \in Datum
    BY AggregatePlanned DEF Argument, Datum
  <1>. QED BY <1>2, <1>3, <1>5, <1>6

\* The best of some pairs, as a minimum and a maximum mean it.
Beats == IF plan.func = "min" THEN "less" ELSE "greater"

IsBest(best, pairs) ==
  IF pairs = {} THEN best = NULL
  ELSE /\ \E p \in pairs : p[2] = best
       /\ \A p \in pairs : Compare(p[2], best) # Beats

\* Neither a minimum nor a maximum needs to count.
Counts == plan.func \notin {"min", "max"}

\* An accumulator that was given some rows, in whatever order.
HoldsOf(acc, some) ==
  /\ acc \in Accumulators
  /\ Counts => acc.n = Cardinality(Chosen(some))
  /\ plan.column # 0 =>
       /\ Counts => acc.sum = Total(Chosen(some))
       /\ acc.seen = {KeyValue(p[2]) : p \in Chosen(some)}
       /\ IsBest(acc.best, Chosen(some))

\* Values that are not NULL, with or without their rows.
Arguments(pairs) == IsFiniteSet(pairs) /\ \A p \in pairs : p[2] \in Datum \ {NULL}

\* A total of one pair more.
LEMMA TotalMore ==
  ASSUME NEW pairs, Arguments(pairs), NEW q, q[2] \in Datum \ {NULL}, q \notin pairs
  PROVE  Total(pairs \cup {q}) = Plus(Total(pairs), q[2])
  <1>1. PICK v, all : v = q[2] /\ all = pairs \cup {q}
    OBVIOUS
  <1>2. v \in Int \cup {NaN} /\ \A p \in pairs : p[2] \in Int \cup {NaN}
    BY <1>1, ValuesAssumption DEF Arguments, Datum
  <1>3. CASE \E p \in pairs : p[2] = NaN
    <2>1. Total(pairs) = NaN
      BY <1>3 DEF Total
    <2>2. Total(all) = NaN
      BY <1>1, <1>3 DEF Total
    <2>. QED BY <1>1, <2>1, <2>2 DEF Plus
  <1>4. CASE ~ \E p \in pairs : p[2] = NaN
    <2>1. Total(pairs) = SumOf(pairs) /\ Summable(pairs)
      BY <1>2, <1>4 DEF Total, SumOf, Summable, Arguments
    <2>2. CASE v = NaN
      <3>1. Total(all) = NaN
        BY <1>1, <2>2 DEF Total
      <3>. QED BY <1>1, <2>2, <3>1 DEF Plus
    <2>3. CASE v # NaN
      <3>1. v \in Int /\ NaN \notin Int
        BY <1>2, <2>3, ValuesAssumption
      <3>2. SumOf(all) = SumOf(pairs) + v /\ SumOf(pairs) \in Int
        BY <1>1, <2>1, <3>1, SumOneMore
      <3>3. Total(all) = SumOf(all)
        BY <1>1, <1>4, <2>3 DEF Total, SumOf
      <3>. QED BY <1>1, <2>1, <3>1, <3>2, <3>3 DEF Plus
    <2>. QED BY <2>2, <2>3
  <1>. QED BY <1>3, <1>4

\* The best of one pair more.
LEMMA BestMore ==
  ASSUME NEW pairs, Arguments(pairs), NEW best, IsBest(best, pairs),
         NEW q, q[2] \in Datum \ {NULL}
  PROVE  IsBest(IF Displaces(q[2], best) THEN q[2] ELSE best, pairs \cup {q})
  <1>1. PICK v, all, new : /\ v = q[2] /\ all = pairs \cup {q}
                           /\ new = IF Displaces(v, best) THEN v ELSE best
    OBVIOUS
  <1>2. v \in Int \cup {NaN} /\ \A p \in pairs : p[2] \in Int \cup {NaN}
    BY <1>1, ValuesAssumption DEF Arguments, Datum
  <1>3. NaN \notin Int /\ NULL \notin Int /\ NULL # NaN
    BY ValuesAssumption
  <1>4. Beats \in {"less", "greater"} /\ (Displaces(v, best) <=> best = NULL \/ Compare(v, best) = Beats)
    BY DEF Beats, Displaces
  <1>5. \A a, b \in Int \cup {NaN} :
           Compare(a, b) = IF a = NaN \/ b = NaN THEN "none"
                           ELSE IF a < b THEN "less" ELSE IF a = b THEN "equal" ELSE "greater"
    BY <1>3 DEF Compare
  <1>6. all # {} /\ \A p \in all : p \in pairs \/ p = q
    BY <1>1
  <1>7. CASE pairs = {}
    <2>1. best = NULL /\ new = v /\ all = {q}
      BY <1>1, <1>4, <1>7 DEF IsBest
    <2>2. Compare(v, v) # Beats
      BY <1>2, <1>4, <1>5
    <2>. QED BY <1>1, <1>6, <2>1, <2>2 DEF IsBest
  <1>8. CASE pairs # {}
    <2>1. PICK p0 \in pairs : p0[2] = best
      BY <1>8 DEF IsBest
    <2>2. best \in Int \cup {NaN} /\ best # NULL /\ \A p \in pairs : Compare(p[2], best) # Beats
      BY <1>2, <1>3, <1>8, <2>1 DEF IsBest
    <2>3. CASE Compare(v, best) = Beats
      <3>1. new = v /\ v \in Int /\ best \in Int
        BY <1>1, <1>2, <1>4, <1>5, <2>2, <2>3
      <3>2. ASSUME NEW w \in Int \cup {NaN}, Compare(w, best) # Beats
            PROVE  Compare(w, v) # Beats
        BY <1>3, <1>4, <1>5, <2>3, <3>1, <3>2
      <3>3. Compare(v, v) # Beats
        BY <1>2, <1>4, <1>5
      <3>4. \A p \in all : Compare(p[2], v) # Beats
        BY <1>1, <1>2, <1>6, <2>2, <3>2, <3>3
      <3>5. q \in all /\ q[2] = v
        BY <1>1
      <3>. QED BY <1>1, <1>6, <3>1, <3>4, <3>5 DEF IsBest
    <2>4. CASE Compare(v, best) # Beats
      <3>1. new = best
        BY <1>1, <1>4, <2>2, <2>4
      <3>2. \A p \in all : Compare(p[2], best) # Beats
        BY <1>1, <1>6, <2>2, <2>4
      <3>3. p0 \in all
        BY <1>1
      <3>. QED BY <1>1, <1>6, <2>1, <3>1, <3>2, <3>3 DEF IsBest
    <2>. QED BY <2>3, <2>4
  <1>. QED BY <1>1, <1>7, <1>8

\* One row more in what a function is of.
Pair(row) == <<IF plan.distinct THEN 0 ELSE row, Argument(row)>>

LEMMA ChosenMore ==
  ASSUME IsAggregate, NEW some \in SUBSET (1..InputSize), NEW row \in 1..InputSize
  PROVE  /\ IsFiniteSet(Chosen(some))
         /\ plan.column # 0 => Arguments(Chosen(some))
         /\ plan.column = 0 \/ Argument(row) # NULL =>
              Chosen(some \cup {row}) = Chosen(some) \cup {Pair(row)}
         /\ plan.column # 0 /\ Argument(row) = NULL => Chosen(some \cup {row}) = Chosen(some)
  <1>1. \A S : Chosen(S) = {Pair(r) : r \in Taken(S)}
    BY DEF Chosen, Pair
  <1>2. /\ plan.column = 0 \/ Argument(row) # NULL => Taken(some \cup {row}) = Taken(some) \cup {row}
        /\ plan.column # 0 /\ Argument(row) = NULL => Taken(some \cup {row}) = Taken(some)
    BY DEF Taken
  <1>3. IsFiniteSet(Chosen(some))
    <2>1. IsFiniteSet(1..InputSize)
      BY AggregatePlanned, FS_Interval
    <2>2. Taken(some) \subseteq 1..InputSize
      BY DEF Taken
    <2>3. IsFiniteSet(Taken(some))
      BY <2>1, <2>2, FS_Subset
    <2>4. PICK f : f = [r \in Taken(some) |-> Pair(r)]
      OBVIOUS
    <2>5. f \in Surjection(Taken(some), Chosen(some))
      BY <1>1, <2>4 DEF Surjection
    <2>. QED BY <2>3, <2>5, FS_Surjection
  <1>4. ASSUME plan.column # 0, NEW p \in Chosen(some)
        PROVE  p[2] \in Datum \ {NULL}
    <2>1. PICK r \in Taken(some) : p = Pair(r)
      BY <1>1
    <2>2. r \in 1..InputSize /\ Argument(r) # NULL
      BY <1>4, <2>1 DEF Taken
    <2>3. p[2] = Argument(r)
      BY <2>1 DEF Pair
    <2>. QED BY <2>2, <2>3, ArgumentsTold
  <1>. QED BY <1>1, <1>2, <1>3, <1>4 DEF Arguments

\* No row at all.
LEMMA EmptyHolds ==
  ASSUME IsAggregate
  PROVE  HoldsOf(Accumulator, {}) /\ Chosen({}) = {}
  <1>1. Chosen({}) = {}
    BY DEF Chosen, Taken
  <1>2. Accumulator \in Accumulators
    BY DEF Accumulator, Accumulators, Datum
  <1>3. Cardinality({}) = 0 /\ Total({}) = 0
    BY FS_EmptySet, SumOfNone DEF Total, SumOf
  <1>. QED BY <1>1, <1>2, <1>3 DEF HoldsOf, IsBest, Accumulator

\* An accumulator a row more.
LEMMA UpdateHolds ==
  ASSUME IsAggregate, NEW some \in SUBSET (1..InputSize), NEW row \in (1..InputSize) \ some,
         NEW acc, HoldsOf(acc, some)
  PROVE  HoldsOf(update(acc, row), some \cup {row})
  <1>1. PICK chosen, more, q, v, new :
          /\ chosen = Chosen(some) /\ more = Chosen(some \cup {row})
          /\ q = Pair(row) /\ v = Argument(row) /\ new = update(acc, row)
    OBVIOUS
  <1>2. /\ IsFiniteSet(chosen)
        /\ plan.column # 0 => Arguments(chosen)
        /\ plan.column = 0 \/ v # NULL => more = chosen \cup {q}
        /\ plan.column # 0 /\ v = NULL => more = chosen
    BY <1>1, ChosenMore
  <1>3. /\ acc \in Accumulators
        /\ Counts => acc.n = Cardinality(chosen)
        /\ plan.column # 0 =>
             /\ Counts => acc.sum = Total(chosen)
             /\ acc.seen = {KeyValue(p[2]) : p \in chosen}
             /\ IsBest(acc.best, chosen)
    BY <1>1 DEF HoldsOf
  <1>4. /\ q[2] = v /\ v \in Datum
        /\ plan.column = 0 => ~ plan.distinct /\ Counts
    BY <1>1, ArgumentsTold DEF Pair, Counts
  <1>5. new \in Accumulators
    BY <1>1, <1>3, AggregatePlanned, UpdateTyped
  <1>6. ASSUME NEW p \in chosen
        PROVE  \E r \in some : p = Pair(r) /\ p[2] = Argument(r)
    BY <1>1 DEF Chosen, Taken, Pair
  <1>7. ~ plan.distinct => q \notin chosen
    <2>1. SUFFICES ASSUME ~ plan.distinct, q \in chosen
                   PROVE  FALSE
      OBVIOUS
    <2>2. PICK r \in some : q = Pair(r)
      BY <1>6, <2>1
    <2>3. q = <<row, v>> /\ q = <<r, Argument(r)>>
      BY <1>1, <2>1, <2>2 DEF Pair
    <2>. QED BY <2>3
  <1>8. CASE plan.column = 0
    <2>1. new.n = acc.n + 1 /\ acc.n \in Nat
      BY <1>1, <1>3, <1>8 DEF update, Accumulators
    <2>2. q \notin chosen
      BY <1>4, <1>7, <1>8
    <2>3. Cardinality(more) = Cardinality(chosen) + 1
      BY <1>2, <1>8, <2>2, FS_AddElement
    <2>. QED BY <1>1, <1>3, <1>4, <1>5, <1>8, <2>1, <2>3 DEF HoldsOf
  <1>9. CASE plan.column # 0
    <2>1. v = plan.input[row][plan.column]
      BY <1>1, <1>9 DEF Argument
    <2>2. CASE v = NULL
      <3>1. new = acc
        BY <1>1, <1>9, <2>1, <2>2 DEF update, Ignored
      <3>. QED BY <1>1, <1>2, <1>3, <1>9, <2>2, <3>1 DEF HoldsOf
    <2>3. CASE v # NULL /\ Ignored(acc, v)
      <3>1. new = acc /\ plan.distinct /\ KeyValue(v) \in acc.seen
        BY <1>1, <1>9, <2>1, <2>3 DEF update, Ignored
      <3>2. PICK p \in chosen : KeyValue(p[2]) = KeyValue(v)
        BY <1>3, <1>9, <3>1
      <3>3. PICK r \in some : p = Pair(r) /\ p[2] = Argument(r)
        BY <1>6
      <3>4. Argument(r) = v
        BY <1>1, <1>9, <3>2, <3>3, ArgumentsTold
      <3>5. q = p
        BY <1>1, <3>1, <3>3, <3>4 DEF Pair
      <3>6. more = chosen
        BY <1>2, <2>3, <3>5
      <3>. QED BY <1>1, <1>3, <3>1, <3>6 DEF HoldsOf
    <2>4. CASE ~ Ignored(acc, v)
      <3>1. /\ new.n = acc.n + 1 /\ acc.n \in Nat
            /\ new.sum = Plus(acc.sum, v)
            /\ new.best = IF Displaces(v, acc.best) THEN v ELSE acc.best
            /\ new.seen = acc.seen \cup {KeyValue(v)}
        BY <1>1, <1>3, <1>9, <2>1, <2>4 DEF update, Accumulators
      <3>2. v # NULL /\ more = chosen \cup {q}
        BY <1>2, <2>4 DEF Ignored
      <3>3. Counts => q \notin chosen
        <4>1. ASSUME Counts, plan.distinct, q \in chosen
              PROVE  FALSE
          <5>1. KeyValue(v) \in acc.seen
            BY <1>3, <1>4, <1>9, <4>1
          <5>. QED BY <2>4, <4>1, <5>1 DEF Ignored, Counts
        <4>. QED BY <1>7, <4>1
      <3>4. ASSUME Counts
            PROVE  new.n = Cardinality(more) /\ new.sum = Total(more)
        <4>1. Cardinality(more) = Cardinality(chosen) + 1
          BY <1>2, <3>2, <3>3, <3>4, FS_AddElement
        <4>2. Total(chosen \cup {q}) = Plus(Total(chosen), q[2])
          BY <1>2, <1>4, <1>9, <3>2, <3>3, <3>4, TotalMore
        <4>. QED BY <1>3, <1>4, <1>9, <3>1, <3>2, <3>4, <4>1, <4>2
      <3>5. new.seen = {KeyValue(p[2]) : p \in more}
        BY <1>3, <1>4, <1>9, <3>1, <3>2
      <3>6. IsBest(IF Displaces(q[2], acc.best) THEN q[2] ELSE acc.best, chosen \cup {q})
        BY <1>2, <1>3, <1>4, <1>9, <3>2, BestMore
      <3>. QED BY <1>1, <1>4, <1>5, <3>1, <3>2, <3>4, <3>5, <3>6 DEF HoldsOf
    <2>. QED BY <2>2, <2>3, <2>4
  <1>. QED BY <1>8, <1>9

\* The rows of a group.
Members(key) == {r \in DOMAIN plan.input : GroupValues(r) = key}

\* What an accumulator of all of them finishes with.
LEMMA Finishes ==
  ASSUME IsAggregate, NEW key, NEW acc, HoldsOf(acc, Members(key))
  PROVE  IsAggregateOf(key, finish(acc))
  <1>1. PICK chosen, value : chosen = Chosen(Members(key)) /\ value = finish(acc)
    OBVIOUS
  <1>2. plan.func \in AggregateFunction /\ plan.func \in {"count", "sum", "avg", "min", "max"}
    BY AggregatePlanned DEF Aggregate, AggregateFunction
  <1>3. /\ Counts => acc.n = Cardinality(chosen)
        /\ plan.column # 0 =>
             /\ Counts => acc.sum = Total(chosen)
             /\ IsBest(acc.best, chosen)
    BY <1>1 DEF HoldsOf
  <1>4. plan.func # "count" => plan.column # 0
    BY ArgumentsTold
  <1>5. (Cardinality(chosen) = 0) <=> (chosen = {})
    <2>1. PICK S : S = Members(key)
      OBVIOUS
    <2>2. S \in SUBSET (1..InputSize)
      BY <2>1, AggregatePlanned DEF Members
    <2>3. IsFiniteSet(Chosen(S))
      <3>1. CASE S = {}
        BY <3>1, EmptyHolds, FS_EmptySet
      <3>2. CASE S # {}
        BY <2>2, <3>2, ChosenMore
      <3>. QED BY <3>1, <3>2
    <2>. QED BY <1>1, <2>1, <2>3, FS_EmptySet
  <1>6. Counts <=> plan.func \in {"count", "sum", "avg"}
    BY <1>2 DEF Counts
  <1>7. CASE plan.func = "count"
    BY <1>1, <1>3, <1>6, <1>7 DEF IsAggregateOf, finish, Members
  <1>8. CASE plan.func = "sum"
    <2>1. value = IF chosen = {} THEN NULL ELSE Total(chosen)
      BY <1>1, <1>3, <1>4, <1>5, <1>6, <1>8 DEF finish
    <2>. QED BY <1>1, <1>8, <2>1 DEF IsAggregateOf, Members
  <1>9. CASE plan.func = "avg"
    <2>1. value = IF chosen = {} THEN NULL ELSE <<Total(chosen), Cardinality(chosen)>>
      BY <1>1, <1>3, <1>4, <1>5, <1>6, <1>9 DEF finish
    <2>. QED BY <1>1, <1>9, <2>1 DEF IsAggregateOf, Members
  <1>10. CASE plan.func \in {"min", "max"}
    <2>1. value = acc.best
      BY <1>1, <1>10 DEF finish
    <2>2. IsBest(value, chosen)
      BY <1>3, <1>4, <1>10, <2>1
    <2>. QED BY <1>1, <1>10, <2>2 DEF IsAggregateOf, IsBest, Beats, Members
  <1>. QED BY <1>2, <1>7, <1>8, <1>9, <1>10

-----------------------------------------------------------------------------
(* The rows of a group.                                                    *)

\* The key of the row that arrives i-th, and 0 for that of a group no row made.
KeyAt(i) == IF i = 0 THEN <<>> ELSE GroupValues(Arriving[i])

\* Two rows of one key have the same values in the columns grouped by.
LEMMA KeysTold ==
  ASSUME IsAggregate, NEW r \in 1..InputSize, NEW o \in 1..InputSize
  PROVE  /\ HashKey(GroupValues(r)) = HashKey(GroupValues(o)) <=> GroupValues(r) = GroupValues(o)
         /\ GroupValues(r) = GroupValues(o)
              <=> \A c \in 1..Len(plan.group_by) :
                    plan.input[r][plan.group_by[c]] = plan.input[o][plan.group_by[c]]
  <1>1. PICK p, by, columns : p = plan /\ by = plan.group_by /\ columns = ToSet(by) \cup ({p.column} \ {0})
    OBVIOUS
  <1>2. PICK m : m = Len(by)
    OBVIOUS
  <1>3. DOMAIN by = 1..m /\ DOMAIN p.input = 1..InputSize
    <2>1. by \in Seq(Nat \ {0})
      BY <1>1, AggregatePlanned DEF Aggregate
    <2>. QED BY <1>1, <1>2, <2>1, AggregatePlanned, LenProperties
  <1>4. \A a, b \in Held(p.input, columns) : KeyValue(a) = KeyValue(b) => a = b
    <2>1. p \in Inputs("aggregate")
      BY <1>1, KindAssumption DEF IsAggregate, PlanGiven
    <2>2. columns = ToSet(p.group_by) \cup ({p.column} \ {0})
      BY <1>1
    <2>. QED BY <2>1, <2>2, AggregateAssumption
  <1>5. \A s \in 1..InputSize, c \in 1..m : p.input[s][by[c]] \in Held(p.input, columns)
    <2>1. \A c \in 1..m : by[c] \in columns
      BY <1>1, <1>3 DEF ToSet
    <2>. QED BY <1>3, <2>1 DEF Held
  <1>6. \A s : GroupValues(s) = [c \in 1..m |-> p.input[s][by[c]]]
    BY <1>1, <1>3 DEF GroupValues, Columns
  <1>7. PICK a, b : a = GroupValues(r) /\ b = GroupValues(o)
    OBVIOUS
  <1>8. a = [c \in 1..m |-> p.input[r][by[c]]] /\ b = [c \in 1..m |-> p.input[o][by[c]]]
    BY <1>6, <1>7
  <1>9. HashKey(a) = [c \in 1..m |-> KeyValue(a[c])] /\ HashKey(b) = [c \in 1..m |-> KeyValue(b[c])]
    BY <1>8 DEF HashKey
  <1>10. \A c \in 1..m : KeyValue(a[c]) = KeyValue(b[c]) => a[c] = b[c]
    BY <1>4, <1>5, <1>8
  <1>11. a = b <=> \A c \in 1..m : a[c] = b[c]
    BY <1>8
  <1>12. ASSUME HashKey(a) = HashKey(b)
         PROVE  a = b
    <2>1. \A c \in 1..m : KeyValue(a[c]) = KeyValue(b[c])
      <3>1. PICK f, g : f = HashKey(a) /\ g = HashKey(b)
        OBVIOUS
      <3>2. \A c \in 1..m : f[c] = KeyValue(a[c]) /\ g[c] = KeyValue(b[c])
        BY <1>9, <3>1
      <3>. QED BY <1>12, <3>1, <3>2
    <2>. QED BY <1>10, <1>11, <2>1
  <1>13. a = b <=> \A c \in 1..m : p.input[r][by[c]] = p.input[o][by[c]]
    BY <1>8, <1>11
  <1>14. HashKey(a) = HashKey(b) <=> a = b
    BY <1>12
  <1>. QED BY ONLY <1>1, <1>2, <1>7, <1>13, <1>14

\* The columns grouped by hold values.
LEMMA GroupColumns ==
  ASSUME IsAggregate
  PROVE  \A r \in 1..InputSize, c \in 1..Len(plan.group_by) : plan.input[r][plan.group_by[c]] \in Datum
  <1>1. PICK p, by, m, n : p = plan /\ by = plan.group_by /\ m = Len(by) /\ n = InputSize
    OBVIOUS
  <1>2. \A r \in 1..n : GroupValues(r) \in Row
    BY <1>1, AggregatePlanned
  <1>3. DOMAIN by = 1..m /\ m \in Nat
    <2>1. by \in Seq(Nat \ {0})
      BY <1>1, AggregatePlanned DEF Aggregate
    <2>. QED BY <1>1, <2>1, LenProperties
  <1>4. ASSUME NEW r \in 1..n, NEW c \in 1..m
        PROVE  p.input[r][by[c]] \in Datum
    <2>1. PICK g : g = GroupValues(r)
      OBVIOUS
    <2>2. g = [i \in 1..m |-> p.input[r][by[i]]]
      BY <1>1, <1>3, <2>1 DEF GroupValues, Columns
    <2>3. g \in Seq(Datum) /\ DOMAIN g = 1..m
      BY <1>2, <2>1, <2>2 DEF Row
    <2>4. c \in DOMAIN g /\ \A i \in DOMAIN g : g[i] \in Datum
      BY <2>3, LenProperties, ElementOfSeq
    <2>. QED BY <2>2, <2>4
  <1>. QED BY <1>1, <1>4

\* Rows arrive once each.
LEMMA AllArrive ==
  ASSUME IsAggregate
  PROVE  /\ \A r \in 1..InputSize : \E i \in 1..InputSize : Arriving[i] = r
         /\ \A i, j \in 1..InputSize : Arriving[i] = Arriving[j] => i = j
         /\ ~ plan.forced => \A i \in 1..InputSize : Arriving[i] = i
         /\ plan.forced /\ plan.group_by # <<>> =>
              SortedRows(Arriving, plan.input, InputSize, sorted_on(plan.group_by))
  <1>1. PICK p, by, m, n : p = plan /\ by = plan.group_by /\ m = Len(by) /\ n = InputSize
    OBVIOUS
  <1>2. by \in Seq(Nat \ {0}) /\ n \in Nat /\ DOMAIN p.input = 1..n
    BY <1>1, AggregatePlanned DEF Aggregate
  <1>3. CASE p.forced /\ by # <<>>
    <2>1. PICK specs : specs = sorted_on(by)
      OBVIOUS
    <2>2. /\ specs \in Seq(OrderKey) /\ DOMAIN specs = 1..m
          /\ \A c \in 1..m : specs[c].column = by[c]
      BY <1>1, <1>2, <2>1, SortedOn
    <2>3. \A r \in 1..n, c \in 1..m : p.input[r][by[c]] \in Datum
      BY <1>1, GroupColumns
    <2>4. Sortable(p.input, n, specs)
      BY <1>2, <2>2, <2>3 DEF Sortable, HasKeys
    <2>5. SortedRows(Arriving, p.input, n, specs)
      BY <1>1, <1>3, <2>1, <2>4, SortSorts DEF Arriving
    <2>6. /\ \A r \in 1..n : \E i \in 1..n : Arriving[i] = r
          /\ \A i, j \in 1..n : i < j => Arriving[i] # Arriving[j]
      BY <2>5 DEF SortedRows
    <2>. QED BY <1>1, <1>2, <1>3, <2>1, <2>5, <2>6
  <1>4. CASE ~ (p.forced /\ by # <<>>)
    <2>1. Arriving = [i \in 1..n |-> i]
      BY <1>1, <1>2, <1>4 DEF Arriving
    <2>. QED BY <1>1, <1>4, <2>1
  <1>. QED BY <1>3, <1>4

\* Keys that order the rows as they arrive, by the columns grouped by.
OrdersGroups(specs) ==
  /\ specs \in Seq(OrderKey) /\ Len(specs) = Len(plan.group_by)
  /\ \A c \in 1..Len(specs) : specs[c].column = plan.group_by[c]
  /\ \A r \in 1..InputSize : HasKeys(plan.input[r], specs)
  /\ \A i, j \in 1..InputSize :
       i < j => compare_rows(plan.input[Arriving[i]], plan.input[Arriving[j]], specs) # "greater"

\* A row has the columns its input is ordered by.
LEMMA InputSortable ==
  ASSUME IsAggregate
  PROVE  Sortable(plan.input, InputSize, plan.order)
  <1>1. PICK p, n, order, columns : /\ p = plan /\ n = InputSize /\ order = plan.order
                                    /\ columns = {key.column : key \in ToSet(p.order)}
    OBVIOUS
  <1>2. p \in Inputs("aggregate")
    BY <1>1, KindAssumption DEF IsAggregate, PlanGiven
  <1>3. Held(p.input, columns) \subseteq Datum
    BY <1>1, <1>2, AggregateAssumption
  <1>4. order \in Seq(OrderKey) /\ n \in Nat /\ DOMAIN p.input = 1..n
    BY <1>1, AggregatePlanned DEF Aggregate
  <1>5. \A k \in DOMAIN order : order[k].column \in columns
    BY <1>1 DEF ToSet
  <1>6. \A r \in 1..n, k \in DOMAIN order : p.input[r][order[k].column] \in Datum
    BY <1>3, <1>4, <1>5 DEF Held
  <1>. QED BY <1>1, <1>4, <1>6 DEF Sortable, HasKeys

\* A plan that streams has such keys: the ordering of its input, or the sort's.
LEMMA GroupsOrdered ==
  ASSUME IsAggregate, streams, Arrives(plan.input, plan.order), plan.group_by # <<>>
  PROVE  \E specs : OrdersGroups(specs)
  <1>1. PICK p, by, m, n : p = plan /\ by = plan.group_by /\ m = Len(by) /\ n = InputSize
    OBVIOUS
  <1>2. by \in Seq(Nat \ {0}) /\ n \in Nat /\ DOMAIN p.input = 1..n /\ Len(p.input) = n
    BY <1>1, AggregatePlanned DEF Aggregate, InputSize
  <1>3. m \in Nat /\ DOMAIN by = 1..m
    BY <1>1, <1>2, LenProperties
  <1>4. Arriving \in [1..n -> 1..n]
    BY <1>1, AggregatePlanned
  <1>5. CASE p.forced
    <2>1. PICK specs : specs = sorted_on(by)
      OBVIOUS
    <2>2. /\ specs \in Seq(OrderKey) /\ Len(specs) = m /\ DOMAIN specs = 1..m
          /\ \A c \in 1..m : specs[c].column = by[c]
      BY <1>1, <1>2, <2>1, SortedOn
    <2>3. SortedRows(Arriving, p.input, n, specs)
      BY <1>1, <1>5, <2>1, AllArrive
    <2>4. \A r \in 1..n, c \in 1..m : p.input[r][by[c]] \in Datum
      BY <1>1, GroupColumns
    <2>5. \A r \in 1..n : HasKeys(p.input[r], specs)
      BY <2>2, <2>4 DEF HasKeys
    <2>6. \A i, j \in 1..n : i < j => compare_rows(p.input[Arriving[i]], p.input[Arriving[j]], specs) # "greater"
      BY <2>3 DEF SortedRows
    <2>. QED BY <1>1, <2>2, <2>5, <2>6 DEF OrdersGroups
  <1>6. CASE ~ p.forced
    <2>1. PICK order : order = p.order
      OBVIOUS
    <2>2. satisfies(order, by)
      BY <1>1, <1>6, <2>1 DEF streams
    <2>3. Sortable(p.input, n, order)
      BY <1>1, <2>1, InputSortable
    <2>4. order \in Seq(OrderKey) /\ \A r \in 1..n : HasKeys(p.input[r], order)
      BY <2>3 DEF Sortable
    <2>5. \A i, j \in 1..n : i < j => compare_rows(p.input[i], p.input[j], order) # "greater"
      BY <1>1, <1>2, <2>1, <2>3, InOrderThroughout
    <2>6. PICK specs : specs = SubSeq(order, 1, m)
      OBVIOUS
    <2>7. AreFirst(specs, m, order)
      <3>1. m <= Len(order)
        BY <1>1, <2>2 DEF satisfies
      <3>2. Len(order) \in Nat
        BY <2>4, LenProperties
      <3>3. m \in 0..Len(order)
        BY ONLY <1>3, <3>1, <3>2
      <3>. QED BY <2>6, <3>3 DEF AreFirst
    <2>8. ASSUME NEW r \in 1..n, NEW o \in 1..n, compare_rows(p.input[r], p.input[o], order) # "greater"
          PROVE  /\ HasKeys(p.input[r], specs)
                 /\ compare_rows(p.input[r], p.input[o], specs) # "greater"
      <3>1. PICK x, y : x = p.input[r] /\ y = p.input[o]
        OBVIOUS
      <3>2. HasKeys(x, order) /\ HasKeys(y, order) /\ compare_rows(x, y, order) # "greater"
        BY <2>4, <2>8, <3>1
      <3>3. /\ HasKeys(x, specs)
            /\ compare_rows(x, y, specs) # "greater"
        BY ONLY <2>4, <2>7, <3>2, FirstKeys
      <3>. QED BY <3>1, <3>3
    <2>9. ASSUME NEW r \in 1..n
          PROVE  compare_rows(p.input[r], p.input[r], order) # "greater"
      <3>1. compare_rows(p.input[r], p.input[r], order) = "equal"
        BY <2>4, RowTieIsSame
      <3>. QED BY <3>1
    <2>10. specs \in Seq(OrderKey) /\ Len(specs) = m /\ \A c \in 1..m : specs[c] = order[c]
      <3>1. \A c \in 1..m : order[c] \in OrderKey
        <4>1. m \in 0..Len(order)
          BY <2>7 DEF AreFirst
        <4>2. \A c \in 1..m : c \in 1..Len(order)
          BY <1>3, <4>1
        <4>. QED BY <2>4, <4>2, ElementOfSeq
      <3>2. PICK part : part = SubSeq(order, 1, m)
        OBVIOUS
      <3>3. \A c \in 1..m : order[c] \in OrderKey
        BY <3>1
      <3>4. /\ part \in Seq(OrderKey) /\ Len(part) = IF 1 <= m THEN m - 1 + 1 ELSE 0
            /\ \A c \in 1..m - 1 + 1 : part[c] = order[1 + c - 1]
        BY ONLY <1>3, <3>2, <3>3, SubSeqProperties
      <3>5. (IF 1 <= m THEN m - 1 + 1 ELSE 0) = m /\ m - 1 + 1 = m /\ \A c \in 1..m : 1 + c - 1 = c
        BY ONLY <1>3
      <3>. QED BY ONLY <2>6, <3>2, <3>4, <3>5
    <2>11. \A c \in 1..m : specs[c].column = by[c]
      BY <1>3, <2>2, <2>10 DEF satisfies
    <2>12. \A r \in 1..n : HasKeys(p.input[r], specs)
      BY <2>8, <2>9
    <2>13. \A i \in 1..n : Arriving[i] = i
      BY <1>1, <1>6, AllArrive
    <2>14. \A i, j \in 1..n : i < j => compare_rows(p.input[Arriving[i]], p.input[Arriving[j]], specs) # "greater"
      BY <2>5, <2>8, <2>13
    <2>. QED BY <1>1, <2>10, <2>11, <2>12, <2>14 DEF OrdersGroups
  <1>. QED BY <1>5, <1>6

\* Without columns to group by, no key differs from another.
LEMMA NoKeys ==
  ASSUME IsAggregate, plan.group_by = <<>>
  PROVE  \A i \in 0..InputSize : KeyAt(i) = <<>>
  <1>1. SUFFICES ASSUME NEW i \in 1..InputSize
                 PROVE  GroupValues(Arriving[i]) = <<>>
    BY AggregatePlanned DEF KeyAt
  <1>2. PICK g : g = GroupValues(Arriving[i])
    OBVIOUS
  <1>3. DOMAIN <<>> = {}
    OBVIOUS
  <1>4. DOMAIN g = {}
    BY <1>2, <1>3 DEF GroupValues, Columns
  <1>5. g \in Seq(Datum)
    BY <1>2, AggregatePlanned DEF Row
  <1>6. Len(g) = 0
    BY <1>4, <1>5, LenProperties
  <1>. QED BY <1>2, <1>5, <1>6, EmptySeq

\* The rows of a group arrive together at an aggregate that streams.
LEMMA Grouped ==
  ASSUME IsAggregate, streams, Arrives(plan.input, plan.order),
         NEW i \in 0..InputSize, NEW j \in 1..InputSize, NEW k \in 1..InputSize,
         i < j, j < k, KeyAt(i) = KeyAt(k), i = 0 => plan.group_by = <<>>
  PROVE  KeyAt(j) = KeyAt(k)
  <1>0. InputSize \in Nat /\ Arriving \in [1..InputSize -> 1..InputSize]
    BY AggregatePlanned
  <1>1. CASE plan.group_by = <<>>
    <2>1. j \in 0..InputSize /\ k \in 0..InputSize
      BY <1>0
    <2>. QED BY <1>1, <2>1, NoKeys
  <1>2. CASE plan.group_by # <<>>
    <2>1. PICK specs : OrdersGroups(specs)
      BY <1>2, GroupsOrdered
    <2>2. i \in 1..InputSize
      BY <1>0, <1>2
    <2>3. PICK r, s, t : r = Arriving[i] /\ s = Arriving[j] /\ t = Arriving[k]
      OBVIOUS
    <2>4. r \in 1..InputSize /\ s \in 1..InputSize /\ t \in 1..InputSize
      BY <1>0, <2>2, <2>3
    <2>5. PICK x, y, z : x = plan.input[r] /\ y = plan.input[s] /\ z = plan.input[t]
      OBVIOUS
    <2>6. /\ specs \in Seq(OrderKey) /\ HasKeys(x, specs) /\ HasKeys(y, specs) /\ HasKeys(z, specs)
          /\ compare_rows(x, y, specs) # "greater" /\ compare_rows(y, z, specs) # "greater"
      BY <2>1, <2>2, <2>3, <2>4, <2>5 DEF OrdersGroups
    <2>7. GroupValues(r) = GroupValues(t) /\ (GroupValues(s) = GroupValues(t) => KeyAt(j) = KeyAt(k))
      BY <1>0, <2>2, <2>3 DEF KeyAt
    <2>8. \A c \in 1..Len(plan.group_by) : x[plan.group_by[c]] = z[plan.group_by[c]]
      BY <2>4, <2>5, <2>7, KeysTold
    <2>9. Len(specs) = Len(plan.group_by) /\ \A c \in 1..Len(specs) : specs[c].column = plan.group_by[c]
      BY <2>1 DEF OrdersGroups
    <2>10. compare_rows(x, z, specs) = "equal"
      <3>1. \A c \in 1..Len(specs) : x[specs[c].column] = z[specs[c].column]
        BY <2>8, <2>9
      <3>. QED BY <2>6, <3>1, RowTieIsSame
    <2>11. compare_rows(y, z, specs) = "equal"
      BY <2>6, <2>10, RowsTransitive
    <2>12. \A c \in 1..Len(specs) : y[specs[c].column] = z[specs[c].column]
      BY <2>6, <2>11, RowTieIsSame
    <2>13. \A c \in 1..Len(plan.group_by) : y[plan.group_by[c]] = z[plan.group_by[c]]
      BY <2>9, <2>12
    <2>14. GroupValues(s) = GroupValues(t)
      BY <2>4, <2>5, <2>13, KeysTold
    <2>. QED BY <2>7, <2>14
  <1>. QED BY <1>1, <1>2

\* The rows of a key among the first that arrive.
RowsSo(key, m) == {Arriving[i] : i \in {k \in 1..m : KeyAt(k) = key}}

LEMMA RowsMore ==
  ASSUME IsAggregate, NEW key, NEW m \in 0..InputSize
  PROVE  /\ RowsSo(key, m) \in SUBSET (1..InputSize)
         /\ m + 1 \in 1..InputSize =>
              /\ Arriving[m + 1] \notin RowsSo(key, m)
              /\ KeyAt(m + 1) = key => RowsSo(key, m + 1) = RowsSo(key, m) \cup {Arriving[m + 1]}
              /\ KeyAt(m + 1) # key => RowsSo(key, m + 1) = RowsSo(key, m)
         /\ m = 0 => RowsSo(key, m) = {}
  <1>1. InputSize \in Nat /\ m \in Nat /\ Arriving \in [1..InputSize -> 1..InputSize]
    BY AggregatePlanned
  <1>2. \A i \in 1..m : i \in 1..InputSize
    BY <1>1
  <1>3. RowsSo(key, m) \in SUBSET (1..InputSize)
    BY <1>1, <1>2 DEF RowsSo
  <1>4. ASSUME m + 1 \in 1..InputSize
        PROVE  Arriving[m + 1] \notin RowsSo(key, m)
    <2>1. SUFFICES ASSUME NEW i \in 1..m, Arriving[m + 1] = Arriving[i]
                   PROVE  FALSE
      BY DEF RowsSo
    <2>2. i = m + 1
      BY <1>2, <1>4, <2>1, AllArrive
    <2>. QED BY <1>1, <2>2
  <1>5. \A i : i \in 1..m + 1 <=> i \in 1..m \/ i = m + 1
    BY <1>1
  <1>6. PICK a, b : a = {k \in 1..m : KeyAt(k) = key} /\ b = {k \in 1..m + 1 : KeyAt(k) = key}
    OBVIOUS
  <1>7. /\ KeyAt(m + 1) = key => b = a \cup {m + 1}
        /\ KeyAt(m + 1) # key => b = a
    BY <1>5, <1>6
  <1>8. RowsSo(key, m) = {Arriving[i] : i \in a} /\ RowsSo(key, m + 1) = {Arriving[i] : i \in b}
    BY <1>6, Zenon DEF RowsSo
  <1>9. m = 0 => a = {}
    BY <1>6
  <1>. QED BY <1>3, <1>4, <1>7, <1>8, <1>9

\* In the end they are those of the group.
LEMMA RowsAll ==
  ASSUME IsAggregate, NEW key
  PROVE  RowsSo(key, InputSize) = Members(key)
  <1>1. InputSize \in Nat /\ Arriving \in [1..InputSize -> 1..InputSize] /\ DOMAIN plan.input = 1..InputSize
    BY AggregatePlanned
  <1>2. \A i \in 1..InputSize : KeyAt(i) = GroupValues(Arriving[i])
    BY <1>1 DEF KeyAt
  <1>3. \A r \in 1..InputSize : \E i \in 1..InputSize : Arriving[i] = r
    BY AllArrive
  <1>4. ASSUME NEW r \in Members(key)
        PROVE  r \in RowsSo(key, InputSize)
    <2>1. r \in 1..InputSize /\ GroupValues(r) = key
      BY <1>1 DEF Members
    <2>2. PICK i \in 1..InputSize : Arriving[i] = r
      BY <1>3, <2>1
    <2>. QED BY <1>2, <2>1, <2>2 DEF RowsSo
  <1>5. ASSUME NEW r \in RowsSo(key, InputSize)
        PROVE  r \in Members(key)
    <2>1. PICK i \in 1..InputSize : KeyAt(i) = key /\ r = Arriving[i]
      BY DEF RowsSo
    <2>2. r \in 1..InputSize
      BY <1>1, <2>1
    <2>. QED BY <1>1, <1>2, <2>1, <2>2 DEF Members
  <1>. QED BY <1>4, <1>5

\* The rows that open a group; without columns to group by, none does.
OpensGroup(i) ==
  IF i = 0 THEN plan.group_by = <<>>
  ELSE plan.group_by # <<>> /\ \A k \in 1..i - 1 : KeyAt(k) # KeyAt(i)

HeadsUpTo(m) == {i \in 0..m : OpensGroup(i)}

LEMMA HeadsDiffer ==
  ASSUME IsAggregate, NEW m \in 0..InputSize, NEW g \in HeadsUpTo(m), NEW h \in HeadsUpTo(m),
         KeyAt(g) = KeyAt(h)
  PROVE  g = h
  <1>1. /\ InputSize \in Nat /\ m \in Nat /\ g \in 0..m /\ h \in 0..m
        /\ OpensGroup(g) /\ OpensGroup(h)
    BY AggregatePlanned DEF HeadsUpTo
  <1>2. CASE g = 0 \/ h = 0
    <2>1. plan.group_by = <<>>
      BY <1>1, <1>2 DEF OpensGroup
    <2>. QED BY <1>1, <2>1 DEF OpensGroup
  <1>3. CASE g # 0 /\ h # 0
    <2>1. /\ \A k \in 1..g - 1 : KeyAt(k) # KeyAt(g)
          /\ \A k \in 1..h - 1 : KeyAt(k) # KeyAt(h)
      BY <1>1, <1>3 DEF OpensGroup
    <2>2. g < h => g \in 1..h - 1
      BY <1>1, <1>3
    <2>3. h < g => h \in 1..g - 1
      BY <1>1, <1>3
    <2>. QED BY <1>1, <2>1, <2>2, <2>3
  <1>. QED BY <1>2, <1>3

\* Every row has the key of one of them.
LEMMA HeadOfRow ==
  ASSUME IsAggregate, NEW m \in 0..InputSize, NEW i \in 1..m
  PROVE  \E h \in HeadsUpTo(m) : KeyAt(h) = KeyAt(i)
  <1>1. InputSize \in Nat /\ m \in Nat /\ i \in 0..InputSize /\ 0 \in 0..m /\ 0 \in 0..InputSize
    BY AggregatePlanned
  <1>2. CASE plan.group_by = <<>>
    <2>1. KeyAt(0) = KeyAt(i)
      BY <1>1, <1>2, NoKeys
    <2>. QED BY <1>1, <1>2, <2>1 DEF HeadsUpTo, OpensGroup
  <1>3. CASE plan.group_by # <<>>
    <2>1. PICK S : S = {k \in 1..m : KeyAt(k) = KeyAt(i)}
      OBVIOUS
    <2>2. S \in SUBSET Nat /\ S # {}
      BY <1>1, <2>1
    <2>3. PICK h \in S : \A k \in S : h <= k
      BY <2>2, Least
    <2>4. h \in 1..m /\ KeyAt(h) = KeyAt(i)
      BY <2>1, <2>3
    <2>5. \A k \in 1..h - 1 : k \in 1..m /\ ~ h <= k
      BY <1>1, <2>4
    <2>6. \A k \in 1..h - 1 : KeyAt(k) # KeyAt(h)
      BY <2>1, <2>3, <2>4, <2>5
    <2>7. h \in 0..m /\ h # 0
      BY <1>1, <2>4
    <2>8. OpensGroup(h)
      BY <1>3, <2>6, <2>7 DEF OpensGroup
    <2>. QED BY <2>4, <2>7, <2>8 DEF HeadsUpTo
  <1>. QED BY <1>2, <1>3

\* A row of a key that is known opens no group, and another one does.
LEMMA HeadsMore ==
  ASSUME IsAggregate, NEW m \in 0..InputSize, m + 1 \in 1..InputSize
  PROVE  /\ (\E h \in HeadsUpTo(m) : KeyAt(h) = KeyAt(m + 1)) => HeadsUpTo(m + 1) = HeadsUpTo(m)
         /\ ~ (\E h \in HeadsUpTo(m) : KeyAt(h) = KeyAt(m + 1)) =>
              /\ plan.group_by # <<>>
              /\ HeadsUpTo(m + 1) = HeadsUpTo(m) \cup {m + 1}
  <1>1. InputSize \in Nat /\ m \in Nat /\ m + 1 \in 0..InputSize /\ 0 \in 0..m /\ 0 \in 0..InputSize
    BY AggregatePlanned
  <1>2. \A i : i \in 0..m + 1 <=> i \in 0..m \/ i = m + 1
    BY <1>1
  <1>3. /\ OpensGroup(m + 1) => HeadsUpTo(m + 1) = HeadsUpTo(m) \cup {m + 1}
        /\ ~ OpensGroup(m + 1) => HeadsUpTo(m + 1) = HeadsUpTo(m)
    BY <1>2 DEF HeadsUpTo
  <1>4. m + 1 # 0 /\ (m + 1) - 1 = m
    BY <1>1
  <1>5. ASSUME NEW h \in HeadsUpTo(m), KeyAt(h) = KeyAt(m + 1)
        PROVE  ~ OpensGroup(m + 1)
    <2>1. h \in 0..m /\ OpensGroup(h)
      BY DEF HeadsUpTo
    <2>2. CASE h = 0
      BY <1>4, <2>1, <2>2 DEF OpensGroup
    <2>3. CASE h # 0
      <3>1. h \in 1..(m + 1) - 1
        BY <1>1, <2>1, <2>3
      <3>. QED BY <1>4, <1>5, <3>1 DEF OpensGroup
    <2>. QED BY <2>2, <2>3
  <1>6. ASSUME ~ \E h \in HeadsUpTo(m) : KeyAt(h) = KeyAt(m + 1)
        PROVE  plan.group_by # <<>> /\ OpensGroup(m + 1)
    <2>1. plan.group_by # <<>>
      <3>1. SUFFICES ASSUME plan.group_by = <<>>
                     PROVE  FALSE
        OBVIOUS
      <3>2. 0 \in HeadsUpTo(m) /\ KeyAt(0) = KeyAt(m + 1)
        BY <1>1, <3>1, NoKeys DEF HeadsUpTo, OpensGroup
      <3>. QED BY <1>6, <3>2
    <2>2. \A k \in 1..m : KeyAt(k) # KeyAt(m + 1)
      BY <1>6, HeadOfRow
    <2>. QED BY <1>4, <2>1, <2>2 DEF OpensGroup
  <1>. QED BY <1>3, <1>5, <1>6

-----------------------------------------------------------------------------
(* The groups of the rows that have arrived.                               *)

\* Groups in the order their first rows arrived, each with what its rows so far leave.
ListsGroups(all, heads, S, m) ==
  /\ all \in Seq(GroupRecords) /\ heads \in Seq(0..InputSize) /\ Len(heads) = Len(all)
  /\ \A j, k \in 1..Len(all) : j < k => heads[j] < heads[k]
  /\ \A h : h \in S <=> \E j \in 1..Len(all) : heads[j] = h
  /\ \A j \in 1..Len(all) : /\ all[j].key = KeyAt(heads[j])
                            /\ HoldsOf(all[j].acc, RowsSo(all[j].key, m))

\* Before the first row there are none, or the one there is without a GROUP BY.
Begun(S, m) == S = HeadsUpTo(m) \/ (m = 0 /\ S = {})

\* The group that a row opens, and how a row changes the groups there are.
Opened(row) == [key |-> GroupValues(row), acc |-> update(Accumulator, row)]

TakesRow(all, more, row) ==
  \/ \E j \in 1..Len(all) :
       /\ Same(all[j], row)
       /\ more = [all EXCEPT ![j] = [key |-> all[j].key, acc |-> update(all[j].acc, row)]]
  \/ /\ \A j \in 1..Len(all) : ~ Same(all[j], row)
     /\ more = Append(all, Opened(row))

LEMMA TellsKey ==
  ASSUME IsAggregate, NEW m \in 0..InputSize, NEW h \in HeadsUpTo(m), NEW group, group.key = KeyAt(h),
         NEW i \in 1..InputSize
  PROVE  Same(group, Arriving[i]) <=> KeyAt(h) = KeyAt(i)
  <1>1. /\ InputSize \in Nat /\ Arriving \in [1..InputSize -> 1..InputSize] /\ h \in 0..InputSize /\ OpensGroup(h)
        /\ i \in 0..InputSize
    BY AggregatePlanned DEF HeadsUpTo
  <1>2. KeyAt(i) = GroupValues(Arriving[i])
    BY <1>1 DEF KeyAt
  <1>3. CASE h = 0
    <2>1. KeyAt(h) = <<>> /\ KeyAt(i) = <<>>
      BY <1>1, <1>3, NoKeys DEF OpensGroup
    <2>. QED BY <1>2, <2>1 DEF Same
  <1>4. CASE h # 0
    <2>1. h \in 1..InputSize
      BY <1>1, <1>4
    <2>2. PICK r, o : r = Arriving[h] /\ o = Arriving[i]
      OBVIOUS
    <2>3. r \in 1..InputSize /\ o \in 1..InputSize /\ KeyAt(h) = GroupValues(r)
      BY <1>1, <1>4, <2>1, <2>2 DEF KeyAt
    <2>4. HashKey(GroupValues(r)) = HashKey(GroupValues(o)) <=> GroupValues(r) = GroupValues(o)
      BY <2>3, KeysTold
    <2>. QED BY <1>2, <2>2, <2>3, <2>4 DEF Same
  <1>. QED BY <1>3, <1>4

\* A row of a group that is known.
LEMMA KnownRow ==
  ASSUME IsAggregate, NEW all, NEW heads, NEW S, NEW m \in 0..InputSize, m + 1 \in 1..InputSize,
         ListsGroups(all, heads, S, m), Begun(S, m),
         NEW j \in 1..Len(all), Same(all[j], Arriving[m + 1]),
         NEW more, more = [all EXCEPT ![j] = [key |-> all[j].key, acc |-> update(all[j].acc, Arriving[m + 1])]]
  PROVE  ListsGroups(more, heads, HeadsUpTo(m + 1), m + 1)
  <1>1. PICK n, G, size, row : n = InputSize /\ G = GroupRecords /\ size = Len(all) /\ row = Arriving[m + 1]
    OBVIOUS
  <1>2. /\ all \in Seq(G) /\ heads \in Seq(0..n) /\ Len(heads) = size
        /\ \A i, k \in 1..size : i < k => heads[i] < heads[k]
        /\ \A h : h \in S <=> \E k \in 1..size : heads[k] = h
        /\ \A k \in 1..size : all[k].key = KeyAt(heads[k]) /\ HoldsOf(all[k].acc, RowsSo(all[k].key, m))
    BY <1>1 DEF ListsGroups
  <1>3. /\ size \in Nat /\ j \in 1..size /\ n \in Nat /\ m \in Nat /\ row \in 1..n
        /\ \A k \in 1..size : all[k] \in G /\ heads[k] \in 0..n
    BY <1>1, <1>2, AggregatePlanned, LenProperties, ElementOfSeq
  <1>4. S = HeadsUpTo(m)
    BY <1>2, <1>3 DEF Begun
  <1>5. \A k \in 1..size : heads[k] \in HeadsUpTo(m)
    BY <1>2, <1>4
  <1>6. all[j].key = KeyAt(m + 1) /\ KeyAt(heads[j]) = KeyAt(m + 1)
    <2>1. PICK h, group, i : h = heads[j] /\ group = all[j] /\ i = m + 1
      OBVIOUS
    <2>2. h \in HeadsUpTo(m) /\ group.key = KeyAt(h) /\ Same(group, Arriving[i]) /\ i \in 1..InputSize
      BY <1>2, <1>3, <1>5, <2>1
    <2>3. KeyAt(h) = KeyAt(i)
      BY <2>2, TellsKey
    <2>. QED BY <2>1, <2>2, <2>3
  <1>7. HeadsUpTo(m + 1) = S
    BY <1>3, <1>4, <1>5, <1>6, HeadsMore
  <1>8. PICK new : new = [key |-> all[j].key, acc |-> update(all[j].acc, row)]
    OBVIOUS
  <1>9. /\ RowsSo(all[j].key, m) \in SUBSET (1..n)
        /\ row \notin RowsSo(all[j].key, m)
        /\ RowsSo(all[j].key, m + 1) = RowsSo(all[j].key, m) \cup {row}
    BY <1>1, <1>6, RowsMore
  <1>10. HoldsOf(update(all[j].acc, row), RowsSo(all[j].key, m + 1))
    <2>1. PICK acc, some, more1 : acc = all[j].acc /\ some = RowsSo(all[j].key, m) /\ more1 = some \cup {row}
      OBVIOUS
    <2>2. HoldsOf(acc, some) /\ some \in SUBSET (1..InputSize) /\ row \in (1..InputSize) \ some
      BY <1>1, <1>2, <1>3, <1>9, <2>1
    <2>3. HoldsOf(update(acc, row), some \cup {row})
      BY <2>2, UpdateHolds
    <2>. QED BY <1>9, <2>1, <2>3
  <1>11. new \in G
    <2>1. update(all[j].acc, row) \in Accumulators
      BY <1>10 DEF HoldsOf
    <2>. QED BY <1>1, <1>3, <1>8, <2>1 DEF GroupRecords
  <1>12. /\ more \in Seq(G) /\ Len(more) = size
         /\ more[j] = new /\ \A k \in 1..size : k # j => more[k] = all[k]
    <2>1. more = [all EXCEPT ![j] = new]
      BY <1>1, <1>8
    <2>. QED BY <1>1, <1>2, <1>3, <1>11, <2>1, ExceptSeq
  <1>13. ASSUME NEW k \in 1..size
         PROVE  more[k].key = KeyAt(heads[k]) /\ HoldsOf(more[k].acc, RowsSo(more[k].key, m + 1))
    <2>1. CASE k = j
      BY <1>2, <1>3, <1>8, <1>10, <1>12, <2>1
    <2>2. CASE k # j
      <3>1. heads[k] # heads[j]
        <4>1. heads[k] \in Int /\ heads[j] \in Int /\ (k < j \/ j < k)
          BY <1>3, <2>2
        <4>. QED BY <1>2, <1>3, <4>1
      <3>2. KeyAt(heads[k]) # KeyAt(heads[j])
        BY <1>3, <1>5, <3>1, HeadsDiffer
      <3>3. all[k].key # KeyAt(m + 1)
        BY <1>2, <1>6, <3>2
      <3>4. RowsSo(all[k].key, m + 1) = RowsSo(all[k].key, m)
        BY <3>3, RowsMore
      <3>. QED BY <1>2, <1>12, <2>2, <3>4
    <2>. QED BY <2>1, <2>2
  <1>. QED BY <1>1, <1>2, <1>7, <1>12, <1>13 DEF ListsGroups

\* A row that opens one.
LEMMA NewRow ==
  ASSUME IsAggregate, NEW all, NEW heads, NEW S, NEW m \in 0..InputSize, m + 1 \in 1..InputSize,
         ListsGroups(all, heads, S, m), Begun(S, m),
         \A j \in 1..Len(all) : ~ Same(all[j], Arriving[m + 1])
  PROVE  \E h : ListsGroups(Append(all, Opened(Arriving[m + 1])), Append(heads, h), HeadsUpTo(m + 1), m + 1)
  <1>1. PICK n, G, size, row : n = InputSize /\ G = GroupRecords /\ size = Len(all) /\ row = Arriving[m + 1]
    OBVIOUS
  <1>2. /\ all \in Seq(G) /\ heads \in Seq(0..n) /\ Len(heads) = size
        /\ \A i, k \in 1..size : i < k => heads[i] < heads[k]
        /\ \A h : h \in S <=> \E k \in 1..size : heads[k] = h
        /\ \A k \in 1..size : all[k].key = KeyAt(heads[k]) /\ HoldsOf(all[k].acc, RowsSo(all[k].key, m))
    BY <1>1 DEF ListsGroups
  <1>3. /\ size \in Nat /\ n \in Nat /\ m \in Nat /\ m + 1 \in 0..n /\ row \in 1..n
        /\ \A k \in 1..size : all[k] \in G /\ heads[k] \in 0..n
    BY <1>1, <1>2, AggregatePlanned, LenProperties, ElementOfSeq
  <1>4. \A k \in 1..size : S = HeadsUpTo(m) => all[k].key # KeyAt(m + 1)
    <2>1. SUFFICES ASSUME NEW k \in 1..size, S = HeadsUpTo(m)
                   PROVE  all[k].key # KeyAt(m + 1)
      OBVIOUS
    <2>2. PICK h, group, i : h = heads[k] /\ group = all[k] /\ i = m + 1
      OBVIOUS
    <2>3. /\ h \in HeadsUpTo(m) /\ group.key = KeyAt(h) /\ ~ Same(group, Arriving[i])
          /\ i \in 1..InputSize
      BY <1>1, <1>2, <2>1, <2>2
    <2>4. KeyAt(h) # KeyAt(i)
      BY <2>3, TellsKey
    <2>. QED BY <2>2, <2>3, <2>4
  <1>5. S = {} => size = 0
    <2>1. size # 0 => 1 \in 1..size
      BY <1>3
    <2>. QED BY <1>2, <2>1
  <1>6. \A k \in 1..size : all[k].key # KeyAt(m + 1)
    BY <1>3, <1>4, <1>5 DEF Begun
  <1>7. RowsSo(KeyAt(m + 1), m) = {}
    <2>1. CASE m = 0
      BY <2>1, RowsMore
    <2>2. CASE m # 0
      <3>1. S = HeadsUpTo(m)
        BY <2>2 DEF Begun
      <3>2. \A i \in 1..m : KeyAt(i) # KeyAt(m + 1)
        <4>1. SUFFICES ASSUME NEW i \in 1..m, KeyAt(i) = KeyAt(m + 1)
                       PROVE  FALSE
          OBVIOUS
        <4>2. PICK h \in HeadsUpTo(m) : KeyAt(h) = KeyAt(i)
          BY HeadOfRow
        <4>3. PICK k \in 1..size : heads[k] = h
          BY <1>2, <3>1
        <4>. QED BY <1>2, <1>6, <4>1, <4>2, <4>3
      <3>. QED BY <3>2 DEF RowsSo
    <2>. QED BY <2>1, <2>2
  <1>8. PICK h \in 0..n : /\ KeyAt(h) = KeyAt(m + 1)
                          /\ HeadsUpTo(m + 1) = S \cup {h}
                          /\ \A s \in S : s < h
    <2>1. CASE S = HeadsUpTo(m)
      <3>1. ~ \E g \in HeadsUpTo(m) : KeyAt(g) = KeyAt(m + 1)
        BY <1>2, <1>6, <2>1
      <3>2. HeadsUpTo(m + 1) = S \cup {m + 1}
        BY <2>1, <3>1, HeadsMore
      <3>3. \A s \in S : s < m + 1
        BY <1>3, <2>1 DEF HeadsUpTo
      <3>. QED BY <1>3, <3>2, <3>3
    <2>2. CASE S # HeadsUpTo(m)
      <3>1. m = 0 /\ S = {}
        BY <2>2 DEF Begun
      <3>2. plan.group_by = <<>>
        <4>1. SUFFICES ASSUME plan.group_by # <<>>
                       PROVE  FALSE
          OBVIOUS
        <4>2. \A i \in 0..0 : i = 0
          OBVIOUS
        <4>3. HeadsUpTo(0) = {}
          BY <4>1, <4>2 DEF HeadsUpTo, OpensGroup
        <4>. QED BY <2>2, <3>1, <4>3
      <3>3. HeadsUpTo(m + 1) = {0}
        <4>1. \A i : i \in 0..m + 1 <=> i = 0 \/ i = 1
          BY <3>1
        <4>. QED BY <3>2, <4>1 DEF HeadsUpTo, OpensGroup
      <3>4. 0 \in 0..n /\ KeyAt(0) = KeyAt(m + 1)
        BY <1>1, <1>3, <3>2, NoKeys
      <3>. QED BY <3>1, <3>3, <3>4
    <2>. QED BY <2>1, <2>2
  <1>9. PICK g, more, after : g = Opened(row) /\ more = Append(all, g) /\ after = Append(heads, h)
    OBVIOUS
  <1>10. /\ g.key = KeyAt(m + 1) /\ g.acc = update(Accumulator, row)
         /\ HoldsOf(g.acc, RowsSo(g.key, m + 1)) /\ g \in G
    <2>1. KeyAt(m + 1) = GroupValues(row)
      BY <1>1, <1>3 DEF KeyAt
    <2>2. g.key = KeyAt(m + 1) /\ g.acc = update(Accumulator, row)
      BY <1>9, <2>1 DEF Opened
    <2>3. RowsSo(KeyAt(m + 1), m + 1) = {} \cup {row}
      BY <1>1, <1>7, RowsMore
    <2>4. HoldsOf(update(Accumulator, row), {} \cup {row})
      <3>1. row \in (1..InputSize) \ {} /\ {} \in SUBSET (1..InputSize)
        BY <1>1, <1>3
      <3>2. HoldsOf(Accumulator, {})
        BY EmptyHolds
      <3>. QED BY <3>1, <3>2, UpdateHolds
    <2>5. GroupValues(row) \in Row
      BY <1>1, <1>3, AggregatePlanned
    <2>6. g \in G
      BY <1>1, <1>9, <2>4, <2>5 DEF Opened, GroupRecords, HoldsOf
    <2>. QED BY <2>2, <2>3, <2>4, <2>6
  <1>11. /\ more \in Seq(G) /\ Len(more) = size + 1
         /\ more[size + 1] = g /\ \A k \in 1..size : more[k] = all[k]
    BY <1>1, <1>2, <1>9, <1>10, AppendProperties
  <1>12. /\ after \in Seq(0..n) /\ Len(after) = size + 1
         /\ after[size + 1] = h /\ \A k \in 1..size : after[k] = heads[k]
    <2>. DEFINE D == 0..n
    <2>1. heads \in Seq(D) /\ h \in D
      BY <1>2
    <2>. HIDE DEF D
    <2>2. /\ after \in Seq(D) /\ Len(after) = size + 1
          /\ after[size + 1] = h /\ \A k \in 1..size : after[k] = heads[k]
      BY <1>2, <1>9, <2>1, AppendProperties
    <2>. QED BY <2>2 DEF D
  <1>13. \A k : k \in 1..size + 1 <=> k \in 1..size \/ k = size + 1
    BY <1>3
  <1>14. \A i, k \in 1..size + 1 : i < k => after[i] < after[k]
    <2>1. SUFFICES ASSUME NEW i \in 1..size + 1, NEW k \in 1..size + 1, i < k
                   PROVE  after[i] < after[k]
      OBVIOUS
    <2>2. i \in 1..size
      BY <1>3, <2>1
    <2>3. CASE k \in 1..size
      BY <1>2, <1>12, <2>1, <2>2, <2>3
    <2>4. CASE k = size + 1
      <3>1. heads[i] \in S
        BY <1>2, <2>2
      <3>. QED BY <1>8, <1>12, <2>2, <2>4, <3>1
    <2>. QED BY <1>13, <2>3, <2>4
  <1>15. \A s : s \in HeadsUpTo(m + 1) <=> \E k \in 1..size + 1 : after[k] = s
    BY <1>2, <1>8, <1>12, <1>13
  <1>16. ASSUME NEW k \in 1..size + 1
         PROVE  more[k].key = KeyAt(after[k]) /\ HoldsOf(more[k].acc, RowsSo(more[k].key, m + 1))
    <2>1. CASE k = size + 1
      BY <1>8, <1>10, <1>11, <1>12, <2>1
    <2>2. CASE k \in 1..size
      <3>1. RowsSo(all[k].key, m + 1) = RowsSo(all[k].key, m)
        BY <1>6, <2>2, RowsMore
      <3>. QED BY <1>2, <1>11, <1>12, <2>2, <3>1
    <2>. QED BY <1>13, <2>1, <2>2
  <1>17. ListsGroups(more, after, HeadsUpTo(m + 1), m + 1)
    BY <1>1, <1>11, <1>12, <1>14, <1>15, <1>16 DEF ListsGroups
  <1>. QED BY <1>1, <1>9, <1>17

\* Either way the groups are those of one row more.
LEMMA RowTaken ==
  ASSUME IsAggregate, NEW all, NEW heads, NEW S, NEW m \in 0..InputSize, m + 1 \in 1..InputSize,
         ListsGroups(all, heads, S, m), Begun(S, m),
         NEW more, TakesRow(all, more, Arriving[m + 1])
  PROVE  \E after : ListsGroups(more, after, HeadsUpTo(m + 1), m + 1)
  <1>1. PICK row : row = Arriving[m + 1]
    OBVIOUS
  <1>2. CASE \E j \in 1..Len(all) :
               /\ Same(all[j], row)
               /\ more = [all EXCEPT ![j] = [key |-> all[j].key, acc |-> update(all[j].acc, row)]]
    <2>1. PICK j \in 1..Len(all) :
            /\ Same(all[j], row)
            /\ more = [all EXCEPT ![j] = [key |-> all[j].key, acc |-> update(all[j].acc, row)]]
      BY <1>2
    <2>2. ListsGroups(more, heads, HeadsUpTo(m + 1), m + 1)
      BY <1>1, <2>1, KnownRow
    <2>. QED BY <2>2
  <1>3. CASE (\A j \in 1..Len(all) : ~ Same(all[j], row)) /\ more = Append(all, Opened(row))
    <2>1. \A j \in 1..Len(all) : ~ Same(all[j], Arriving[m + 1])
      BY <1>1, <1>3
    <2>2. \E h : ListsGroups(Append(all, Opened(Arriving[m + 1])), Append(heads, h), HeadsUpTo(m + 1), m + 1)
      BY <2>1, NewRow
    <2>. QED BY <1>1, <1>3, <2>2
  <1>. QED BY <1>1, <1>2, <1>3 DEF TakesRow

\* A row of the hash table's loop does that to its groups.
LEMMA HashTakes ==
  ASSUME IsAggregate, groups \in Seq(GroupRecords), at \in 0..InputSize, HashRow
  PROVE  /\ TakesRow(groups, groups', Arriving[at + 1])
         /\ at + 1 \in 1..InputSize
  <1>1. PICK G, n, row, g : G = GroupRecords /\ n = InputSize /\ row = at + 1 /\ g = groups
    OBVIOUS
  <1>2. n \in Nat /\ at < Len(plan.input) /\ ~ plan.forced
    BY <1>1, AggregatePlanned DEF HashRow, streams
  <1>3. row \in 1..n /\ Arriving[row] = row
    <2>1. row \in 1..n
      BY <1>1, <1>2 DEF InputSize
    <2>. QED BY <1>1, <1>2, <2>1, AllArrive
  <1>4. PICK known, table, k, acc :
          /\ known = {i \in DOMAIN g : Same(g[i], row)}
          /\ table = IF known = {} THEN Append(g, NewGroup(GroupValues(row))) ELSE g
          /\ k = IF known = {} THEN Len(table) ELSE CHOOSE i \in known : TRUE
          /\ acc = update(table[k].acc, row)
    OBVIOUS
  <1>5. groups' = [table EXCEPT ![k].acc = acc]
    BY <1>1, <1>4 DEF HashRow
  <1>6. PICK size, new : size = Len(g) /\ new = NewGroup(GroupValues(row))
    OBVIOUS
  <1>7. g \in Seq(G) /\ size \in Nat /\ DOMAIN g = 1..size /\ new \in G
    BY <1>1, <1>3, <1>6, AggregatePlanned, EmptyGroup, LenProperties
  <1>8. CASE known = {}
    <2>1. table = Append(g, new) /\ k = Len(table)
      BY <1>4, <1>6, <1>8
    <2>2. k = size + 1 /\ table[k] = new /\ \A i \in 1..size : table[i] = g[i]
      BY <1>6, <1>7, <2>1, AppendProperties
    <2>3. PICK opened : opened = Opened(row)
      OBVIOUS
    <2>4. [new EXCEPT !.acc = acc] = opened
      BY <1>4, <1>6, <2>2, <2>3 DEF NewGroup, Opened
    <2>5. groups' = [table EXCEPT ![k] = opened]
      BY <1>5, <2>2, <2>4
    <2>6. opened \in G
      <3>1. acc \in Accumulators
        <4>1. new.acc \in Accumulators
          BY <1>1, <1>7 DEF GroupRecords
        <4>2. plan.column # 0 => plan.input[row][plan.column] \in Datum
          BY <1>1, <1>3, AggregatePlanned
        <4>. QED BY <1>4, <2>2, <4>1, <4>2, UpdateTyped
      <3>. QED BY <1>1, <1>7, <2>4, <3>1 DEF GroupRecords
    <2>7. groups' = Append(g, opened)
      <3>1. table \in Seq(G) /\ Len(table) = size + 1 /\ k \in 1..Len(table)
        <4>1. table \in Seq(G) /\ Len(table) = size + 1
          BY <1>6, <1>7, <2>1, AppendProperties
        <4>. QED BY ONLY <1>7, <2>2, <4>1
      <3>2. PICK a, b : a = [table EXCEPT ![k] = opened] /\ b = Append(g, opened)
        OBVIOUS
      <3>3. /\ a \in Seq(G) /\ Len(a) = size + 1
            /\ \A i \in 1..size + 1 : a[i] = IF i = k THEN opened ELSE table[i]
        BY <2>6, <3>1, <3>2, ExceptSeq
      <3>4. /\ b \in Seq(G) /\ Len(b) = size + 1
            /\ b[size + 1] = opened /\ \A i \in 1..size : b[i] = g[i]
        BY <1>6, <1>7, <2>6, <3>2, AppendProperties
      <3>5. \A i \in 1..size + 1 : a[i] = b[i]
        <4>1. \A i \in 1..size + 1 : i \in 1..size \/ i = size + 1
          BY <1>7
        <4>2. \A i \in 1..size : i # k
          BY <1>7, <2>2
        <4>. QED BY <2>2, <3>3, <3>4, <4>1, <4>2
      <3>6. a = b
        BY <3>3, <3>4, <3>5, SeqEqual
      <3>. QED BY <2>5, <3>2, <3>6
    <2>8. \A i \in 1..size : ~ Same(g[i], row)
      BY <1>4, <1>7, <1>8
    <2>. QED BY <1>1, <1>3, <1>6, <2>3, <2>7, <2>8 DEF TakesRow
  <1>9. CASE known # {}
    <2>1. table = g /\ k \in known
      BY <1>4, <1>9
    <2>2. k \in 1..size /\ Same(g[k], row)
      BY <1>4, <1>7, <2>1
    <2>3. g[k] \in G
      BY <1>6, <1>7, <2>2, ElementOfSeq
    <2>4. PICK e : e = [key |-> g[k].key, acc |-> acc]
      OBVIOUS
    <2>5. [g[k] EXCEPT !.acc = acc] = e
      BY <1>1, <2>3, <2>4 DEF GroupRecords
    <2>6. groups' = [g EXCEPT ![k] = e]
      BY <1>5, <2>1, <2>5
    <2>. QED BY <1>1, <1>3, <1>4, <1>6, <2>1, <2>2, <2>4, <2>6 DEF TakesRow
  <1>. QED BY <1>1, <1>3, <1>8, <1>9

\* What is finished together is finished one by one.
LEMMA FinishedMore ==
  ASSUME NEW a \in Seq(GroupRecords), NEW b \in Seq(GroupRecords)
  PROVE  /\ Finished(a \o b) = Finished(a) \o Finished(b)
         /\ Finished(<<>>) = <<>>
         /\ Len(Finished(a)) = Len(a) /\ DOMAIN Finished(a) = 1..Len(a)
         /\ \A i \in 1..Len(a) : Finished(a)[i] = [key |-> a[i].key, value |-> finish(a[i].acc)]
  <1>. DEFINE Ended(g) == [key |-> g.key, value |-> finish(g.acc)]
              V == {Ended(g) : g \in GroupRecords}
  <1>1. ASSUME NEW s \in Seq(GroupRecords)
        PROVE  /\ Finished(s) \in Seq(V) /\ Len(Finished(s)) = Len(s) /\ DOMAIN Finished(s) = 1..Len(s)
               /\ \A i \in 1..Len(s) : Finished(s)[i] = Ended(s[i])
    <2>1. PICK k : k = Len(s)
      OBVIOUS
    <2>2. k \in Nat /\ DOMAIN s = 1..k /\ \A i \in 1..k : s[i] \in GroupRecords
      BY <2>1, LenProperties, ElementOfSeq
    <2>3. PICK f : f = Finished(s)
      OBVIOUS
    <2>4. f = [i \in 1..k |-> Ended(s[i])]
      BY <2>2, <2>3 DEF Finished
    <2>5. f \in [1..k -> V]
      BY <2>2, <2>4
    <2>. HIDE DEF V, Ended
    <2>6. f \in Seq(V) /\ Len(f) = k /\ DOMAIN f = 1..k
      BY <2>2, <2>5, IsASeq
    <2>. QED BY <2>1, <2>3, <2>4, <2>6
  <1>2. PICK m, n : m = Len(a) /\ n = Len(b)
    OBVIOUS
  <1>3. m \in Nat /\ n \in Nat
    BY <1>2, LenProperties
  <1>. HIDE DEF V, Ended
  <1>4. PICK all, fa, fb, fall, both :
          /\ all = a \o b /\ fa = Finished(a) /\ fb = Finished(b) /\ fall = Finished(all) /\ both = fa \o fb
    OBVIOUS
  <1>5. /\ all \in Seq(GroupRecords) /\ Len(all) = m + n
        /\ \A i \in 1..m + n : all[i] = IF i <= m THEN a[i] ELSE b[i - m]
    BY <1>2, <1>4, ConcatProperties
  <1>6. /\ fa \in Seq(V) /\ Len(fa) = m /\ \A i \in 1..m : fa[i] = Ended(a[i])
        /\ fb \in Seq(V) /\ Len(fb) = n /\ \A i \in 1..n : fb[i] = Ended(b[i])
        /\ fall \in Seq(V) /\ Len(fall) = m + n /\ \A i \in 1..m + n : fall[i] = Ended(all[i])
    <2>1. /\ Finished(all) \in Seq(V) /\ Len(Finished(all)) = Len(all)
          /\ \A i \in 1..Len(all) : Finished(all)[i] = Ended(all[i])
      BY <1>1, <1>5
    <2>. QED BY <1>1, <1>2, <1>4, <1>5, <2>1
  <1>7. /\ both \in Seq(V) /\ Len(both) = m + n
        /\ \A i \in 1..m + n : both[i] = IF i <= m THEN fa[i] ELSE fb[i - m]
    BY <1>4, <1>6, ConcatProperties
  <1>8. \A i \in 1..m + n : fall[i] = both[i]
    <2>1. SUFFICES ASSUME NEW i \in 1..m + n
                   PROVE  fall[i] = both[i]
      OBVIOUS
    <2>2. CASE i <= m
      <3>1. i \in 1..m
        BY <1>3, <2>2
      <3>2. all[i] = a[i] /\ both[i] = fa[i]
        BY <1>5, <1>7, <2>2
      <3>3. fa[i] = Ended(a[i]) /\ fall[i] = Ended(all[i])
        BY <1>6, <3>1
      <3>. QED BY <3>2, <3>3
    <2>3. CASE ~ i <= m
      <3>1. i - m \in 1..n
        BY <1>3, <2>3
      <3>2. all[i] = b[i - m] /\ both[i] = fb[i - m]
        BY <1>5, <1>7, <2>3
      <3>3. fb[i - m] = Ended(b[i - m]) /\ fall[i] = Ended(all[i])
        BY <1>6, <3>1
      <3>. QED BY <3>2, <3>3
    <2>. QED BY <2>2, <2>3
  <1>9. fall = both
    BY <1>6, <1>7, <1>8, SeqEqual
  <1>10. Finished(<<>>) = <<>>
    <2>1. <<>> \in Seq(GroupRecords) /\ Len(<<>>) = 0
      BY EmptySeq
    <2>2. Finished(<<>>) \in Seq(V) /\ Len(Finished(<<>>)) = 0
      BY <1>1, <2>1
    <2>. QED BY <2>2, EmptySeq
  <1>. QED BY <1>1, <1>4, <1>9, <1>10 DEF Ended

\* A sequence of which the last one is another.
EndsIn(a, s, e) == a = s \o <<e>>

LEMMA LastIsAnother ==
  ASSUME NEW G, NEW s \in Seq(G), NEW e \in G, NEW f \in G,
         NEW a, EndsIn(a, s, e), NEW b, EndsIn(b, s, f)
  PROVE  /\ b = [a EXCEPT ![Len(a)] = f]
         /\ Len(a) \in 1..Len(a) /\ a[Len(a)] = e
  <1>1. PICK n, last, c : n = Len(s) /\ last = n + 1 /\ c = [a EXCEPT ![last] = f]
    OBVIOUS
  <1>2. n \in Nat
    BY <1>1, LenProperties
  <1>3. a = Append(s, e) /\ b = Append(s, f)
    BY AppendIsConcat DEF EndsIn
  <1>4. /\ a \in Seq(G) /\ Len(a) = n + 1 /\ a[n + 1] = e /\ \A i \in 1..n : a[i] = s[i]
        /\ b \in Seq(G) /\ Len(b) = n + 1 /\ b[n + 1] = f /\ \A i \in 1..n : b[i] = s[i]
    BY <1>1, <1>3, AppendProperties
  <1>5. last \in 1..Len(a)
    BY ONLY <1>1, <1>2, <1>4
  <1>6. /\ c \in Seq(G) /\ Len(c) = n + 1
        /\ \A i \in 1..n + 1 : c[i] = IF i = n + 1 THEN f ELSE a[i]
    <2>1. c \in Seq(G) /\ Len(c) = Len(a) /\ \A i \in 1..Len(a) : c[i] = IF i = last THEN f ELSE a[i]
      <3>1. c \in Seq(G) /\ Len(c) = Len(a)
        BY <1>1, <1>4, <1>5, ExceptSeq
      <3>2. DOMAIN a = 1..Len(a)
        BY <1>4, LenProperties
      <3>. QED BY <1>1, <3>1, <3>2
    <2>. QED BY ONLY <1>1, <1>4, <2>1
  <1>7. \A i \in 1..n + 1 : c[i] = b[i]
    <2>1. \A i \in 1..n + 1 : i = n + 1 \/ (i \in 1..n /\ i # n + 1)
      BY <1>2
    <2>. QED BY <1>4, <1>6, <2>1
  <1>8. c = b
    BY <1>4, <1>6, <1>7, SeqEqual
  <1>. QED BY <1>1, <1>3, <1>4, <1>5, <1>8

\* The groups of a streaming aggregate after m rows, those it has returned first.
\* The last of them is open, and is that of the row that arrived last.
StreamGroups(closed, state) == closed \o (state.ready \o state.open)

StreamRun(closed, state, m) ==
  /\ closed \in Seq(GroupRecords) /\ state \in GroupStates
  /\ \E heads : ListsGroups(StreamGroups(closed, state), heads, IF m = 0 THEN {} ELSE HeadsUpTo(m), m)
  /\ m = 0 => state.open = <<>>
  /\ m # 0 => Len(state.open) = 1 /\ state.open[1].key = KeyAt(m)

LEMMA StreamRowKept ==
  ASSUME IsAggregate, streams, Arrives(plan.input, plan.order),
         NEW closed, NEW state, NEW m \in 0..InputSize, m + 1 \in 1..InputSize,
         StreamRun(closed, state, m)
  PROVE  StreamRun(closed, GroupRow(state, Arriving[m + 1]), m + 1)
  <1>1. PICK n, G, row, k, ready, some, all, S :
          /\ n = InputSize /\ G = GroupRecords /\ row = Arriving[m + 1] /\ k = m + 1
          /\ ready = state.ready /\ some = state.open /\ all = StreamGroups(closed, state)
          /\ S = IF m = 0 THEN {} ELSE HeadsUpTo(m)
    OBVIOUS
  <1>2. /\ closed \in Seq(G) /\ ready \in Seq(G) /\ some \in Seq(G) /\ state \in GroupStates
        /\ m = 0 => some = <<>>
        /\ m # 0 => Len(some) = 1 /\ some[1].key = KeyAt(m)
    BY <1>1 DEF StreamRun, GroupStates
  <1>3. PICK heads : ListsGroups(all, heads, S, m)
    <2>1. \E heads : ListsGroups(StreamGroups(closed, state), heads, IF m = 0 THEN {} ELSE HeadsUpTo(m), m)
      BY DEF StreamRun
    <2>. QED BY <1>1, <2>1
  <1>4. n \in Nat /\ m \in Nat /\ k \in 1..n /\ k # 0 /\ row \in 1..n /\ Arriving[k] = row
    BY <1>1, AggregatePlanned
  <1>5. KeyAt(k) = GroupValues(row) /\ (m # 0 => m \in 1..n /\ KeyAt(m) = GroupValues(Arriving[m]))
    BY <1>1, <1>4 DEF KeyAt
  <1>6. Begun(S, m)
    BY <1>1 DEF Begun
  <1>7. all = closed \o (ready \o some)
    BY <1>1 DEF StreamGroups
  <1>8. PICK base, rest : base = closed \o ready /\ rest = ready \o some
    OBVIOUS
  <1>9. base \in Seq(G) /\ rest \in Seq(G) /\ all = base \o some /\ Len(base) \in Nat
    <2>1. base \in Seq(G) /\ rest \in Seq(G)
      BY <1>2, <1>8, ConcatProperties
    <2>2. (closed \o ready) \o some = closed \o (ready \o some)
      <3>1. closed \in Seq(G) /\ ready \in Seq(G) /\ some \in Seq(G)
        BY <1>2
      <3>. QED BY ONLY <3>1, ConcatAssociative
    <2>. QED BY <1>7, <1>8, <2>1, <2>2, LenProperties
  <1>10. PICK after : after = GroupRow(state, row)
    OBVIOUS
  <1>11. after \in GroupStates
    BY <1>1, <1>2, <1>4, <1>10, RowOfGroup
  <1>12. PICK opened : opened = Opened(row)
    OBVIOUS
  <1>13. opened \in G
    <2>1. HoldsOf(update(Accumulator, row), {} \cup {row})
      <3>1. row \in (1..InputSize) \ {} /\ {} \in SUBSET (1..InputSize)
        BY <1>1, <1>4
      <3>2. HoldsOf(Accumulator, {})
        BY EmptyHolds
      <3>. QED BY <3>1, <3>2, UpdateHolds
    <2>2. GroupValues(row) \in Row
      BY <1>1, <1>4, AggregatePlanned
    <2>. QED BY <1>1, <1>12, <2>1, <2>2 DEF Opened, GroupRecords, HoldsOf
  <1>14. CASE some # <<>> /\ Same(some[1], row)
    <2>1. m # 0 /\ Len(some) = 1 /\ some[1].key = KeyAt(m)
      BY <1>2, <1>14
    <2>2. PICK e : e = some[1]
      OBVIOUS
    <2>3. e \in G
      <3>1. 1 \in 1..Len(some)
        BY <2>1
      <3>. QED BY <1>2, <2>2, <3>1, ElementOfSeq
    <2>4. some = <<e>>
      BY <1>2, <2>1, <2>2
    <2>5. PICK f : f = [key |-> e.key, acc |-> update(e.acc, row)]
      OBVIOUS
    <2>6. after = [ready |-> ready, open |-> <<f>>]
      <3>1. [e EXCEPT !.acc = update(e.acc, row)] = f
        BY <1>1, <2>3, <2>5 DEF GroupRecords
      <3>. QED BY <1>1, <1>10, <1>14, <2>2, <3>1 DEF GroupRow
    <2>7. f \in G
      <3>1. update(e.acc, row) \in Accumulators
        <4>1. e.acc \in Accumulators
          BY <1>1, <2>3 DEF GroupRecords
        <4>2. plan.column # 0 => plan.input[row][plan.column] \in Datum
          BY <1>1, <1>4, AggregatePlanned
        <4>. QED BY <4>1, <4>2, UpdateTyped
      <3>. QED BY <1>1, <2>3, <2>5, <3>1 DEF GroupRecords
    <2>8. KeyAt(m) = KeyAt(k)
      <3>1. PICK r : r = Arriving[m] /\ r \in 1..n
        BY <1>1, <1>5, <2>1, AggregatePlanned
      <3>2. HashKey(GroupValues(r)) = HashKey(GroupValues(row))
        BY <1>5, <1>14, <2>1, <3>1 DEF Same
      <3>3. GroupValues(r) = GroupValues(row)
        BY <1>1, <1>4, <3>1, <3>2, KeysTold
      <3>. QED BY <1>5, <2>1, <3>1, <3>3
    <2>9. PICK j, more : j = Len(all) /\ more = StreamGroups(closed, after)
      OBVIOUS
    <2>10. /\ all[j] = e /\ j \in 1..Len(all)
           /\ more = [all EXCEPT ![j] = f]
      <3>1. more = closed \o (ready \o <<f>>)
        BY <2>6, <2>9 DEF StreamGroups
      <3>2. <<f>> \in Seq(G)
        BY <2>7
      <3>3. more = base \o <<f>>
        <4>1. closed \in Seq(G) /\ ready \in Seq(G)
          BY <1>2
        <4>2. (closed \o ready) \o <<f>> = closed \o (ready \o <<f>>)
          BY ONLY <3>2, <4>1, ConcatAssociative
        <4>. QED BY <1>8, <3>1, <4>2
      <3>4. all = base \o <<e>>
        BY <1>9, <2>4
      <3>5. EndsIn(all, base, e) /\ EndsIn(more, base, f)
        BY <3>3, <3>4 DEF EndsIn
      <3>6. more = [all EXCEPT ![Len(all)] = f] /\ Len(all) \in 1..Len(all) /\ all[Len(all)] = e
        <4>1. base \in Seq(G)
          BY <1>9
        <4>. QED BY ONLY <2>3, <2>7, <3>5, <4>1, LastIsAnother
      <3>. QED BY <2>9, <3>6
    <2>11. TakesRow(all, more, Arriving[m + 1])
      BY <1>1, <1>14, <2>2, <2>5, <2>10 DEF TakesRow
    <2>12. \E heads2 : ListsGroups(more, heads2, HeadsUpTo(m + 1), m + 1)
      BY <1>3, <1>6, <2>11, RowTaken
    <2>13. after.open = <<f>> /\ Len(<<f>>) = 1 /\ <<f>>[1] = f /\ f.key = KeyAt(k)
      BY <2>1, <2>2, <2>5, <2>6, <2>8
    <2>. QED BY <1>1, <1>2, <1>4, <1>10, <1>11, <2>9, <2>12, <2>13 DEF StreamRun
  <1>15. CASE ~ (some # <<>> /\ Same(some[1], row))
    <2>1. after = [ready |-> rest, open |-> <<opened>>]
      <3>1. [NewGroup(GroupValues(row)) EXCEPT !.acc = update(Accumulator, row)] = opened
        BY <1>12 DEF NewGroup, Opened
      <3>2. NewGroup(GroupValues(row)).acc = Accumulator
        BY DEF NewGroup
      <3>. QED BY <1>1, <1>8, <1>10, <1>15, <3>1, <3>2 DEF GroupRow
    <2>2. PICK more : more = StreamGroups(closed, after)
      OBVIOUS
    <2>3. more = Append(all, opened)
      <3>1. more = closed \o (rest \o <<opened>>)
        BY <2>1, <2>2 DEF StreamGroups
      <3>2. <<opened>> \in Seq(G)
        BY <1>13
      <3>3. more = all \o <<opened>>
        <4>1. closed \in Seq(G) /\ rest \in Seq(G)
          BY <1>2, <1>9
        <4>2. (closed \o rest) \o <<opened>> = closed \o (rest \o <<opened>>)
          BY ONLY <3>2, <4>1, ConcatAssociative
        <4>3. all = closed \o rest
          BY <1>7, <1>8
        <4>. QED BY ONLY <3>1, <4>2, <4>3
      <3>4. all \in Seq(G)
        BY <1>2, <1>7, <1>8, <1>9, ConcatProperties
      <3>. QED BY <1>13, <3>3, <3>4, AppendIsConcat
    <2>4. \A j \in 1..Len(all) : ~ Same(all[j], row)
      <3>1. /\ \A i \in 1..Len(all) : all[i].key = KeyAt(heads[i])
            /\ \A h : h \in S <=> \E i \in 1..Len(all) : heads[i] = h
        BY <1>3 DEF ListsGroups
      <3>2. SUFFICES ASSUME NEW j \in 1..Len(all), Same(all[j], row)
                     PROVE  FALSE
        OBVIOUS
      <3>3. PICK h, group : h = heads[j] /\ group = all[j]
        OBVIOUS
      <3>4. h \in S /\ group.key = KeyAt(h) /\ Same(group, Arriving[k])
        BY <1>4, <3>1, <3>2, <3>3
      <3>5. m # 0 /\ S = HeadsUpTo(m) /\ h \in HeadsUpTo(m)
        BY <1>1, <3>4
      <3>6. KeyAt(h) = KeyAt(k)
        BY <1>1, <1>4, <3>4, <3>5, TellsKey
      <3>7. h \in 0..m /\ (h = 0 => plan.group_by = <<>>)
        BY <3>5 DEF HeadsUpTo, OpensGroup
      <3>8. KeyAt(m) = KeyAt(k)
        <4>1. CASE h = m
          BY <3>6, <4>1
        <4>2. CASE h # m
          <5>1. h < m /\ m < k /\ h \in 0..InputSize /\ m \in 1..InputSize /\ k \in 1..InputSize
            BY <1>1, <1>4, <3>5, <3>7, <4>2
          <5>. QED BY <3>6, <3>7, <5>1, Grouped
        <4>. QED BY <4>1, <4>2
      <3>9. some # <<>>
        <4>1. Len(some) = 1 /\ Len(<<>>) = 0
          BY <1>2, <3>5, EmptySeq
        <4>. QED BY <4>1
      <3>10. Same(some[1], row)
        BY <1>2, <1>5, <3>5, <3>8 DEF Same
      <3>. QED BY <1>15, <3>9, <3>10
    <2>5. TakesRow(all, more, Arriving[m + 1])
      BY <1>1, <1>12, <2>3, <2>4 DEF TakesRow
    <2>6. \E heads2 : ListsGroups(more, heads2, HeadsUpTo(m + 1), m + 1)
      BY <1>3, <1>6, <2>5, RowTaken
    <2>7. after.open = <<opened>> /\ Len(<<opened>>) = 1 /\ <<opened>>[1] = opened /\ opened.key = KeyAt(k)
      BY <1>5, <1>12, <2>1 DEF Opened
    <2>. QED BY <1>1, <1>2, <1>4, <1>10, <1>11, <2>2, <2>6, <2>7 DEF StreamRun
  <1>. QED BY <1>14, <1>15

-----------------------------------------------------------------------------
(* The groups an aggregate holds and has returned are those.               *)

\* Before any row there is no group, but for the one there is without a GROUP BY.
LEMMA NoRows ==
  ASSUME IsAggregate
  PROVE  /\ plan.group_by = <<>> => ListsGroups(<<NewGroup(<<>>)>>, <<0>>, HeadsUpTo(0), 0)
         /\ plan.group_by # <<>> => ListsGroups(<<>>, <<>>, HeadsUpTo(0), 0)
  <1>1. PICK n, G, g : n = InputSize /\ G = GroupRecords /\ g = NewGroup(<<>>)
    OBVIOUS
  <1>2. n \in Nat /\ 0 \in 0..n
    BY <1>1, AggregatePlanned
  <1>3. <<>> \in Row
    BY EmptySeq DEF Row
  <1>4. g \in G /\ g.key = <<>> /\ g.acc = Accumulator
    BY <1>1, <1>3, EmptyGroup DEF NewGroup
  <1>5. \A i : i \in 0..0 <=> i = 0
    OBVIOUS
  <1>6. CASE plan.group_by = <<>>
    <2>1. HeadsUpTo(0) = {0}
      BY <1>5, <1>6 DEF HeadsUpTo, OpensGroup
    <2>2. KeyAt(0) = <<>>
      BY DEF KeyAt
    <2>3. RowsSo(<<>>, 0) = {}
      BY <1>1, <1>2, RowsMore
    <2>4. HoldsOf(Accumulator, {})
      BY EmptyHolds
    <2>5. PICK all, heads : all = <<g>> /\ heads = <<0>>
      OBVIOUS
    <2>6. all \in Seq(G) /\ Len(all) = 1 /\ all[1] = g
      BY <1>4, <2>5
    <2>7. heads \in Seq(0..n) /\ Len(heads) = 1 /\ heads[1] = 0
      BY <1>2, <2>5
    <2>8. \A j : j \in 1..1 <=> j = 1
      OBVIOUS
    <2>9. \A h : h \in {0} <=> \E j \in 1..1 : heads[j] = h
      BY <2>7, <2>8
    <2>10. \A j \in 1..1 : all[j].key = KeyAt(heads[j]) /\ HoldsOf(all[j].acc, RowsSo(all[j].key, 0))
      BY <1>4, <2>2, <2>3, <2>4, <2>6, <2>7, <2>8
    <2>11. \A j, k \in 1..1 : j < k => heads[j] < heads[k]
      BY <2>8
    <2>12. ListsGroups(all, heads, HeadsUpTo(0), 0)
      BY <1>1, <2>1, <2>6, <2>7, <2>9, <2>10, <2>11 DEF ListsGroups
    <2>. QED BY <1>1, <1>6, <2>5, <2>12
  <1>7. CASE plan.group_by # <<>>
    <2>1. HeadsUpTo(0) = {}
      BY <1>5, <1>7 DEF HeadsUpTo, OpensGroup
    <2>2. PICK none : none = <<>>
      OBVIOUS
    <2>3. none \in Seq(G) /\ Len(none) = 0 /\ none \in Seq(0..n)
      BY <2>2, EmptySeq
    <2>4. 1..0 = {}
      OBVIOUS
    <2>5. ListsGroups(none, none, HeadsUpTo(0), 0)
      BY <1>1, <2>1, <2>3, <2>4 DEF ListsGroups
    <2>. QED BY <1>7, <2>2, <2>5
  <1>. QED BY <1>6, <1>7

\* A sequence is its first few and the rest.
CutsInTwo(s, a, b) ==
  \E k \in 0..Len(s) : a = SubSeq(s, 1, k) /\ b = SubSeq(s, k + 1, Len(s))

LEMMA FirstAndRest ==
  ASSUME NEW G, NEW s \in Seq(G), NEW a, NEW b, CutsInTwo(s, a, b)
  PROVE  a \in Seq(G) /\ b \in Seq(G) /\ a \o b = s
  <1>1. PICK k \in 0..Len(s) : a = SubSeq(s, 1, k) /\ b = SubSeq(s, k + 1, Len(s))
    BY DEF CutsInTwo
  <1>2. Len(s) \in Nat
    BY LenProperties
  <1>3. PICK n, from : n = Len(s) /\ from = k + 1
    OBVIOUS
  <1>4. n \in Nat /\ k \in 0..n /\ 1 \in Int /\ k \in Int /\ from \in Int /\ n \in Int
    BY <1>1, <1>2, <1>3
  <1>5. a \in Seq(G)
    <2>1. \A i \in 1..k : i \in 1..Len(s)
      BY <1>2
    <2>2. \A i \in 1..k : s[i] \in G
      BY <2>1, ElementOfSeq
    <2>. QED BY ONLY <1>1, <1>4, <2>2, SubSeqProperties
  <1>6. b \in Seq(G)
    <2>1. \A i \in from..n : i \in 1..Len(s)
      BY <1>3, <1>4
    <2>2. \A i \in from..n : s[i] \in G
      BY <2>1, ElementOfSeq
    <2>3. b = SubSeq(s, from, n)
      BY <1>1, <1>3
    <2>. QED BY ONLY <1>4, <2>2, <2>3, SubSeqProperties
  <1>7. a \o b = SubSeq(s, 1, Len(s))
    <2>1. 1 \in 1..Len(s) + 1 /\ k \in 1 - 1..Len(s) /\ Len(s) \in k..Len(s)
      BY <1>2
    <2>2. SubSeq(s, 1, k) \o SubSeq(s, k + 1, Len(s)) = SubSeq(s, 1, Len(s))
      BY ONLY s \in Seq(G), <2>1, ConcatAdjacentSubSeq
    <2>. QED BY <1>1, <2>2
  <1>. QED BY <1>5, <1>6, <1>7, SubSeqFull

\* A hash table has the groups of the rows read, and returns them once it has them all.
TableAt(complete, all, m, returned, list, state) ==
  /\ ~ complete => all = <<>> /\ m = 0 /\ returned = 0 /\ list = <<>>
  /\ complete =>
       /\ \E heads : ListsGroups(all, heads, HeadsUpTo(m), m)
       /\ returned \in 0..Len(all) /\ list = Finished(SubSeq(all, 1, returned))
       /\ m < InputSize => returned = 0
  /\ state = "done" => complete /\ m = InputSize /\ returned = Len(all)

TableRun == TableAt(built, groups, at, emitted, out, status)

\* A streaming aggregate has returned some groups, and holds the others.
FlowAt(closed, ended, ready, some, m, list, state) ==
  /\ closed \in Seq(GroupRecords) /\ list = Finished(closed)
  /\ ~ ended => StreamRun(closed, [ready |-> ready, open |-> some], m)
  /\ ended =>
       /\ m = InputSize /\ some = <<>>
       /\ \E heads : ListsGroups(closed \o ready, heads, HeadsUpTo(m), m)
  /\ state = "done" => ended /\ ready = <<>>

FlowRun == \E closed : FlowAt(closed, input_ended, groups, open, at, out, status)

AggregateRun ==
  plan.kind = "aggregate" =>
    /\ Arrives(plan.input, plan.order)
    /\ streams => FlowRun
    /\ ~ streams => TableRun

\* The plan decides all of this but the groups themselves.
LEMMA AggregateDecides ==
  ASSUME plan' = plan
  PROVE  /\ InputSize' = InputSize /\ (streams' <=> streams)
         /\ Arriving' = Arriving
         /\ \A m : HeadsUpTo(m)' = HeadsUpTo(m)
         /\ \A s : Finished(s)' = Finished(s)
         /\ \A all, heads, S, m : ListsGroups(all, heads, S, m)' <=> ListsGroups(all, heads, S, m)
         /\ TableAt(built', groups', at', emitted', out', status') => TableRun'
         /\ \A closed : FlowAt(closed, input_ended', groups', open', at', out', status')
                         => FlowAt(closed, input_ended, groups, open, at, out, status)'
  <1>1. InputSize' = InputSize /\ (streams' <=> streams) /\ Arriving' = Arriving
    BY DEF InputSize, streams, Arriving
  <1>2. \A r : GroupValues(r)' = GroupValues(r)
    BY DEF GroupValues
  <1>3. \A i : KeyAt(i)' = KeyAt(i)
    BY <1>1, <1>2 DEF KeyAt
  <1>4. \A m : HeadsUpTo(m)' = HeadsUpTo(m)
    BY <1>3 DEF HeadsUpTo, OpensGroup
  <1>5. \A key, m : RowsSo(key, m)' = RowsSo(key, m)
    BY <1>1, <1>3 DEF RowsSo
  <1>6. \A some : Chosen(some)' = Chosen(some)
    BY DEF Chosen, Taken, Argument
  <1>7. \A acc, some : HoldsOf(acc, some)' <=> HoldsOf(acc, some)
    BY <1>6 DEF HoldsOf, Counts, IsBest, Beats
  <1>8. \A acc : finish(acc)' = finish(acc)
    BY DEF finish
  <1>9. \A s : Finished(s)' = Finished(s)
    BY <1>8 DEF Finished
  <1>10. \A all, heads, S, m : ListsGroups(all, heads, S, m)' <=> ListsGroups(all, heads, S, m)
    BY <1>1, <1>3, <1>5, <1>7 DEF ListsGroups
  <1>11. \A closed, state, m : StreamRun(closed, state, m)' <=> StreamRun(closed, state, m)
    BY <1>3, <1>4, <1>10 DEF StreamRun
  <1>12. TableAt(built', groups', at', emitted', out', status') => TableRun'
    BY <1>1, <1>4, <1>9, <1>10 DEF TableRun, TableAt
  <1>13. \A closed : FlowAt(closed, input_ended', groups', open', at', out', status')
                      => FlowAt(closed, input_ended, groups, open, at, out, status)'
    BY <1>1, <1>4, <1>9, <1>10, <1>11 DEF FlowAt
  <1>. QED BY <1>1, <1>4, <1>9, <1>10, <1>12, <1>13

LEMMA TableKept ==
  ASSUME IsAggregate, AggregateShape, AggregateShape', ~ streams, TableRun, [Next]_vars
  PROVE  TableRun'
  <1>1. plan' = plan /\ plan.kind = "aggregate"
    BY HeapSteps DEF IsAggregate
  <1>2. PICK n, G : n = InputSize /\ G = GroupRecords
    OBVIOUS
  <1>3. n \in Nat /\ n = Len(plan.input)
    BY <1>2, AggregatePlanned DEF InputSize
  <1>4. /\ at \in 0..n /\ groups \in Seq(G) /\ groups' \in Seq(G)
        /\ Len(groups) \in Nat /\ Len(groups') \in Nat
    <2>1. groups \in Seq(G) /\ groups' \in Seq(G) /\ at \in 0..n
      <3>1. GroupRecords' = GroupRecords
        BY DEF GroupRecords, Accumulators, Row
      <3>2. GroupStates' = GroupStates
        BY <3>1 DEF GroupStates
      <3>. QED BY <1>1, <1>2, <3>2 DEF AggregateShape, GroupStates
    <2>. QED BY <2>1, LenProperties
  <1>5. /\ ~ built => groups = <<>> /\ at = 0 /\ emitted = 0 /\ out = <<>>
        /\ built => /\ \E heads : ListsGroups(groups, heads, HeadsUpTo(at), at)
                    /\ emitted \in 0..Len(groups) /\ out = Finished(SubSeq(groups, 1, emitted))
                    /\ at < n => emitted = 0
        /\ status = "done" => built /\ at = n /\ emitted = Len(groups)
    BY <1>2 DEF TableRun, TableAt
  <1>6. Finished(<<>>) = <<>>
    <2>1. <<>> \in Seq(GroupRecords)
      BY EmptySeq
    <2>. QED BY <2>1, FinishedMore
  <1>7. Finished(SubSeq(groups, 1, 0)) = <<>> /\ Finished(SubSeq(groups', 1, 0)) = <<>>
    <2>1. 0 < 1 /\ 0 \in Int /\ 1 \in Int
      OBVIOUS
    <2>2. SubSeq(groups, 1, 0) = <<>>
      BY ONLY <2>1, SubSeqEmpty
    <2>3. SubSeq(groups', 1, 0) = <<>>
      BY ONLY <2>1, SubSeqEmpty
    <2>. QED BY <1>6, <2>2, <2>3
  <1>8. SUFFICES TableAt(built', groups', at', emitted', out', status')
    BY <1>1, AggregateDecides
  <1>9. CASE UNCHANGED <<plan, out, rowVars, heap, groupVars>> /\ status' \in {status, "failed"}
    <2>1. /\ built' = built /\ at' = at /\ emitted' = emitted /\ out' = out
          /\ groups' = groups /\ (status' = "done" => status = "done")
      BY <1>9 DEF rowVars, builtVars, groupVars
    <2>2. TableAt(built, groups, at, emitted, out, status')
      BY <1>2, <1>5, <2>1 DEF TableAt
    <2>. QED BY <2>1, <2>2
  <1>10. CASE HashOpen
    <2>1. /\ ~ built /\ built' = TRUE /\ at' = at /\ emitted' = emitted /\ out' = out /\ status' = status
          /\ groups' = IF plan.group_by = <<>> THEN <<NewGroup(<<>>)>> ELSE <<>>
      BY <1>10 DEF HashOpen, operatorVars
    <2>2. at' = 0 /\ emitted' = 0 /\ out' = <<>> /\ status' # "done"
      BY <1>5, <2>1
    <2>3. \E heads : ListsGroups(groups', heads, HeadsUpTo(0), 0)
      <3>1. CASE plan.group_by = <<>>
        <4>1. groups' = <<NewGroup(<<>>)>>
          BY <2>1, <3>1
        <4>. QED BY <3>1, <4>1, NoRows
      <3>2. CASE plan.group_by # <<>>
        <4>1. groups' = <<>>
          BY <2>1, <3>2
        <4>. QED BY <3>2, <4>1, NoRows
      <3>. QED BY <3>1, <3>2
    <2>4. 0 \in 0..Len(groups') /\ <<>> = Finished(SubSeq(groups', 1, 0))
      <3>1. 0 \in 0..Len(groups')
        BY <1>4
      <3>. QED BY <1>7, <3>1
    <2>5. TableAt(TRUE, groups', 0, 0, <<>>, status')
      BY <2>2, <2>3, <2>4 DEF TableAt
    <2>. QED BY <2>1, <2>2, <2>5
  <1>11. CASE HashRow
    <2>1. /\ built /\ built' = built /\ at < n /\ at' = at + 1 /\ emitted' = emitted /\ out' = out
          /\ status' \in {status, "failed"}
      BY <1>3, <1>11 DEF HashRow, builtVars
    <2>2. emitted = 0 /\ out = <<>> /\ at # n
      <3>1. emitted = 0 /\ out = Finished(SubSeq(groups, 1, emitted))
        BY <1>5, <2>1
      <3>2. at # n
        BY <1>3, <1>4, <2>1
      <3>. QED BY <1>7, <3>1, <3>2
    <2>3. status' # "done"
      BY <1>5, <2>1, <2>2
    <2>4. TakesRow(groups, groups', Arriving[at + 1]) /\ at + 1 \in 1..InputSize /\ at \in 0..InputSize
      BY <1>2, <1>4, <1>11, HashTakes
    <2>5. \E after : ListsGroups(groups', after, HeadsUpTo(at + 1), at + 1)
      <3>1. PICK heads : ListsGroups(groups, heads, HeadsUpTo(at), at)
        BY <1>5, <2>1
      <3>2. Begun(HeadsUpTo(at), at)
        BY DEF Begun
      <3>. QED BY <2>4, <3>1, <3>2, RowTaken
    <2>6. 0 \in 0..Len(groups') /\ <<>> = Finished(SubSeq(groups', 1, 0))
      <3>1. 0 \in 0..Len(groups')
        BY <1>4
      <3>. QED BY <1>7, <3>1
    <2>7. TableAt(TRUE, groups', at', 0, <<>>, status')
      BY <2>1, <2>3, <2>5, <2>6 DEF TableAt
    <2>. QED BY <2>1, <2>2, <2>7
  <1>12. CASE HashEmit
    <2>1. PICK end, total : end = Lesser(emitted + BatchSize, Len(groups)) /\ total = Len(groups)
      OBVIOUS
    <2>2. /\ built /\ built' = built /\ at = n /\ at' = at /\ emitted' = end /\ groups' = groups
          /\ out' = out \o Finished(SubSeq(groups, emitted + 1, end))
          /\ status' = IF emitted = total THEN "done" ELSE status
      BY <1>3, <1>12, <2>1 DEF HashEmit, groupVars
    <2>3. emitted \in 0..total /\ total \in Nat
      BY <1>4, <1>5, <2>1, <2>2
    <2>4. end \in emitted..total /\ (emitted = total => end = total)
      BY ONLY <2>1, <2>3, BatchAssumption DEF Lesser
    <2>5. PICK a, b : a = SubSeq(groups, 1, emitted) /\ b = SubSeq(groups, emitted + 1, end)
      OBVIOUS
    <2>6. a \o b = SubSeq(groups, 1, end)
      <3>1. 1 \in 1..Len(groups) + 1 /\ emitted \in 1 - 1..Len(groups) /\ end \in emitted..Len(groups)
        BY ONLY <2>1, <2>3, <2>4
      <3>. QED BY ONLY <1>4, <2>5, <3>1, ConcatAdjacentSubSeq
    <2>7. a \in Seq(G) /\ b \in Seq(G)
      <3>1. \A i \in 1..emitted : groups[i] \in G
        <4>1. \A i \in 1..emitted : i \in 1..total
          BY ONLY <2>3
        <4>. QED BY <1>4, <2>1, <4>1, ElementOfSeq
      <3>2. \A i \in emitted + 1..end : groups[i] \in G
        <4>1. \A i \in emitted + 1..end : i \in 1..total
          BY ONLY <2>3, <2>4
        <4>. QED BY <1>4, <2>1, <4>1, ElementOfSeq
      <3>3. 1 \in Int /\ emitted \in Int /\ emitted + 1 \in Int /\ end \in Int
        BY ONLY <2>3, <2>4
      <3>4. a \in Seq(G)
        BY ONLY <2>5, <3>1, <3>3, SubSeqProperties
      <3>5. b \in Seq(G)
        BY ONLY <2>5, <3>2, <3>3, SubSeqProperties
      <3>. QED BY <3>4, <3>5
    <2>8. out' = Finished(SubSeq(groups, 1, end))
      <3>1. Finished(a \o b) = Finished(a) \o Finished(b)
        BY <1>2, <2>7, FinishedMore
      <3>2. out = Finished(a)
        BY <1>5, <2>2, <2>5
      <3>. QED BY <2>2, <2>5, <2>6, <3>1, <3>2
    <2>9. end \in 0..total /\ ~ n < n
      BY ONLY <1>3, <2>3, <2>4
    <2>10. status' = "done" => end = total
      <3>1. emitted = total => end = total
        BY <2>4
      <3>2. emitted # total => status' = status /\ (status = "done" => emitted = total)
        BY <1>5, <2>1, <2>2
      <3>. QED BY <3>1, <3>2
    <2>11. \E heads : ListsGroups(groups, heads, HeadsUpTo(n), n)
      BY <1>5, <2>2
    <2>12. TableAt(TRUE, groups, n, end, out', status')
      BY <1>2, <2>1, <2>8, <2>9, <2>10, <2>11 DEF TableAt
    <2>. QED BY <2>2, <2>12
  <1>13. ~ (\E m \in 1..BatchSize : StreamBatch(m)) /\ ~ StreamEnd /\ ~ StreamEmit
    BY DEF StreamBatch, StreamEnd, StreamEmit
  <1>. QED BY <1>1, <1>9, <1>10, <1>11, <1>12, <1>13, AggregateSteps DEF AggregateStep

\* The rows of a batch, one after the other.
LEMMA BatchRun ==
  ASSUME IsAggregate, AggregateShape, streams, Arrives(plan.input, plan.order),
         NEW closed, StreamRun(closed, [ready |-> groups, open |-> open], at),
         NEW m \in 1..BatchSize, StreamBatch(m)
  PROVE  /\ at + m \in 0..InputSize
         /\ StreamRun(closed, [ready |-> groups', open |-> open'], at + m)
  <1>1. PICK n, first : n = InputSize /\ first = [ready |-> groups, open |-> open]
    OBVIOUS
  <1>2. n \in Nat /\ n = Len(plan.input) /\ m \in Nat /\ m \in 0..m
    BY <1>1, AggregatePlanned, BatchAssumption DEF InputSize
  <1>3. at \in 0..n /\ first \in GroupStates
    BY <1>1 DEF AggregateShape, IsAggregate
  <1>4. at + m <= n
    BY <1>2 DEF StreamBatch
  <1>5. \A i \in 1..m : at + i \in 1..n
    BY ONLY <1>2, <1>3, <1>4
  <1>6. PICK states : states = AlongBatch(m, Arriving)
    OBVIOUS
  <1>7. groups' = states[m].ready /\ open' = states[m].open
    BY <1>6, Zenon DEF StreamBatch, AlongBatch
  <1>8. /\ states \in [0..m -> GroupStates] /\ states[0] = first
        /\ \A i \in 1..m : states[i] = GroupRow(states[i - 1], Arriving[at + i])
    <2>1. \A i \in 1..m : Arriving[at + i] \in 1..InputSize
      BY <1>1, <1>5, AggregatePlanned
    <2>. QED BY <1>1, <1>2, <1>3, <1>6, <2>1, BatchStates
  <1>9. PICK S : S = {i \in 0..m : StreamRun(closed, states[i], at + i)}
    OBVIOUS
  <1>10. 0 \in S /\ S \in SUBSET Nat
    <2>1. at + 0 = at /\ 0 \in 0..m
      BY <1>2, <1>3
    <2>2. StreamRun(closed, states[0], at + 0)
      BY <1>1, <1>8, <2>1
    <2>. QED BY <1>9, <2>1, <2>2
  <1>11. ASSUME NEW i \in S, i < m
         PROVE  i + 1 \in S
    <2>1. PICK here, next : here = at + i /\ next = i + 1
      OBVIOUS
    <2>2. i \in 0..m /\ StreamRun(closed, states[i], here)
      BY <1>9, <2>1
    <2>3. /\ next \in 1..m /\ next \in 0..m /\ next - 1 = i /\ at + next = here + 1
          /\ here \in 0..n /\ here + 1 \in 1..n
      BY ONLY <1>2, <1>3, <1>4, <1>11, <2>1, <2>2
    <2>4. states[next] = GroupRow(states[i], Arriving[here + 1])
      BY <1>8, <2>3
    <2>5. StreamRun(closed, GroupRow(states[i], Arriving[here + 1]), here + 1)
      BY <1>1, <2>2, <2>3, StreamRowKept
    <2>6. StreamRun(closed, states[next], at + next)
      BY <2>3, <2>4, <2>5
    <2>. QED BY <1>9, <2>1, <2>3, <2>6
  <1>12. 0..m \subseteq S
    BY ONLY <1>2, <1>10, <1>11, InductionUpTo
  <1>13. StreamRun(closed, states[m], at + m)
    BY <1>2, <1>9, <1>12
  <1>14. states[m] = [ready |-> groups', open |-> open']
    <2>1. states[m] \in GroupStates
      BY <1>2, <1>8
    <2>. QED BY <1>7, <2>1 DEF GroupStates
  <1>15. at + m \in 0..n
    BY ONLY <1>2, <1>3, <1>4
  <1>. QED BY <1>1, <1>13, <1>14, <1>15

\* The end of the input finishes the group that is open.
LEMMA EndRun ==
  ASSUME IsAggregate, NEW closed, StreamRun(closed, [ready |-> groups, open |-> open], InputSize)
  PROVE  \E heads : ListsGroups(closed \o (groups \o LastGroup), heads, HeadsUpTo(InputSize), InputSize)
  <1>1. PICK n, G, all : n = InputSize /\ G = GroupRecords /\ all = closed \o (groups \o open)
    OBVIOUS
  <1>2. n \in Nat
    BY <1>1, AggregatePlanned
  <1>3. /\ closed \in Seq(G) /\ groups \in Seq(G) /\ open \in Seq(G)
        /\ \E heads : ListsGroups(all, heads, IF n = 0 THEN {} ELSE HeadsUpTo(n), n)
        /\ n = 0 => open = <<>>
        /\ n # 0 => Len(open) = 1
    BY <1>1 DEF StreamRun, StreamGroups, GroupStates
  <1>4. CASE n # 0
    <2>1. open # <<>>
      <3>1. Len(open) = 1 /\ Len(<<>>) = 0
        BY <1>3, <1>4, EmptySeq
      <3>. QED BY <3>1
    <2>2. closed \o (groups \o LastGroup) = all
      BY <1>1, <2>1 DEF LastGroup
    <2>. QED BY <1>1, <1>3, <1>4, <2>2
  <1>5. CASE n = 0
    <2>1. PICK heads : ListsGroups(all, heads, {}, n)
      BY <1>3, <1>5
    <2>2. all \in Seq(G) /\ \A j \in 1..Len(all) : FALSE
      BY <1>1, <2>1 DEF ListsGroups
    <2>3. PICK l, a, b, c : l = Len(all) /\ a = Len(closed) /\ b = Len(groups \o open) /\ c = Len(groups)
      OBVIOUS
    <2>4. l \in Nat /\ \A j \in 1..l : FALSE
      BY <2>2, <2>3, LenProperties
    <2>5. l = 0
      <3>1. l # 0 => 1 \in 1..l
        BY ONLY <2>4
      <3>. QED BY <2>4, <3>1
    <2>6. /\ groups \o open \in Seq(G) /\ l = a + b /\ b = c + Len(open)
          /\ a \in Nat /\ b \in Nat /\ c \in Nat /\ Len(open) \in Nat
      <3>1. groups \o open \in Seq(G) /\ b = c + Len(open)
        BY <1>3, <2>3, ConcatProperties
      <3>2. l = a + b
        BY <1>1, <1>3, <2>3, <3>1, ConcatProperties
      <3>. QED BY <1>3, <2>3, <3>1, <3>2, LenProperties
    <2>7. a = 0 /\ c = 0
      BY ONLY <2>5, <2>6
    <2>8. closed = <<>> /\ groups = <<>> /\ open = <<>>
      BY <1>3, <1>5, <2>3, <2>7, EmptySeq
    <2>9. PICK last : last = IF plan.group_by = <<>> THEN <<NewGroup(<<>>)>> ELSE <<>>
      OBVIOUS
    <2>10. \E h : ListsGroups(last, h, HeadsUpTo(0), 0)
      <3>1. CASE plan.group_by = <<>>
        <4>1. last = <<NewGroup(<<>>)>>
          BY <2>9, <3>1
        <4>. QED BY <3>1, <4>1, NoRows
      <3>2. CASE plan.group_by # <<>>
        <4>1. last = <<>>
          BY <2>9, <3>2
        <4>. QED BY <3>2, <4>1, NoRows
      <3>. QED BY <3>1, <3>2
    <2>11. last \in Seq(G) /\ LastGroup = last
      BY <1>1, <2>8, <2>9, <2>10 DEF ListsGroups, LastGroup
    <2>12. <<>> \o last = last
      BY <2>11, ConcatEmptySeq
    <2>. QED BY <1>1, <1>5, <2>8, <2>10, <2>11, <2>12
  <1>. QED BY <1>4, <1>5

LEMMA FlowKept ==
  ASSUME IsAggregate, AggregateShape, streams, Arrives(plan.input, plan.order), FlowRun, [Next]_vars
  PROVE  FlowRun'
  <1>1. plan' = plan /\ plan.kind = "aggregate"
    BY HeapSteps DEF IsAggregate
  <1>2. PICK n, G : n = InputSize /\ G = GroupRecords
    OBVIOUS
  <1>3. n \in Nat /\ n = Len(plan.input)
    BY <1>2, AggregatePlanned DEF InputSize
  <1>4. at \in 0..n /\ groups \in Seq(G) /\ open \in Seq(G) /\ Len(groups) \in Nat
    <2>1. at \in 0..n /\ groups \in Seq(G) /\ open \in Seq(G)
      BY <1>1, <1>2 DEF AggregateShape, GroupStates
    <2>. QED BY <2>1, LenProperties
  <1>5. PICK closed : FlowAt(closed, input_ended, groups, open, at, out, status)
    BY DEF FlowRun
  <1>6. /\ closed \in Seq(G) /\ out = Finished(closed)
        /\ ~ input_ended => StreamRun(closed, [ready |-> groups, open |-> open], at)
        /\ input_ended =>
             /\ at = n /\ open = <<>>
             /\ \E heads : ListsGroups(closed \o groups, heads, HeadsUpTo(at), at)
        /\ status = "done" => input_ended /\ groups = <<>>
    BY <1>2, <1>5 DEF FlowAt
  <1>7. SUFFICES \E c : FlowAt(c, input_ended', groups', open', at', out', status')
    BY <1>1, AggregateDecides DEF FlowRun
  <1>8. CASE UNCHANGED <<plan, out, rowVars, heap, groupVars>> /\ status' \in {status, "failed"}
    <2>1. /\ input_ended' = input_ended /\ at' = at /\ out' = out /\ open' = open
          /\ groups' = groups /\ (status' = "done" => status = "done")
      BY <1>8 DEF rowVars, groupVars
    <2>2. FlowAt(closed, input_ended, groups, open, at, out, status')
      BY <1>2, <1>6, <2>1 DEF FlowAt
    <2>. QED BY <2>1, <2>2
  <1>9. ASSUME NEW m \in 1..BatchSize, StreamBatch(m)
        PROVE  \E c : FlowAt(c, input_ended', groups', open', at', out', status')
    <2>1. /\ ~ input_ended /\ input_ended' = input_ended /\ at' = at + m /\ out' = out
          /\ status' \in {status, "failed"}
      BY <1>9 DEF StreamBatch, FillingGroups
    <2>2. StreamRun(closed, [ready |-> groups', open |-> open'], at')
      BY <1>6, <1>9, <2>1, BatchRun
    <2>3. status' # "done"
      BY <1>6, <2>1
    <2>4. FlowAt(closed, input_ended', groups', open', at', out', status')
      BY <1>2, <1>6, <2>1, <2>2, <2>3 DEF FlowAt
    <2>. QED BY <2>4
  <1>10. CASE StreamEnd
    <2>1. /\ ~ input_ended /\ input_ended' = TRUE /\ at = n /\ at' = at /\ out' = out /\ status' = status
          /\ groups' = groups \o LastGroup /\ open' = <<>>
      BY <1>3, <1>10 DEF StreamEnd, FillingGroups, rowVars, operatorVars
    <2>2. \E heads : ListsGroups(closed \o groups', heads, HeadsUpTo(at'), at')
      BY <1>2, <1>6, <2>1, EndRun
    <2>3. status' # "done"
      BY <1>6, <2>1
    <2>4. FlowAt(closed, input_ended', groups', open', at', out', status')
      BY <1>2, <1>6, <2>1, <2>2, <2>3 DEF FlowAt
    <2>. QED BY <2>4
  <1>11. CASE StreamEmit
    <2>1. PICK total, take, from, first, rest, more :
            /\ total = Len(groups) /\ take = Lesser(total, BatchSize) /\ from = take + 1
            /\ first = SubSeq(groups, 1, take) /\ rest = SubSeq(groups, from, total)
            /\ more = closed \o first
      OBVIOUS
    <2>2. /\ input_ended' = input_ended /\ at' = at /\ open' = open
          /\ out' = out \o Finished(first) /\ groups' = rest
          /\ status' = IF groups = <<>> THEN "done" ELSE status
      BY <1>11, <2>1 DEF StreamEmit, rowVars
    <2>3. total \in Nat /\ take \in 0..total
      BY ONLY <1>4, <2>1, BatchAssumption DEF Lesser
    <2>4. first \in Seq(G) /\ rest \in Seq(G) /\ first \o rest = groups
      <3>1. CutsInTwo(groups, first, rest)
        BY <2>1, <2>3 DEF CutsInTwo
      <3>2. groups \in Seq(G)
        BY <1>4
      <3>. QED BY ONLY <3>1, <3>2, FirstAndRest
    <2>5. more \in Seq(G) /\ out' = Finished(more)
      <3>1. more \in Seq(G)
        BY <1>6, <2>1, <2>4, ConcatProperties
      <3>2. Finished(closed \o first) = Finished(closed) \o Finished(first)
        BY <1>2, <1>6, <2>4, FinishedMore
      <3>. QED BY <1>6, <2>1, <2>2, <3>1, <3>2
    <2>6. ASSUME ~ input_ended
          PROVE  StreamRun(more, [ready |-> rest, open |-> open], at)
      <3>1. StreamRun(closed, [ready |-> groups, open |-> open], at)
        BY <1>6, <2>6
      <3>2. [ready |-> rest, open |-> open] \in GroupStates
        BY <1>2, <2>4, <3>1 DEF StreamRun, GroupStates
      <3>3. closed \o (groups \o open) = more \o (rest \o open)
        <4>0. closed \in Seq(G) /\ first \in Seq(G) /\ rest \in Seq(G) /\ open \in Seq(G)
          BY <1>4, <1>6, <2>4
        <4>1. (first \o rest) \o open = first \o (rest \o open)
          <5>1. first \in Seq(G) /\ rest \in Seq(G) /\ open \in Seq(G)
            BY <4>0
          <5>. QED BY ONLY <5>1, ConcatAssociative
        <4>2. rest \o open \in Seq(G)
          BY <4>0, ConcatProperties
        <4>3. (closed \o first) \o (rest \o open) = closed \o (first \o (rest \o open))
          BY ONLY <4>0, <4>2, ConcatAssociative
        <4>. QED BY <2>1, <2>4, <4>1, <4>3
      <3>4. StreamGroups(closed, [ready |-> groups, open |-> open])
              = StreamGroups(more, [ready |-> rest, open |-> open])
        BY <3>3 DEF StreamGroups
      <3>. QED BY <1>2, <2>5, <3>1, <3>2, <3>4 DEF StreamRun
    <2>7. closed \o groups = more \o rest
      <3>1. closed \in Seq(G) /\ first \in Seq(G) /\ rest \in Seq(G)
        BY <1>6, <2>4
      <3>2. (closed \o first) \o rest = closed \o (first \o rest)
        BY ONLY <3>1, ConcatAssociative
      <3>. QED BY <2>1, <2>4, <3>2
    <2>8. ASSUME status' = "done"
          PROVE  input_ended /\ rest = <<>>
      <3>1. groups = <<>>
        BY <1>6, <2>2, <2>8
      <3>2. total = 0
        BY <2>1, <3>1, EmptySeq
      <3>3. 0 < BatchSize
        BY BatchAssumption
      <3>4. input_ended
        BY <1>11, <2>1, <3>2, <3>3 DEF StreamEmit, FillingGroups
      <3>5. total < from /\ from \in Int /\ total \in Int
        BY ONLY <2>1, <2>3, <3>2
      <3>6. SubSeq(groups, from, total) = <<>>
        BY ONLY <3>5, SubSeqEmpty
      <3>. QED BY <2>1, <3>4, <3>6
    <2>9. FlowAt(more, input_ended, rest, open, at, out', status')
      BY <1>2, <1>6, <2>5, <2>6, <2>7, <2>8 DEF FlowAt
    <2>. QED BY <2>2, <2>9
  <1>12. ~ HashOpen /\ ~ HashRow /\ ~ HashEmit
    BY DEF HashOpen, HashRow, HashEmit
  <1>. QED BY <1>1, <1>8, <1>9, <1>10, <1>11, <1>12, AggregateSteps DEF AggregateStep

\* And so it is from the start.
LEMMA AggregateRunFirst ==
  ASSUME Init
  PROVE  AggregateRun
  <1>1. /\ PlanGiven /\ built = FALSE /\ at = 0 /\ emitted = 0 /\ out = <<>> /\ status = "running"
        /\ groups = <<>> /\ open = <<>> /\ input_ended = FALSE
        /\ plan.kind = "aggregate" => Arrives(plan.input, plan.order)
    BY DEF Init, OperatorInit, RowInit, PlanGiven
  <1>2. TableRun
    BY <1>1 DEF TableRun, TableAt
  <1>3. PICK none, G : none = <<>> /\ G = GroupRecords
    OBVIOUS
  <1>4. none \in Seq(G) /\ Len(none) = 0 /\ none \in Seq(0..InputSize) /\ none \o none = none
    <2>1. <<>> \in Seq(G) /\ Len(<<>>) = 0 /\ <<>> \in Seq(0..InputSize)
      BY EmptySeq
    <2>. QED BY <1>3, <2>1, ConcatEmptySeq
  <1>5. Finished(none) = none
    BY <1>3, <1>4, FinishedMore
  <1>6. ListsGroups(none, none, {}, 0)
    <2>1. 1..0 = {}
      OBVIOUS
    <2>. QED BY <1>3, <1>4, <2>1 DEF ListsGroups
  <1>7. PICK state : state = [ready |-> none, open |-> none]
    OBVIOUS
  <1>8. state \in GroupStates /\ StreamGroups(none, state) = none /\ state.open = <<>>
    BY <1>3, <1>4, <1>7 DEF GroupStates, StreamGroups
  <1>9. StreamRun(none, state, 0)
    BY <1>3, <1>4, <1>6, <1>8 DEF StreamRun
  <1>10. FlowRun
    <2>1. FlowAt(none, input_ended, groups, open, at, out, status)
      BY <1>1, <1>3, <1>4, <1>5, <1>7, <1>9 DEF FlowAt
    <2>. QED BY <2>1 DEF FlowRun
  <1>. QED BY <1>1, <1>2, <1>10 DEF AggregateRun

LEMMA AggregateRunKept ==
  ASSUME TypeInv, TypeInv', PlanGiven, AggregateRun, [Next]_vars
  PROVE  AggregateRun'
  <1>1. plan' = plan /\ PlanGiven'
    BY HeapSteps DEF PlanGiven
  <1>2. SUFFICES ASSUME plan.kind = "aggregate"
                 PROVE  AggregateRun'
    BY <1>1 DEF AggregateRun
  <1>3. IsAggregate /\ AggregateShape /\ AggregateShape'
    BY <1>2 DEF IsAggregate, TypeInv
  <1>4. /\ Arrives(plan.input, plan.order) /\ (streams => FlowRun) /\ (~ streams => TableRun)
    BY <1>2 DEF AggregateRun
  <1>5. (streams => FlowRun') /\ (~ streams => TableRun')
    BY <1>3, <1>4, FlowKept, TableKept
  <1>6. (streams' <=> streams) /\ Arrives(plan.input, plan.order)'
    BY <1>1, <1>4, AggregateDecides DEF Arrives, compare_rows
  <1>. QED BY <1>5, <1>6 DEF AggregateRun

-----------------------------------------------------------------------------
(* Those an aggregate has returned are whole, and come in the right order. *)

\* Some of the groups there are, the first of them, and no row to come is theirs.
HandsOut(all, heads, S, m) ==
  /\ m \in 0..InputSize /\ Begun(S, m) /\ ListsGroups(all, heads, S, m)
  /\ Len(out) \in 0..Len(all) /\ DOMAIN out = 1..Len(out)
  /\ \A i \in 1..Len(out) : /\ out[i] = [key |-> all[i].key, value |-> finish(all[i].acc)]
                            /\ RowsSo(all[i].key, m) = Members(all[i].key)
  /\ status = "done" => S = HeadsUpTo(InputSize) /\ Len(out) = Len(all)

LEMMA TableReturned ==
  ASSUME IsAggregate, AggregateShape, TableRun
  PROVE  \E all, heads, S, m : HandsOut(all, heads, S, m)
  <1>1. PICK n, G : n = InputSize /\ G = GroupRecords
    OBVIOUS
  <1>2. n \in Nat /\ at \in 0..n /\ groups \in Seq(G)
    BY <1>1, AggregatePlanned DEF AggregateShape, IsAggregate, GroupStates
  <1>3. CASE ~ built
    <2>1. groups = <<>> /\ at = 0 /\ out = <<>> /\ status # "done"
      BY <1>3 DEF TableRun, TableAt
    <2>2. PICK none : none = <<>>
      OBVIOUS
    <2>3. none \in Seq(G) /\ Len(none) = 0 /\ none \in Seq(0..n) /\ DOMAIN none = {} /\ 1..0 = {}
      <3>1. DOMAIN <<>> = {} /\ 1..0 = {}
        OBVIOUS
      <3>. QED BY <2>2, <3>1, EmptySeq
    <2>4. ListsGroups(none, none, {}, 0) /\ Begun({}, 0)
      BY <1>1, <2>3 DEF ListsGroups, Begun
    <2>5. HandsOut(none, none, {}, 0)
      BY <1>1, <1>2, <2>1, <2>2, <2>3, <2>4 DEF HandsOut
    <2>. QED BY <2>5
  <1>4. CASE built
    <2>1. PICK heads : ListsGroups(groups, heads, HeadsUpTo(at), at)
      BY <1>4 DEF TableRun, TableAt
    <2>2. PICK total, first, shown :
            total = Len(groups) /\ first = SubSeq(groups, 1, emitted) /\ shown = Finished(first)
      OBVIOUS
    <2>3. /\ emitted \in 0..total /\ out = shown /\ total \in Nat
          /\ at < n => emitted = 0
          /\ status = "done" => at = n /\ emitted = total
      <3>1. total \in Nat
        BY <1>2, <2>2, LenProperties
      <3>. QED BY <1>1, <1>4, <2>2, <3>1 DEF TableRun, TableAt
    <2>4. first \in Seq(G) /\ Len(first) = emitted /\ \A i \in 1..emitted : first[i] = groups[i]
      <3>1. \A i \in 1..emitted : i \in 1..total
        BY <2>3
      <3>2. \A i \in 1..emitted : groups[i] \in G
        BY <1>2, <2>2, <3>1, ElementOfSeq
      <3>3. 1 \in Int /\ emitted \in Int
        BY <2>3
      <3>4. /\ first \in Seq(G) /\ Len(first) = (IF 1 <= emitted THEN emitted - 1 + 1 ELSE 0)
            /\ \A i \in 1..emitted - 1 + 1 : first[i] = groups[1 + i - 1]
        BY ONLY <2>2, <3>2, <3>3, SubSeqProperties
      <3>5. (IF 1 <= emitted THEN emitted - 1 + 1 ELSE 0) = emitted /\ emitted - 1 + 1 = emitted
            /\ \A i \in 1..emitted : 1 + i - 1 = i
        BY ONLY <2>3
      <3>. QED BY ONLY <3>4, <3>5
    <2>5. /\ Len(shown) = emitted /\ DOMAIN shown = 1..emitted
          /\ \A i \in 1..emitted : shown[i] = [key |-> groups[i].key, value |-> finish(groups[i].acc)]
      <3>1. /\ Len(shown) = Len(first) /\ DOMAIN shown = 1..Len(first)
            /\ \A i \in 1..Len(first) : shown[i] = [key |-> first[i].key, value |-> finish(first[i].acc)]
        BY <1>1, <2>2, <2>4, FinishedMore
      <3>. QED BY <2>4, <3>1
    <2>6. ASSUME NEW i \in 1..emitted
          PROVE  RowsSo(groups[i].key, at) = Members(groups[i].key)
      <3>1. at = n
        BY ONLY <1>2, <2>3, <2>6
      <3>. QED BY <1>1, <3>1, RowsAll
    <2>7. HandsOut(groups, heads, HeadsUpTo(at), at)
      BY <1>1, <1>2, <2>1, <2>2, <2>3, <2>5, <2>6 DEF HandsOut, Begun
    <2>. QED BY <2>7
  <1>. QED BY <1>3, <1>4

\* A group that is not the open one gets no more rows.
LEMMA ClosedIsWhole ==
  ASSUME IsAggregate, streams, Arrives(plan.input, plan.order),
         NEW m \in 1..InputSize, NEW h \in HeadsUpTo(m), KeyAt(h) # KeyAt(m)
  PROVE  RowsSo(KeyAt(h), m) = Members(KeyAt(h))
  <1>1. PICK n, key : n = InputSize /\ key = KeyAt(h)
    OBVIOUS
  <1>2. /\ n \in Nat /\ m \in 1..n /\ h \in 0..m /\ h # m
        /\ h = 0 => plan.group_by = <<>>
    BY <1>1, AggregatePlanned DEF HeadsUpTo, OpensGroup
  <1>3. h < m /\ h \in 0..InputSize
    BY ONLY <1>1, <1>2
  <1>4. ASSUME NEW j \in 1..n, ~ j \in 1..m
        PROVE  KeyAt(j) # key
    <2>1. m < j
      BY ONLY <1>2, <1>4
    <2>2. SUFFICES ASSUME KeyAt(h) = KeyAt(j)
                   PROVE  FALSE
      BY <1>1
    <2>3. KeyAt(m) = KeyAt(j)
      BY <1>1, <1>2, <1>3, <2>1, <2>2, Grouped
    <2>. QED BY <2>2, <2>3
  <1>5. \A j : j \in 1..m => j \in 1..n
    BY ONLY <1>2
  <1>6. {k \in 1..m : KeyAt(k) = key} = {k \in 1..n : KeyAt(k) = key}
    BY <1>4, <1>5
  <1>7. RowsSo(key, m) = RowsSo(key, n)
    BY <1>6, Zenon DEF RowsSo
  <1>. QED BY <1>1, <1>7, RowsAll

LEMMA FlowReturned ==
  ASSUME IsAggregate, AggregateShape, streams, Arrives(plan.input, plan.order), FlowRun
  PROVE  \E all, heads, S, m : HandsOut(all, heads, S, m)
  <1>1. PICK n, G : n = InputSize /\ G = GroupRecords
    OBVIOUS
  <1>2. n \in Nat /\ at \in 0..n /\ groups \in Seq(G) /\ open \in Seq(G)
    BY <1>1, AggregatePlanned DEF AggregateShape, IsAggregate, GroupStates
  <1>3. PICK closed : FlowAt(closed, input_ended, groups, open, at, out, status)
    BY DEF FlowRun
  <1>4. /\ closed \in Seq(G) /\ out = Finished(closed)
        /\ ~ input_ended => StreamRun(closed, [ready |-> groups, open |-> open], at)
        /\ input_ended =>
             /\ at = n /\ open = <<>>
             /\ \E heads : ListsGroups(closed \o groups, heads, HeadsUpTo(at), at)
        /\ status = "done" => input_ended /\ groups = <<>>
    BY <1>1, <1>3 DEF FlowAt
  <1>5. PICK c, shown : c = Len(closed) /\ shown = out
    OBVIOUS
  <1>6. /\ c \in Nat /\ Len(shown) = c /\ DOMAIN shown = 1..c
        /\ \A i \in 1..c : shown[i] = [key |-> closed[i].key, value |-> finish(closed[i].acc)]
    BY <1>1, <1>4, <1>5, FinishedMore, LenProperties
  <1>7. CASE input_ended
    <2>1. PICK all : all = closed \o groups
      OBVIOUS
    <2>2. PICK heads : ListsGroups(all, heads, HeadsUpTo(at), at)
      BY <1>4, <1>7, <2>1
    <2>3. PICK g, l : g = Len(groups) /\ l = Len(all)
      OBVIOUS
    <2>4. /\ g \in Nat /\ l = c + g
          /\ \A i \in 1..c + g : all[i] = IF i <= c THEN closed[i] ELSE groups[i - c]
      BY <1>2, <1>4, <1>5, <2>1, <2>3, ConcatProperties, LenProperties
    <2>5. c \in 0..l /\ \A i \in 1..c : all[i] = closed[i]
      BY ONLY <1>6, <2>4
    <2>6. \A i \in 1..c : RowsSo(all[i].key, at) = Members(all[i].key)
      BY <1>1, <1>4, <1>7, RowsAll
    <2>7. status = "done" => c = l
      <3>1. status = "done" => g = 0
        BY <1>4, <2>3, EmptySeq
      <3>. QED BY <1>6, <2>4, <3>1
    <2>8. HandsOut(all, heads, HeadsUpTo(at), at)
      BY <1>1, <1>2, <1>4, <1>5, <1>6, <1>7, <2>2, <2>3, <2>5, <2>6, <2>7 DEF HandsOut, Begun
    <2>. QED BY <2>8
  <1>8. CASE ~ input_ended
    <2>1. PICK held, all, S :
            /\ held = groups \o open /\ all = closed \o held
            /\ S = IF at = 0 THEN {} ELSE HeadsUpTo(at)
      OBVIOUS
    <2>2. /\ \E heads : ListsGroups(all, heads, S, at)
          /\ at # 0 => Len(open) = 1 /\ open[1].key = KeyAt(at)
      BY <1>4, <1>8, <2>1 DEF StreamRun, StreamGroups
    <2>3. PICK heads : ListsGroups(all, heads, S, at)
      BY <2>2
    <2>4. PICK g, o, l : g = Len(groups) /\ o = Len(open) /\ l = Len(all)
      OBVIOUS
    <2>5. /\ g \in Nat /\ o \in Nat /\ held \in Seq(G) /\ Len(held) = g + o
          /\ \A i \in 1..g + o : held[i] = IF i <= g THEN groups[i] ELSE open[i - g]
      BY <1>2, <2>1, <2>4, ConcatProperties, LenProperties
    <2>6. /\ l = c + (g + o)
          /\ \A i \in 1..c + (g + o) : all[i] = IF i <= c THEN closed[i] ELSE held[i - c]
      BY <1>4, <1>5, <2>1, <2>4, <2>5, ConcatProperties
    <2>7. c \in 0..l /\ \A i \in 1..c : i \in 1..l /\ all[i] = closed[i]
      BY ONLY <1>6, <2>5, <2>6
    <2>8. ASSUME NEW i \in 1..c
          PROVE  RowsSo(all[i].key, at) = Members(all[i].key)
      <3>1. /\ \A j, k \in 1..l : j < k => heads[j] < heads[k]
            /\ \A h : h \in S <=> \E j \in 1..l : heads[j] = h
            /\ \A j \in 1..l : all[j].key = KeyAt(heads[j])
            /\ heads \in Seq(0..n) /\ Len(heads) = l
        BY <1>1, <2>3, <2>4 DEF ListsGroups
      <3>2. i \in 1..l /\ heads[i] \in S
        BY <2>7, <2>8, <3>1
      <3>3. at # 0 /\ S = HeadsUpTo(at)
        BY <2>1, <3>2
      <3>4. o = 1 /\ open[1].key = KeyAt(at)
        BY <2>2, <2>4, <3>3
      <3>5. l \in 1..l /\ i < l
        BY ONLY <1>6, <2>5, <2>6, <2>8, <3>4
      <3>6. all[l] = open[1]
        <4>1. l \in 1..c + (g + o) /\ ~ l <= c /\ l - c = g + 1 /\ g + 1 \in 1..g + o
              /\ ~ g + 1 <= g /\ (g + 1) - g = 1
          BY ONLY <1>6, <2>5, <2>6, <3>4
        <4>2. all[l] = held[g + 1]
          BY <2>6, <4>1
        <4>3. held[g + 1] = open[1]
          BY <2>5, <4>1
        <4>. QED BY <4>2, <4>3
      <3>7. PICK h, last : h = heads[i] /\ last = heads[l]
        OBVIOUS
      <3>8. h \in HeadsUpTo(at) /\ last \in HeadsUpTo(at) /\ h < last /\ h \in 0..n /\ last \in 0..n
        <4>1. h < last
          BY <3>1, <3>2, <3>5, <3>7
        <4>2. h \in 0..n /\ last \in 0..n
          BY <3>1, <3>2, <3>5, <3>7, ElementOfSeq
        <4>. QED BY <3>1, <3>2, <3>3, <3>5, <3>7, <4>1, <4>2
      <3>9. KeyAt(last) = KeyAt(at)
        BY <3>1, <3>4, <3>5, <3>6, <3>7
      <3>10. KeyAt(h) # KeyAt(at)
        <4>1. h # last
          BY ONLY <1>2, <3>8
        <4>. QED BY <1>1, <1>2, <3>8, <3>9, <4>1, HeadsDiffer
      <3>11. at \in 1..InputSize
        BY ONLY <1>1, <1>2, <3>3
      <3>12. all[i].key = KeyAt(h)
        BY <3>1, <3>2, <3>7
      <3>. QED BY <3>8, <3>10, <3>11, <3>12, ClosedIsWhole
    <2>9. Begun(S, at)
      BY <2>1 DEF Begun
    <2>10. status # "done"
      BY <1>4, <1>8
    <2>11. HandsOut(all, heads, S, at)
      BY <1>1, <1>2, <1>5, <1>6, <2>3, <2>4, <2>7, <2>8, <2>9, <2>10 DEF HandsOut
    <2>. QED BY <2>11
  <1>. QED BY <1>7, <1>8

\* Numbers that increase.
Increasing(s) == \A i, j \in 1..Len(s) : i < j => s[i] < s[j]

\* A row of one sequence is in another, and so are those before it.
Starts(a, b) ==
  /\ \A i \in 1..Len(a) : \E j \in 1..Len(b) : b[j] = a[i]
  /\ \A i \in 1..Len(a), j \in 1..Len(b) : b[j] < a[i] => \E k \in 1..Len(a) : a[k] = b[j]

LEMMA SameStart ==
  ASSUME NEW n \in Nat, NEW a \in Seq(0..n), NEW b \in Seq(0..n),
         Increasing(a), Increasing(b), Starts(a, b)
  PROVE  Len(a) <= Len(b) /\ \A i \in 1..Len(a) : a[i] = b[i]
  <1>1. PICK c, d : c = Len(a) /\ d = Len(b)
    OBVIOUS
  <1>2. /\ c \in Nat /\ d \in Nat
        /\ \A i \in 1..c : a[i] \in 0..n
        /\ \A i \in 1..d : b[i] \in 0..n
    BY <1>1, LenProperties, ElementOfSeq
  <1>3. /\ \A i, j \in 1..c : i < j => a[i] < a[j]
        /\ \A i, j \in 1..d : i < j => b[i] < b[j]
        /\ \A i \in 1..c : \E j \in 1..d : b[j] = a[i]
        /\ \A i \in 1..c, j \in 1..d : b[j] < a[i] => \E k \in 1..c : a[k] = b[j]
    BY <1>1 DEF Increasing, Starts
  <1>4. PICK S : S = {m \in 0..c : \A i \in 1..m : i \in 1..d /\ a[i] = b[i]}
    OBVIOUS
  <1>5. 0 \in S /\ S \in SUBSET Nat
    BY <1>2, <1>4
  <1>6. ASSUME NEW m \in S, m < c
        PROVE  m + 1 \in S
    <2>1. PICK i : i = m + 1
      OBVIOUS
    <2>2. m \in 0..c /\ \A k \in 1..m : k \in 1..d /\ a[k] = b[k]
      BY <1>4
    <2>3. i \in 1..c /\ i \in 0..c /\ \A k : k \in 1..i <=> k \in 1..m \/ k = i
      BY ONLY <1>2, <1>6, <2>1, <2>2
    <2>4. PICK j \in 1..d : b[j] = a[i]
      BY <1>3, <2>3
    <2>5. ~ j < i
      <3>1. SUFFICES ASSUME j < i
                     PROVE  FALSE
        OBVIOUS
      <3>2. j \in 1..m /\ j \in 1..c
        BY ONLY <1>2, <2>1, <2>2, <2>3, <2>4, <3>1
      <3>3. a[j] = b[j] /\ a[j] < a[i]
        BY <1>3, <2>2, <2>3, <3>1, <3>2
      <3>4. a[i] \in 0..n
        BY <1>2, <2>3
      <3>. QED BY ONLY <2>4, <3>3, <3>4
    <2>6. ~ i < j
      <3>1. SUFFICES ASSUME i < j
                     PROVE  FALSE
        OBVIOUS
      <3>2. i \in 1..d
        BY ONLY <1>2, <2>3, <2>4, <3>1
      <3>3. b[i] < a[i]
        BY <1>3, <2>4, <3>1, <3>2
      <3>4. PICK k \in 1..c : a[k] = b[i]
        BY <1>3, <2>3, <3>2, <3>3
      <3>5. a[k] < a[i]
        BY <3>3, <3>4
      <3>6. k < i
        <4>1. SUFFICES ASSUME ~ k < i
                       PROVE  FALSE
          OBVIOUS
        <4>2. k = i \/ i < k
          BY ONLY <1>2, <2>3, <3>4, <4>1
        <4>3. ~ a[i] < a[i] /\ ~ (a[i] < a[k] /\ a[k] < a[i])
          <5>1. a[i] \in 0..n /\ a[k] \in 0..n
            BY <1>2, <2>3
          <5>. QED BY ONLY <5>1
        <4>. QED BY <1>3, <2>3, <3>5, <4>2, <4>3
      <3>7. k \in 1..m /\ k \in 1..d
        BY ONLY <1>2, <2>1, <2>2, <2>3, <3>2, <3>4, <3>6
      <3>8. b[k] = b[i] /\ b[k] < b[i]
        BY <1>3, <2>2, <3>2, <3>4, <3>6, <3>7
      <3>9. b[i] \in 0..n
        BY <1>2, <3>2
      <3>. QED BY ONLY <3>8, <3>9
    <2>7. j = i
      BY ONLY <1>2, <2>3, <2>4, <2>5, <2>6
    <2>8. \A k \in 1..i : k \in 1..d /\ a[k] = b[k]
      BY <2>2, <2>3, <2>4, <2>7
    <2>. QED BY <1>4, <2>1, <2>3, <2>8
  <1>7. 0..c \subseteq S
    BY ONLY <1>2, <1>5, <1>6, InductionUpTo
  <1>8. \A i \in 1..c : i \in 1..d /\ a[i] = b[i]
    <2>1. c \in 0..c
      BY <1>2
    <2>2. c \in S
      BY <1>7, <2>1
    <2>. QED BY <1>4, <2>2
  <1>9. c <= d
    <2>1. c # 0 => c \in 1..c
      BY <1>2
    <2>. QED BY <1>2, <1>8, <2>1
  <1>. QED BY <1>1, <1>8, <1>9

\* The heads, one after the other, and the keys in the order their first rows arrive.
Enumerates(b, T) ==
  /\ b \in Seq(0..InputSize) /\ Increasing(b)
  /\ \A h : h \in T <=> \E j \in 1..Len(b) : b[j] = h

LEMMA FirstSeenIs ==
  ASSUME IsAggregate
  PROVE  \E b : /\ Enumerates(b, HeadsUpTo(InputSize))
                /\ FirstSeen(Arriving) = [i \in 1..Len(b) |-> KeyAt(b[i])]
  <1>1. PICK n : n = InputSize
    OBVIOUS
  <1>2. n \in Nat /\ DOMAIN plan.input = 1..n
    BY <1>1, AggregatePlanned
  <1>3. CASE plan.group_by = <<>>
    <2>1. PICK b, keys : b = <<0>> /\ keys = FirstSeen(Arriving)
      OBVIOUS
    <2>2. b \in Seq(0..n) /\ Len(b) = 1 /\ b[1] = 0
      <3>1. 0 \in 0..n
        BY <1>2
      <3>. QED BY <2>1, <3>1
    <2>3. \A j : j \in 1..1 <=> j = 1
      OBVIOUS
    <2>4. Increasing(b)
      BY <2>2, <2>3 DEF Increasing
    <2>5. \A h : h \in HeadsUpTo(n) <=> h = 0
      BY <1>2, <1>3 DEF HeadsUpTo, OpensGroup
    <2>6. Enumerates(b, HeadsUpTo(n))
      BY <1>1, <2>2, <2>3, <2>4, <2>5 DEF Enumerates
    <2>7. keys = <<(<<>>)>>
      BY <1>3, <2>1 DEF FirstSeen
    <2>8. KeyAt(0) = <<>>
      BY DEF KeyAt
    <2>9. PICK shown : shown = [i \in 1..1 |-> KeyAt(b[i])]
      OBVIOUS
    <2>10. keys = shown
      <3>1. DOMAIN keys = 1..1 /\ keys[1] = <<>> /\ shown[1] = <<>>
        BY <2>2, <2>3, <2>7, <2>8, <2>9
      <3>. QED BY <2>3, <2>7, <2>9, <3>1
    <2>. QED BY <1>1, <2>1, <2>2, <2>6, <2>9, <2>10
  <1>4. CASE plan.group_by # <<>>
    <2>1. PICK new, upTo, first :
            /\ new = {i \in DOMAIN plan.input :
                        \A k \in 1..i - 1 : GroupValues(Arriving[k]) # GroupValues(Arriving[i])}
            /\ upTo = {p \in new \X new : p[1] <= p[2]}
            /\ first = InOrderOf(new, upTo)
      OBVIOUS
    <2>2. new = HeadsUpTo(n)
      <3>1. \A i \in 1..n : \A k \in 1..i - 1 : k \in 1..n /\ k # 0
        BY <1>2
      <3>2. \A i \in 1..n : OpensGroup(i) <=> \A k \in 1..i - 1 : KeyAt(k) # KeyAt(i)
        BY <1>2, <1>4 DEF OpensGroup
      <3>3. \A i \in 1..n : KeyAt(i) = GroupValues(Arriving[i])
        BY <1>2 DEF KeyAt
      <3>4. \A i : i \in 0..n <=> i = 0 \/ i \in 1..n
        BY <1>2
      <3>5. ~ OpensGroup(0)
        BY <1>4 DEF OpensGroup
      <3>6. \A i \in 1..n : i \in new <=> OpensGroup(i)
        BY <1>2, <2>1, <3>1, <3>2, <3>3
      <3>7. \A i \in new : i \in 1..n
        BY <1>2, <2>1
      <3>. QED BY <3>4, <3>5, <3>6, <3>7 DEF HeadsUpTo
    <2>3. new \in SUBSET (1..n) /\ IsFiniteSet(new)
      <3>1. new \in SUBSET (1..n)
        BY <1>2, <2>1
      <3>2. IsFiniteSet(1..n)
        BY <1>2, FS_Interval
      <3>. QED BY <3>1, <3>2, FS_Subset
    <2>4. TotalOrder(new, upTo)
      <3>1. \A x, y \in new : <<x, y>> \in upTo <=> x <= y
        BY <2>1
      <3>2. \A x \in new : x \in Int
        BY <2>3
      <3>. QED BY <3>1, <3>2 DEF TotalOrder
    <2>5. PICK size : size = Cardinality(new)
      OBVIOUS
    <2>6. /\ size \in Nat /\ first \in Seq(new) /\ Len(first) = size /\ DOMAIN first = 1..size
          /\ \A e \in new : \E i \in 1..size : first[i] = e
          /\ \A i, j \in 1..size : i < j => first[i] # first[j] /\ <<first[i], first[j]>> \in upTo
      <3>1. IsFiniteSet(new) /\ TotalOrder(new, upTo)
        BY <2>3, <2>4
      <3>2. /\ Cardinality(new) \in Nat
            /\ InOrderOf(new, upTo) \in Seq(new)
            /\ Len(InOrderOf(new, upTo)) = Cardinality(new)
            /\ DOMAIN InOrderOf(new, upTo) = 1..Cardinality(new)
            /\ \A e \in new : \E i \in 1..Cardinality(new) : InOrderOf(new, upTo)[i] = e
            /\ \A i, j \in 1..Cardinality(new) : i < j =>
                 /\ InOrderOf(new, upTo)[i] # InOrderOf(new, upTo)[j]
                 /\ <<InOrderOf(new, upTo)[i], InOrderOf(new, upTo)[j]>> \in upTo
        BY ONLY <3>1, Enumerated
      <3>3. size = Cardinality(new) /\ first = InOrderOf(new, upTo)
        BY <2>1, <2>5
      <3>. QED BY ONLY <3>2, <3>3
    <2>7. \A i \in 1..size : first[i] \in new
      <3>1. first \in Seq(new) /\ Len(first) = size
        BY <2>6
      <3>. QED BY ONLY <3>1, ElementOfSeq
    <2>8. \A e \in new : e \in 1..n /\ e \in 0..n
      <3>1. \A e \in 1..n : e \in 0..n
        BY ONLY <1>2
      <3>. QED BY ONLY <2>3, <3>1
    <2>9. first \in Seq(0..n)
      <3>1. \A i \in 1..size : first[i] \in 0..n
        BY ONLY <2>7, <2>8
      <3>2. size \in Nat /\ first = [i \in 1..size |-> first[i]]
        <4>1. size \in Nat /\ first \in Seq(new) /\ DOMAIN first = 1..size
          BY <2>6
        <4>2. first \in [1..size -> new]
          BY ONLY <2>6, <4>1, LenProperties
        <4>. QED BY ONLY <4>1, <4>2
      <3>3. first \in [1..size -> 0..n]
        BY ONLY <3>1, <3>2
      <3>. QED BY ONLY <3>2, <3>3, IsASeq
    <2>10. Increasing(first)
      <3>1. ASSUME NEW i \in 1..size, NEW j \in 1..size, i < j
            PROVE  first[i] < first[j]
        <4>0. first[i] \in new /\ first[j] \in new /\ \A x, y \in new : <<x, y>> \in upTo => x <= y
          BY <2>1, <2>7
        <4>1. first[i] # first[j] /\ first[i] <= first[j]
          <5>1. first[i] # first[j] /\ <<first[i], first[j]>> \in upTo
            BY ONLY <2>6, <3>1
          <5>. QED BY ONLY <4>0, <5>1
        <4>2. first[i] \in 1..n /\ first[j] \in 1..n
          BY ONLY <2>8, <4>0
        <4>. QED BY ONLY <4>1, <4>2
      <3>. QED BY <2>6, <3>1 DEF Increasing
    <2>11. Enumerates(first, HeadsUpTo(n))
      BY <1>1, <2>2, <2>6, <2>7, <2>9, <2>10 DEF Enumerates
    <2>12. FirstSeen(Arriving) = [i \in 1..size |-> GroupValues(Arriving[first[i]])]
      <3>1. FirstSeen(Arriving) = [i \in DOMAIN first |-> GroupValues(Arriving[first[i]])]
        BY <1>4, <2>1, Zenon DEF FirstSeen
      <3>2. DOMAIN first = 1..size
        BY <2>6
      <3>. QED BY ONLY <3>1, <3>2
    <2>13. \A i \in 1..size : GroupValues(Arriving[first[i]]) = KeyAt(first[i])
      <3>1. \A i \in 1..size : first[i] # 0
        BY <2>3, <2>7
      <3>. QED BY <3>1 DEF KeyAt
    <2>14. FirstSeen(Arriving) = [i \in 1..Len(first) |-> KeyAt(first[i])]
      BY <2>6, <2>12, <2>13
    <2>. QED BY <1>1, <2>11, <2>14
  <1>. QED BY <1>3, <1>4

\* The groups returned are the first of them.
LEMMA ReturnedInOrder ==
  ASSUME IsAggregate, NEW all, NEW heads, NEW S, NEW m, HandsOut(all, heads, S, m),
         NEW b, Enumerates(b, HeadsUpTo(InputSize))
  PROVE  /\ Len(out) <= Len(b)
         /\ status = "done" => Len(out) = Len(b)
         /\ \A i \in 1..Len(out) : out[i].key = KeyAt(b[i])
  <1>1. PICK n, c, l : n = InputSize /\ c = Len(out) /\ l = Len(all)
    OBVIOUS
  <1>2. n \in Nat /\ m \in 0..n
    BY <1>1, AggregatePlanned DEF HandsOut
  <1>3. /\ heads \in Seq(0..n) /\ Len(heads) = l
        /\ \A j, k \in 1..l : j < k => heads[j] < heads[k]
        /\ \A h : h \in S <=> \E j \in 1..l : heads[j] = h
        /\ \A j \in 1..l : all[j].key = KeyAt(heads[j])
    BY <1>1 DEF HandsOut, ListsGroups
  <1>4. /\ c \in 0..l /\ l \in Nat
        /\ \A i \in 1..c : out[i] = [key |-> all[i].key, value |-> finish(all[i].acc)]
        /\ status = "done" => S = HeadsUpTo(n) /\ c = l
    BY <1>1, <1>3, LenProperties DEF HandsOut
  <1>5. /\ b \in Seq(0..n) /\ Increasing(b)
        /\ \A h : h \in HeadsUpTo(n) <=> \E j \in 1..Len(b) : b[j] = h
    BY <1>1 DEF Enumerates
  <1>6. Increasing(heads)
    BY <1>3 DEF Increasing
  <1>7. S = HeadsUpTo(m) \/ S = {}
    BY DEF HandsOut, Begun
  <1>8. Starts(heads, b)
    <2>1. \A h \in S : h \in HeadsUpTo(n)
      <3>1. \A h \in 0..m : h \in 0..n
        BY ONLY <1>2
      <3>. QED BY <1>7, <3>1 DEF HeadsUpTo
    <2>2. ASSUME NEW i \in 1..l, NEW j \in 1..Len(b), b[j] < heads[i]
          PROVE  \E k \in 1..l : heads[k] = b[j]
      <3>1. heads[i] \in S
        BY <1>3
      <3>2. S = HeadsUpTo(m) /\ heads[i] \in 0..m
        BY <1>7, <3>1 DEF HeadsUpTo
      <3>3. b[j] \in 0..n /\ OpensGroup(b[j])
        BY <1>5 DEF HeadsUpTo
      <3>4. b[j] \in 0..m
        BY ONLY <1>2, <2>2, <3>2, <3>3
      <3>. QED BY <1>3, <3>2, <3>3, <3>4 DEF HeadsUpTo
    <2>3. \A i \in 1..l : \E j \in 1..Len(b) : b[j] = heads[i]
      BY <1>3, <1>5, <2>1
    <2>. QED BY <1>3, <2>2, <2>3 DEF Starts
  <1>9. l <= Len(b) /\ \A i \in 1..l : heads[i] = b[i]
    BY <1>2, <1>3, <1>5, <1>6, <1>8, SameStart
  <1>10. Len(b) \in Nat
    BY <1>5, LenProperties
  <1>11. c <= Len(b)
    BY ONLY <1>4, <1>9, <1>10
  <1>12. ASSUME status = "done"
         PROVE  c = Len(b)
    <2>1. S = HeadsUpTo(n) /\ c = l
      BY <1>4, <1>12
    <2>2. \A h : (\E j \in 1..l : heads[j] = h) <=> (\E j \in 1..Len(b) : b[j] = h)
      BY <1>3, <1>5, <2>1
    <2>3. Starts(b, heads)
      BY <1>3, <2>2 DEF Starts
    <2>4. Len(b) <= l
      BY <1>2, <1>3, <1>5, <1>6, <2>3, SameStart
    <2>. QED BY ONLY <1>9, <1>10, <1>4, <2>1, <2>4
  <1>13. ASSUME NEW i \in 1..c
         PROVE  out[i].key = KeyAt(b[i])
    <2>1. i \in 1..l
      BY ONLY <1>4, <1>13
    <2>2. out[i].key = all[i].key
      <3>1. PICK shown, value : shown = out[i] /\ value = finish(all[i].acc)
        OBVIOUS
      <3>2. shown = [key |-> all[i].key, value |-> value]
        BY <1>4, <1>13, <3>1
      <3>3. shown.key = all[i].key
        BY ONLY <3>2
      <3>. QED BY <3>1, <3>3
    <2>3. all[i].key = KeyAt(heads[i]) /\ heads[i] = b[i]
      BY <1>3, <1>9, <2>1
    <2>. QED BY <2>2, <2>3
  <1>. QED BY <1>1, <1>11, <1>12, <1>13

LEMMA ReturnsGroups ==
  ASSUME IsAggregate, NEW all, NEW heads, NEW S, NEW m, HandsOut(all, heads, S, m)
  PROVE  AggregateReturnsTheAnswer
  <1>1. PICK b : /\ Enumerates(b, HeadsUpTo(InputSize))
                 /\ FirstSeen(Arriving) = [i \in 1..Len(b) |-> KeyAt(b[i])]
    BY FirstSeenIs
  <1>2. PICK n, c, d, keys, shown :
          /\ n = InputSize /\ c = Len(out) /\ d = Len(b) /\ keys = FirstSeen(Arriving)
          /\ shown = [i \in DOMAIN out |-> out[i].key]
    OBVIOUS
  <1>3. n \in Nat /\ c \in Nat /\ d \in Nat /\ DOMAIN out = 1..c /\ c \in 0..Len(all)
    <2>1. b \in Seq(0..InputSize) /\ all \in Seq(GroupRecords)
      BY <1>1 DEF Enumerates, HandsOut, ListsGroups
    <2>2. d \in Nat /\ Len(all) \in Nat
      BY <1>2, <2>1, LenProperties
    <2>3. c \in 0..Len(all) /\ DOMAIN out = 1..c
      BY <1>2 DEF HandsOut
    <2>. QED BY <1>2, <2>2, <2>3, AggregatePlanned
  <1>4. /\ c <= d
        /\ status = "done" => c = d
        /\ \A i \in 1..c : out[i].key = KeyAt(b[i])
    BY <1>1, <1>2, ReturnedInOrder
  <1>5. \A i \in 1..d : KeyAt(b[i]) \in Row
    <2>1. \A h \in 0..n : KeyAt(h) \in Row
      <3>1. <<>> \in Row
        BY EmptySeq DEF Row
      <3>2. \A h \in 0..n : h = 0 \/ h \in 1..n
        BY <1>3
      <3>. QED BY <1>2, <3>1, <3>2, AggregatePlanned DEF KeyAt
    <2>2. \A i \in 1..d : b[i] \in 0..n
      BY <1>1, <1>2, ElementOfSeq DEF Enumerates
    <2>. QED BY <2>1, <2>2
  <1>6. keys \in Seq(Row) /\ Len(keys) = d /\ \A i \in 1..d : keys[i] = KeyAt(b[i])
    <2>1. keys = [i \in 1..d |-> KeyAt(b[i])]
      BY <1>1, <1>2
    <2>2. keys \in [1..d -> Row]
      BY <1>5, <2>1
    <2>. QED BY <1>3, <2>1, <2>2, IsASeq
  <1>7. \A i \in 1..c : i \in 1..d
    BY <1>3, <1>4
  <1>8. shown \in Seq(Row) /\ Len(shown) = c /\ \A i \in 1..c : shown[i] = KeyAt(b[i])
    <2>1. shown = [i \in 1..c |-> KeyAt(b[i])]
      BY <1>2, <1>3, <1>4
    <2>2. shown \in [1..c -> Row]
      BY <1>5, <1>7, <2>1
    <2>. QED BY <1>3, <2>1, <2>2, IsASeq
  <1>9. IsPrefix(shown, keys)
    <2>1. PICK start : start = SubSeq(keys, 1, c)
      OBVIOUS
    <2>2. start \in Seq(Row) /\ Len(start) = c /\ \A i \in 1..c : start[i] = keys[i]
      <3>1. \A i \in 1..c : keys[i] \in Row
        BY <1>5, <1>6, <1>7
      <3>2. 1 \in Int /\ c \in Int
        BY <1>3
      <3>3. /\ start \in Seq(Row) /\ Len(start) = (IF 1 <= c THEN c - 1 + 1 ELSE 0)
            /\ \A i \in 1..c - 1 + 1 : start[i] = keys[1 + i - 1]
        BY ONLY <2>1, <3>1, <3>2, SubSeqProperties
      <3>4. (IF 1 <= c THEN c - 1 + 1 ELSE 0) = c /\ c - 1 + 1 = c /\ \A i \in 1..c : 1 + i - 1 = i
        BY ONLY <1>3
      <3>. QED BY ONLY <3>3, <3>4
    <2>3. \A i \in 1..c : shown[i] = start[i]
      BY <1>6, <1>7, <1>8, <2>2
    <2>4. shown = start
      BY <1>8, <2>2, <2>3, SeqEqual
    <2>5. SubSeq(shown, 1, Len(shown)) = shown
      BY <1>8, SubSeqFull
    <2>. QED BY <1>4, <1>6, <1>8, <2>1, <2>4, <2>5 DEF IsPrefix
  <1>10. ASSUME NEW i \in DOMAIN out
         PROVE  IsAggregateOf(out[i].key, out[i].value)
    <2>1. i \in 1..Len(out) /\ i \in 1..Len(all)
      BY <1>2, <1>3, <1>10
    <2>2. PICK key, acc : key = all[i].key /\ acc = all[i].acc
      OBVIOUS
    <2>3. out[i].key = key /\ out[i].value = finish(acc) /\ RowsSo(key, m) = Members(key)
      BY <2>1, <2>2 DEF HandsOut
    <2>4. HoldsOf(acc, RowsSo(key, m))
      BY <2>1, <2>2 DEF HandsOut, ListsGroups
    <2>. QED BY <2>3, <2>4, Finishes
  <1>11. status = "done" => Len(out) = Len(keys)
    BY <1>2, <1>4, <1>6
  <1>. QED BY <1>2, <1>9, <1>10, <1>11, Zenon DEF AggregateReturnsTheAnswer

AggregateInv == TypeInv /\ PlanGiven /\ AggregateRun

(***************************************************************************)
(* An aggregate, hash or streaming, returns each group once, in the order  *)
(* its first row arrives, with what the function means for the rows of the *)
(* group: the hash table gives a row to the group of its key, and in the   *)
(* streaming one a group that is closed gets no more rows, since groups    *)
(* arrive together.                                                        *)
(***************************************************************************)
THEOREM AggregateIsRight == Spec => []AggregateReturnsTheAnswer
  <1>1. Init => AggregateInv
    BY TypeFirst, AggregateRunFirst DEF AggregateInv, Init, OperatorInit, PlanGiven
  <1>2. AggregateInv /\ [Next]_vars => AggregateInv'
    <2>1. SUFFICES ASSUME AggregateInv, [Next]_vars
                   PROVE  AggregateInv'
      OBVIOUS
    <2>2. TypeInv /\ TypeInv' /\ PlanGiven /\ AggregateRun
      BY <2>1, TypeKept DEF AggregateInv
    <2>3. PlanGiven'
      BY <2>1, <2>2, HeapSteps DEF PlanGiven
    <2>. QED BY <2>1, <2>2, <2>3, AggregateRunKept DEF AggregateInv
  <1>3. AggregateInv => AggregateReturnsTheAnswer
    <2>1. SUFFICES ASSUME AggregateInv, plan.kind = "aggregate"
                   PROVE  AggregateReturnsTheAnswer
      BY DEF AggregateReturnsTheAnswer
    <2>2. IsAggregate /\ AggregateShape
      BY <2>1 DEF AggregateInv, TypeInv, IsAggregate
    <2>3. /\ Arrives(plan.input, plan.order) /\ (streams => FlowRun) /\ (~ streams => TableRun)
      BY <2>1 DEF AggregateInv, AggregateRun
    <2>4. \E all, heads, S, m : HandsOut(all, heads, S, m)
      BY <2>2, <2>3, FlowReturned, TableReturned
    <2>. QED BY <2>2, <2>4, ReturnsGroups
  <1>. QED BY <1>1, <1>2, <1>3, PTL DEF Spec

================================================================================
