------------------------- MODULE QueryPipelineProofs -------------------------
(***************************************************************************)
(* The stream of batches implements QueryAnswer, for every table, batch    *)
(* size, LIMIT, OFFSET and query.  What makes the invariant inductive is a *)
(* partition of the matches at every moment: those LimitExec has counted   *)
(* come before those in flight, and these before those still to be read.   *)
(***************************************************************************)
EXTENDS QueryPipeline, ProofBasics

\* The sum of the scan's two counters.
Decisions == row_groups_scanned + row_groups_pruned

\* Where the leaf is.
LeafPlaced ==
  /\ at # "client" => status = "running"
  /\ at \in {"scan", "index"} => at = query.leaf
  /\ at \in {"client", "scan", "index"} => batch = {}
  /\ row_group \in Group => offset_in_group <= num_rows(row_group)
  /\ ~ opened => offset_in_group = 0
  /\ opened => row_group \in Group /\ query.leaf = "scan"

\* A row group is decided on when the scan enters it, once.
CountersPlaced ==
  query.leaf = "scan" =>
    /\ Decisions \in {row_group - 1, row_group}
    /\ Decisions = row_group => row_group \in Group
    /\ opened => Decisions = row_group
    /\ status = "running" /\ ~ opened => Decisions = row_group - 1

\* The LIMIT is never exceeded.
WithinLimit == query.fetch # NoFetch => emitted <= query.fetch

\* The rows the leaf has still to read, those between the leaf and LimitExec,
\* and the matches LimitExec has counted.
Ahead ==
  IF query.leaf = "index" THEN rows
  ELSE {r \in Row : Starts[row_group] + offset_in_group <= r}
InFlight == IF at = "project" THEN {} ELSE batch
Counted == query.match \ (Ahead \cup InFlight)

TableOrder ==
  /\ \A b \in batch : \A r \in Ahead : b < r
  /\ \A c \in Counted : \A r \in InFlight \cup Ahead : c < r
  /\ at = "limit" => batch \subseteq query.match
  /\ at = "project" => batch # {}

\* How many of the first n matches the OFFSET and the LIMIT let through.
Admitted(n) ==
  IF n <= query.skip THEN 0
  ELSE IF query.fetch # NoFetch /\ n - query.skip > query.fetch THEN query.fetch
  ELSE n - query.skip

LimitCounts ==
  /\ seen = Cardinality(Counted)
  /\ emitted = Admitted(seen)
  /\ at \in {"scan", "index", "filter"} => ~ exhausted

\* What was counted and is wanted was handed back, or is at ProjectExec.
HandedBack ==
  /\ returned \cup (batch \ InFlight) = Counted \cap Wanted
  /\ returned \cap batch = {}

\* The inductive invariant, in two parts; an error ends the stream.
Kept == TypeOK /\ LeafPlaced /\ CountersPlaced /\ WithinLimit /\ Sound(query)
Streamed == status # "failed" => TableOrder /\ LimitCounts /\ HandedBack
IInv == Kept /\ VerdictsMatchCounters /\ Streamed /\ LimitReadsNoFurther
-----------------------------------------------------------------------------
\* The table has finitely many rows.
LEMMA Rows ==
  /\ Row \subseteq Nat
  /\ \A S \in SUBSET Row : IsFiniteSet(S) /\ Cardinality(S) \in Nat
  <1>1. Starts[G + 1] \in Nat
    BY PipelineAssumption
  <1>2. IsFiniteSet(0..Starts[G + 1])
    BY <1>1, FS_Interval
  <1>3. ASSUME NEW S \in SUBSET Row
        PROVE  IsFiniteSet(S) /\ Cardinality(S) \in Nat
    <2>1. S \in SUBSET (0..Starts[G + 1])
      BY DEF Row
    <2>. QED BY <1>2, <2>1, FS_Subset, FS_CardinalityType
  <1>. QED BY <1>1, <1>3 DEF Row

\* Counting the rows of two disjoint sets.
LEMMA CountApart ==
  ASSUME NEW A \in SUBSET Row, NEW B \in SUBSET Row, A \cap B = {}
  PROVE  Cardinality(A \cup B) = Cardinality(A) + Cardinality(B)
  <1>1. IsFiniteSet(A) /\ IsFiniteSet(B) /\ Cardinality(A) \in Nat /\ Cardinality(B) \in Nat
    BY Rows
  <1>2. Cardinality(A \cup B) = Cardinality(A) + Cardinality(B) - Cardinality(A \cap B)
    BY <1>1, FS_Union
  <1>3. Cardinality(A \cap B) = 0
    BY FS_EmptySet
  <1>. QED BY <1>1, <1>2, <1>3

\* The rank of a member counts it, and never exceeds the size of the set.
LEMMA RankRange ==
  ASSUME NEW S \in SUBSET Row, NEW r \in Row
  PROVE  /\ Rank(S, r) \in 0..Cardinality(S)
         /\ r \in S => Rank(S, r) >= 1
  <1>. DEFINE upto == {x \in S : x <= r}
  <1>1. upto \in SUBSET S /\ upto \in SUBSET Row
    OBVIOUS
  <1>2. Cardinality(upto) \in Nat /\ IsFiniteSet(upto) /\ IsFiniteSet(S) /\ Cardinality(S) \in Nat
    BY <1>1, Rows
  <1>3. Cardinality(upto) <= Cardinality(S)
    BY <1>1, <1>2, FS_Subset
  <1>4. ASSUME r \in S
        PROVE  Cardinality(upto) # 0
    <2>1. r \in upto
      BY <1>4, Rows
    <2>. QED BY <1>2, <2>1, FS_EmptySet
  <1>5. Rank(S, r) = Cardinality(upto)
    BY DEF Rank
  <1>. HIDE DEF upto
  <1>. QED BY <1>2, <1>3, <1>4, <1>5

\* A later row has no smaller rank.
LEMMA RankMonotone ==
  ASSUME NEW S \in SUBSET Row, NEW r \in Row, NEW s \in Row, r <= s
  PROVE  Rank(S, r) <= Rank(S, s)
  <1>1. {x \in S : x <= r} \in SUBSET {x \in S : x <= s}
    <2>1. Row \subseteq Nat
      BY Rows
    <2>2. \A x \in S : x <= r => x <= s
      BY <2>1
    <2>. QED BY <2>2
  <1>2. IsFiniteSet({x \in S : x <= s})
    BY Rows
  <1>. QED BY <1>1, <1>2, FS_Subset DEF Rank

\* The rank of a row in the middle of a set cut in three in table order.
LEMMA RankInMiddle ==
  ASSUME NEW A \in SUBSET Row, NEW B \in SUBSET Row, NEW C \in SUBSET Row, NEW r \in Row,
         \A a \in A : a <= r /\ a \notin B,
         \A c \in C : r < c
  PROVE  Rank(A \cup B \cup C, r) = Cardinality(A) + Rank(B, r)
  <1>. DEFINE low == {x \in B : x <= r}
  <1>1. {x \in A \cup B \cup C : x <= r} = A \cup low
    <2>1. Row \subseteq Nat
      BY Rows
    <2>2. \A c \in C : ~ (c <= r)
      BY <2>1
    <2>. QED BY <2>2
  <1>2. low \in SUBSET Row /\ A \cap low = {}
    OBVIOUS
  <1>. QED BY <1>1, <1>2, CountApart DEF Rank

\* Every rank up to the size of the set is the rank of a member.
LEMMA RankAttained ==
  ASSUME NEW S \in SUBSET Row, NEW k \in 1..Cardinality(S)
  PROVE  \E r \in S : Rank(S, r) = k
  <1>. DEFINE f == [r \in S |-> Rank(S, r)]
              size == Cardinality(S)
  <1>1. IsFiniteSet(S) /\ size \in Nat /\ Row \subseteq Nat
    BY Rows
  <1>2. ASSUME NEW r \in S, NEW s \in S, r < s
        PROVE  Rank(S, r) # Rank(S, s)
    <2>. DEFINE below(x) == {y \in S : y <= x}
    <2>1. below(r) \in SUBSET below(s) /\ s \in below(s) /\ s \notin below(r)
      <3>1. \A y \in S : y \in Nat
        BY <1>1
      <3>2. s <= s /\ ~ (s <= r) /\ \A y \in S : y <= r => y <= s
        BY <1>2, <3>1
      <3>. QED BY <3>2
    <2>2. IsFiniteSet(below(s))
      BY Rows
    <2>. HIDE DEF below
    <2>3. Cardinality(below(s)) # Cardinality(below(r))
      BY <2>1, <2>2, FS_Subset
    <2>. QED BY <2>3 DEF Rank, below
  <1>3. f \in Injection(S, 1..size)
    <2>1. \A r \in S : Rank(S, r) \in 1..size
      BY <1>1, RankRange
    <2>2. \A r, s \in S : r # s => Rank(S, r) # Rank(S, s)
      BY <1>1, <1>2
    <2>. HIDE DEF size
    <2>. QED BY <2>1, <2>2 DEF Injection, IsInjective
  <1>4. IsFiniteSet(1..size) /\ Cardinality(1..size) = size
    BY <1>1, FS_Interval
  <1>5. f \in Surjection(S, 1..size)
    <2>. HIDE DEF f
    <2>. QED BY <1>3, <1>4, FS_Injection
  <1>6. PICK r \in S : f[r] = k
    <2>. HIDE DEF f
    <2>. QED BY <1>5 DEF Surjection
  <1>. QED BY <1>6

\* IndexScanExec finds the row group of a row: the groups cover the table.
LEMMA GroupOfRow ==
  ASSUME NEW r \in Row
  PROVE  group_of(r) \in Group /\ r \in GroupRows(group_of(r))
  <1>. DEFINE beyond == {g \in 1..G + 1 : Starts[g] > r}
  <1>1. beyond \in SUBSET Nat /\ beyond # {}
    <2>1. G + 1 \in beyond
      BY PipelineAssumption DEF Row
    <2>. QED BY <2>1
  <1>2. PICK least \in beyond : \A other \in beyond : least <= other
    BY <1>1, Least
  <1>3. least # 1
    BY <1>2, PipelineAssumption DEF Row
  <1>4. least - 1 \in Group /\ least - 1 \notin beyond
    BY <1>2, <1>3, PipelineAssumption DEF Group
  <1>5. r \in GroupRows(least - 1)
    <2>1. Starts[least - 1] <= r
      BY <1>4, PipelineAssumption DEF Group, Row
    <2>2. r < Starts[least - 1 + 1]
      BY <1>2
    <2>. QED BY <2>1, <2>2 DEF GroupRows
  <1>. QED BY <1>4, <1>5 DEF group_of
-----------------------------------------------------------------------------
\* What the type of a query says of its fields.
LEMMA QueryFields ==
  ASSUME query \in Query
  PROVE  /\ query.match \in SUBSET Row /\ query.named \in SUBSET Row
         /\ query.ruled_out \in [Group -> Ruled \cup {"nothing"}]
         /\ query.leaf \in {"scan", "index"}
         /\ query.skip \in Nat
         /\ query.fetch # NoFetch => query.fetch \in Nat
  BY PipelineAssumption DEF Query

\* LimitExec admits a number of the rows of its batch.
LEMMA LimitAdmits ==
  ASSUME query \in Query, batch \in SUBSET Row, seen \in Nat, emitted \in Nat, WithinLimit, Limit
  PROVE  /\ seen' \in Nat /\ emitted' \in Nat
         /\ WithinLimit'
         /\ batch' \subseteq batch
  <1>1. Cardinality(batch) \in Nat
    BY Rows
  <1>2. query.skip \in Nat /\ (query.fetch # NoFetch => query.fetch \in Nat)
    BY QueryFields
  <1>3. Dropped(Cardinality(batch)) \in 0..Cardinality(batch)
    BY <1>1, <1>2 DEF Dropped
  <1>4. query' = query /\ batch' \subseteq batch
    BY DEF Limit
  <1>5. seen' \in Nat /\ emitted' \in Nat /\ WithinLimit'
    BY <1>1, <1>2, <1>3 DEF Limit, WithinLimit
  <1>. QED BY <1>4, <1>5

\* Every step keeps the state well typed and the leaf in its place.
LEMMA KeptNext ==
  ASSUME Kept, [Next]_vars
  PROVE  Kept'
  <1>. USE DEF Kept
  <1>0. /\ TypeOK /\ Sound(query) /\ G \in Nat /\ BatchSize \in Nat \ {0}
        /\ \A g \in Group : Starts[g] \in Nat /\ Starts[g + 1] \in Nat /\ Starts[g] <= Starts[g + 1]
    BY PipelineAssumption DEF Group
  <1>1. CASE NextBatch \/ LimitMet \/ LimitPull
    <2>1. query.leaf \in {"scan", "index"}
      BY <1>0, QueryFields DEF TypeOK
    <2>2. TypeOK' /\ Sound(query)'
      BY <1>0, <1>1, <2>1 DEF NextBatch, LimitMet, LimitPull, Answer, TypeOK, Sound, scan, limit, stream
    <2>3. LeafPlaced' /\ CountersPlaced' /\ WithinLimit'
      BY <1>0, <1>1, <2>1 DEF NextBatch, LimitMet, LimitPull, Answer, TypeOK, LeafPlaced,
         CountersPlaced, WithinLimit, Decisions, scan, limit, stream
    <2>. QED BY <2>2, <2>3
  <1>2. CASE SkipGroup
    <2>1. query.ruled_out[row_group] \in Ruled
      BY <1>0, <1>2, QueryFields DEF SkipGroup, Entering, TypeOK
    <2>2. Decisions = row_group - 1 /\ row_group \in 1..G
      BY <1>2 DEF SkipGroup, Entering, LeafPlaced, CountersPlaced, Group
    <2>3. row_groups_pruned' \in 0..G /\ row_group' \in 1..G + 1
      BY <1>0, <1>2, <2>2 DEF SkipGroup, Decisions, TypeOK
    <2>4. TypeOK' /\ Sound(query)'
      BY <1>0, <1>2, <2>1, <2>3 DEF SkipGroup, Record, Entering, TypeOK, Sound, GroupVerdict, Ruled,
         limit, stream
    <2>5. CountersPlaced' /\ WithinLimit'
      <3>1. /\ row_group' = row_group + 1 /\ Decisions' = row_group /\ opened' = opened /\ ~ opened
            /\ query' = query /\ emitted' = emitted
        BY <1>0, <1>2, <2>2 DEF SkipGroup, Entering, TypeOK, Decisions, limit
      <3>2. CountersPlaced'
        BY <2>2, <3>1 DEF CountersPlaced
      <3>. QED BY <3>1, <3>2 DEF WithinLimit
    <2>6. LeafPlaced'
      BY <1>0, <1>2 DEF SkipGroup, Entering, TypeOK, LeafPlaced, num_rows, stream
    <2>. QED BY <2>4, <2>5, <2>6
  <1>3. CASE OpenGroup
    <2>2. Decisions = row_group - 1 /\ row_group \in 1..G
      BY <1>3 DEF OpenGroup, Entering, LeafPlaced, CountersPlaced, Group
    <2>3. row_groups_scanned' \in 0..G
      BY <1>0, <1>3, <2>2 DEF OpenGroup, Decisions, TypeOK
    <2>4. TypeOK' /\ Sound(query)'
      BY <1>0, <1>3, <2>3 DEF OpenGroup, Record, Answer, Entering, TypeOK, Sound, GroupVerdict, limit
    <2>5. CountersPlaced' /\ WithinLimit'
      <3>1. /\ row_group' = row_group /\ Decisions' = row_group /\ row_group \in Group
            /\ status' = "failed" \/ opened'
            /\ query' = query /\ emitted' = emitted
        BY <1>0, <1>3, <2>2 DEF OpenGroup, Entering, Answer, TypeOK, Decisions, limit
      <3>2. CountersPlaced'
        BY <3>1 DEF CountersPlaced, Group
      <3>. QED BY <3>1, <3>2 DEF WithinLimit
    <2>6. LeafPlaced'
      BY <1>0, <1>3, <2>2 DEF OpenGroup, Entering, Answer, TypeOK, LeafPlaced, num_rows
    <2>. QED BY <2>4, <2>5, <2>6
  <1>4. CASE EmitBatch
    <2>. DEFINE rest == num_rows(row_group) - offset_in_group
                len == IF BatchSize < rest THEN BatchSize ELSE rest
    <2>1. num_rows(row_group) \in Nat /\ row_group \in Group
      BY <1>0, <1>4 DEF EmitBatch, num_rows
    <2>2. len \in Nat /\ offset_in_group + len <= num_rows(row_group)
      BY <1>0, <1>4, <2>1 DEF EmitBatch, TypeOK
    <2>3. offset_in_group' = offset_in_group + len /\ batch' \in SUBSET Row
      BY <1>4 DEF EmitBatch
    <2>. HIDE DEF len
    <2>4. TypeOK' /\ Sound(query)' /\ CountersPlaced' /\ WithinLimit'
      BY <1>0, <1>4, <2>2, <2>3 DEF EmitBatch, TypeOK, Sound, CountersPlaced, WithinLimit, Decisions,
         limit, stream
    <2>5. LeafPlaced'
      BY <1>0, <1>4, <2>1, <2>2, <2>3 DEF EmitBatch, LeafPlaced, num_rows, stream
    <2>. QED BY <2>4, <2>5
  <1>5. CASE LeaveGroup
    <2>0. row_group' \in 1..G + 1
      BY <1>0, <1>5 DEF LeaveGroup, Group
    <2>1. TypeOK' /\ Sound(query)' /\ WithinLimit'
      BY <1>0, <1>5, <2>0 DEF LeaveGroup, TypeOK, Sound, WithinLimit, limit, stream
    <2>2. LeafPlaced'
      BY <1>0, <1>5 DEF LeaveGroup, TypeOK, LeafPlaced, num_rows, stream, Group
    <2>3. CountersPlaced'
      BY <1>0, <1>5 DEF LeaveGroup, TypeOK, CountersPlaced, Decisions, stream, Group
    <2>. QED BY <2>1, <2>2, <2>3
  <1>6. CASE ScanEnd \/ IndexEnd
    BY <1>0, <1>6 DEF ScanEnd, IndexEnd, Answer, TypeOK, Sound, LeafPlaced, CountersPlaced,
       WithinLimit, Decisions, num_rows, scan, limit
  <1>7. CASE Gather
    <2>1. rows' \in SUBSET Row /\ batch' \in SUBSET Row
      BY <1>0, <1>7 DEF Gather, Answer, TypeOK
    <2>2. at' \in {"client", "filter"} /\ (at' = "client" => batch' = {})
      BY <1>7 DEF Gather, Answer
    <2>3. status' \in {"running", "failed"} /\ (at' = "filter" => status' = "running")
      BY <1>7 DEF Gather, Answer, LeafPlaced
    <2>4. UNCHANGED <<query, scan, limit, returned>> /\ status = "running"
      BY <1>7 DEF Gather, LeafPlaced
    <2>. QED BY <1>0, <2>1, <2>2, <2>3, <2>4 DEF TypeOK, Sound, LeafPlaced, CountersPlaced,
         WithinLimit, Decisions, num_rows, scan, limit
  <1>8. CASE Filter
    BY <1>0, <1>8, QueryFields DEF Filter, Answer, TypeOK, Sound, LeafPlaced, CountersPlaced,
       WithinLimit, Decisions, num_rows, scan, limit
  <1>9. CASE Limit
    <2>1. seen' \in Nat /\ emitted' \in Nat /\ WithinLimit' /\ batch' \in SUBSET Row
      BY <1>0, <1>9, LimitAdmits DEF TypeOK
    <2>2. at' \in {"limit", "project"} /\ status = "running"
      BY <1>9 DEF Limit, LeafPlaced
    <2>3. UNCHANGED <<query, scan, rows, stream>>
      BY <1>9 DEF Limit
    <2>. QED BY <1>0, <2>1, <2>2, <2>3 DEF TypeOK, Sound, LeafPlaced, CountersPlaced, Decisions,
         num_rows, scan, stream
  <1>10. CASE Project
    BY <1>0, <1>10 DEF Project, Answer, TypeOK, Sound, LeafPlaced, CountersPlaced, WithinLimit,
       Decisions, num_rows, scan, limit
  <1>11. CASE UNCHANGED vars
    BY <1>11 DEF vars, scan, limit, stream, TypeOK, Sound, LeafPlaced, CountersPlaced, WithinLimit,
       Decisions, num_rows
  <1>. QED BY <1>1, <1>2, <1>3, <1>4, <1>5, <1>6, <1>7, <1>8, <1>9, <1>10, <1>11 DEF Next
-----------------------------------------------------------------------------
\* Deciding on a row group colours it and counts it; nothing else does either.
LEMMA CountersNext ==
  ASSUME Kept, VerdictsMatchCounters, Kept', [Next]_vars
  PROVE  VerdictsMatchCounters'
  <1>. DEFINE decided == {g \in Group : row_group_verdicts[g] # "untouched"}
              scanned == {g \in Group : row_group_verdicts[g] = "scanned"}
              passed == {g \in Group : g < row_group \/ (g = row_group /\ Decisions = row_group)}
  <1>0. /\ G \in Nat /\ IsFiniteSet(Group)
        /\ row_group \in 1..G + 1 /\ row_group_verdicts \in [Group -> GroupVerdict]
        /\ row_groups_scanned \in Nat /\ row_groups_pruned \in Nat
    <2>1. G \in Nat
      BY PipelineAssumption
    <2>2. IsFiniteSet(Group)
      BY <2>1, FS_Interval DEF Group
    <2>. QED BY <2>1, <2>2 DEF Kept, TypeOK
  <1>1. query' = query /\ query.leaf \in {"scan", "index"}
    BY QueryFields DEF Next, NextBatch, LimitMet, LimitPull, SkipGroup, OpenGroup, EmitBatch, LeaveGroup,
       ScanEnd, Gather, IndexEnd, Filter, Limit, Project, vars, Kept, TypeOK
  <1>2. ASSUME query.leaf = "index"
        PROVE  VerdictsMatchCounters'
    <2>1. UNCHANGED <<row_group_verdicts, row_groups_scanned, row_groups_pruned>>
      BY <1>2 DEF Next, NextBatch, LimitMet, LimitPull, SkipGroup, OpenGroup, EmitBatch, LeaveGroup,
         ScanEnd, Gather, IndexEnd, Filter, Limit, Project, vars, scan, Kept, LeafPlaced, Entering
    <2>. QED BY <1>1, <1>2, <2>1 DEF VerdictsMatchCounters, Kept
  <1>3. SUFFICES ASSUME query.leaf = "scan"
                 PROVE  VerdictsMatchCounters'
    BY <1>1, <1>2
  <1>4. /\ decided = passed /\ (opened => row_group \in scanned)
        /\ row_groups_scanned = Cardinality(scanned)
        /\ row_groups_pruned = Cardinality(decided \ scanned)
    BY <1>3 DEF VerdictsMatchCounters, Decisions
  <1>5. IsFiniteSet(scanned) /\ IsFiniteSet(decided \ scanned)
    BY <1>0, FS_Subset
  <1>6. SUFFICES /\ decided' = passed' /\ (opened' => row_group' \in scanned')
                 /\ row_groups_scanned' = Cardinality(scanned')
                 /\ row_groups_pruned' = Cardinality(decided' \ scanned')
    BY <1>1, <1>3 DEF VerdictsMatchCounters, Decisions, Kept
  <1>7. CASE SkipGroup
    <2>1. row_group \in Group /\ Decisions = row_group - 1
      BY <1>7 DEF SkipGroup, Entering, Kept, LeafPlaced, CountersPlaced
    <2>2. /\ row_group' = row_group + 1 /\ Decisions' = row_group /\ opened' = FALSE
          /\ row_groups_scanned' = row_groups_scanned /\ row_groups_pruned' = row_groups_pruned + 1
      BY <1>0, <1>7, <2>1 DEF SkipGroup, Entering, Decisions, Kept, TypeOK
    <2>3. /\ row_group_verdicts' = [row_group_verdicts EXCEPT ![row_group] = query.ruled_out[row_group]]
          /\ query.ruled_out[row_group] \in Ruled
      BY <1>7, <2>1, QueryFields DEF SkipGroup, Record, Kept, TypeOK
    <2>4. row_group \notin decided
      BY <1>0, <1>4, <2>1
    <2>5. scanned' = scanned /\ decided' = decided \cup {row_group}
      BY <1>0, <2>1, <2>3, <2>4 DEF Ruled
    <2>6. decided' = passed'
      BY <1>0, <1>4, <2>1, <2>2, <2>5 DEF Group
    <2>7. decided' \ scanned' = (decided \ scanned) \cup {row_group}
      BY <2>4, <2>5
    <2>8. Cardinality(decided' \ scanned') = Cardinality(decided \ scanned) + 1
      BY <1>5, <2>4, <2>7, FS_AddElement
    <2>. QED BY <1>4, <2>2, <2>5, <2>6, <2>8
  <1>8. CASE OpenGroup
    <2>1. row_group \in Group /\ Decisions = row_group - 1
      BY <1>8 DEF OpenGroup, Entering, Kept, LeafPlaced, CountersPlaced
    <2>2. /\ row_group' = row_group /\ Decisions' = row_group
          /\ row_groups_scanned' = row_groups_scanned + 1 /\ row_groups_pruned' = row_groups_pruned
      BY <1>0, <1>8, <2>1 DEF OpenGroup, Decisions
    <2>3. row_group_verdicts' = [row_group_verdicts EXCEPT ![row_group] = "scanned"]
      BY <1>8 DEF OpenGroup, Record
    <2>4. row_group \notin decided
      BY <1>0, <1>4, <2>1
    <2>5. scanned' = scanned \cup {row_group} /\ decided' = decided \cup {row_group}
      BY <1>0, <2>1, <2>3, <2>4
    <2>6. decided' = passed'
      BY <1>0, <1>4, <2>1, <2>2, <2>5 DEF Group
    <2>7. decided' \ scanned' = decided \ scanned /\ row_group \notin scanned
      BY <2>4, <2>5
    <2>8. Cardinality(scanned') = Cardinality(scanned) + 1
      BY <1>5, <2>5, <2>7, FS_AddElement
    <2>. QED BY <1>4, <2>2, <2>5, <2>6, <2>7, <2>8
  <1>9. CASE LeaveGroup
    <2>1. row_group \in Group /\ Decisions = row_group /\ row_group' = row_group + 1
      BY <1>9, <1>3 DEF LeaveGroup, Kept, CountersPlaced
    <2>2. /\ Decisions' = Decisions /\ opened' = FALSE
          /\ UNCHANGED <<row_group_verdicts, row_groups_scanned, row_groups_pruned>>
      BY <1>9 DEF LeaveGroup, Decisions
    <2>3. passed' = passed
      BY <1>0, <2>1, <2>2 DEF Group
    <2>. QED BY <1>4, <2>2, <2>3
  <1>10. CASE UNCHANGED <<row_group, opened, row_group_verdicts, row_groups_scanned, row_groups_pruned>>
    BY <1>4, <1>10 DEF Decisions
  <1>. QED BY <1>7, <1>8, <1>9, <1>10 DEF Next, NextBatch, LimitMet, LimitPull, EmitBatch, ScanEnd,
         Gather, IndexEnd, Filter, Limit, Project, vars, scan
-----------------------------------------------------------------------------
\* A step that leaves LimitExec and the caller alone, and counts nothing.
LEMMA Steady ==
  ASSUME LimitCounts, HandedBack, at # "project", at' # "project",
         UNCHANGED <<query, limit, returned>>, Counted' = Counted,
         at' \in {"scan", "index", "filter"} => ~ exhausted
  PROVE  LimitCounts' /\ HandedBack'
  <1>1. Wanted' = Wanted
    BY DEF Wanted, Rank
  <1>2. LimitCounts'
    BY DEF LimitCounts, Admitted, exhausted, limit
  <1>3. returned = Counted \cap Wanted
    BY DEF HandedBack, InFlight
  <1>4. Counted' \cap batch' = {} /\ batch' \ InFlight' = {}
    BY DEF Counted, InFlight
  <1>. QED BY <1>1, <1>2, <1>3, <1>4 DEF HandedBack

\* LimitExec asks for a batch, or is asked for one, or stops.
LEMMA CallStreams ==
  ASSUME Kept, TableOrder, LimitCounts, HandedBack, NextBatch \/ LimitMet \/ LimitPull
  PROVE  TableOrder' /\ LimitCounts' /\ HandedBack'
  <1>1. /\ UNCHANGED <<query, scan, rows, limit, returned>> /\ at # "project" /\ at' # "project"
        /\ batch = {} /\ batch' = {}
        /\ at' \in {"scan", "index", "filter"} => ~ exhausted
    BY QueryFields DEF NextBatch, LimitMet, LimitPull, Answer, Kept, LeafPlaced, TypeOK, stream
  <1>2. Ahead' = Ahead /\ InFlight = {} /\ InFlight' = {}
    BY <1>1 DEF Ahead, InFlight, scan
  <1>3. Counted' = Counted
    BY <1>1, <1>2 DEF Counted
  <1>4. TableOrder'
    BY <1>1, <1>2, <1>3 DEF TableOrder
  <1>. QED BY <1>1, <1>3, <1>4, Steady

\* The leaf has nothing more to give.
LEMMA EndStreams ==
  ASSUME Kept, TableOrder, LimitCounts, HandedBack, ScanEnd \/ IndexEnd
  PROVE  TableOrder' /\ LimitCounts' /\ HandedBack'
  <1>1. /\ UNCHANGED <<query, scan, rows, limit, returned>> /\ at # "project" /\ at' = "client"
        /\ batch = {} /\ batch' = {}
    BY DEF ScanEnd, IndexEnd, Answer, Kept, LeafPlaced
  <1>2. Ahead' = Ahead /\ InFlight = {} /\ InFlight' = {}
    BY <1>1 DEF Ahead, InFlight, scan
  <1>3. Counted' = Counted
    BY <1>1, <1>2 DEF Counted
  <1>4. TableOrder'
    BY <1>1, <1>2, <1>3 DEF TableOrder
  <1>. QED BY <1>1, <1>3, <1>4, Steady

\* The scan moves from group to group: what it skips holds no match.
LEMMA ScanStreams ==
  ASSUME Kept, TableOrder, LimitCounts, HandedBack, SkipGroup \/ OpenGroup \/ LeaveGroup,
         status' # "failed"
  PROVE  TableOrder' /\ LimitCounts' /\ HandedBack'
  <1>1. /\ UNCHANGED <<query, rows, limit, returned>> /\ at = "scan" /\ at' = "scan"
        /\ batch = {} /\ batch' = {} /\ query.leaf = "scan"
    BY DEF SkipGroup, OpenGroup, LeaveGroup, Entering, Answer, Kept, LeafPlaced, stream
  <1>2. /\ Row \subseteq Nat /\ row_group \in Group /\ query.match \subseteq Row
        /\ Starts[row_group] \in Nat /\ Starts[row_group + 1] \in Nat
        /\ Starts[row_group] <= Starts[row_group + 1]
    BY Rows, QueryFields, PipelineAssumption DEF SkipGroup, OpenGroup, LeaveGroup, Entering, Group,
       Kept, TypeOK
  <1>3. CASE SkipGroup
    <2>1. row_group' = row_group + 1 /\ offset_in_group = 0 /\ offset_in_group' = 0
      BY <1>3 DEF SkipGroup, Entering
    <2>2. Ahead = {r \in Row : Starts[row_group] <= r} /\ Ahead' = {r \in Row : Starts[row_group + 1] <= r}
      BY <1>1, <1>2, <2>1 DEF Ahead
    <2>3. GroupRows(row_group) \cap query.match = {}
      BY <1>2, <1>3 DEF SkipGroup, Kept, Sound
    <2>4. Ahead' \subseteq Ahead /\ Ahead \ Ahead' \subseteq GroupRows(row_group)
      <3>1. ASSUME NEW r \in Row
            PROVE  /\ r \in Ahead' => r \in Ahead
                   /\ r \in Ahead /\ r \notin Ahead' => r \in GroupRows(row_group)
        BY <1>2, <2>2 DEF GroupRows
      <3>. QED BY <2>2, <3>1
    <2>5. Counted' = Counted
      BY <1>1, <2>3, <2>4 DEF Counted, InFlight
    <2>6. TableOrder'
      BY <1>1, <2>4, <2>5 DEF TableOrder, InFlight
    <2>. QED BY <1>1, <2>5, <2>6, Steady DEF LimitCounts
  <1>4. CASE OpenGroup
    <2>1. Ahead' = Ahead
      BY <1>1, <1>4 DEF OpenGroup, Ahead
    <2>2. Counted' = Counted
      BY <1>1, <2>1 DEF Counted, InFlight
    <2>3. TableOrder'
      BY <1>1, <2>1, <2>2 DEF TableOrder, InFlight
    <2>. QED BY <1>1, <2>2, <2>3, Steady DEF LimitCounts
  <1>5. CASE LeaveGroup
    <2>1. row_group' = row_group + 1 /\ offset_in_group' = 0
      BY <1>5 DEF LeaveGroup
    <2>2. Starts[row_group] + offset_in_group = Starts[row_group + 1]
      BY <1>2, <1>5 DEF LeaveGroup, Kept, LeafPlaced, TypeOK, num_rows
    <2>3. Ahead' = Ahead
      BY <1>1, <1>2, <2>1, <2>2 DEF Ahead
    <2>4. Counted' = Counted
      BY <1>1, <2>3 DEF Counted, InFlight
    <2>5. TableOrder'
      BY <1>1, <2>3, <2>4 DEF TableOrder, InFlight
    <2>. QED BY <1>1, <2>4, <2>5, Steady DEF LimitCounts
  <1>. QED BY <1>3, <1>4, <1>5

\* A batch of the scan is the next stretch of its row group.
LEMMA EmitStreams ==
  ASSUME Kept, TableOrder, LimitCounts, HandedBack, EmitBatch
  PROVE  TableOrder' /\ LimitCounts' /\ HandedBack'
  <1>. DEFINE first == Starts[row_group] + offset_in_group
              rest == num_rows(row_group) - offset_in_group
              len == IF BatchSize < rest THEN BatchSize ELSE rest
  <1>1. /\ UNCHANGED <<query, rows, limit, returned>> /\ at = "scan" /\ at' = "filter"
        /\ batch = {} /\ query.leaf = "scan" /\ row_group' = row_group
        /\ batch' = {r \in Row : first <= r /\ r < first + len}
        /\ offset_in_group' = offset_in_group + len
    BY DEF EmitBatch, Kept, LeafPlaced, stream
  <1>2. Row \subseteq Nat /\ first \in Nat /\ len \in Nat
    <2>1. row_group \in 1..G /\ offset_in_group \in Nat /\ offset_in_group < num_rows(row_group)
      BY DEF EmitBatch, Group, Kept, TypeOK
    <2>2. G \in Nat /\ BatchSize \in Nat
      BY PipelineAssumption
    <2>3. row_group \in 1..G + 1 /\ row_group + 1 \in 1..G + 1
      BY <2>1, <2>2
    <2>4. Starts[row_group] \in Nat /\ Starts[row_group + 1] \in Nat
      BY <2>3, PipelineAssumption
    <2>. QED BY <2>1, <2>2, <2>4, Rows DEF num_rows
  <1>3. Ahead = {r \in Row : first <= r} /\ Ahead' = {r \in Row : first + len <= r}
    BY <1>1, <1>2, PipelineAssumption DEF Ahead, Kept, TypeOK
  <1>. HIDE DEF first, len
  <1>4. batch' = Ahead \ Ahead' /\ Ahead' \subseteq Ahead
    <2>1. ASSUME NEW r \in Row
          PROVE  r \in batch' <=> r \in Ahead /\ r \notin Ahead'
      BY <1>1, <1>2, <1>3
    <2>2. ASSUME NEW r \in Row, r \in Ahead'
          PROVE  r \in Ahead
      BY <1>2, <1>3, <2>2
    <2>. QED BY <1>1, <1>3, <2>1, <2>2
  <1>5. Counted' = Counted
    BY <1>1, <1>4 DEF Counted, InFlight
  <1>6. \A b \in batch' : \A r \in Ahead' : b < r
    BY <1>1, <1>2, <1>3
  <1>7. TableOrder'
    BY <1>1, <1>4, <1>5, <1>6 DEF TableOrder, InFlight
  <1>. QED BY <1>1, <1>5, <1>7, Steady DEF LimitCounts

\* A batch of the index scan is the first of the rows still to gather.
LEMMA GatherStreams ==
  ASSUME Kept, TableOrder, LimitCounts, HandedBack, Gather, status' # "failed"
  PROVE  TableOrder' /\ LimitCounts' /\ HandedBack'
  <1>. DEFINE next == CHOOSE r \in rows : \A other \in rows : r <= other
              group == group_of(next)
              local == {r \in rows \cap GroupRows(group) : Rank(rows, r) <= BatchSize}
  <1>1. /\ UNCHANGED <<query, limit, returned>> /\ at = "index" /\ at' = "filter"
        /\ batch = {} /\ query.leaf = "index" /\ rows # {}
        /\ batch' = local /\ rows' = rows \ local
    BY DEF Gather, Answer, Kept, LeafPlaced
  <1>2. Row \subseteq Nat /\ rows \subseteq Row /\ BatchSize \in Nat
    BY Rows, PipelineAssumption DEF Kept, TypeOK
  <1>3. next \in rows /\ \A other \in rows : next <= other
    <2>1. \E r \in rows : \A other \in rows : r <= other
      BY <1>1, <1>2, Least
    <2>. QED BY <2>1
  <1>. HIDE DEF next
  <1>4. next \in GroupRows(group) /\ group \in Group
    BY <1>2, <1>3, GroupOfRow
  <1>. HIDE DEF group
  <1>5. \A b \in local : \A r \in rows \ local : b < r
    <2>1. SUFFICES ASSUME NEW b \in local, NEW r \in rows \ local, r <= b
                   PROVE  FALSE
      BY <1>2
    <2>2. r \in GroupRows(group)
      <3>1. b \in GroupRows(group) /\ next <= r
        BY <1>3
      <3>2. Starts[group] \in Nat /\ Starts[group + 1] \in Nat
        BY <1>4, PipelineAssumption DEF Group
      <3>. QED BY <1>2, <1>3, <1>4, <2>1, <3>1, <3>2 DEF GroupRows
    <2>3. Rank(rows, r) <= Rank(rows, b)
      BY <1>2, <2>1, RankMonotone
    <2>4. Rank(rows, r) \in Nat /\ Rank(rows, b) \in Nat
      BY <1>2, RankRange, Rows
    <2>. QED BY <1>2, <2>2, <2>3, <2>4
  <1>6. Ahead = rows /\ Ahead' = rows \ local /\ local \subseteq rows
    BY <1>1 DEF Ahead
  <1>. HIDE DEF local
  <1>7. Counted' = Counted
    BY <1>1, <1>6 DEF Counted, InFlight
  <1>8. TableOrder'
    BY <1>1, <1>5, <1>6, <1>7 DEF TableOrder, InFlight
  <1>. QED BY <1>1, <1>7, <1>8, Steady DEF LimitCounts

\* FilterExec takes the rows that do not match out of the batch.
LEMMA FilterStreams ==
  ASSUME Kept, TableOrder, LimitCounts, HandedBack, Filter, status' # "failed"
  PROVE  TableOrder' /\ LimitCounts' /\ HandedBack'
  <1>1. /\ UNCHANGED <<query, scan, rows, limit, returned>> /\ at = "filter"
        /\ batch' = batch \cap query.match
        /\ at' = IF batch' = {} THEN query.leaf ELSE "limit"
        /\ at' \in {"scan", "index", "limit"}
    BY QueryFields DEF Filter, Answer, Kept, TypeOK
  <1>2. Ahead' = Ahead
    BY <1>1 DEF Ahead, scan
  <1>3. Counted' = Counted
    BY <1>1, <1>2 DEF Counted, InFlight
  <1>4. TableOrder'
    BY <1>1, <1>2, <1>3 DEF TableOrder, InFlight
  <1>. QED BY <1>1, <1>3, <1>4, Steady DEF LimitCounts

\* The arithmetic of LimitExec: of a batch of n matches that come after the
\* first m, it lets through those the OFFSET and the LIMIT let through of all.
LEMMA LimitArithmetic ==
  ASSUME query \in Query, seen \in Nat, emitted = Admitted(seen), NEW n \in Nat, NEW k \in 1..n
  PROVE  LET start == Dropped(n)
             room == query.fetch - emitted
             available == IF query.fetch # NoFetch /\ room < n - start THEN room ELSE n - start
         IN  start < k /\ k <= start + available
               <=> /\ query.skip < seen + k
                   /\ query.fetch # NoFetch => seen + k <= query.skip + query.fetch
  BY QueryFields DEF Dropped, Admitted

\* LimitExec counts the batch and lets through what is wanted of it.
LEMMA LimitStreams ==
  ASSUME Kept, TableOrder, LimitCounts, HandedBack, Limit
  PROVE  TableOrder' /\ LimitCounts' /\ HandedBack'
  <1>. DEFINE n == Cardinality(batch)
              start == Dropped(n)
              room == query.fetch - emitted
              available == IF query.fetch # NoFetch /\ room < n - start THEN room ELSE n - start
  <1>1. /\ UNCHANGED <<query, scan, rows, stream>> /\ at = "limit"
        /\ batch \subseteq query.match /\ InFlight = batch
        /\ seen' = seen + n /\ emitted' = emitted + available
        /\ batch' = {r \in batch : start < Rank(batch, r) /\ Rank(batch, r) <= start + available}
        /\ at' = IF available = 0 THEN "limit" ELSE "project"
    BY DEF Limit, TableOrder, InFlight
  <1>2. /\ query \in Query /\ query.match \in SUBSET Row /\ batch \in SUBSET Row /\ Row \subseteq Nat
        /\ n \in Nat /\ seen \in Nat /\ emitted = Admitted(seen)
    BY Rows, QueryFields DEF Kept, TypeOK, LimitCounts
  <1>3. Ahead' = Ahead
    BY <1>1 DEF Ahead, scan
  <1>4. \A r \in batch : Rank(batch, r) \in 1..n
    <2>1. \A r \in batch : Rank(batch, r) \in 0..n /\ Rank(batch, r) >= 1
      BY <1>2, RankRange
    <2>. QED BY <1>2, <2>1
  <1>5. at' = "limit" => batch' = {}
    <2>1. start \in Nat
      BY <1>2, QueryFields DEF Dropped
    <2>2. ASSUME available = 0, NEW r \in batch'
          PROVE  FALSE
      <3>1. start < Rank(batch, r) /\ Rank(batch, r) <= start /\ Rank(batch, r) \in Nat
        <4>. HIDE DEF start, available, n
        <4>1. r \in batch /\ start < Rank(batch, r) /\ Rank(batch, r) <= start + available
          BY <1>1
        <4>. QED BY <1>4, <2>1, <2>2, <4>1
      <3>. QED BY <2>1, <3>1
    <2>. QED BY <1>1, <2>2
  <1>6. InFlight' = {} /\ batch' \subseteq batch
    <2>. HIDE DEF n, start, available
    <2>1. at' \in {"limit", "project"}
      BY <1>1
    <2>2. batch' \subseteq batch
      BY <1>1
    <2>. QED BY <1>5, <2>1, <2>2 DEF InFlight
  <1>. HIDE DEF n, start, room, available
  <1>7. batch \cap Ahead = {} /\ Counted \cap (batch \cup Ahead) = {}
    <2>1. \A b \in batch : b \in Nat /\ \A a \in Ahead : b < a
      BY <1>2 DEF TableOrder
    <2>2. Counted \cap (batch \cup Ahead) = {}
      BY <1>1 DEF Counted
    <2>. QED BY <2>1, <2>2
  <1>8. Counted' = Counted \cup batch
    BY <1>1, <1>3, <1>6, <1>7 DEF Counted
  <1>9. seen' = Cardinality(Counted')
    <2>1. Counted \in SUBSET Row
      BY <1>2 DEF Counted
    <2>2. Cardinality(Counted \cup batch) = seen + n
      BY <1>2, <1>7, <2>1, CountApart DEF LimitCounts, n
    <2>. QED BY <1>1, <1>8, <2>2
  <1>10. emitted' = Admitted(seen')
    <2>1. query.skip \in Nat /\ query' = query
      BY <1>1, <1>2, QueryFields
    <2>2. CASE query.fetch = NoFetch
      BY <1>1, <1>2, <2>1, <2>2 DEF Dropped, Admitted, available, start
    <2>3. CASE query.fetch # NoFetch
      <3>1. query.fetch \in Nat
        BY <1>2, <2>3, QueryFields
      <3>. QED BY <1>1, <1>2, <2>1, <2>3, <3>1 DEF Dropped, Admitted, available, room, start
    <2>. QED BY <2>2, <2>3
  <1>11. \A r \in batch : Rank(query.match, r) = seen + Rank(batch, r)
    <2>1. SUFFICES ASSUME NEW r \in batch
                   PROVE  Rank(query.match, r) = seen + Rank(batch, r)
      OBVIOUS
    <2>2. query.match = Counted \cup batch \cup (query.match \cap Ahead)
      BY <1>1 DEF Counted
    <2>3. \A c \in Counted : c <= r /\ c \notin batch
      <3>1. \A c \in Counted : c \in Nat /\ c < r
        BY <1>1, <1>2 DEF TableOrder, Counted
      <3>. QED BY <1>2, <1>7, <3>1
    <2>4. \A a \in query.match \cap Ahead : r < a
      BY DEF TableOrder
    <2>5. Rank(Counted \cup batch \cup (query.match \cap Ahead), r) = Cardinality(Counted) + Rank(batch, r)
      <3>1. PICK A, B, C : A = Counted /\ B = batch /\ C = query.match \cap Ahead
        OBVIOUS
      <3>2. A \in SUBSET Row /\ B \in SUBSET Row /\ C \in SUBSET Row /\ r \in Row
        BY <1>2, <3>1 DEF Counted
      <3>3. \A a \in A : a <= r /\ a \notin B
        BY <2>3, <3>1
      <3>4. \A c \in C : r < c
        BY <2>4, <3>1
      <3>5. Rank(A \cup B \cup C, r) = Cardinality(A) + Rank(B, r)
        BY ONLY <3>2, <3>3, <3>4, RankInMiddle, ZenonT(60)
      <3>. QED BY ONLY <3>1, <3>5
    <2>. QED BY <2>2, <2>5 DEF LimitCounts
  <1>12. batch' = batch \cap Wanted
    <2>1. \A r \in batch : start < Rank(batch, r) /\ Rank(batch, r) <= start + available
            <=> /\ query.skip < seen + Rank(batch, r)
                /\ query.fetch # NoFetch => seen + Rank(batch, r) <= query.skip + query.fetch
      BY <1>2, <1>4, LimitArithmetic DEF available, room, start
    <2>2. \A r \in batch : r \in Wanted
            <=> /\ query.skip < seen + Rank(batch, r)
                /\ query.fetch # NoFetch => seen + Rank(batch, r) <= query.skip + query.fetch
      BY <1>1, <1>11 DEF Wanted
    <2>. QED BY <1>1, <2>1, <2>2
  <1>13. HandedBack'
    <2>1. Wanted' = Wanted /\ returned' = returned
      BY <1>1 DEF Wanted, Rank, stream
    <2>2. returned = Counted \cap Wanted
      BY <1>1 DEF HandedBack
    <2>. QED BY <1>6, <1>7, <1>8, <1>12, <2>1, <2>2 DEF HandedBack
  <1>14. LimitCounts'
    <2>1. at' \notin {"scan", "index", "filter"}
      BY <1>1
    <2>2. query' = query
      BY <1>1
    <2>. QED BY <1>9, <1>10, <2>1, <2>2 DEF LimitCounts, Admitted
  <1>15. TableOrder'
    <2>1. at' \in {"limit", "project"}
      BY <1>1
    <2>2. at' = "project" => batch' # {}
      <3>1. SUFFICES ASSUME available # 0
                     PROVE  \E r \in batch : start < Rank(batch, r) /\ Rank(batch, r) <= start + available
        BY <1>1
      <3>2. start \in 0..n /\ available \in 0..n - start
        BY <1>2, QueryFields DEF start, available, room, Dropped, Admitted
      <3>3. PICK r \in batch : Rank(batch, r) = start + 1
        <4>1. start + 1 \in 1..Cardinality(batch)
          BY <1>2, <3>1, <3>2 DEF n
        <4>. QED BY <1>2, <4>1, RankAttained
      <3>. QED BY <3>1, <3>2, <3>3, <1>2
    <2>. QED BY <1>3, <1>5, <1>6, <1>8, <2>1, <2>2 DEF TableOrder
  <1>. QED BY <1>13, <1>14, <1>15

\* ProjectExec computes the batch and the caller has it.
LEMMA ProjectStreams ==
  ASSUME Kept, TableOrder, LimitCounts, HandedBack, Project, status' # "failed"
  PROVE  TableOrder' /\ LimitCounts' /\ HandedBack'
  <1>1. /\ UNCHANGED <<query, scan, rows, limit>> /\ at = "project" /\ at' = "client"
        /\ returned' = returned \cup batch /\ batch' = {}
    BY DEF Project, Answer
  <1>2. Ahead' = Ahead /\ InFlight = {} /\ InFlight' = {} /\ Wanted' = Wanted
    BY <1>1 DEF Ahead, InFlight, Wanted, Rank, scan
  <1>3. Counted' = Counted
    BY <1>1, <1>2 DEF Counted
  <1>4. TableOrder'
    BY <1>1, <1>2, <1>3 DEF TableOrder
  <1>5. LimitCounts'
    BY <1>1, <1>3 DEF LimitCounts, Admitted, limit
  <1>6. HandedBack'
    BY <1>1, <1>2, <1>3 DEF HandedBack
  <1>. QED BY <1>4, <1>5, <1>6

\* Every step keeps the matches in the order they are handled in.
LEMMA StreamedNext ==
  ASSUME Kept, Streamed, [Next]_vars
  PROVE  Streamed'
  <1>1. CASE UNCHANGED vars
    <2>1. Ahead' = Ahead /\ InFlight' = InFlight /\ Wanted' = Wanted
      BY <1>1 DEF Ahead, InFlight, Wanted, Rank, vars, scan
    <2>2. Counted' = Counted
      BY <1>1, <2>1 DEF Counted, vars
    <2>. QED BY <1>1, <2>1, <2>2 DEF Streamed, TableOrder, LimitCounts, HandedBack, Admitted, exhausted,
           vars, limit, stream
  <1>2. CASE Next
    <2>1. status # "failed"
      BY <1>2 DEF Next, NextBatch, LimitMet, LimitPull, SkipGroup, OpenGroup, EmitBatch, LeaveGroup,
         ScanEnd, Gather, IndexEnd, Filter, Limit, Project, Entering, Kept, LeafPlaced
    <2>2. TableOrder /\ LimitCounts /\ HandedBack
      BY <2>1 DEF Streamed
    <2>3. SUFFICES ASSUME status' # "failed"
                   PROVE  TableOrder' /\ LimitCounts' /\ HandedBack'
      BY DEF Streamed
    <2>. QED BY <1>2, <2>2, <2>3, CallStreams, EndStreams, ScanStreams, EmitStreams, GatherStreams,
           FilterStreams, LimitStreams, ProjectStreams DEF Next
  <1>. QED BY <1>1, <1>2
-----------------------------------------------------------------------------
\* Row groups start in table order.
LEMMA StartsAscend ==
  ASSUME NEW g \in 1..G + 1, NEW h \in 1..G + 1, g <= h
  PROVE  Starts[g] <= Starts[h]
  <1>. DEFINE low == {k \in g..G + 1 : Starts[k] < Starts[g]}
  <1>0. G \in Nat /\ \A k \in 1..G + 1 : Starts[k] \in Nat
    BY PipelineAssumption
  <1>1. SUFFICES low = {}
    BY <1>0
  <1>2. SUFFICES ASSUME low # {}
                 PROVE  FALSE
    OBVIOUS
  <1>3. low \in SUBSET Nat
    BY <1>0
  <1>4. PICK k \in low : \A other \in low : k <= other
    BY <1>2, <1>3, Least
  <1>5. k # g /\ k \in g..G + 1
    BY <1>0, <1>4
  <1>6. k - 1 \in g..G + 1 /\ k - 1 \in 1..G /\ k - 1 \notin low
    BY <1>0, <1>4, <1>5
  <1>7. Starts[k - 1] <= Starts[k - 1 + 1]
    BY <1>6, PipelineAssumption
  <1>. QED BY <1>0, <1>4, <1>5, <1>6, <1>7

\* While LimitExec pulls, the matches it counted leave the LIMIT unmet.
LEMMA Unmet ==
  ASSUME Kept, LimitCounts, at \in {"scan", "index"}, query.fetch # NoFetch
  PROVE  Cardinality(Counted) < query.skip + query.fetch
  BY QueryFields DEF Kept, TypeOK, LimitCounts, Admitted, exhausted

\* The scan opens a row group, the index scan gathers rows, only while the
\* LIMIT is unmet.
LEMMA ReadsNoFurtherNext ==
  ASSUME Kept, Streamed, LimitReadsNoFurther, [Next]_vars
  PROVE  LimitReadsNoFurther'
  <1>. DEFINE wanted == query.skip + query.fetch
              before(r) == Cardinality({m \in query.match : m < r})
              Opened == \A g \in Group : row_group_verdicts[g] = "scanned" => before(Starts[g]) < wanted
              Filtered == at = "filter" => \E r \in batch : before(r) < wanted
  <1>1. query' = query
    BY DEF Next, NextBatch, LimitMet, LimitPull, SkipGroup, OpenGroup, EmitBatch, LeaveGroup,
       ScanEnd, Gather, IndexEnd, Filter, Limit, Project, vars
  <1>2. SUFFICES ASSUME query.fetch # NoFetch
                 PROVE  Opened' /\ Filtered'
    BY <1>1 DEF LimitReadsNoFurther
  <1>3. Opened /\ Filtered
    BY <1>2 DEF LimitReadsNoFurther
  <1>4. /\ Row \subseteq Nat /\ query.match \subseteq Row
        /\ row_group_verdicts \in [Group -> GroupVerdict]
    BY Rows, QueryFields DEF Kept, TypeOK
  <1>5. at \in {"scan", "index"} => TableOrder /\ LimitCounts
    BY DEF Streamed, Kept, LeafPlaced
  <1>6. at \in {"scan", "index"} => Cardinality(Counted) < wanted
    BY <1>2, <1>5, Unmet
  <1>7. CASE SkipGroup
    <2>1. row_group \in Group /\ query.ruled_out[row_group] # "scanned" /\ at = "scan" /\ at' = "scan"
          /\ row_group_verdicts' = [row_group_verdicts EXCEPT ![row_group] = query.ruled_out[row_group]]
      BY <1>7, QueryFields DEF SkipGroup, Record, Entering, Kept, TypeOK, Ruled
    <2>2. \A g \in Group : row_group_verdicts'[g] = "scanned" => row_group_verdicts[g] = "scanned"
      BY <1>4, <2>1
    <2>. QED BY <1>1, <1>3, <2>1, <2>2
  <1>8. CASE OpenGroup
    <2>1. row_group \in Group /\ at = "scan" /\ at' # "filter"
          /\ row_group_verdicts' = [row_group_verdicts EXCEPT ![row_group] = "scanned"]
      BY <1>8 DEF OpenGroup, Record, Entering, Answer
    <2>2. {m \in query.match : m < Starts[row_group]} = Counted
      <3>1. batch = {} /\ query.leaf = "scan" /\ offset_in_group = 0 /\ Starts[row_group] \in Nat
        BY <1>8, <2>1, PipelineAssumption DEF OpenGroup, Entering, Kept, LeafPlaced, Group
      <3>2. Ahead = {r \in Row : Starts[row_group] <= r} /\ InFlight = {}
        BY <3>1 DEF Ahead, InFlight
      <3>3. ASSUME NEW m \in query.match
            PROVE  m < Starts[row_group] <=> m \notin Ahead
        <4>1. m \in Nat /\ m \in Row
          BY <1>4
        <4>. QED BY <3>1, <3>2, <4>1
      <3>. QED BY <3>2, <3>3 DEF Counted
    <2>3. before(Starts[row_group]) < wanted
      BY <1>6, <2>1, <2>2
    <2>4. \A g \in Group \ {row_group} : row_group_verdicts'[g] = row_group_verdicts[g]
      BY <1>4, <2>1
    <2>. QED BY <1>1, <1>3, <2>1, <2>3, <2>4
  <1>9. CASE EmitBatch
    <2>. DEFINE first == Starts[row_group] + offset_in_group
    <2>1. /\ row_group \in 1..G /\ at = "scan" /\ query.leaf = "scan" /\ batch = {}
          /\ offset_in_group \in Nat /\ offset_in_group < num_rows(row_group)
          /\ row_group_verdicts' = row_group_verdicts
      BY <1>9 DEF EmitBatch, Group, Kept, TypeOK, LeafPlaced
    <2>2. /\ G \in Nat /\ BatchSize \in Nat \ {0} /\ Starts[row_group] \in Nat
          /\ Starts[row_group + 1] \in Nat /\ Starts[G + 1] \in Nat
      BY <2>1, PipelineAssumption
    <2>3. first \in Row
      <3>1. Starts[row_group + 1] <= Starts[G + 1]
        BY <2>1, <2>2, StartsAscend
      <3>. QED BY <2>1, <2>2, <3>1 DEF Row, num_rows
    <2>4. first \in batch'
      BY <1>9, <2>1, <2>2, <2>3 DEF EmitBatch, num_rows
    <2>5. {m \in query.match : m < first} = Counted
      <3>1. Ahead = {r \in Row : first <= r} /\ InFlight = {}
        BY <2>1 DEF Ahead, InFlight
      <3>2. ASSUME NEW m \in query.match
            PROVE  m < first <=> m \notin Ahead
        <4>1. m \in Nat /\ m \in Row
          BY <1>4
        <4>. QED BY <2>1, <2>2, <3>1, <4>1
      <3>. QED BY <3>1, <3>2 DEF Counted
    <2>6. before(first) < wanted
      BY <1>6, <2>1, <2>5
    <2>. HIDE DEF first
    <2>. QED BY <1>1, <1>3, <2>1, <2>4, <2>6
  <1>10. CASE Gather
    <2>. DEFINE next == CHOOSE r \in rows : \A other \in rows : r <= other
    <2>1. /\ at = "index" /\ query.leaf = "index" /\ batch = {} /\ rows # {}
          /\ rows \subseteq Row /\ row_group_verdicts' = row_group_verdicts
      BY <1>10 DEF Gather, Kept, TypeOK, LeafPlaced, scan
    <2>2. next \in rows /\ \A other \in rows : next <= other
      <3>1. \E r \in rows : \A other \in rows : r <= other
        BY <1>4, <2>1, Least
      <3>. QED BY <3>1
    <2>3. at' = "filter" => next \in batch'
      <3>1. SUFFICES ASSUME at' = "filter"
                     PROVE  next \in rows \cap GroupRows(group_of(next)) /\ Rank(rows, next) <= BatchSize
        BY <1>10 DEF Gather, Answer
      <3>2. {x \in rows : x <= next} = {next}
        <4>. HIDE DEF next
        <4>1. \A x \in rows : x \in Nat
          BY <1>4, <2>1
        <4>2. \A x \in rows : x <= next <=> x = next
          BY <2>2, <4>1
        <4>. QED BY <2>2, <4>2
      <3>3. Rank(rows, next) = 1
        <4>. HIDE DEF next
        <4>. QED BY <3>2, FS_Singleton DEF Rank
      <3>4. next \in GroupRows(group_of(next))
        BY <2>1, <2>2, GroupOfRow
      <3>. QED BY <2>2, <3>3, <3>4, PipelineAssumption
    <2>. HIDE DEF next
    <2>4. {m \in query.match : m < next} = Counted
      <3>1. Ahead = rows /\ InFlight = {}
        BY <2>1 DEF Ahead, InFlight
      <3>2. ASSUME NEW m \in query.match, m \in rows
            PROVE  ~ (m < next)
        <4>1. m \in Nat /\ next \in Nat /\ next <= m
          BY <1>4, <2>1, <2>2, <3>2
        <4>. QED BY <4>1
      <3>3. \A m \in query.match : m \notin rows => m < next
        BY <1>5, <2>1, <2>2, <3>1 DEF TableOrder, Counted
      <3>. QED BY <3>1, <3>2, <3>3 DEF Counted
    <2>5. before(next) < wanted
      BY <1>6, <2>1, <2>4
    <2>. QED BY <1>1, <1>3, <2>1, <2>3, <2>5
  <1>11. CASE NextBatch \/ LimitMet \/ LimitPull \/ LeaveGroup \/ ScanEnd \/ IndexEnd \/ Filter \/ Limit
              \/ Project
    <2>1. at' # "filter" /\ row_group_verdicts' = row_group_verdicts
      BY <1>11, QueryFields DEF NextBatch, LimitMet, LimitPull, LeaveGroup, ScanEnd, IndexEnd, Filter,
         Limit, Project, Answer, Kept, TypeOK, scan
    <2>. QED BY <1>1, <1>3, <2>1
  <1>12. CASE UNCHANGED vars
    <2>1. UNCHANGED <<at, batch, row_group_verdicts>>
      BY <1>12 DEF vars, scan
    <2>. QED BY <1>1, <1>3, <2>1
  <1>. QED BY <1>7, <1>8, <1>9, <1>10, <1>11, <1>12 DEF Next
-----------------------------------------------------------------------------
\* Nothing is decided, counted or handed back when the operators are built.
LEMMA InitInv == Init => IInv
  <1>. SUFFICES ASSUME NEW q \in Queries, Sound(q), Start(q)
                PROVE  IInv
    BY DEF Init
  <1>1. /\ query = q /\ q \in Query /\ at = "client" /\ batch = {} /\ row_group = 1
        /\ offset_in_group = 0 /\ opened = FALSE
        /\ row_groups_scanned = PlannedScans(q) /\ row_groups_pruned = PlannedPrunes(q)
        /\ seen = 0 /\ emitted = 0 /\ returned = {} /\ status = "running"
        /\ row_group_verdicts = [g \in Group |-> "untouched"]
        /\ rows = IF q.leaf = "index" THEN q.named ELSE {}
    BY QueriesAssumption DEF Start
  <1>2. query \in Query /\ G \in Nat
    BY <1>1, PipelineAssumption
  <1>3. /\ q.leaf = "scan" => row_groups_scanned = 0 /\ row_groups_pruned = 0
        /\ q.leaf = "index" => /\ row_groups_scanned = Cardinality(Touched(q.named))
                               /\ row_groups_scanned + row_groups_pruned = G
        /\ row_groups_scanned \in 0..G /\ row_groups_pruned \in 0..G
    <2>1. PICK t : t = Cardinality(Touched(q.named))
      OBVIOUS
    <2>2. t \in 0..G
      <3>1. Touched(q.named) \in SUBSET (1..G)
        BY DEF Touched, Group
      <3>2. IsFiniteSet(1..G) /\ Cardinality(1..G) = G
        BY <1>2, FS_Interval
      <3>3. t \in Nat /\ t <= G
        BY <2>1, <3>1, <3>2, FS_Subset, FS_CardinalityType
      <3>. QED BY <1>2, <3>3
    <2>3. /\ row_groups_scanned = IF q.leaf = "index" THEN t ELSE 0
          /\ row_groups_pruned = IF q.leaf = "index" THEN G - t ELSE 0
      BY <1>1, <2>1 DEF PlannedScans, PlannedPrunes
    <2>. QED BY ONLY <1>2, <2>1, <2>2, <2>3
  <1>4. TypeOK
    <2>1. rows \in SUBSET Row
      BY <1>1, <1>2, QueryFields
    <2>2. row_group_verdicts \in [Group -> GroupVerdict]
      BY <1>1 DEF GroupVerdict
    <2>3. row_group \in 1..G + 1 /\ row_groups_scanned \in 0..G /\ row_groups_pruned \in 0..G
      BY <1>1, <1>2, <1>3
    <2>. QED BY <1>1, <1>2, <2>1, <2>2, <2>3 DEF TypeOK
  <1>5. LeafPlaced
    BY <1>1, PipelineAssumption DEF LeafPlaced, num_rows, Group
  <1>6. CountersPlaced /\ WithinLimit
    BY <1>1, <1>2, <1>3, QueryFields DEF CountersPlaced, WithinLimit, Decisions
  <1>7. VerdictsMatchCounters
    <2>1. \A g \in Group : row_group_verdicts[g] = "untouched"
      BY <1>1
    <2>2. ASSUME query.leaf = "scan", NEW g \in Group
          PROVE  ~ (g < row_group \/ (g = row_group /\ row_groups_scanned + row_groups_pruned = row_group))
      BY <1>1, <1>2, <1>3, <2>2 DEF Group
    <2>3. Cardinality({}) = 0
      BY FS_EmptySet
    <2>4. {g \in Group : row_group_verdicts[g] = "scanned"} = {}
          /\ {g \in Group : row_group_verdicts[g] # "untouched"} = {}
      BY <2>1
    <2>5. CASE query.leaf = "scan"
      <3>1. {g \in Group : g < row_group \/ (g = row_group /\ row_groups_scanned + row_groups_pruned
                                                              = row_group)} = {}
        BY <2>2, <2>5
      <3>. QED BY <1>1, <1>3, <1>4, <2>3, <2>4, <2>5, <3>1 DEF VerdictsMatchCounters
    <2>6. CASE query.leaf = "index"
      BY <1>1, <1>3, <1>4, <2>4, <2>6 DEF VerdictsMatchCounters
    <2>. QED BY <1>2, <2>5, <2>6, QueryFields
  <1>8. query.match \subseteq Ahead /\ InFlight = {}
    <2>1. CASE q.leaf = "index"
      BY <1>1, <2>1 DEF Ahead, InFlight, Sound
    <2>2. CASE q.leaf = "scan"
      <3>1. \A r \in Row : Starts[row_group] + offset_in_group <= r
        <4>1. \A r \in Row : r \in Nat
          BY Rows
        <4>. QED BY <1>1, <4>1, PipelineAssumption
      <3>. QED BY <1>1, <1>2, <2>2, <3>1, QueryFields DEF Ahead, InFlight
    <2>. QED BY <1>1, <1>2, <2>1, <2>2, QueryFields
  <1>9. Counted = {}
    BY <1>8 DEF Counted
  <1>10. TableOrder /\ HandedBack
    BY <1>1, <1>9 DEF TableOrder, HandedBack
  <1>11. LimitCounts
    <2>1. Cardinality(Counted) = 0
      BY <1>9, FS_EmptySet
    <2>2. Admitted(0) = 0
      BY <1>2, QueryFields DEF Admitted
    <2>. QED BY <1>1, <2>1, <2>2 DEF LimitCounts
  <1>12. LimitReadsNoFurther
    BY <1>1 DEF LimitReadsNoFurther
  <1>. QED BY <1>1, <1>4, <1>5, <1>6, <1>7, <1>10, <1>11, <1>12 DEF IInv, Kept, Streamed

\* The invariant the theorems below rest on.
LEMMA Invariance == Spec => []IInv
  <1>1. IInv /\ [Next]_vars => IInv'
    BY KeptNext, CountersNext, StreamedNext, ReadsNoFurtherNext DEF IInv
  <1>. QED BY <1>1, InitInv, PTL DEF Spec

\* The counters an EXPLAIN ANALYZE prints and the colours of the row groups
\* agree at every moment, however often the stream is pulled and wherever it
\* stops: for every table and query (ScanExec::next).
THEOREM CountersAgree == Spec => []VerdictsMatchCounters
  BY Invariance, PTL DEF IInv

\* LimitExec stops its input for every LIMIT, OFFSET, batch size and leaf:
\* nothing is opened or gathered once the rows before it meet the LIMIT.
THEOREM StopsReading == Spec => []LimitReadsNoFurther
  BY Invariance, PTL DEF IInv
-----------------------------------------------------------------------------
\* What ProjectExec hands back are the next rows of the answer.
LEMMA ProjectReturns ==
  ASSUME IInv, Project, status' # "failed"
  PROVE  Answers!Return(batch)
  <1>1. TableOrder /\ HandedBack /\ at = "project" /\ status = "running" /\ InFlight = {}
    BY DEF IInv, Streamed, Project, Kept, LeafPlaced, InFlight
  <1>2. /\ batch # {} /\ returned' = returned \cup batch /\ UNCHANGED <<query, status>>
        /\ Wanted' = Wanted
    BY <1>1 DEF Project, Answer, TableOrder, Wanted, Rank
  <1>3. returned \cup batch = Counted \cap Wanted /\ returned \cap batch = {}
    BY <1>1 DEF HandedBack
  <1>4. ASSUME NEW r \in batch, NEW earlier \in Wanted, earlier < r
        PROVE  earlier \in returned \cup batch
    <2>1. \A a \in Ahead : r < a
      BY <1>1 DEF TableOrder
    <2>2. earlier \in query.match /\ earlier \in Nat /\ r \in Nat
      BY Rows, QueryFields DEF Wanted, IInv, Kept, TypeOK
    <2>3. earlier \notin Ahead
      BY <1>4, <2>1, <2>2
    <2>. QED BY <1>1, <1>3, <2>2, <2>3 DEF Counted
  <1>. QED BY <1>1, <1>2, <1>3, <1>4 DEF Answers!Return

\* A stream is finished only when everything wanted was handed back: either
\* the LIMIT is met or the leaf has nothing left.
LEMMA EndFinishes ==
  ASSUME IInv, LimitMet \/ ScanEnd \/ IndexEnd
  PROVE  Answers!Finish
  <1>1. /\ at \in {"limit", "scan", "index"} /\ batch = {} /\ status = "running" /\ status' = "done"
        /\ UNCHANGED <<query, returned>>
    BY DEF LimitMet, ScanEnd, IndexEnd, Answer, IInv, Kept, LeafPlaced
  <1>2. TableOrder /\ LimitCounts /\ HandedBack /\ InFlight = {} /\ Wanted' = Wanted
    BY <1>1 DEF IInv, Streamed, InFlight, Wanted, Rank
  <1>3. returned = Counted \cap Wanted
    BY <1>1, <1>2 DEF HandedBack
  <1>4. /\ query \in Query /\ query.match \in SUBSET Row /\ seen \in Nat /\ query.skip \in Nat
        /\ \A r \in Row : r \in Nat
    BY Rows, QueryFields DEF IInv, Kept, TypeOK
  <1>5. Wanted \subseteq Counted
    <2>1. CASE LimitMet
      <3>1. SUFFICES ASSUME NEW r \in Wanted, r \in Ahead
                     PROVE  FALSE
        BY <1>2 DEF Counted, Wanted
      <3>2. query.fetch # NoFetch /\ query.fetch \in Nat /\ Admitted(seen) >= query.fetch
        BY <1>2, <2>1, QueryFields DEF LimitMet, exhausted, LimitCounts, IInv, Kept, TypeOK
      <3>3. r \in query.match /\ query.skip < Rank(query.match, r)
            /\ Rank(query.match, r) <= query.skip + query.fetch
        BY <3>2 DEF Wanted
      <3>4. Rank(query.match, r) >= seen + 1
        <4>. DEFINE upto == {x \in query.match : x <= r}
        <4>1. \A c \in Counted : c \in query.match /\ c < r /\ c <= r
          <5>1. \A c \in Counted : c \in query.match /\ c < r /\ c \in Nat
            BY <1>2, <1>4, <3>1 DEF TableOrder, Counted
          <5>. QED BY <1>4, <3>3, <5>1
        <4>2. r \in upto /\ r \notin Counted
          BY <1>4, <3>1, <3>3 DEF Counted
        <4>3. Counted \cup {r} \in SUBSET upto /\ IsFiniteSet(upto) /\ IsFiniteSet(Counted)
          BY <1>4, <4>1, <4>2, Rows DEF Counted
        <4>. HIDE DEF upto
        <4>4. Cardinality(Counted \cup {r}) = seen + 1
          BY <1>2, <4>2, <4>3, FS_AddElement DEF LimitCounts
        <4>5. Cardinality(Counted \cup {r}) <= Cardinality(upto)
          BY <4>3, FS_Subset
        <4>6. Cardinality(upto) \in Nat
          BY <4>3, FS_CardinalityType
        <4>. QED BY <1>4, <4>4, <4>5, <4>6 DEF Rank, upto
      <3>5. Rank(query.match, r) \in Nat
        <4>1. Cardinality(query.match) \in Nat /\ r \in Row
          BY <1>4, <3>3, Rows
        <4>2. Rank(query.match, r) \in 0..Cardinality(query.match)
          BY <1>4, <4>1, RankRange
        <4>. QED BY <4>1, <4>2
      <3>. QED BY <1>4, <3>2, <3>3, <3>4, <3>5 DEF Admitted
    <2>2. CASE ScanEnd \/ IndexEnd
      <3>1. Ahead = {}
        <4>1. CASE ScanEnd
          <5>1. row_group = G + 1 /\ query.leaf = "scan" /\ offset_in_group = 0
            BY <4>1, PipelineAssumption DEF ScanEnd, IInv, Kept, TypeOK, LeafPlaced, Group
          <5>2. \A r \in Row : ~ (Starts[G + 1] + 0 <= r)
            BY <1>4, PipelineAssumption DEF Row
          <5>. QED BY <5>1, <5>2 DEF Ahead
        <4>2. CASE IndexEnd
          BY <4>2 DEF IndexEnd, IInv, Kept, LeafPlaced, Ahead
        <4>. QED BY <2>2, <4>1, <4>2
      <3>. QED BY <1>2, <3>1 DEF Counted, Wanted
    <2>. QED BY <2>1, <2>2
  <1>. QED BY <1>1, <1>2, <1>3, <1>5 DEF Answers!Finish

\* Every other step hands nothing back: it fails, or the caller sees nothing.
LEMMA QuietSteps ==
  ASSUME IInv,
         \/ NextBatch \/ LimitPull \/ SkipGroup \/ OpenGroup \/ EmitBatch \/ LeaveGroup
         \/ Gather \/ Filter \/ Limit \/ (Project /\ status' = "failed") \/ UNCHANGED vars
  PROVE  Answers!Fail \/ UNCHANGED Answers!vars
  <1>1. UNCHANGED <<query, returned>>
    BY DEF NextBatch, LimitPull, SkipGroup, OpenGroup, EmitBatch, LeaveGroup, Gather, Filter, Limit,
       Project, vars, stream, IInv, Kept, LeafPlaced
  <1>2. Wanted' = Wanted
    BY <1>1 DEF Wanted, Rank
  <1>3. status' = status \/ (status = "running" /\ status' = "failed")
    BY DEF NextBatch, LimitPull, SkipGroup, OpenGroup, EmitBatch, LeaveGroup, Gather, Filter, Limit,
       Project, Entering, Answer, vars, stream, IInv, Kept, LeafPlaced
  <1>. QED BY <1>1, <1>2, <1>3 DEF Answers!Fail, Answers!vars

\* The refinement: Project(Limit(Filter(leaf))) implements QueryAnswer.  For
\* every table, batch size, predicate, OFFSET and LIMIT, with or without an
\* index, and whatever the metadata lets the scan skip, the caller of
\* QueryStream::next_batch gets exactly the wanted rows, in table order, each
\* once and in batches that are never empty, and "done" only after the last.
THEOREM StreamsTheAnswer == Spec => AnswersTheQuery
  <1>1. Init => Answers!Init
    <2>1. SUFFICES ASSUME Init
                   PROVE  Answers!Init
      OBVIOUS
    <2>2. IInv
      BY <2>1, InitInv
    <2>3. Wanted \subseteq Row
      BY <2>2, QueryFields DEF Wanted, IInv, Kept, TypeOK
    <2>. QED BY <2>1, <2>3 DEF Init, Start, Answers!Init
  <1>2. IInv /\ [Next]_vars => [Answers!Next]_(Answers!vars)
    <2>1. SUFFICES ASSUME IInv, [Next]_vars
                   PROVE  Answers!Next \/ UNCHANGED Answers!vars
      OBVIOUS
    <2>2. CASE LimitMet \/ ScanEnd \/ IndexEnd
      BY <2>1, <2>2, EndFinishes DEF Answers!Next
    <2>3. CASE Project /\ status' # "failed"
      <3>1. batch \in SUBSET Row
        BY <2>1 DEF IInv, Kept, TypeOK
      <3>. QED BY <2>1, <2>3, <3>1, ProjectReturns DEF Answers!Next
    <2>4. CASE \/ NextBatch \/ LimitPull \/ SkipGroup \/ OpenGroup \/ EmitBatch \/ LeaveGroup
               \/ Gather \/ Filter \/ Limit \/ (Project /\ status' = "failed") \/ UNCHANGED vars
      BY <2>1, <2>4, QuietSteps DEF Answers!Next
    <2>. QED BY <2>1, <2>2, <2>3, <2>4 DEF Next
  <1>. QED BY <1>1, <1>2, Invariance, PTL DEF Spec, AnswersTheQuery, Answers!Spec
=============================================================================
