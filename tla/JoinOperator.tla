----------------------------- MODULE JoinOperator -----------------------------
(***************************************************************************)
(* What exec/mod.rs::build_join hands the three join operators, and the    *)
(* answer SQL wants from any of them.  Rows of either input are known by   *)
(* their position in it, and 0 stands for the row of NULLs an outer join   *)
(* pads with, or for the columns a filtering join does not emit.           *)
(***************************************************************************)
EXTENDS Operator

JoinType == {"inner", "left", "right", "full", "cross", "semi", "anti"}
preserves_left(type) == type \in {"left", "full"}
preserves_right(type) == type \in {"right", "full"}
is_filtering(type) == type \in {"semi", "anti"}

Join ==
  [kind : {"join"}, type : JoinType,
   left : Seq(Row), right : Seq(Row),
   left_order : Seq(OrderKey), right_order : Seq(OrderKey),
   \* the condition's equalities between the sides: a column of each, and
   \* whether both are bare column references
   equi : Seq([left : Nat \ {0}, right : Nat \ {0}, bare : BOOLEAN]),
   residual : SUBSET (Nat \X Nat),  \* the pairs the rest of it is TRUE of
   algorithm : {"Auto", "ForceNestedLoop", "ForceMergeJoin"}]

LeftRows == DOMAIN plan.left
RightRows == DOMAIN plan.right

LeftKey(l) == [i \in DOMAIN plan.equi |-> plan.left[l][plan.equi[i].left]]
RightKey(r) == [i \in DOMAIN plan.equi |-> plan.right[r][plan.equi[i].right]]

residual_holds(l, r) == <<l, r>> \in plan.residual

\* The whole ON condition; a pair joins when it is TRUE.
On(l, r) ==
  /\ \A i \in DOMAIN plan.equi : CompareOp("=", LeftKey(l)[i], RightKey(r)[i]) = "true"
  /\ residual_holds(l, r)

Joined == {p \in LeftRows \X RightRows : On(p[1], p[2])}
MatchedLeft == {p[1] : p \in Joined}
MatchedRight == {p[2] : p \in Joined}

\* The rows of the join, each of them once.
Answer ==
  CASE plan.type = "semi" -> {<<l, 0>> : l \in MatchedLeft}
    [] plan.type = "anti" -> {<<l, 0>> : l \in LeftRows \ MatchedLeft}
    [] OTHER ->
         Joined
         \cup (IF preserves_left(plan.type)
               THEN {<<l, 0>> : l \in LeftRows \ MatchedLeft} ELSE {})
         \cup (IF preserves_right(plan.type)
               THEN {<<0, r>> : r \in RightRows \ MatchedRight} ELSE {})

\* ordering::column_of of each equality's sides, and what follows from them.
merge_join_applies(j) ==
  LET n == Len(j.equi)
  IN  /\ \A i \in 1..n : j.equi[i].bare
      /\ satisfies(j.left_order, [i \in 1..n |-> j.equi[i].left])
      /\ satisfies(j.right_order, [i \in 1..n |-> j.equi[i].right])
      /\ directions_match(j.left_order, j.right_order, n)

\* build_join.  A forced nested loop splits no equality out of the condition.
build_join(j) ==
  IF j.equi = <<>> \/ j.algorithm = "ForceNestedLoop" THEN "nested loop"
  ELSE IF j.algorithm = "ForceMergeJoin" \/ merge_join_applies(j) THEN "merge"
  ELSE "hash"

\* What stands in the columns the equalities of a join compare.
KeyParts(j) ==
  Held(j.left, {e.left : e \in ToSet(j.equi)}) \cup Held(j.right, {e.right : e \in ToSet(j.equi)})

\* Whether MergeJoinExec::compare agrees with the order of the inputs: it is that of
\* an ascending sort, and ties a NaN with everything.  merge_join_applies asks only
\* that the sides are ordered alike.
compares_as_sorted(j) ==
  /\ NaN \notin KeyParts(j)
  /\ j.algorithm = "Auto" => \A i \in DOMAIN j.equi : j.left_order[i].ascending

InStep == build_join(plan) = "merge" => compares_as_sorted(plan)

\* A row has the columns its order and the condition name, and values that differ
\* have different keys.
ASSUME JoinAssumption ==
  \A j \in Inputs("join") :
    /\ j \in Join
    /\ KeyParts(j) \subseteq Datum
    /\ Held(j.left, {k.column : k \in ToSet(j.left_order)}) \subseteq Datum
    /\ Held(j.right, {k.column : k \in ToSet(j.right_order)}) \subseteq Datum
    /\ \A a, b \in KeyParts(j) : KeyValue(a) = KeyValue(b) => a = b

JoinInputsArrive ==
  plan.kind = "join" => /\ Arrives(plan.left, plan.left_order)
                        /\ Arrives(plan.right, plan.right_order)
-----------------------------------------------------------------------------
(* exec/join.rs: the right input is built into memory and the left one     *)
(* streams through it, a batch at a time.  HashJoinExec pairs a row with   *)
(* the build rows under its key, NestedLoopJoinExec with all of them; what *)
(* they do with the pairs is the same.                                     *)

VARIABLES
  build_read,
  index,      \* from the keys of the build rows to the rows, in order
  probe_at,   \* how many probe rows were read
  matched,    \* the build rows that found a match, where the join type asks
  flushing,
  flush_pos

buildVars == <<build_read, index>>
flushVars == <<flushing, flush_pos>>
hashVars == <<buildVars, probe_at, matched, flushVars>>

HashInit ==
  /\ build_read = FALSE
  /\ index = <<>>
  /\ probe_at = 0
  /\ matched = {}
  /\ flushing = FALSE
  /\ flush_pos = 0

\* BuildSide::collect leaves rows that cannot match out of the index.
KeyedRows == {r \in RightRows : ~ unmatchable(RightKey(r))}

\* ensure_built.
Build ==
  LET hashed == [r \in KeyedRows |-> HashKey(RightKey(r))]
  IN  /\ ~ build_read
      /\ build_read' = TRUE
      /\ index' = [k \in Range(hashed) |-> {r \in KeyedRows : hashed[r] = k}]
      /\ UNCHANGED <<probe_at, matched, flushVars, out, status, plan>>

\* The build rows a probe row is paired with.
Candidates(algorithm, l) ==
  IF algorithm = "nested loop" THEN RightRows
  ELSE IF unmatchable(LeftKey(l)) \/ HashKey(LeftKey(l)) \notin DOMAIN index THEN {}
  ELSE index[HashKey(LeftKey(l))]

\* apply_residual; a forced nested loop has the whole condition for it.
apply_residual(algorithm, pairs) ==
  {p \in pairs : IF algorithm = "nested loop" THEN On(p[1], p[2])
                 ELSE residual_holds(p[1], p[2])}

InOrder(pairs) ==
  InOrderOf(pairs, {pq \in pairs \X pairs :
    \/ pq[1][1] < pq[2][1]
    \/ pq[1][1] = pq[2][1] /\ pq[1][2] <= pq[2][2]})

\* Mutant of output_pairs: a padded row for each probe row without a candidate.
output_pairs_padless(type, kept, matchedProbe, batch) ==
  CASE type = "semi" -> InOrder({<<l, 0>> : l \in matchedProbe})
    [] type = "anti" -> InOrder({<<l, 0>> : l \in batch \ matchedProbe})
    [] OTHER -> InOrder(kept)

output_pairs(type, kept, matchedProbe, batch) ==
  LET lonely == InOrder({<<l, 0>> : l \in batch \ matchedProbe})
  IN  CASE type = "semi" -> InOrder({<<l, 0>> : l \in matchedProbe})
        [] type = "anti" -> lonely
        [] preserves_left(type) -> InOrder(kept) \o lonely
        [] OTHER -> InOrder(kept)

\* One batch of n probe rows through next(); with nothing to emit the loop goes
\* on to the next batch.
Probe(algorithm, n) ==
  LET batch == probe_at + 1..probe_at + n
      pairs == {p \in batch \X RightRows : p[2] \in Candidates(algorithm, p[1])}
      kept == apply_residual(algorithm, pairs)
      matchedProbe == {p[1] : p \in kept}
  IN  /\ build_read /\ ~ flushing
      /\ batch \subseteq LeftRows
      /\ probe_at' = probe_at + n
      /\ matched' = IF preserves_right(plan.type) THEN matched \cup {p[2] : p \in kept}
                    ELSE matched
      /\ out' = out \o output_pairs(plan.type, kept, matchedProbe, batch)
      /\ UNCHANGED <<buildVars, flushVars, status, plan>>

\* Mutant of ProbeEnd: the loop goes on when there is nothing to flush either.
ProbeEnd_continue ==
  /\ build_read /\ ~ flushing
  /\ probe_at = Len(plan.left)
  /\ flushing' = preserves_right(plan.type)
  /\ UNCHANGED <<buildVars, probe_at, matched, flush_pos, out, status, plan>>

ProbeEnd ==
  /\ build_read /\ ~ flushing
  /\ probe_at = Len(plan.left)
  /\ IF preserves_right(plan.type)
     THEN flushing' = TRUE /\ UNCHANGED status
     ELSE status' = "done" /\ UNCHANGED flushing
  /\ UNCHANGED <<buildVars, probe_at, matched, flush_pos, out, plan>>

\* The next batch of build rows nothing matched.
Flush ==
  LET ahead == {r \in RightRows : flush_pos < r /\ r \notin matched}
      batch == {r \in ahead : Cardinality({o \in ahead : o <= r}) <= BatchSize}
  IN  /\ flushing
      /\ flush_pos' = IF Cardinality(batch) = BatchSize
                      THEN CHOOSE r \in batch : \A o \in batch : o <= r
                      ELSE Len(plan.right)
      /\ out' = out \o InOrder({<<0, r>> : r \in batch})
      /\ status' = IF batch = {} THEN "done" ELSE status
      /\ UNCHANGED <<buildVars, probe_at, matched, flushing, plan>>

\* algorithm is "hash" or "nested loop".
HashNext(algorithm) ==
  /\ status = "running"
  /\ Build \/ (\E n \in 1..BatchSize : Probe(algorithm, n)) \/ ProbeEnd \/ Flush
-----------------------------------------------------------------------------
(* exec/merge.rs: both inputs are read once, in step.  The right rows that *)
(* share the key at hand are kept as a run and replayed for each left row. *)

VARIABLES
  left,         \* the rows of the sides in the order they arrive
  right,
  left_at,      \* the cursors: the place of the next row
  right_at,
  run,          \* the right rows that share run_key
  run_matched,  \* those that have matched something
  run_key,      \* a key, or NoKey
  pending,      \* output rows not yet returned
  finished

sideVars == <<left, right, left_at, right_at>>
runVars == <<run, run_matched, run_key>>
mergeVars == <<sideVars, runVars, pending, finished>>

\* None; a merge join has at least one key.
NoKey == <<>>

\* A forced merge join sorts its inputs first.
Arrival(input, columns) ==
  IF plan.algorithm = "ForceMergeJoin" THEN sort(input, sorted_on(columns))
  ELSE [i \in DOMAIN input |-> i]

MergeInit ==
  /\ IF plan.kind = "join"
     THEN /\ left = Arrival(plan.left, [i \in DOMAIN plan.equi |-> plan.equi[i].left])
          /\ right = Arrival(plan.right, [i \in DOMAIN plan.equi |-> plan.equi[i].right])
     ELSE left = <<>> /\ right = <<>>
  /\ left_at = 1
  /\ right_at = 1
  /\ run = <<>>
  /\ run_matched = {}
  /\ run_key = NoKey
  /\ pending = <<>>
  /\ finished = FALSE

\* MergeJoinExec::compare: NULL is least, and what does not compare ties.
CompareParts(a, b) ==
  IF NULL \in {a, b}
  THEN IF a = b THEN "equal" ELSE IF a = NULL THEN "less" ELSE "greater"
  ELSE IF Compare(a, b) = "none" THEN "equal" ELSE Compare(a, b)

compare(a, b) == Lexicographic([i \in DOMAIN a |-> CompareParts(a[i], b[i])])

\* MergeJoinExec::unmatchable.
has_null(key) == \E i \in DOMAIN key : key[i] = NULL

HasLeft == left_at <= Len(left)
HasRight == right_at <= Len(right)
leftRow == left[left_at]
rightRow == right[right_at]

\* The condition of the loop in fill().
Filling == Len(pending) < BatchSize /\ ~ finished

\* Mutant of Replays: only the right cursor is looked at.
Replays_never == FALSE

\* The run in the buffer is looked at before the right cursor, which is past it.
Replays == HasLeft /\ run_key # NoKey /\ compare(LeftKey(leftRow), run_key) = "equal"

\* emit_matches: what a left row and a run add to the pending rows ...
Matches(group) == Those(group, {m \in RightRows : residual_holds(leftRow, m)})

Emitted(group) ==
  LET hits == Matches(group)
  IN  CASE plan.type = "semi" -> IF hits = <<>> THEN <<>> ELSE <<<<leftRow, 0>>>>
        [] plan.type = "anti" -> IF hits = <<>> THEN <<<<leftRow, 0>>>> ELSE <<>>
        [] OTHER -> IF hits = <<>> /\ preserves_left(plan.type) THEN <<<<leftRow, 0>>>>
                    ELSE [i \in DOMAIN hits |-> <<leftRow, hits[i]>>]

\* ... and the rows of the run it marks: a filtering join stops at the first.
Marked(group) ==
  LET hits == Matches(group)
  IN  IF is_filtering(plan.type) /\ hits # <<>> THEN {hits[1]} ELSE ToSet(hits)

\* A second left row with the key of the run.
Replay ==
  /\ Filling
  /\ Replays
  /\ left_at' = left_at + 1
  /\ pending' = pending \o Emitted(run)
  /\ run_matched' = run_matched \cup Marked(run)
  /\ UNCHANGED <<left, right, right_at, run, run_key, finished, plan, out, status>>

\* flush_unmatched_run: what the run adds once the left is past it.
Unmatched ==
  IF preserves_right(plan.type)
  THEN LET lonely == Those(run, RightRows \ run_matched)
       IN  [i \in DOMAIN lonely |-> <<0, lonely[i]>>]
  ELSE <<>>

NoRun == run' = <<>> /\ run_matched' = {} /\ run_key' = NoKey

\* NULLs keep a place in the order, and are stepped over one by one.
LeftIsLonely ==
  /\ HasLeft
  /\ HasRight => \/ has_null(LeftKey(leftRow))
                 \/ /\ ~ has_null(RightKey(rightRow))
                    /\ compare(LeftKey(leftRow), RightKey(rightRow)) = "less"

RightIsLonely ==
  /\ HasRight
  /\ ~ LeftIsLonely
  /\ HasLeft => \/ has_null(RightKey(rightRow))
                \/ compare(LeftKey(leftRow), RightKey(rightRow)) = "greater"

\* A left row the right cursor is past, or that cannot match.
StepLeft ==
  /\ Filling /\ ~ Replays
  /\ LeftIsLonely
  /\ left_at' = left_at + 1
  /\ pending' = pending \o Unmatched
       \o (IF preserves_left(plan.type) \/ plan.type = "anti" THEN <<<<leftRow, 0>>>> ELSE <<>>)
  /\ NoRun
  /\ UNCHANGED <<left, right, right_at, finished, plan, out, status>>

StepRight ==
  /\ Filling /\ ~ Replays
  /\ RightIsLonely
  /\ right_at' = right_at + 1
  /\ pending' = pending \o Unmatched
       \o (IF preserves_right(plan.type) THEN <<<<0, rightRow>>>> ELSE <<>>)
  /\ NoRun
  /\ UNCHANGED <<left, right, left_at, finished, plan, out, status>>

\* load_run: the right rows from the cursor on that share the left row's key.
Sharing ==
  {i \in right_at..Len(right) :
     \A k \in right_at..i : compare(RightKey(right[k]), LeftKey(leftRow)) = "equal"}

Meet ==
  LET end == right_at + Cardinality(Sharing)
      loaded == SubSeq(right, right_at, end - 1)
  IN  /\ Filling /\ ~ Replays
      /\ HasLeft /\ HasRight /\ ~ LeftIsLonely /\ ~ RightIsLonely
      /\ run' = loaded
      /\ run_key' = LeftKey(leftRow)
      /\ run_matched' = Marked(loaded)
      /\ right_at' = end
      /\ left_at' = left_at + 1
      /\ pending' = pending \o Unmatched \o Emitted(loaded)
      /\ UNCHANGED <<left, right, finished, plan, out, status>>

Exhausted ==
  /\ Filling /\ ~ Replays
  /\ ~ HasLeft /\ ~ HasRight
  /\ finished' = TRUE
  /\ pending' = pending \o Unmatched
  /\ NoRun
  /\ UNCHANGED <<sideVars, plan, out, status>>

\* next() once fill() returns.
ReturnPending ==
  LET take == IF Len(pending) < BatchSize THEN Len(pending) ELSE BatchSize
  IN  /\ ~ Filling
      /\ out' = out \o SubSeq(pending, 1, take)
      /\ pending' = SubSeq(pending, take + 1, Len(pending))
      /\ status' = IF pending = <<>> THEN "done" ELSE status
      /\ UNCHANGED <<sideVars, runVars, finished, plan>>

MergeNext ==
  /\ status = "running"
  /\ Replay \/ StepLeft \/ StepRight \/ Meet \/ Exhausted \/ ReturnPending
================================================================================
