---------------------------- MODULE QueryPipeline ----------------------------
(***************************************************************************)
(* The operators of SELECT ... FROM t WHERE p LIMIT fetch OFFSET skip      *)
(* after optimization: QueryStream pulls from Project(Limit(Filter(leaf))),*)
(* where the leaf is a ScanExec or, if an index names the rows, an         *)
(* IndexScanExec.  Everything runs on the caller's thread: one operator is *)
(* at work, holding at most one batch, and a call to next() is where the   *)
(* work passes down.                                                       *)
(*                                                                         *)
(* A row is its position in the table and a batch the set of its rows.     *)
(* What the metadata of a row group lets the scan skip is any choice that  *)
(* loses no match: ZoneMapProofs shows prune.rs makes such a choice.       *)
(***************************************************************************)
EXTENDS Integers, FiniteSets

CONSTANTS
  G,         \* the number of row groups
  Starts,    \* Table::row_group_starts: first row of each group, then the total
  BatchSize,
  Skips,     \* the OFFSETs considered
  Fetches,   \* the LIMITs considered, NoFetch among them
  NoFetch,
  Queries    \* the queries considered, see Query

ASSUME PipelineAssumption ==
  /\ G \in Nat
  /\ Starts \in [1..G + 1 -> Nat]
  /\ Starts[1] = 0
  /\ \A g \in 1..G : Starts[g] <= Starts[g + 1]
  /\ BatchSize \in Nat \ {0}
  /\ Skips \subseteq Nat
  /\ NoFetch \notin Nat
  /\ Fetches \subseteq Nat \cup {NoFetch}

Group == 1..G
Row == {r \in 0..Starts[G + 1] : r < Starts[G + 1]}
num_rows(g) == Starts[g + 1] - Starts[g]
GroupRows(g) == {r \in Row : Starts[g] <= r /\ r < Starts[g + 1]}

GroupVerdict == {"untouched", "scanned", "zone map", "bloom", "encoding"}
Ruled == {"zone map", "bloom", "encoding"}

VARIABLES
  query,           \* what is fixed when the operators are built
  at,              \* the operator at work, or "client"
  batch,           \* the rows of the batch in its hands
  row_group,       \* ScanExec
  offset_in_group,
  opened,          \* the row group was decided on and group_columns filled
  row_group_verdicts,
  row_groups_scanned,
  row_groups_pruned,
  rows,            \* IndexScanExec: the rows not yet gathered
  seen,            \* LimitExec
  emitted,
  returned,        \* what next_batch has handed back
  status

scan == <<row_group, offset_in_group, opened, row_group_verdicts,
          row_groups_scanned, row_groups_pruned>>
limit == <<seen, emitted>>
stream == <<returned, status>>
vars == <<query, at, batch, scan, rows, limit, stream>>

Query ==
  [match : SUBSET Row,      \* the rows that satisfy the predicate
   faulty : SUBSET Row,     \* the rows the predicate cannot be evaluated on
   unprojectable : SUBSET Row, \* nor the select list
   unreadable : SUBSET Group,  \* the groups whose columns do not decode
   ruled_out : [Group -> Ruled \cup {"nothing"}],
   leaf : {"scan", "index"},
   named : SUBSET Row,      \* the rows the index names
   skip : Skips,
   fetch : Fetches]

ASSUME QueriesAssumption == Queries \subseteq Query

\* One-sided structures: what they rule out holds no match, what the index
\* leaves out is none.
Sound(q) ==
  /\ \A g \in Group : q.ruled_out[g] # "nothing" => GroupRows(g) \cap q.match = {}
  /\ q.leaf = "index" => q.match \subseteq q.named

\* The n-th row of a set of rows, counting from one.
Rank(S, r) == Cardinality({x \in S : x <= r})

\* The row groups an index scan of these rows touches.
Touched(named) == {g \in Group : GroupRows(g) \cap named # {}}

\* IndexScanExec::new counts them, and those it need not touch, before it reads any.
PlannedScans(q) == IF q.leaf = "index" THEN Cardinality(Touched(q.named)) ELSE 0
PlannedPrunes(q) == IF q.leaf = "index" THEN G - Cardinality(Touched(q.named)) ELSE 0

Start(q) ==
  /\ query = q
  /\ at = "client"
  /\ batch = {}
  /\ row_group = 1
  /\ offset_in_group = 0
  /\ opened = FALSE
  /\ row_group_verdicts = [g \in Group |-> "untouched"]
  /\ row_groups_scanned = PlannedScans(q)
  /\ row_groups_pruned = PlannedPrunes(q)
  /\ rows = IF q.leaf = "index" THEN q.named ELSE {}
  /\ seen = 0
  /\ emitted = 0
  /\ returned = {}
  /\ status = "running"

Init == \E q \in Queries : Sound(q) /\ Start(q)
-----------------------------------------------------------------------------
\* QueryStream::next_batch; the call runs through Project to Limit.
NextBatch ==
  /\ at = "client"
  /\ status = "running"
  /\ at' = "limit"
  /\ UNCHANGED <<query, batch, scan, rows, limit, stream>>

\* An operator answered None or an error: so does each operator above it.
Answer(outcome) ==
  /\ at' = "client"
  /\ batch' = {}
  /\ status' = outcome

\* Mutant of exhausted: one row too late.
exhausted_late == query.fetch # NoFetch /\ emitted > query.fetch

\* LimitExec stops pulling once the limit is met.
exhausted == query.fetch # NoFetch /\ emitted >= query.fetch

LimitMet ==
  /\ at = "limit"
  /\ batch = {}
  /\ exhausted
  /\ Answer("done")
  /\ UNCHANGED <<query, scan, rows, limit, returned>>

LimitPull ==
  /\ at = "limit"
  /\ batch = {}
  /\ ~ exhausted
  /\ at' = query.leaf
  /\ UNCHANGED <<query, batch, scan, rows, limit, stream>>
-----------------------------------------------------------------------------
\* Mutant of Record: a skipped group is coloured like a read one.
Record_scanned(g, verdict) ==
  row_group_verdicts' = [row_group_verdicts EXCEPT ![g] = "scanned"]

Record(g, verdict) == row_group_verdicts' = [row_group_verdicts EXCEPT ![g] = verdict]

Entering == at = "scan" /\ row_group \in Group /\ offset_in_group = 0 /\ ~ opened

\* ScanExec::next, the row-group decision: metadata rules the group out ...
SkipGroup ==
  /\ Entering
  /\ query.ruled_out[row_group] # "nothing"
  /\ Record(row_group, query.ruled_out[row_group])
  /\ row_groups_pruned' = row_groups_pruned + 1
  /\ row_group' = row_group + 1
  /\ UNCHANGED <<query, at, batch, offset_in_group, opened, row_groups_scanned,
                 rows, limit, stream>>

\* ... or its columns are fetched, which may mean decoding them.
OpenGroup ==
  /\ Entering
  /\ query.ruled_out[row_group] = "nothing"
  /\ Record(row_group, "scanned")
  /\ row_groups_scanned' = row_groups_scanned + 1
  /\ IF row_group \in query.unreadable
     THEN Answer("failed") /\ UNCHANGED opened
     ELSE opened' = TRUE /\ UNCHANGED <<at, batch, status>>
  /\ UNCHANGED <<query, row_group, offset_in_group, row_groups_pruned,
                 rows, limit, returned>>

EmitBatch ==
  LET first == Starts[row_group] + offset_in_group
      rest == num_rows(row_group) - offset_in_group
      len == IF BatchSize < rest THEN BatchSize ELSE rest
  IN  /\ at = "scan"
      /\ row_group \in Group
      /\ opened
      /\ offset_in_group < num_rows(row_group)
      /\ batch' = {r \in Row : first <= r /\ r < first + len}
      /\ offset_in_group' = offset_in_group + len
      /\ at' = "filter"
      /\ UNCHANGED <<query, row_group, opened, row_group_verdicts, row_groups_scanned,
                     row_groups_pruned, rows, limit, stream>>

LeaveGroup ==
  /\ at = "scan"
  /\ row_group \in Group
  /\ opened
  /\ offset_in_group >= num_rows(row_group)
  /\ row_group' = row_group + 1
  /\ offset_in_group' = 0
  /\ opened' = FALSE
  /\ UNCHANGED <<query, at, batch, row_group_verdicts, row_groups_scanned,
                 row_groups_pruned, rows, limit, stream>>

ScanEnd ==
  /\ at = "scan"
  /\ row_group \notin Group
  /\ Answer("done")
  /\ UNCHANGED <<query, scan, rows, limit, returned>>
-----------------------------------------------------------------------------
group_of(r) == CHOOSE g \in Group : r \in GroupRows(g)

\* IndexScanExec::next gathers up to a batch of the named rows, in table order
\* and from one row group.
Gather ==
  LET next == CHOOSE r \in rows : \A other \in rows : r <= other
      group == group_of(next)
      local == {r \in rows \cap GroupRows(group) : Rank(rows, r) <= BatchSize}
  IN  /\ at = "index"
      /\ rows # {}
      /\ rows' = rows \ local
      /\ IF group \in query.unreadable
         THEN Answer("failed")
         ELSE batch' = local /\ at' = "filter" /\ UNCHANGED status
      /\ UNCHANGED <<query, scan, limit, returned>>

\* Mutant of IndexEnd: an empty batch instead of the end.
IndexEnd_empty_batch ==
  /\ at = "index"
  /\ rows = {}
  /\ at' = "filter"
  /\ UNCHANGED <<query, batch, scan, rows, limit, stream>>

IndexEnd ==
  /\ at = "index"
  /\ rows = {}
  /\ Answer("done")
  /\ UNCHANGED <<query, scan, rows, limit, returned>>
-----------------------------------------------------------------------------
\* FilterExec::next evaluates the predicate on the whole batch; an empty
\* result is not handed upward, another batch is pulled instead.
Filter ==
  LET keep == batch \cap query.match
  IN  /\ at = "filter"
      /\ IF batch \cap query.faulty # {}
         THEN Answer("failed")
         ELSE /\ batch' = keep
              /\ at' = IF keep = {} THEN query.leaf ELSE "limit"
              /\ UNCHANGED status
      /\ UNCHANGED <<query, scan, rows, limit, returned>>

\* Mutant of Dropped: the OFFSET is taken from every batch.
Dropped_each_batch(n) == IF query.skip < n THEN query.skip ELSE n

\* The rows of a batch of n that the OFFSET still covers.
Dropped(n) ==
  IF seen >= query.skip THEN 0
  ELSE IF query.skip - seen < n THEN query.skip - seen ELSE n

\* LimitExec::next on a batch: drop what the OFFSET still covers, cut what the
\* LIMIT no longer does, and pull again if nothing is left.
Limit ==
  LET n == Cardinality(batch)
      start == Dropped(n)
      room == query.fetch - emitted
      available == IF query.fetch # NoFetch /\ room < n - start THEN room ELSE n - start
  IN  /\ at = "limit"
      /\ batch # {}
      /\ seen' = seen + n
      /\ emitted' = emitted + available
      /\ batch' = {r \in batch : start < Rank(batch, r) /\ Rank(batch, r) <= start + available}
      /\ at' = IF available = 0 THEN "limit" ELSE "project"
      /\ UNCHANGED <<query, scan, rows, stream>>

\* ProjectExec::next computes the select list, row for row, and next_batch
\* hands the batch to its caller.
Project ==
  /\ at = "project"
  /\ IF batch \cap query.unprojectable # {}
     THEN Answer("failed") /\ UNCHANGED returned
     ELSE /\ returned' = returned \cup batch
          /\ batch' = {}
          /\ at' = "client"
          /\ UNCHANGED status
  /\ UNCHANGED <<query, scan, rows, limit>>

Next ==
  \/ NextBatch \/ LimitMet \/ LimitPull
  \/ SkipGroup \/ OpenGroup \/ EmitBatch \/ LeaveGroup \/ ScanEnd
  \/ Gather \/ IndexEnd
  \/ Filter \/ Limit \/ Project

\* The caller drains the stream: the worker's loop, or exec::collect.
Spec == Init /\ [][Next]_vars /\ WF_vars(Next)
-----------------------------------------------------------------------------
TypeOK ==
  /\ query \in Query
  /\ at \in {"client", "limit", "scan", "index", "filter", "project"}
  /\ batch \in SUBSET Row
  /\ row_group \in 1..G + 1
  /\ offset_in_group \in Nat
  /\ opened \in BOOLEAN
  /\ row_group_verdicts \in [Group -> GroupVerdict]
  /\ row_groups_scanned \in 0..G
  /\ row_groups_pruned \in 0..G
  /\ rows \in SUBSET Row
  /\ seen \in Nat
  /\ emitted \in Nat
  /\ returned \in SUBSET Row
  /\ status \in {"running", "done", "failed"}

\* The rows of the answer: the matches past the OFFSET and within the LIMIT.
Wanted ==
  {r \in query.match :
     /\ query.skip < Rank(query.match, r)
     /\ query.fetch # NoFetch => Rank(query.match, r) <= query.skip + query.fetch}

(***************************************************************************)
(* Whichever leaf reads the table, whatever the metadata let it skip and   *)
(* wherever batches end, the caller gets exactly the wanted rows, in table *)
(* order, once each, in batches that are never empty; "done" means all of  *)
(* them.  (The equivalence the agreement tests demand of every option.)    *)
(***************************************************************************)
Answers == INSTANCE QueryAnswer WITH answer <- Wanted
AnswersTheQuery == Answers!Spec

\* A stream that is pulled comes to an end: no operator loops for ever on
\* batches that come out empty or on row groups it keeps deciding about.
Terminates == <>(status # "running")

(***************************************************************************)
(* The counters and the verdicts of a scan tell one story: each row group  *)
(* the scan is past was scanned or ruled out, none ahead of it is coloured *)
(* (an early stop leaves "untouched" behind), and the counters count them: *)
(* a row group is decided on, and decoded, once and not once per batch.    *)
(* An index scan colours none, and has counted from the start the groups   *)
(* its rows stand in: what EXPLAIN compares the two leaves by.             *)
(***************************************************************************)
VerdictsMatchCounters ==
  LET decided == {g \in Group : row_group_verdicts[g] # "untouched"}
      scanned == {g \in Group : row_group_verdicts[g] = "scanned"}
  IN  /\ TypeOK
      /\ query.leaf = "scan" =>
           /\ decided = {g \in Group : g < row_group \/ (g = row_group /\ row_groups_scanned
                                          + row_groups_pruned = row_group)}
           /\ opened => row_group \in scanned
           /\ row_groups_scanned = Cardinality(scanned)
           /\ row_groups_pruned = Cardinality(decided \ scanned)
      /\ query.leaf = "index" =>
           /\ decided = {}
           /\ row_groups_scanned = Cardinality(Touched(query.named))
           /\ row_groups_scanned + row_groups_pruned = G

\* LimitExec stops pulling: a row group is opened, or a row gathered, only
\* while the rows before it leave the LIMIT unmet.
LimitReadsNoFurther ==
  query.fetch # NoFetch =>
    LET wanted == query.skip + query.fetch
        before(r) == Cardinality({m \in query.match : m < r})
    IN  /\ \A g \in Group : row_group_verdicts[g] = "scanned" => before(Starts[g]) < wanted
        /\ at = "filter" => \E r \in batch : before(r) < wanted
==============================================================================
