# Verification of the query engine

This directory holds TLA+ models of the SQL engine in `src/crates/engine`, of
the page and the worker that run it in a browser (`src/web/src`,
`src/crates/wasm`), the configurations that check them with TLC, and proofs
checked by TLAPS. A module is named for the part it models and keeps the
source's names; `PROJECT.json` gives, for every definition, the lines it stands
for.

## The system

The engine runs a SQL text over in-memory or Parquet tables, in one thread,
inside a browser worker (compiled to WebAssembly) or a command line. Text is
lexed, parsed, bound to a logical plan, rewritten by the optimizer and turned
into a tree of pull operators (`exec/mod.rs::build_node`). The caller pulls
batches from the root.

| part | state it keeps | operations | talks to | what is hard | what makes it correct |
| --- | --- | --- | --- | --- | --- |
| row groups, zone maps, bloom filters (`storage/rowgroup.rs`, `exec/prune.rs`) | per column: bounds, null count, a filter | compute or read metadata; evaluate a predicate on it | scan asks before it decodes | three-valued logic under NOT; missing, NaN and inexact metadata | a skipped group holds no match |
| encodings (`storage/encoding.rs`) | a column in one of five forms | encode, decode, answer a predicate encoded | scan, filter | bit packing across words, wrap-around, slots of NULLs | decode restores; encoded and plain answers agree |
| Parquet reader (`storage/parquet/`) | a column decoded once and cached | read a footer; decode pages, levels, values | row groups, scan | padding, lengths that are there or not, levels and values walked together | the column that was written, the bounds of that column |
| CSV reader (`storage/csv.rs`) | types inferred, rows being built | scan a record, infer, build | catalog | quotes and line ends; a sample that is not the file | the table that was written, or a refusal |
| scan, filter, limit, project, stream (`exec/mod.rs`, `lib.rs`) | cursors, counters, verdicts per row group | `next()` of each, `next_batch` | each pulls from the one below | loops over empty batches; early stop; failures mid-way | exactly the wanted rows, once, in order; counters tell the truth |
| B+ tree (`storage/btree.rs`) | an arena of nodes, a leaf chain | insert with splits, lookup, bounded range | catalog builds it, index scan asks it | cascading splits, ends of ranges | balanced and ordered; ranges name exactly their rows |
| catalog and index selection (`catalog/mod.rs`, `exec/index.rs`) | tables, statistics, indexes by name | register, remove, create and drop an index; pick an index | open streams hold tables of their own | sequences of catalog changes around an open stream | an index changes what is read, never what is returned |
| joins (`exec/join.rs`, `exec/merge.rs`) | hash table, match flags; two cursors and a run | build, probe, flush; step, meet, replay | pull from two inputs | ordering assumptions, runs of duplicates, padding | the rows of the join, whichever algorithm |
| sort, top-N (`exec/sort.rs`) | a permutation; a heap | build, emit | under a limit | what a full heap gives up; NULL and NaN placement | a top-N returns what limit-over-sort would |
| aggregates (`exec/aggregate.rs`) | a table of groups, or the one open group | update, finish, emit | sorted or unsorted input | groups that do not arrive together; overflow | every group once, with its value |
| set operations (`exec/setop.rs`) | keys returned, copies left | count right, keep, emit | two inputs | multiplicities across batches | `min`, `max(0, l - r)` or one copy of each row |
| windows (`exec/window.rs`) | the sorted rows with their values | build, emit | one input | partitions, peers, frame ends | each row with the value of its frame |
| evaluators (`expr/scalar.rs`, `expr/vector.rs`) | selection, validity, masks | one kernel per expression | filter, project | short circuits and errors on rows not selected; filler under NULLs | the batch evaluator agrees with the row one |
| parser (`parser/mod.rs`) | a position in the tokens | one function per construct; precedence climbing | lexer, binder | levels, associativity, what follows BETWEEN .. AND | a tree that is the text |
| binder (`binder/mod.rs`, `plan/mod.rs`) | scopes, relation ids, frames of outer queries | one function per clause | catalog, parser | which relation a name means; aggregates and hidden sort columns; nullability after an outer join | a plan that answers what is written |
| optimizer (`optimizer/`) | a plan, a count of applications | eleven rules, applied until none applies | binder, statistics | NULL rejection, decorrelation, columns that move | a rewritten plan has the same answer, at every step |
| browser session (`web/src`, `crates/wasm`) | catalog copy, running flag, pending requests, panels | post, await, answer; stream | page and worker exchange messages | stale copies, requests never answered, runs that overlap | every request answered once; what is drawn is one query's answer |
| lexer; statistics and costs; command line; page widgets; test tools | | | | | |

There is no concurrency inside the engine: interleavings are those of a caller
that changes the catalog between two batches of a stream it holds open, of
operators that call one another, and of page and worker. Nothing is persisted.

## Modules

| module | models | state and actions |
| --- | --- | --- |
| `SqlValues` | `types.rs::compare`, the connectives of `expr/mod.rs`, the leaves of `expr/scalar.rs` | operators only. A value is NULL, NaN or a number |
| `ZoneMap` | `Certainty` and the arms of `prune::evaluate` and `bloom_rejects`; `min_max`, `ColumnStats::compute`; the evaluation of any predicate over a row group, in postfix order: one action per kind of node, `stack` holding for each subexpression its verdict, the bloom verdict and the truth of each row. A row group is built in memory or read from a file whose metadata `Describes` it | `num_rows`, `group`, `stats`, `blooms`, `stack` |
| `QueryAnswer` | what a stream promises its caller, without operators: an abstract specification | `answer`, `returned`, `status` |
| `QueryPipeline` | `QueryStream`, `ProjectExec`, `LimitExec`, `FilterExec`, `ScanExec`, `IndexScanExec` with the counters its constructor sets; `at` is the operator whose `next()` is at work | one action per way a `next()` can go on; refines `QueryAnswer` |
| `IndexRange` | `exec/index.rs::extract_range`: a conjunction narrowed to one range of a column | operators only |
| `BTree` | the arena, `insert` with its splits, `lookup`, `range_limited`; an insertion is one action as no one looks in between | `nodes`, `root`, `height`, `num_keys`, `column` |
| `Catalog` | `register` (of a name in use too), `remove`, `create_index`, `drop_index`, with open streams. An index is known by the table it was built from | `tables`, `statistics`, `indexes`, `streams` |
| `Encodings` | the four compressed forms and the plain one, the bit writer and reader, `decode`, `can_match`, `evaluate` | a column grows row by row, then is sealed in any form that applies |
| `CsvReader` | both passes over a text: `next_record`, inference from a sample, the decision of the types, row groups | an action per record of a pass; `pos`, `inferences`, `schema`, `builders`, `groups` |
| `ParquetReader` | a column chunk from its footer to the cached column: `check_supported`, `chunk_stats`, the loop of `decode_chunk`, levels, every encoding, `assemble` | an action per page; `offset`, `dictionary`, `present`, `values`, `column`. A failed chunk may be asked for again |
| `Operator` | `compare_rows`, the orderings of `exec/ordering.rs`, `KeyValue`; what operators share: a plan, the rows returned, a status; rows built and emitted a batch at a time | `plan`, `out`, `status`; `at`, `built`, `rows`, `emitted` |
| `JoinOperator` | `build_join`, the ON condition and the reference answer; `HashJoinExec`, `NestedLoopJoinExec`; `MergeJoinExec` | build, probe, flush; the loop of `fill()`, an action per branch |
| `Sorting` | `SortExec`, `TopNExec` row by row; where rows tie a heap may give up any; `WindowExec`, which sorts too | `heap` |
| `Grouping` | `HashAggregateExec`, `SortAggregateExec` and the choice between them; `DistinctExec`, `SetOpExec` | `groups`, `open`, `input_ended`; `seen`, `counts`, `left_done`, `right_read` |
| `Operators` | composes the operator modules; the plan's kind says which one runs | |
| `Expressions` | bound expressions and their meaning, row by row (`expr/scalar.rs`): arithmetic in `Width` bits, BETWEEN, IN, LIKE, CASE, CAST, what `can_raise` says | operators only; an error is the value RAISE |
| `Vectorized` | `expr/vector.rs`: compilation against a layout, selections, masks, the kernel of each node with its scalar and column forms, the row-wise rest | one expression over one batch, an action |
| `Plans` | the plan tree of `plan/mod.rs`: layouts, walks, the relations a plan defines and reads, and what each node answers | operators only |
| `Rules` | the rules of `optimizer/rules/`: pushdown, outer to inner, limits, folding and simplification; decorrelation and the folding of a subquery's rows into a value, partial aggregates, join order | operators only: a rule gives the node to put in place, or none |
| `Optimizer` | the rules about columns: common subexpressions and pruned scans; and `optimizer/mod.rs`: the first rule that applies anywhere, bottom up, until none does or the cap is met. A subquery is run on what an `optimize` of its own makes of it, whose error is dropped, as in `decorrelate.rs::evaluate`. What an estimate decides is a free choice (`policy`) | `plan`, `next`, `steps`, `status`, `policy` |
| `Parser` | `parser/mod.rs`: each parse function as an operator from a place in the tokens to what can be read there | operators only |
| `Binder` | `binder/mod.rs`: each bind function as an operator from a tree and the binder's state to a plan or an expression with its type | operators only |
| `Reading` | a statement parsed, then bound. What a statement means is defined on its tree, with names and no ids | `tokens`, `meant`, `trees`, `plans`, `status` |
| `RequestReply` | what the page's handle on the engine promises: an abstract specification | `request` |
| `Session` | `main.ts` from one await to the next, `client.ts`, `worker.ts` and the engine behind it; two queues of messages | an action per kind of message, per resumption of the page and per click; refines `RequestReply` |

`MC...` modules give the constants small values; a `.cfg` picks the properties.
`MCPruning`, `MCEvaluation` and `MCLoading` also put components side by side that
share no state, one of which moves in a behaviour. `ZoneMapProofs`, `QueryPipelineProofs`, `CatalogProofs`,
`OperatorProofs`, `JoinProofs`, `AggregateProofs` and `SessionProofs` hold the theorems,
`ProofBasics` the lemmas they share.

Composition: `QueryPipeline` takes what the metadata rules out as any sound
choice (`Sound`), which `ZoneMapProofs` proves of `prune.rs`, and what an index
names as any superset of the matches, which `Catalog` checks on top of
`IndexRange`; `Catalog` takes a tree to name the rows of a range, which `BTree`
checks. `ParquetReader` shows that a chunk's metadata describes its rows, which
`ZoneMap` requires of a file (`Describes`). `Operators` puts the operators
behind one interface. `Optimizer` and `Binder` meet in `Plans`: one rewrites
plans and the other makes them, and both are judged by what a plan answers.
`Expressions` is the reference of `Vectorized` and the meaning of expressions in
`Plans`. `Session` takes the engine as a catalog and the batches of an answer.

## What is checked

| run | question | bounds, and what they make happen |
| --- | --- | --- |
| `pruning` | Does anything that narrows a scan lose a row? Three parts that share no state, one of which moves: a row group's zone map and filters, a tree being built, the catalog around a stream | one column, two rows, values 0..5, NULL and NaN, every null count a file may record, predicates of two leaves deep in NOT, AND and OR. Bounds equal to, inside and outside literals all occur, and so do colliding and class-dependent hashes. A longer predicate combines verdicts, not rows, and the proof covers it. Nodes of two keys, six rows of five keys or NULL, in every order: three levels, duplicates, a cascade to the root. Two names for two tables of different length, loaded in any order and again over each other, two columns, a stream left open across the changes |
| `query_pipeline` | Does a stream return its answer, stop when it may, and end? | groups of 3, 0 and 2 rows, batches of 2, OFFSET 0..1, LIMIT 0..2 or none, at most one defective row or group. Batches end inside and at the end of a group and a limit falls inside, at the end of and between batches |
| `stale_index` | a finding, below | the same bounds, one name's index older than its table |
| `loading` | Is what is loaded what was written, and refused only what must be? | texts of up to three records of one field of thirteen kinds, or two records of two; a sample of one record or of all. Chunks of up to seven rows in one page or two, groups of two values and miniblocks of two in blocks of four, integers of four bits: a run and a miniblock are padded, a block is followed by another, a delta wraps, a dictionary has one value (indices of no bits) or is given up midway; and nine ways in which a chunk is not well formed |
| `operators` | Does every operator return what SQL asks for, and end? | the plans listed in `MCOperators`, batches of two rows: each operator ends a batch inside its input and inside its output. Merge joins of inputs that arrive descending, or with a NaN, are among them and have to keep their types and end |
| `descending_merge` | a finding, below | a left input of one row, a right one of two, both sorted descending |
| `evaluation` | Do the two evaluators agree, errors included; and is every encoded form the column, to decode and to predicates? Expressions and encodings share no state, one of them moves | expressions two levels deep over two relations of integers, floats with NaN, booleans and texts, all with NULLs; four rows of which any subset is live; integers of two bits, so that arithmetic overflows. Columns of up to five values in 4-bit words and blocks of two; values straddle words. `AllNull` is FALSE: no text column of NULLs alone |
| `reading` | Is a statement read back as it was written, and does its plan answer it? | every expression of two levels of operators and some of three, statements with each clause, every line of up to four tokens of a small vocabulary; statements over two tables with aggregates, set operations, nested queries, WITH, ORDER BY and string literals beside other types for the binder; precisions of DECIMAL on either side of its limits |
| `optimizer` | Does a rewrite ever change an answer or break a reference, and do rewrites end? | families of bound queries over three tables of two or three rows with NULLs, each for the rules that meet in it; every rule fires. Subqueries hold subqueries, correlated with either query around them or with none. Integers have five bits; the longest rewriting takes fewer steps than the cap of 15 |
| `session` | Do page and worker agree, whatever order replies and clicks come in? | two tables at the start, one collection, four queries (one works, one names a table not yet loaded, one does not parse, one plans and cannot be built), two clicks; a table with a column that does not decode; a query that streams in batches and one that does not; an engine that fails to load |
| `tolerant_filter` | a finding, below | the smallest query that shows it |
| `nested_subquery` | a finding, below | an EXISTS over a table that holds an IN over another |

A type invariant is stated with the invariants of its module (the first conjunct
of `Validates`, `VerdictsMatchCounters`, `CatalogConsistent`, `DecodeRestores`,
`NothingBehindIsWanted`, `CopyIsCurrent`); that of `ZoneMap` is proved. The
properties are:

* `ZoneMapKeepsEveryMatch`, `BloomKeepsEveryMatch`: a verdict AlwaysFalse, or a
  rejection, is about every row. `AlwaysTrueRefutesFalse`: the verdict AlwaysTrue
  means no more than "no row is FALSE"; with NULLs a row may be unknown. This is
  weaker than the name says and is all that NOT needs.
* `AnswersTheQuery`: the pipeline implements `QueryAnswer`.
  `VerdictsMatchCounters`, `LimitReadsNoFurther`: what the page shows of a scan
  is what the scan did, and a LIMIT stops it.
* `Validates`, `ScansNameExactly`: the tree, its ranges and its lookups.
* `CatalogConsistent`, `IndexNarrows`: the catalog around a stream, however old
  the index it reads by: what it returns are the matches the index named, and
  these are all of them when the index is of the stream's own table.
  `IndexNeverDecides` is what `exec/index.rs` promises of every stream; it is
  violated (`stale_index`).
* `DecodeRestores`, `CanMatchKeepsEveryMatch`, `EvaluateAgrees`: encodings.
* `LoadedIsWritten`, `OnlyBeyondTheSample`: a CSV file. `ChunkIsWritten`: a
  column chunk, its bounds and its null count; a well-formed chunk is never
  refused, and one that does not add up is never taken for a column.
* `ReturnsTheJoin`, `SortReturnsTheAnswer`, `AggregateReturnsTheAnswer`,
  `SetStreamsTheAnswer`, `WindowReturnsTheAnswer`: an operator against a
  definition of its answer that has no batches, positions or algorithms. The
  first is of a merge join whose inputs come in the order it compares in
  (`InStep`); `EveryJoinAgrees`, of every join, is violated (`descending_merge`).
  `NothingBehindIsWanted`, `HeapHoldsTheBest`: why a run and a heap of k rows
  are memory enough.
* `EvaluatorsAgree`: the same value in every row, and an error where there is
  one. `RaisesOnlyIfItCan`: what the rules rely on before they move an
  expression.
* `ReadsBack`, `NothingIsLost`: the parser against a writer of statements that
  puts parentheses where the levels ask for them. `BindsWhatIsMeant`: the plan
  of a statement answers what the statement means, and no column that can be
  NULL is declared otherwise.
* `AnswerKept`, `ColumnsResolve`: every plan on the way answers the query and
  reads only columns that are there. `OnlyTheCorrelatedIsRefused`,
  `ReachesAFixpoint`: what is refused, and that no order of rules meets the cap.
  `SubqueriesAreEvaluated`: a subquery that reads nothing around it fails only as
  it would if run as it was bound, so the inner optimizer, whose error nobody
  sees, has got rid of the subqueries nested in it.
* `AnswersOnce`: the session implements `RequestReply`. `EveryRequestSettles`:
  each request is answered unless the engine never loaded. `CopyIsCurrent`,
  `DrawnIsTheAnswer`, `PanelsAgree`: what the page shows.
* `Terminates`: a drained stream or operator ends.

Every property of a passing run comes with a mutant, a plausible mistake in one
definition that makes TLC report that property. The runs have no deadlock check
because what they model may stop: a stream, a load, a rewriting, a session whose
reader leaves.

**Fairness.** `QueryPipeline` assumes `WF_vars(Next)` and `Operators`
`WF_vars(Step)`: the one thread of the worker pulls until the stream says it is
done (the loop in `worker.ts` and `exec::collect`). A failure is a property of
the data in `QueryPipeline`; in `Operators` an input may fail at any time
(`Fail`) and no fairness makes it. `Session` assumes `WF_vars(Worker)` and
`WF_vars(Receive)`: both event loops go on taking messages. The reader's clicks
and the network's answers have none. `ReachesAFixpoint` needs no fairness: the
loop of the optimizer is bounded, and the property is that the bound is not met.

## What is proved

TLAPS checks seven modules of theorems. What a run shows on small instances they
show for every value of the constants that satisfies the assumptions stated with
them, which TLC evaluates on every run. `ProofBasics` holds the lemmas they
share: `Induction` over a set of natural numbers, `Recursion` (a recursive
function has the values it is meant to have), and the two ends of a queue.

**Zone maps** (`ZoneMapProofs`; assumed: numbers are integers and NULL and NaN
are none of them, a hash sets some bits, literals and metadata have their
types): `TypeCorrect`, `PruningSound`, `BloomSound`, `NegationSound`.
`ZoneMapKeepsEveryMatch` is not inductive: NOT turns AlwaysTrue into
AlwaysFalse, so what AlwaysTrue means has to be known too; a leaf's verdict is
right only because the metadata describes the rows; and a connective reads the
entries below the top of the stack. The invariant `Inv` joins `WalkTypeOK`,
`MetadataHolds` (bounds bound the numbers of a column, a null count of all or
none means what it says, a filter has the bits of every value) and `StackSound`
(each entry is `Sound`, verdict by verdict). Computed metadata holds
(`MinMaxBounds`, `NullCountMeaning`) as a file's does by `Describes`; leaves are
sound row by row, connectives preserve soundness, and one lemma per action puts
them together. `MaxDepth` bounds predicates in the runs only.

**The stream** (`QueryPipelineProofs`; assumed: row groups follow one another,
batches have rows, and what metadata or an index rules out holds no match, which
the other models show): `CountersAgree`, `StopsReading` and `StreamsTheAnswer`,
the refinement of `QueryAnswer` step by step.
A stream that has handed back a prefix of the answer is not yet one that will
go on to do so: the rows between the scan and the caller matter. The invariant
cuts the matches in three, in table order (`TableOrder`): those LIMIT has counted,
those in the batch under way, those still ahead of the leaf. `LimitCounts` ties
the counters to the size of the first part, through how many of the first n
matches OFFSET and LIMIT let through (`Admitted`), and `HandedBack` says that
what was counted and is wanted was handed back. The lemmas about ranks
(`RankInMiddle`, `RankAttained`) turn a batch's positions into those of the answer.
For the counters, `LeafPlaced` and `CountersPlaced` say that a group is decided
on once, when the scan enters it; those of an index scan are set before it reads
(`PlannedScans`, `PlannedPrunes`).

**The catalog** (`CatalogProofs`; assumed: tables are sequences of rows over
numbers and NULL, predicates are conjunctions of comparisons of a column with a
literal): `StaysConsistent` and `IndexOnlyNarrows`. Nothing is assumed of the order
in which names are loaded, so an index may be older than the table of its name, and
the second says what a stream returns whichever table its index is of. The first is inductive once `retain`
is known to leave the indexes on other columns, no two on one
(`WithoutLeaves`). For the second, `Proceeds` says of an open stream that the
matches among the rows it has read come before the rows it has still to read, and
are what it has returned; and if its index is of its own table, every match is among
those it was to read. A stream starts like that because the range
of a conjunction admits the key of every row that satisfies it and confines no
column that may be NULL in one (`NarrowSound`, one conjunct; `RangeSound`, by
induction over all), so that an index of the same table names every match
(`NamesEveryMatch`, `IndexScanSound`). It goes on like that because the rows of a
batch are the first of those left (`RankGrows`) and a batch in order behind
batches in order is in order (`InOrderContinues`).

**Sort and top-N** (`OperatorProofs`; assumed: rows have the columns of the keys,
and no key of a top-N is NaN, which its heap takes for a tie, see the
disagreements): `HeapKeepsTheBest` and `SortIsRight`. Both rest on one fact about
`compare_rows`: over any keys, ascending or not, NULLs first or last, it is a
total preorder (`RowsOrdered`, `RowsTransitive`), since the first key that does
not tie decides (`FirstDecides`) and each key is one (`Reverses`, `Transitive`).
`HeapHoldsTheBest` is inductive once the heap is known to hold rows already
read: what a full heap gives up is at most as good as all it keeps, hence as
all that come before those (`RowKept`). With the position of a row it is a total
order (`StableIsTotal`), whose listing has every row once and none before one it
follows (`Enumerated`, `SortSorts`). The invariant `SortRun` says what was built
and that `out` is its first `emitted` rows. That the i-th row of a top-N ties
with the i-th of the sort is a matter of counting: were one strictly before the
other, i different rows would have to be among i - 1 (`NoRoom`, `NotBefore`,
`TieByTie`).

**Set operations** (`OperatorProofs`; assumed: a row has a column, and values
that differ have different keys, see the disagreements): `SetOperationsCount`.
What a DISTINCT or a set operation has read is the beginning of one list, the
left input before the right one (`Given`), and whether its g-th row is returned
depends on the rows before it alone: on being the first of its kind or on how
many of its kind there were (`Owed`). The invariant `SetRun` says that `out` has
exactly the rows owed, each once (`HasReturned`), that `seen` has their keys
(`HasSeen`), and that `counts` is what the right input has of a key less what the
left one has used up (`HasCopies`); without the last two a batch cannot tell what
is owed (`Survivors`). A batch keeps it wherever it ends, because the copies of a
row among the first m + n rows are those among the first m and those in the batch
(`MoreAmong`), and what the batch keeps comes out in order (`Selected`,
`Appending`). That as many copies are owed as SQL wants is counting once more:
the i-th copy of a row is owed or not by i alone (`Ranked`, `AsManyAsWanted`).

**Joins** (`JoinProofs`; assumed, as `JoinAssumption`: rows have the columns
that the condition and their order name, and values that differ have different keys,
see the disagreements): `JoinIsRight`, for every join type, residual condition and size
of a batch, and for all three algorithms. It is `ReturnsTheJoin`, whose premise
`InStep` says of a merge join alone that its comparison is the one its inputs were
sorted by; the inputs are not restricted, and of the joins outside the premise
the run `descending_merge` shows that the statement is false. The answer is cut by rows: what is owed for some left
rows (`FromLeft`), and for some right ones (`FromRight`, the padded ones). What an
operator has put out is what is owed for the rows it is past, each row once
(`HasPaid`), and a step adds what is owed for the next (`Paying`). For the hash join
and the nested loop that is `HashRun`: the left rows probed and the right rows
flushed. It needs to know what the index holds (`HasIndex`: a bucket has the rows
with its key and no others, since keys tell values apart, `KeysMeet`) and which
build rows have matched (`HasMatched`: before the flush, those some probed row
joins); the flush takes the first few of the others (`FirstFew`). A merge join is past
the rows before its cursors but for those of the run, which may still match; so
`MergeAt` says what the run is (`HasRun`: every right row the cursor is past with the
key of the last left row), what is marked in it (`HasMarked`), and that the cursors
have missed nothing: no left row to come has the key of a right row behind, except for the
run's (`Passed`), and no left row behind has the key of a right row to come
(`Ahead`). Both follow from the keys' ascending (`Arrived`), which is where the
inputs' order comes in: a forced merge join sorts them (`ForcedArrives`), and the
one `build_join` picks finds them sorted on columns that start with the keys
(`SortedArrives`). Keys with a NULL are in the order but are none of a run's, and the
comparison of the merge join agrees with that of the sort on all the rest
(`KeysCompare`). `Replay`, `Meet` and the steps over lonely rows have a lemma each.

**What the operators hold** (`AggregateProofs`; assumed, besides the above, as
`AggregateAssumption` and `WindowAssumption`: rows have the columns grouped by,
aggregated, partitioned by and ordered by): `MergeNeverLooksBack`, which is
`TypeOK` of all seven kinds of plan, with merge joins over inputs in any order, and
the promise of a merge join whose inputs are in step (`InStep`). The promise
follows from `Passed` and `HasRun`; that nothing leaves its bounds needs the
invariants of the operators (`JoinInv`, `SortInv`, `SetInv`) and what they leave
out (the `...Shape`s): that only the variables of the algorithm at work move, that
a row marked is in the run, that a hash table has at most one group more than
rows were read, and that a batch of a streaming aggregate, a recursion over its
rows, leaves groups behind and at most one open (`BatchStates`, by `Recursion`).

**Aggregates** (`AggregateProofs`; assumed, as `AggregateAssumption`: besides
the columns, that values that differ have different keys, see the disagreements,
and that only COUNT has a `*`, which the binder sees to): `AggregateIsRight`, for
every function, DISTINCT or not, every size of a batch, and for the hash table, the
streaming aggregate that relies on its input's order and the one that sorts first.
What the operator holds and has returned is one list of groups, in the order their
first rows arrived, in which each accumulator holds what it should of the rows of
its key so far (`ListsGroups`, `HoldsOf`). A row keeps it so whether its group is
known or new (`RowTaken`), and both the loop of the hash table and a row of a
streaming batch do that (`HashTakes`, `StreamRowKept`). The invariant
`AggregateRun` says of which rows: a hash table returns nothing before it has read
everything (`TableAt`); in a stream the last group of the list is the open one,
that of the row that arrived last (`FlowAt`), and therefore the groups before it,
which may have been returned, get no more rows. That is where the input's order
comes in: rows of one key have nothing but rows of that key between them, when the
order starts with the columns grouped by (`Grouped`, `ClosedIsWhole`), and neither
that nor the value of a returned group is true without knowing which group is
open. `Finishes` then compares an accumulator with the meaning of the function.
The reference adds values up by a fold over a set, in an order nobody knows; the
sum does not depend on it, because splitting off any member leaves a sum of the
rest (`PartByPart`, `SumOneMore`), which is proved of all subsets of a finite set
by the size of the subset. Two lists in the order rows arrive, of which one has
what the other has up to some row, begin the same (`SameStart`).

**The session** (`SessionProofs`; assumed: the shapes of the constants, a
collection has a table): `PanelsAreOfOneQuery`, `GridIsTheAnswer`,
`CopyStaysCurrent` and `AnsweredOnce`, the refinement of `RequestReply`, for any number of
requests, clicks, loads and batches. What the page shows depends on every
message under way, so the invariant follows them. A request is in one place: on
its way, in the worker's hands, or on its way back, and nothing follows the reply
that settles it (`Requested`, `Replied`, `InHand`); who waits for it asked for it
(`PostedFor`, `MeantFor`). At most one stage of a query is under way (`OneRun`)
and the panels before it are drawn of its text, those after it of one query
before (`PanelsFollow`). Either what the page knows of the catalog after the
replies so far is what the engine has, or a reply that will tell it so is to come
(`Fresh`); completion follows the copy (`Listed`). `Streamed` ties the worker's
totals to the batches so far (`Upto`, the sum of the first k, shown to be that by
`Sums`), and `GridFollows` says, for each query that waits, which rows its grid
will have after each reply under way, up to the last, which the totals decide.
One lemma per kind of step shows that each part is kept.

**Only model-checked.** Liveness (`EveryRequestSettles`, `Terminates`): the prover
decides neither fairness nor ENABLED. Everything in modules with a RECURSIVE
operator, where it loses its arithmetic: `BTree`, the expressions and both
evaluators, plans and the optimizer, the parser and the binder, the two readers.
The encodings (`DecodeRestores`, `CanMatchKeepsEveryMatch`, `EvaluateAgrees`) need
arithmetic of powers of two and of digits that it does not do. What a window
returns (`WindowReturnsTheAnswer`) is not proved yet: of windows the theorems say
that they stay within their input (`MergeNeverLooksBack`).

## Findings

| run | what the code does |
| --- | --- |
| `tolerant_filter` | `OuterToInner` takes any comparison that reads the padded side for one that rejects its NULLs, whatever stands between the column and the comparison: a filter on `CASE WHEN y IS NULL THEN 0 ELSE y END = 0` turns the left join beneath it into an inner one and the padded rows are lost |
| `stale_index` | `Catalog::register` replaces a table and keeps the indexes over the old one. The page loads names again that are in use (`main.ts:1583-1608`); the next query reads the new table at the old table's positions and loses rows, or steps past its end |
| `descending_merge` | `build_join` takes two inputs that both arrive descending for inputs of a merge join (`merge_join_applies`: the directions agree), and `MergeJoinExec::compare` only knows ascending: it walks past rows it will not see again. With left `<<1>>` and right `<<2, 1>>` the one pair of the join is lost |
| `nested_subquery` | `collect_referenced` counts the relations of nested subqueries as read and `collect_defined` does not count them as defined, so a subquery that holds another is taken for correlated where it is not, and the query is refused, though "subqueries are supported uncorrelated anywhere" |

### Disagreements kept out of the runs

The bounds, or a named constant, keep these out, so that the runs are about
everything else. Each is what the code does today.

Storage and catalog:
* `cmp_keys` files a NaN as a tie with whatever it meets (`btree.rs:612`), and
  an index scan does not find such rows.
* A text column of NULLs alone may be dictionary-encoded with an empty
  dictionary, out of which `decode` reads (`encoding.rs:223`; `AllNull`).
* `can_match` computes a block's upper bound by an addition that wraps near the
  largest integer (`encoding.rs:516`).
* The CSV reader decides from a sample whether a column has NULLs
  (`csv.rs:84-87`), and `decorrelate.rs:115-117` believes the declaration.
* UINT_32 columns of a Parquet file are sign-extended (`assemble` widens an
  `i32`), though `map_type` says that they fit "without wrapping".
  `TimestampScale` wraps near the ends of the type, column and bounds alike, so
  the bounds of such a column need not bound it. `TimestampDivide` is
  documented as truncating and floors. A row group that declares fewer rows than
  its pages hold is accepted if a page ends there; bounds that are wrong
  but do not cross are believed.

Execution:
* NaN keys tie with whatever they meet in a merge join (`merge.rs:201`), which may
  lose rows as a descending input does (`compares_as_sorted`).
* A top-N takes NaN for a tie where the sort it replaces puts it last
  (`sort.rs:314`).
* A decimal whose rescaling to 18 places overflows keeps its digits as they are
  (`key.rs:47`), so that 10^21 has the key of 1000: rows of such values are
  grouped, joined and told apart as if they were equal (`SetAssumption`, `JoinAssumption`, `AggregateAssumption`).
* A windowed SUM saturates where a grouped one reports an overflow
  (`window.rs:419`); `skip + fetch` of a fused limit may overflow
  (`exec/mod.rs:1404`).
* An item of an IN list that is a column and NULL in one row decides for its
  whole batch (`vector.rs:1118`); the scalar IN returns before it evaluates its
  items when the value is NULL.

Optimizer:
* `predicate_pushdown` puts the outer conjuncts first when it merges filters, so
  that one which raises (`HAVING 100 / a > 1`) may run before the one that
  guarded it; `predicate_simplification` drops conjuncts that can raise when it
  finds a contradiction; a lazy operand may be hoisted by
  `common_subexpression.rs:223`.
* A COUNT pushed beneath a join becomes a SUM, which is NULL of no rows
  (`aggregate_pushdown.rs:299`).
* `join_reorder.rs:177-186` drops a condition that touches no relation.
* `contains_barrier` knows aggregates and limits only; `find_subquery` skips
  sorts and windows; the definition of
  a WITH is never optimized (`exec/mod.rs:1297`).

Parser and binder:
* The levels in the parser's header differ from the code for BETWEEN and NOT
  EXISTS (`parser/mod.rs:28-32`); the header says that WITH is rejected and it
  is parsed; a DECIMAL's scale is cut to eight bits unchecked (1082).
* `SELECT *` in a nested query also expands the relations around it; with GROUP
  BY or an aggregate it reads base columns above the aggregate
  (`binder/mod.rs:1164-1222`, against the comment at 560-563);
  `SELECT *, a + 1 .. ORDER BY a + 1` sorts by the wrong column (845-855).
* The ON of a join in a FROM list may read an item before it in the list; a set
  operation inside a correlated subquery cannot see the query around it; a cast
  branch over DISTINCT reads a relation no layout provides (294-333); a
  window function in ORDER BY or WHERE is not computed by any node; `ast_eq`
  ignores OVER.

Session:
* The note under the editor is that of the text and the panels those of the last
  query, so the two may be about different queries (`main.ts:1463`).

## Limits of the models

* A value is NULL, NaN or an integer; text, dates and decimals differ from it
  only in their class. Bytes, formatting and wording are left out. The
  characters of a CSV file are twenty, words of a type being characters of their
  own; a unit of a Parquet page is a number, whatever bytes it takes.
* LIKE is a given relation between texts and patterns. The binder's statements
  have no windows, LIKE, CAST, decimals, dates or names that need case folding.
* The plans the optimizer rewrites are listed in `MCOptimizer`, not what the
  binder makes of the statements of `MCReading`: the product of the two is out
  of TLC's reach.
* What estimates and options decide (which plan, which encoding, how large) is
  left open: each choice has to be right. `policy` bounds how often the two
  cost-based rules are favoured.
* A model stops at its first error. A caller that asks a failed stream for
  more, which none in the repository does, is not modelled.
* Bounds keep NaN out of the keys of windows, decimals in the
  range their rescaling fits, and window sums in the range of `Int64`.
* Timings, statistics for display, EXPLAIN and wording are left out. A frame is
  two distances in rows, peers counted as one under RANGE.

### Not modelled

* The lexer: characters to tokens, a function of text without state that the
  parser's model begins after.
* The estimates (histograms, HyperLogLog, floating-point costs): they choose
  among plans of equal answer.
* Thrift and Snappy, the annotations of a Parquet schema, INT96 and decimal
  bytes: byte formats, sequential and covered by the repository's fixtures.
* The command line, a read-eval-print loop over the engine; the page's widgets
  (charts, highlighting, completion), which draw what they are given; the test
  runner and tools.

## Plan

1. Done: zone maps with their proofs; the pipeline and its refinement; trees,
   index ranges and the catalog; encodings; the operators; the evaluators; the
   optimizer; the session and its refinement; the readers; the parser and the
   binder.
2. Theorems: zone maps; the stream and its refinement; the catalog; sort and
   top-N; set operations; joins; aggregates; the session and its refinement are
   done. Next: the frames of a window.
3. Modelling left: windows and casts in the binder; the catalog holding trees
   rather than ranges; the lexer.
