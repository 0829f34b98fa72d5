------------------------------- MODULE Catalog -------------------------------
(***************************************************************************)
(* catalog/mod.rs and the streams lib.rs hands out against it.  A stream   *)
(* holds the table it was built on through an Arc and nothing of the       *)
(* catalog, so the caller may register, remove and index tables between    *)
(* two batches.  A table is known by its version, an index by the table it *)
(* was built from, which need not be the one its name stands for by now;   *)
(* BTree shows a tree names what such an index names.  Names are folded to *)
(* lower case.                                                             *)
(***************************************************************************)
EXTENDS IndexRange, FiniteSets

CONSTANTS
  Name,        \* folded table names
  Version,     \* tables that can be loaded
  Content,     \* Content[v]: the rows of table v, each a function of Column
  Column,
  Predicates,  \* conjunctions: sequences of [column, op, value, exact]
  Stream,      \* the queries a caller keeps open at once
  Cap,         \* index_row_cap
  BatchSize

None == 0  \* no table

ASSUME CatalogAssumption ==
  /\ Version \subseteq Nat \ {0}
  /\ \A v \in Version : Content[v] \in Seq([Column -> Number \cup {NULL}])
  /\ \A p \in Predicates : p \in Seq([column : Column, op : ComparisonOps,
                                      value : Number \cup {NULL}, exact : BOOLEAN])
  /\ Cap \in Nat
  /\ BatchSize \in Nat \ {0}

VARIABLES
  tables,      \* Catalog.tables
  statistics,  \* Catalog.statistics: the version analyzed
  indexes,     \* Catalog.indexes: the versions indexed, in the order built
  streams      \* the QueryStreams the caller holds

catalog == <<tables, statistics, indexes>>
vars == <<tables, statistics, indexes, streams>>

RowIds(v) == 0..Len(Content[v]) - 1
Row(v, r) == Content[v][r + 1]

Closed == [status |-> "closed"]

Init ==
  /\ tables = [n \in Name |-> None]
  /\ statistics = [n \in Name |-> None]
  /\ indexes = [n \in Name |-> <<>>]
  /\ streams = [s \in Stream |-> Closed]
-----------------------------------------------------------------------------
\* Replaces any table of that name, and its statistics with it; the indexes of the
\* old table stay.
register(n, v) ==
  /\ tables' = [tables EXCEPT ![n] = v]
  /\ statistics' = [statistics EXCEPT ![n] = v]
  /\ UNCHANGED <<indexes, streams>>

\* Mutant of remove: the table goes, its indexes stay.
remove_keeping_indexes(n) ==
  /\ tables[n] # None
  /\ tables' = [tables EXCEPT ![n] = None]
  /\ statistics' = [statistics EXCEPT ![n] = None]
  /\ UNCHANGED <<indexes, streams>>

remove(n) ==
  /\ tables[n] # None
  /\ tables' = [tables EXCEPT ![n] = None]
  /\ statistics' = [statistics EXCEPT ![n] = None]
  /\ indexes' = [indexes EXCEPT ![n] = <<>>]
  /\ UNCHANGED streams

\* retain: kept[k] are the indexes on other columns among the first k.
Without(built, column) ==
  LET kept[k \in 0..Len(built)] ==
        IF k = 0 THEN <<>>
        ELSE IF built[k].column = column THEN kept[k - 1]
        ELSE Append(kept[k - 1], built[k])
  IN  kept[Len(built)]

\* An unknown table or column, or a column that does not decode, is an error and
\* changes nothing.
create_index(n, column) ==
  /\ tables[n] # None
  /\ indexes' = [indexes EXCEPT ![n] =
       Append(Without(@, column), [column |-> column, version |-> tables[n]])]
  /\ UNCHANGED <<tables, statistics, streams>>

drop_index(n, column) ==
  /\ indexes' = [indexes EXCEPT ![n] = Without(@, column)]
  /\ UNCHANGED <<tables, statistics, streams>>
-----------------------------------------------------------------------------
\* The rows a tree names: NULLs are not in it.
Names(index, range) ==
  {r \in RowIds(index.version) : LET key == Row(index.version, r)[index.column]
                                 IN  key # NULL /\ Admits(range, key)}

\* An index serves a predicate that confines its column to few enough rows.
Serves(index, predicate) ==
  LET range == extract_range(predicate, index.column)
  IN  range # Whole /\ Cardinality(Names(index, range)) <= Cap

NamedBy(index, predicate) == Names(index, extract_range(predicate, index.column))

\* index_scan: of the indexes that serve, the first that names fewest rows, and
\* the table it was built from.
index_scan(n, predicate) ==
  LET serving == {i \in DOMAIN indexes[n] : Serves(indexes[n][i], predicate)}
      count(i) == Cardinality(NamedBy(indexes[n][i], predicate))
      best == CHOOSE i \in serving :
                \A j \in serving : count(i) < count(j) \/ (count(i) = count(j) /\ i <= j)
  IN  [found |-> serving # {},
       source |-> IF serving = {} THEN None ELSE indexes[n][best].version,
       rows |-> IF serving = {} THEN {} ELSE NamedBy(indexes[n][best], predicate)]

\* execute_streaming binds, optimizes and builds against the catalog as it is.
\* named are the rows the stream is to read, rows those it has still to.
execute_streaming(s, n, predicate) ==
  LET table == tables[n]
      index == index_scan(n, predicate)
      read == IF index.found THEN index.rows ELSE RowIds(table)
  IN  /\ streams[s].status = "closed"
      /\ table # None
      /\ streams' = [streams EXCEPT ![s] =
           [status |-> "open", table |-> table, predicate |-> predicate,
            source |-> IF index.found THEN index.source ELSE table,
            named |-> read, rows |-> read, returned |-> <<>>]]
      /\ UNCHANGED catalog

\* Row ids in table order.
Rank(S, r) == Cardinality({x \in S : x <= r})
InOrder(S) == [k \in 1..Cardinality(S) |-> CHOOSE r \in S : Rank(S, r) = k]

\* The next batch of rows read: those the filter keeps are returned.  A batch ends
\* with its row group, so before a row id beyond the table; that is in no group of
\* it, and a batch that would start with one is an out-of-bounds access.
next_batch(s) ==
  LET stream == streams[s]
      read == {r \in stream.rows \cap RowIds(stream.table) : Rank(stream.rows, r) <= BatchSize}
      kept == {r \in read : Satisfies(Row(stream.table, r), stream.predicate)}
  IN  /\ stream.status = "open"
      /\ streams' = [streams EXCEPT ![s] =
           IF stream.rows = {} THEN [stream EXCEPT !.status = "done"]
           ELSE IF read = {} THEN [stream EXCEPT !.status = "panicked"]
           ELSE [stream EXCEPT !.rows = @ \ read,
                               !.returned = @ \o InOrder(kept)]]
      /\ UNCHANGED catalog

\* The caller lets go of a stream, finished or not.
drop(s) ==
  /\ streams[s].status # "closed"
  /\ streams' = [streams EXCEPT ![s] = Closed]
  /\ UNCHANGED catalog

Next ==
  \/ \E n \in Name : \/ \E v \in Version : register(n, v)
                     \/ remove(n)
                     \/ \E c \in Column : create_index(n, c) \/ drop_index(n, c)
                     \/ \E s \in Stream, p \in Predicates : execute_streaming(s, n, p)
  \/ \E s \in Stream : next_batch(s) \/ drop(s)

Spec == Init /\ [][Next]_vars
-----------------------------------------------------------------------------
Index == [column : Column, version : Version]

StreamState ==
  [status : {"closed"}]
  \cup [status : {"open", "done", "panicked"}, table : Version, predicate : Predicates,
        source : Version, named : SUBSET Nat, rows : SUBSET Nat, returned : Seq(Nat)]

TypeOK ==
  /\ tables \in [Name -> Version \cup {None}]
  /\ statistics \in [Name -> Version \cup {None}]
  /\ indexes \in [Name -> Seq(Index)]
  /\ streams \in [Stream -> StreamState]

(***************************************************************************)
(* Whatever is loaded, loaded again, removed and indexed in between: a     *)
(* table is never in the catalog without its own statistics, nor one gone  *)
(* from it with any left, and no index outlives its name, nor the next on  *)
(* its column.  (An index may be older than its table: see below.)         *)
(***************************************************************************)
CatalogConsistent ==
  /\ TypeOK
  /\ statistics = tables
  /\ \A n \in Name :
       /\ tables[n] = None => indexes[n] = <<>>
       /\ \A i, j \in DOMAIN indexes[n] :
            i # j => indexes[n][i].column # indexes[n][j].column

Matches(stream) ==
  {r \in RowIds(stream.table) : Satisfies(Row(stream.table, r), stream.predicate)}

Answer(stream) == InOrder(Matches(stream))

\* "seq" is how far one may have come in returning what is wanted.
Begins(seq, wanted) == \E k \in 0..Len(wanted) : seq = SubSeq(wanted, 1, k)

(***************************************************************************)
(* The index narrows which rows are read; it never decides which rows are  *)
(* returned (exec/index.rs): whatever happens to the catalog, a stream     *)
(* returns the rows of the table it was opened on that satisfy the         *)
(* predicate, in table order, and "done" means all of them.                *)
(***************************************************************************)
IndexNeverDecides ==
  \A s \in Stream : streams[s].status # "closed" =>
    /\ streams[s].status # "panicked"
    /\ Begins(streams[s].returned, Answer(streams[s]))
    /\ streams[s].status = "done" => streams[s].returned = Answer(streams[s])

(***************************************************************************)
(* What the code does promise, however old the indexes in the catalog are  *)
(* when a stream is opened and whatever happens to it afterwards: a stream *)
(* returns matches of its own table only, each once and in table order,    *)
(* and "done" means every match that was named to it.  If the index was    *)
(* built from that very table (or none was used), that is every match      *)
(* there is, and the stream cannot panic.                                  *)
(***************************************************************************)
IndexNarrows ==
  \A s \in Stream : streams[s].status # "closed" =>
    LET stream == streams[s]
        wanted == InOrder(Matches(stream) \cap stream.named)
    IN  /\ Begins(stream.returned, wanted)
        /\ stream.status = "done" => stream.returned = wanted
        /\ stream.source = stream.table =>
             stream.status # "panicked" /\ wanted = Answer(stream)
==============================================================================
