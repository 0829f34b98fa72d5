--------------------------- MODULE SessionProofs ---------------------------
(***************************************************************************)
(* Proofs about the session, for every set of tables, collections and      *)
(* queries, and however many requests are sent: each is answered once, the *)
(* panels describe one query, the grid holds the rows of the query it      *)
(* names, and the page's copy of the catalog is the engine's.              *)
(***************************************************************************)
EXTENDS Session, ProofBasics

-----------------------------------------------------------------------------
(* The invariant.                                                          *)

Catalogs == [loaded : [Tables -> Nat], indexed : SUBSET Tables]
Counts == [rows : Nat, chunk : Nat]
Summaries == [rows : Nat, chunk : Nat, streamed : BOOLEAN]
Kinds == {"load", "catalog", "execute", "parse", "plan", "physicalPlan", "check",
          "storage", "createIndex", "indexTree", "indexProbe"}
Requests == [id : Nat, kind : Kinds, arg : Sqls \union Tables \union {None}]
Replies ==
    [id : Nat, kind : {"error"}]
    \union [id : Nat, kind : {"progress"}, value : Counts]
    \union [id : Nat, kind : {"ok"},
            value : Sqls \union Tables \union {None} \union Catalogs \union Summaries]
Underway == [id : Nat \ {0}, sql : Sqls, at : Nat \ {0}, shown : Nat, total : Nat]
Loads == [of : Collections \union {Boot}, at : Nat \ {0},
          state : {"fetching", "loading", "refreshing", "done", "failed"},
          attached : BOOLEAN]

\* Numbers are given out in order, and a request that waits has been given one.
Numbered ==
    /\ next \in Nat \ {0}
    /\ pending = [i \in DOMAIN pending |-> pending[i]]
    /\ DOMAIN pending \subseteq 1..next - 1

\* What crosses between page and worker, and the two catalogs.
Typed ==
    /\ inbox \in Seq(Requests)
    /\ outbox \in Seq(Replies)
    /\ streaming \in Underway \union {NotStreaming}
    /\ catalog \in Catalogs /\ copy \in Catalogs

\* What the page shows, and what a load has come to.
Shown ==
    /\ ready \in {"pending", "kept", "broken"}
    /\ loads \in Seq(Loads)
    /\ \A k \in DOMAIN loads : loads[k].at <= Len(TablesFor(loads[k].of))
    /\ schema \subseteq Tables /\ offered \subseteq Collections
    /\ running \in BOOLEAN
    /\ editor \in Sqls /\ picked \in Examples /\ note \in {None, picked}
    /\ panels \in [Stages -> Sqls \union {None}]
    /\ choice \in Tables \union {None} /\ tree \in Tables \union {None}

Chain == {"execute", "parse", "plan", "physicalPlan"}
OfCatalog == {"reload", "reindex"}

\* What a waiter remembers: a load, a text or a table.
Remembers(w, known) ==
    \/ w.for \in {"load", "reload"} /\ w.arg \in known
    \/ /\ w.for \in Chain \union {"check"} /\ w.arg \in Sqls
       /\ w.for = "execute" => "drawn" \in DOMAIN w
    \/ w.for \in {"storage", "createIndex", "reindex", "indexTree", "indexProbe"}
       /\ w.arg \in Tables

Waiting == \A i \in DOMAIN pending : Remembers(pending[i], DOMAIN loads)

\* The request that was posted for a waiter.
PostedFor(r, w) ==
    /\ r.kind = IF w.for \in OfCatalog THEN "catalog" ELSE w.for
    /\ w.for \notin OfCatalog \union {"load"} => r.arg = w.arg
    /\ w.for = "load" => r.arg \in Tables
    /\ w.for = "execute" => w.drawn = 0

\* A reply that a waiter can get.
MeantFor(r, w) ==
    /\ r.kind = "progress" => w.for = "execute"
    /\ w.for \in OfCatalog => r.kind = "ok" /\ r.value \in Catalogs
    /\ w.for = "execute" /\ r.kind = "ok" => r.value \in Summaries

\* A request is in one place at a time: on its way, in the worker's hands, or
\* on its way back, and nothing follows the reply that settles it.
Requested ==
    /\ \A k \in DOMAIN inbox :
           /\ inbox[k].id \in DOMAIN pending
           /\ PostedFor(inbox[k], pending[inbox[k].id])
           /\ inbox[k].id # streaming.id
           /\ \A j \in DOMAIN inbox : inbox[j].id = inbox[k].id => j = k
           /\ \A j \in DOMAIN outbox : outbox[j].id # inbox[k].id

Replied ==
    \A k \in DOMAIN outbox :
        /\ outbox[k].id \in DOMAIN pending
        /\ MeantFor(outbox[k], pending[outbox[k].id])
        /\ outbox[k].kind # "progress" =>
               /\ outbox[k].id # streaming.id
               /\ \A j \in DOMAIN outbox : j > k => outbox[j].id # outbox[k].id

InHand ==
    streaming # NotStreaming =>
        /\ streaming.id \in DOMAIN pending
        /\ pending[streaming.id].for = "execute"
        /\ pending[streaming.id].arg = streaming.sql

\* A query that runs has one request under way, and the panels that the stages
\* before it drew are of its text; the others are all of the query before.
OneRun ==
    /\ running <=> \E i \in DOMAIN pending : pending[i].for \in Chain
    /\ \A i, j \in DOMAIN pending :
           pending[i].for \in Chain /\ pending[j].for \in Chain => i = j

DrawnBefore(what) ==
    IF what = "execute" THEN {}
    ELSE IF what = "parse" THEN {"results"}
    ELSE IF what = "plan" THEN {"results", "tokens"}
    ELSE {"results", "tokens", "plan"}

PanelsFollow ==
    /\ ~running => \A p, q \in Stages : panels[p] = panels[q]
    /\ \A i \in DOMAIN pending :
           pending[i].for \in Chain =>
               LET drawn == DrawnBefore(pending[i].for)
               IN /\ \A p \in drawn : panels[p] = pending[i].arg
                  /\ \A p, q \in Stages \ drawn : panels[p] = panels[q]

\* What the page knows of the catalog after the first k replies is what the
\* engine has, or another reply that tells it so comes later.
Telling(r) ==
    /\ r.kind = "ok"
    /\ pending[r.id].for \in OfCatalog \union {"load", "createIndex"}
Known(k) == IF k = 0 THEN copy ELSE outbox[k].value
Knows(k) == k = 0 \/ (k \in DOMAIN outbox /\ pending[outbox[k].id].for \in OfCatalog)
Fresh ==
    \A k \in 0..Len(outbox) :
        Knows(k) =>
            \/ Known(k) = catalog
            \/ \E j \in DOMAIN inbox : inbox[j].kind = "catalog"
            \/ \E j \in DOMAIN outbox : j > k /\ Telling(outbox[j])

\* Completion knows the tables of the copy once no load is under way.
Listed == (\A k \in DOMAIN loads : loads[k].state = "done") => schema = Held(copy)

\* The rows streamed so far are those of the batches so far.
Streamed ==
    streaming # NotStreaming =>
        /\ streaming.at <= Len(Batches[streaming.sql]) + 1
        /\ streaming.total = Upto(streaming.sql)[streaming.at - 1]
        /\ streaming.shown = Lesser(streaming.total, Cap)

\* grid[k] are the rows a query's grid will have after the first k replies.
GridAfter(grid, i) ==
    /\ grid[0] = pending[i].drawn
    /\ streaming.id = i => grid[Len(outbox)] = streaming.shown
    /\ \A k \in DOMAIN outbox :
           IF outbox[k].id = i /\ outbox[k].kind = "progress"
           THEN /\ grid[k] = grid[k - 1] + outbox[k].value.chunk
                /\ grid[k] = Lesser(outbox[k].value.rows, Cap)
           ELSE /\ grid[k] = grid[k - 1]
                /\ outbox[k].id = i /\ outbox[k].kind = "ok" =>
                       /\ outbox[k].value.rows = Total(pending[i].arg)
                       /\ Lesser(outbox[k].value.rows, Cap) =
                              IF outbox[k].value.streamed THEN grid[k]
                              ELSE outbox[k].value.chunk

GridFollows ==
    \A i \in DOMAIN pending :
        pending[i].for = "execute" =>
            \E grid \in [0..Len(outbox) -> 0..Cap] : GridAfter(grid, i)

IInv ==
    /\ Numbered /\ Typed /\ Shown /\ Waiting
    /\ Requested /\ Replied /\ InHand
    /\ OneRun /\ PanelsFollow
    /\ Fresh /\ Listed
    /\ Streamed /\ GridFollows /\ DrawnIsTheAnswer

-----------------------------------------------------------------------------
(* The rows of an answer.                                                  *)

\* Upto is defined by recursion on the number of batches, and the recursion is
\* well founded: it is the sum of the batches so far.
LEMMA Sums ==
    ASSUME NEW sql \in Sqls
    PROVE  /\ Upto(sql)[0] = 0
           /\ \A k \in 1..Len(Batches[sql]) :
                  Upto(sql)[k] = Upto(sql)[k - 1] + Batches[sql][k]
           /\ Upto(sql) \in [0..Len(Batches[sql]) -> Nat]
    <1>. DEFINE b == Batches[sql]
                n == Len(b)
                step == [k \in 1..n |-> [total \in Nat |-> total + b[k]]]
                Adds(f) == f = [k \in 0..n |-> IF k = 0 THEN 0 ELSE f[k - 1] + b[k]]
    <1>1. b \in Seq(Nat) /\ n \in Nat /\ \A k \in 1..n : b[k] \in Nat
        BY SessionAssumption
    <1>. HIDE DEF b, n
    <1>2. step \in Steps(n, Nat) /\ 0 \in Nat
        BY <1>1 DEF Steps
    <1>3. \A k \in 1..n, total \in Nat : step[k][total] = total + b[k]
        OBVIOUS
    <1>. HIDE DEF step
    <1>4. PICK f \in [0..n -> Nat] : f[0] = 0 /\ \A k \in 1..n : f[k] = step[k][f[k - 1]]
        <2>1. PICK T, zero : T = Nat /\ zero = 0
            OBVIOUS
        <2>2. zero \in T /\ step \in Steps(n, T)
            BY <1>2, <2>1
        <2>3. \E f \in [0..n -> T] : f[0] = zero /\ \A k \in 1..n : f[k] = step[k][f[k - 1]]
            <3>1. n \in Nat
                BY <1>1
            <3>. QED BY <3>1, <2>2, Recursion
        <2>. QED BY <2>1, <2>3
    <1>5. \A k \in 1..n : f[k] = f[k - 1] + b[k]
        <2>1. \A k \in 1..n : f[k - 1] \in Nat
            BY <1>1
        <2>. QED BY <1>3, <1>4, <2>1
    <1>6. Adds(f)
        <2>1. \A k \in 0..n : f[k] = IF k = 0 THEN 0 ELSE f[k - 1] + b[k]
            BY <1>1, <1>4, <1>5
        <2>. QED BY <2>1
    <1>7. Upto(sql) = CHOOSE g : Adds(g)
        BY DEF Upto, b, n
    <1>8. Adds(Upto(sql))
        <2>. HIDE DEF Adds
        <2>. QED BY <1>6, <1>7
    <1>9. /\ Upto(sql)[0] = 0
          /\ \A k \in 1..n : Upto(sql)[k] = Upto(sql)[k - 1] + b[k]
        BY <1>1, <1>8
    <1>10. \A k \in 0..n : Upto(sql)[k] \in Nat
        <2>. DEFINE typed == {k \in Nat : Upto(sql)[k] \in Nat}
        <2>1. 0 \in typed
            BY <1>9
        <2>2. ASSUME NEW k \in typed, k < n
              PROVE  k + 1 \in typed
            <3>1. k + 1 \in 1..n /\ (k + 1) - 1 = k /\ b[k + 1] \in Nat
                BY <1>1, <2>2
            <3>2. Upto(sql)[k + 1] = Upto(sql)[k] + b[k + 1]
                BY <1>9, <3>1
            <3>. QED BY <3>1, <3>2
        <2>3. typed \in SUBSET Nat
            OBVIOUS
        <2>. HIDE DEF typed
        <2>4. 0..n \subseteq typed
            BY <1>1, <2>1, <2>2, <2>3, InductionUpTo
        <2>. QED BY <2>4 DEF typed
    <1>11. Upto(sql) \in [0..n -> Nat]
        BY <1>8, <1>10
    <1>. QED BY <1>9, <1>11 DEF b, n

-----------------------------------------------------------------------------
(* What the worker does, in four kinds of steps.                           *)

\* The answer to a query that is not streamed is all of it.
Complete(r, w) ==
    w.for = "execute" /\ r.kind = "ok" =>
        /\ r.value.rows = Total(w.arg) /\ ~r.value.streamed
        /\ r.value.chunk = Lesser(r.value.rows, Cap)

Takes ==
    /\ inbox # <<>> /\ inbox' = Tail(inbox) /\ streaming = NotStreaming
    /\ UNCHANGED <<ready, page>>

Handles ==
    /\ Takes
    /\ UNCHANGED streaming
    /\ \E r \in Replies :
           /\ outbox' = Append(outbox, r)
           /\ r.id = inbox[1].id /\ r.kind # "progress"
           /\ MeantFor(r, pending[r.id]) /\ Complete(r, pending[r.id])
           /\ catalog' \in Catalogs
           /\ catalog' = catalog \/ Telling(r)
           /\ pending[r.id].for \in OfCatalog => Telling(r) /\ r.value = catalog'

Starts ==
    /\ Takes
    /\ pending[inbox[1].id].for = "execute"
    /\ streaming' = [id |-> inbox[1].id, sql |-> pending[inbox[1].id].arg,
                     at |-> 1, shown |-> 0, total |-> 0]
    /\ UNCHANGED <<catalog, outbox>>

Rests == UNCHANGED <<inbox, streaming, catalog, outbox, page>>

\* The request at the head of the inbox is one that somebody waits for.
LEMMA HeadOfInbox ==
    ASSUME Numbered, Typed, Waiting, Requested, inbox # <<>>
    PROVE  /\ Head(inbox) = inbox[1] /\ 1 \in DOMAIN inbox
           /\ inbox[1] \in Requests /\ inbox[1].id \in DOMAIN pending
           /\ inbox[1].id \in Nat
           /\ PostedFor(inbox[1], pending[inbox[1].id])
           /\ Remembers(pending[inbox[1].id], DOMAIN loads)
    <1>1. inbox \in Seq(Requests)
        BY DEF Typed
    <1>2. Head(inbox) = inbox[1] /\ 1 \in DOMAIN inbox
        BY <1>1, HeadRemoved
    <1>3. inbox[1] \in Requests
        BY <1>1, <1>2
    <1>. QED BY <1>2, <1>3 DEF Requested, Waiting, Requests

\* The answer in one reply is the answer, of which the grid's rows are copied.
LEMMA WholeAnswer ==
    ASSUME NEW id \in Nat, NEW sql \in Sqls
    PROVE  /\ Whole(id, sql) \in Replies /\ Whole(id, sql).id = id
           /\ Whole(id, sql).kind \in {"ok", "error"}
           /\ Whole(id, sql).kind = "ok" =>
                  /\ Whole(id, sql).value \in Summaries
                  /\ Whole(id, sql).value.rows = Total(sql)
                  /\ ~Whole(id, sql).value.streamed
                  /\ Whole(id, sql).value.chunk = Lesser(Total(sql), Cap)
    <1>1. Total(sql) \in Nat
        <2>1. Len(Batches[sql]) \in Nat
            BY SessionAssumption
        <2>. QED BY <2>1, Sums DEF Total
    <1>. DEFINE value == [rows |-> Total(sql), chunk |-> Lesser(Total(sql), Cap),
                          streamed |-> FALSE]
    <1>2. value \in Summaries
        BY <1>1, SessionAssumption DEF Summaries, Lesser
    <1>3. CASE Runnable(sql) /\ sql \notin Breaks
        <2>1. Whole(id, sql) = [id |-> id, kind |-> "ok", value |-> value]
            BY <1>3 DEF Whole, Ok
        <2>2. [id |-> id, kind |-> "ok", value |-> value] \in Replies
            <3>. HIDE DEF value
            <3>. QED BY <1>2 DEF Replies
        <2>. QED BY <1>2, <2>1, <2>2
    <1>4. CASE ~(Runnable(sql) /\ sql \notin Breaks)
        <2>1. Whole(id, sql) = [id |-> id, kind |-> "error"]
            BY <1>4 DEF Whole, Error
        <2>. QED BY <2>1 DEF Replies
    <1>. QED BY <1>3, <1>4

\* Replies that are not an answer to a query.
LEMMA PlainReplies ==
    ASSUME NEW id \in Nat
    PROVE  /\ Error(id) \in Replies /\ Error(id).id = id /\ Error(id).kind = "error"
           /\ \A v \in Sqls \union Tables \union {None} \union Catalogs :
                  /\ Ok(id, v) \in Replies /\ Ok(id, v).id = id
                  /\ Ok(id, v).kind = "ok" /\ Ok(id, v).value = v
    BY DEF Error, Ok, Replies

\* A request for the catalog is answered with the catalog; for a query, as above;
\* any other with a name, or with an error.
LEMMA ReadingAnswers ==
    ASSUME Numbered, Typed, Waiting, Requested, inbox # <<>>,
           inbox[1].kind # "load",
           catalog' = catalog
    PROVE  LET r == Reading(inbox[1])
           IN  /\ r \in Replies /\ r.id = inbox[1].id /\ r.kind # "progress"
               /\ MeantFor(r, pending[r.id]) /\ Complete(r, pending[r.id])
               /\ pending[r.id].for \in OfCatalog => Telling(r) /\ r.value = catalog
    <1>. DEFINE q == inbox[1]
                w == pending[q.id]
                r == Reading(q)
    <1>1. /\ q.id \in Nat /\ q.arg \in Sqls \union Tables \union {None}
          /\ PostedFor(q, w) /\ Remembers(w, DOMAIN loads)
        BY HeadOfInbox DEF Requests
    <1>. HIDE DEF q
    <1>2. CASE q.kind = "catalog"
        <2>1. r = Ok(q.id, catalog)
            BY <1>2 DEF Reading
        <2>2. catalog \in Catalogs
            BY DEF Typed
        <2>3. w.for \in OfCatalog
            BY <1>1, <1>2 DEF PostedFor, Remembers, Chain, OfCatalog
        <2>. QED BY <1>1, <2>1, <2>2, <2>3, PlainReplies
                 DEF MeantFor, Complete, Telling, OfCatalog, q
    <1>3. CASE q.kind = "execute"
        <2>1. w.for = "execute" /\ w.arg = q.arg /\ w.arg \in Sqls
            BY <1>1, <1>3 DEF PostedFor, Remembers, OfCatalog, Chain
        <2>2. r = Whole(q.id, q.arg)
            BY <1>3 DEF Reading
        <2>. QED BY <1>1, <2>1, <2>2, WholeAnswer DEF MeantFor, Complete, OfCatalog, q
    <1>4. CASE q.kind \notin {"catalog", "execute"}
        <2>1. w.for \notin OfCatalog \union {"execute"}
            BY <1>1, <1>4 DEF PostedFor
        <2>2. r \in {Ok(q.id, q.arg), Error(q.id)}
            BY <1>4 DEF Reading
        <2>. QED BY <1>1, <2>1, <2>2, PlainReplies DEF MeantFor, Complete, q
    <1>. QED BY <1>2, <1>3, <1>4 DEF q

\* Whatever the worker does is one of four kinds of steps, or nothing that matters here.
LEMMA WorkerMoves ==
    ASSUME IInv, Worker
    PROVE  Rests \/ Handles \/ Starts \/ StreamBatch \/ StreamEnd
    <1>1. Numbered /\ Typed /\ Waiting /\ Requested
        BY DEF IInv
    <1>. DEFINE q == inbox[1]
                w == pending[q.id]
    <1>2. ASSUME Take
          PROVE  /\ Takes /\ Head(inbox) = q /\ q.id \in Nat /\ q.kind = Head(inbox).kind
                 /\ PostedFor(q, w) /\ Remembers(w, DOMAIN loads) /\ q.arg \in Sqls \union Tables \union {None}
        BY <1>1, <1>2, HeadOfInbox DEF Take, Takes, Requests
    <1>3. ASSUME EngineLoaded \/ EngineFailsToLoad
          PROVE  Rests
        BY <1>3 DEF EngineLoaded, EngineFailsToLoad, Rests
    <1>4. ASSUME HandleLoad
          PROVE  Handles
        <2>1. Take /\ q.kind = "load" /\ UNCHANGED streaming
            BY <1>2, <1>4 DEF HandleLoad
        <2>2. w.for = "load" /\ q.arg \in Tables
            BY <1>2, <2>1 DEF PostedFor, OfCatalog
        <2>3. CASE /\ outbox' = Append(outbox, Ok(q.id, q.arg))
                   /\ catalog' = [catalog EXCEPT !.loaded[q.arg] = @ + 1]
            <3>1. catalog' \in Catalogs
                <4>. DEFINE more == [catalog.loaded EXCEPT ![q.arg] = @ + 1]
                <4>1. catalog \in Catalogs
                    BY <1>1 DEF Typed
                <4>2. more \in [Tables -> Nat]
                    BY <2>2, <4>1 DEF Catalogs
                <4>3. catalog' = [catalog EXCEPT !.loaded = more]
                    BY <2>3, <4>1 DEF Catalogs
                <4>. HIDE DEF more
                <4>. QED BY <4>1, <4>2, <4>3 DEF Catalogs
            <3>2. /\ Ok(q.id, q.arg) \in Replies /\ Ok(q.id, q.arg).id = q.id
                  /\ Ok(q.id, q.arg).kind = "ok"
                BY <1>2, <2>1, PlainReplies
            <3>3. Telling(Ok(q.id, q.arg))
                BY <2>2, <3>2 DEF Telling
            <3>. HIDE DEF q
            <3>. QED BY <1>2, <2>1, <2>2, <2>3, <3>1, <3>2, <3>3
                     DEF Handles, MeantFor, Complete, OfCatalog, q
        <2>4. CASE outbox' = Append(outbox, Error(q.id)) /\ catalog' = catalog
            <3>1. catalog' \in Catalogs
                BY <2>4 DEF Typed, IInv
            <3>2. /\ Error(q.id) \in Replies /\ Error(q.id).id = q.id
                  /\ Error(q.id).kind = "error"
                BY <1>2, <2>1, PlainReplies
            <3>. QED BY <1>2, <2>1, <2>2, <2>4, <3>1, <3>2
                     DEF Handles, MeantFor, Complete, OfCatalog
        <2>. QED BY <1>2, <1>4, <2>1, <2>3, <2>4 DEF HandleLoad, Reply
    <1>5. ASSUME HandleCreateIndex
          PROVE  Handles
        <2>1. Take /\ q.kind = "createIndex" /\ UNCHANGED streaming
            BY <1>2, <1>5 DEF HandleCreateIndex
        <2>2. w.for = "createIndex" /\ q.arg \in Tables
            BY <1>2, <2>1 DEF PostedFor, OfCatalog, Remembers, Chain
        <2>5. catalog \in Catalogs
            BY <1>1 DEF Typed
        <2>6. CASE /\ outbox' = Append(outbox, Ok(q.id, q.arg))
                   /\ catalog' = [catalog EXCEPT !.indexed = @ \union {q.arg}]
            <3>1. catalog' = [catalog EXCEPT !.indexed = @ \union {q.arg}]
                BY <2>6
            <3>2. catalog' \in Catalogs
                BY <2>2, <2>5, <3>1 DEF Catalogs
            <3>3. /\ Ok(q.id, q.arg) \in Replies /\ Ok(q.id, q.arg).id = q.id
                  /\ Ok(q.id, q.arg).kind = "ok"
                BY <1>2, <2>1, PlainReplies
            <3>4. Telling(Ok(q.id, q.arg))
                BY <2>2, <3>3 DEF Telling
            <3>. HIDE DEF q
            <3>. QED BY <1>2, <2>1, <2>2, <2>6, <3>2, <3>3, <3>4
                     DEF Handles, MeantFor, Complete, OfCatalog, q
        <2>7. CASE outbox' = Append(outbox, Error(q.id)) /\ catalog' = catalog
            <3>2. /\ Error(q.id) \in Replies /\ Error(q.id).id = q.id
                  /\ Error(q.id).kind = "error"
                BY <1>2, <2>1, PlainReplies
            <3>. HIDE DEF q
            <3>. QED BY <1>2, <2>1, <2>2, <2>5, <2>7, <3>2
                     DEF Handles, MeantFor, Complete, OfCatalog, q
        <2>. QED BY <1>2, <1>5, <2>1, <2>6, <2>7 DEF HandleCreateIndex, Reply
    <1>6. ASSUME HandleReading
          PROVE  Handles
        <2>1. /\ Take /\ q.kind \notin {"load", "createIndex"}
              /\ outbox' = Append(outbox, Reading(q)) /\ UNCHANGED <<streaming, catalog>>
            BY <1>2, <1>6 DEF HandleReading, Reply
        <2>2. LET r == Reading(q)
              IN  /\ r \in Replies /\ r.id = q.id /\ r.kind # "progress"
                  /\ MeantFor(r, pending[r.id]) /\ Complete(r, pending[r.id])
                  /\ pending[r.id].for \in OfCatalog => Telling(r) /\ r.value = catalog
            BY <1>1, <1>2, <2>1, ReadingAnswers DEF Takes
        <2>3. catalog \in Catalogs
            BY <1>1 DEF Typed
        <2>. HIDE DEF q
        <2>. QED BY <1>2, <2>1, <2>2, <2>3 DEF Handles, q
    <1>7. ASSUME StartStreaming
          PROVE  Starts \/ Handles
        <2>1. Take /\ q.kind = "execute" /\ UNCHANGED catalog
            BY <1>2, <1>7 DEF StartStreaming
        <2>2. w.for = "execute" /\ w.arg = q.arg
            BY <1>2, <2>1 DEF PostedFor, OfCatalog
        <2>3. CASE Runnable(q.arg)
            BY <1>2, <1>7, <2>1, <2>2, <2>3 DEF StartStreaming, Starts
        <2>4. CASE ~Runnable(q.arg)
            <3>1. outbox' = Append(outbox, Error(q.id)) /\ UNCHANGED <<streaming, catalog>>
                BY <1>2, <1>7, <2>1, <2>4 DEF StartStreaming, Reply
            <3>2. /\ Error(q.id) \in Replies /\ Error(q.id).id = q.id
                  /\ Error(q.id).kind = "error"
                BY <1>2, <2>1, PlainReplies
            <3>3. catalog \in Catalogs
                BY <1>1 DEF Typed
            <3>. QED BY <1>2, <2>1, <2>2, <3>1, <3>2, <3>3
                     DEF Handles, MeantFor, Complete, OfCatalog
        <2>. QED BY <2>3, <2>4
    <1>. QED BY <1>3, <1>4, <1>5, <1>6, <1>7 DEF Worker

-----------------------------------------------------------------------------
(* What the page does, in five kinds of steps.  In each it may take a      *)
(* reply, which settles the request in gone, and may post another request. *)

Leaves(gone) ==
    \/ gone = {} /\ outbox' = outbox
    \/ /\ outbox # <<>> /\ outbox[1].id \in DOMAIN pending /\ outbox[1].kind # "progress"
       /\ gone = {outbox[1].id} /\ outbox' = Tail(outbox)

Posts(gone, w) ==
    \E kind, arg :
        /\ Post(gone, kind, arg, w)
        /\ arg \in Sqls \union Tables \union {None}
        /\ PostedFor([id |-> next, kind |-> kind, arg |-> arg], w)
        /\ Remembers(w, DOMAIN loads')

\* The reply says that the engine's catalog has changed.
Tells(gone) ==
    gone # {} /\ outbox[1].kind = "ok"
    /\ pending[outbox[1].id].for \in {"load", "createIndex"}

Turn(gone) ==
    /\ Leaves(gone)
    /\ UNCHANGED <<streaming, catalog>>
    /\ copy' = IF gone # {} /\ pending[outbox[1].id].for \in OfCatalog
               THEN outbox[1].value ELSE copy

Elsewhere(gone) == \A i \in gone : pending[i].for \notin Chain

\* It has nothing to do with the query that runs.
Aside ==
    \E gone :
        /\ Turn(gone) /\ Elsewhere(gone)
        /\ UNCHANGED <<running, panels>>
        /\ \/ Settled(gone) /\ ~Tells(gone)
           \/ \E w : /\ Posts(gone, w) /\ w.for \notin Chain
                     /\ Tells(gone) => w.for \in OfCatalog

Begins ==
    \E gone, sql :
        /\ Turn(gone) /\ Elsewhere(gone) /\ ~Tells(gone)
        /\ ~running /\ running' = TRUE
        /\ UNCHANGED panels
        /\ Posts(gone, [for |-> "execute", arg |-> sql, drawn |-> 0])

\* The reply to a stage, and what it shows; the next stage is asked for, or there is none.
Advances ==
    \E w, stages :
        LET id == outbox[1].id
        IN  /\ Turn({id}) /\ outbox # <<>> /\ pending[id].for \in Chain
            /\ w.for \in Chain \ {"execute"} /\ w.arg = pending[id].arg
            /\ Draw(stages, w.arg)
            /\ DrawnBefore(w.for) = DrawnBefore(pending[id].for) \union stages
            /\ UNCHANGED running
            /\ Posts({id}, w)

Finishes ==
    \E stages :
        LET id == outbox[1].id
        IN  /\ Turn({id}) /\ outbox # <<>> /\ pending[id].for \in Chain
            /\ Draw(stages, pending[id].arg)
            /\ Stages \ DrawnBefore(pending[id].for) \subseteq stages
            /\ running' = FALSE
            /\ Settled({id})

\* The requests that the page posts, each with who waits for it.
LEMMA Postings ==
    ASSUME NEW gone
    PROVE  /\ \A sql \in Sqls :
                  LET w == [for |-> "execute", arg |-> sql, drawn |-> 0]
                  IN  Post(gone, "execute", sql, w) => Posts(gone, w)
           /\ \A kind \in {"parse", "plan", "physicalPlan", "check"}, sql \in Sqls :
                  Post(gone, kind, sql, For(kind, sql)) => Posts(gone, For(kind, sql))
           /\ \A kind \in {"storage", "createIndex", "indexTree", "indexProbe"}, t \in Tables :
                  Post(gone, kind, t, For(kind, t)) => Posts(gone, For(kind, t))
           /\ \A t \in Tables :
                  Post(gone, "catalog", None, For("reindex", t)) => Posts(gone, For("reindex", t))
           /\ \A k \in DOMAIN loads' :
                  Post(gone, "catalog", None, For("reload", k)) => Posts(gone, For("reload", k))
           /\ \A what, arg : For(what, arg).for = what /\ For(what, arg).arg = arg
    BY DEF Posts, PostedFor, Remembers, Chain, OfCatalog, For

\* Nothing is settled and nothing is asked.
LEMMA NothingAsked ==
    ASSUME Numbered, UNCHANGED <<inbox, next, pending>>
    PROVE  Settled({})
    BY DEF Settled, Numbered

\* What a reader or the network does settles nothing, and posts at most one request.
LEMMA ReaderMoves ==
    ASSUME IInv, Reader \/ Network
    PROVE  Aside \/ Begins
    <1>1. Numbered /\ Typed /\ Shown
        BY DEF IInv
    <1>2. /\ editor \in Sqls /\ copy.indexed \subseteq Tables /\ Examples \subseteq Sqls
          /\ choice \in Tables \union {None} /\ None \notin Tables
        BY <1>1, SessionAssumption DEF Typed, Shown, Catalogs
    <1>. DEFINE Alone == /\ UNCHANGED <<outbox, streaming, catalog, copy>>
    <1>3. ASSUME Alone, UNCHANGED <<running, panels>>, Settled({})
          PROVE  Aside
        <2>1. Turn({}) /\ Elsewhere({}) /\ ~Tells({})
            BY <1>3 DEF Turn, Leaves, Elsewhere, Tells
        <2>. QED BY <1>3, <2>1 DEF Aside
    <1>4. ASSUME NEW w, Alone, UNCHANGED <<running, panels>>, Posts({}, w), w.for \notin Chain
          PROVE  Aside
        <2>1. Turn({}) /\ Elsewhere({}) /\ ~Tells({})
            BY <1>4 DEF Turn, Leaves, Elsewhere, Tells
        <2>. QED BY <1>4, <2>1 DEF Aside
    <1>5. ASSUME NEW sql \in Sqls, Alone, UNCHANGED panels, RunQuery({}, sql)
          PROVE  Aside \/ Begins
        <2>1. CASE running
            BY <1>3, <1>5, <2>1 DEF RunQuery
        <2>2. CASE ~running
            <3>. DEFINE w == [for |-> "execute", arg |-> sql, drawn |-> 0]
            <3>1. Post({}, "execute", sql, w) /\ running' = TRUE
                BY <1>5, <2>2 DEF RunQuery
            <3>2. Posts({}, w)
                BY <3>1, Postings
            <3>3. Turn({}) /\ Elsewhere({}) /\ ~Tells({})
                BY <1>5 DEF Turn, Leaves, Elsewhere, Tells
            <3>. QED BY <1>5, <2>2, <3>1, <3>2, <3>3 DEF Begins
        <2>. QED BY <2>1, <2>2
    <1>6. ASSUME NEW sql \in Sqls, Post({}, "check", sql, For("check", sql))
          PROVE  Posts({}, For("check", sql)) /\ For("check", sql).for \notin Chain
        BY <1>6 DEF Posts, PostedFor, Remembers, Chain, OfCatalog, For
    <1>7. ASSUME NEW kind \in {"storage", "createIndex", "indexTree", "indexProbe"},
                 NEW t \in Tables, Post({}, kind, t, For(kind, t))
          PROVE  Posts({}, For(kind, t)) /\ For(kind, t).for \notin Chain
        BY <1>7, Postings DEF Chain
    <1>8. ASSUME NEW wanted \in Tables \union {None}, RenderIndex({}, wanted, copy.indexed),
                 Alone, UNCHANGED <<running, panels>>
          PROVE  Aside
        <2>1. CASE copy.indexed = {}
            BY <1>3, <1>8, <2>1 DEF RenderIndex
        <2>2. CASE copy.indexed # {}
            <3>1. PICK t \in IF wanted \in copy.indexed THEN {wanted} ELSE copy.indexed,
                       kind \in {"indexTree"} \union (IF tree = None THEN {} ELSE {"indexProbe"}) :
                           Post({}, kind, t, For(kind, t))
                BY <1>8, <2>2 DEF RenderIndex
            <3>2. t \in Tables /\ kind \in {"indexTree", "indexProbe"}
                BY <1>2
            <3>. QED BY <1>4, <1>7, <1>8, <3>1, <3>2
        <2>. QED BY <2>1, <2>2
    <1>9. Click => UNCHANGED <<outbox, streaming, catalog>>
        BY DEF Click
    <1>10. CASE Type
        BY <1>4, <1>6, <1>9, <1>10 DEF Type, loadState
    <1>11. CASE Run
        BY <1>2, <1>5, <1>9, <1>11 DEF Run, loadState
    <1>12. CASE OpenIndex
        BY <1>2, <1>8, <1>9, <1>12 DEF OpenIndex, loadState, queryState
    <1>13. ASSUME NEW e \in Examples, PickExample(e)
           PROVE  Aside \/ Begins
        BY <1>2, <1>5, <1>9, <1>13 DEF PickExample, loadState
    <1>14. ASSUME NEW c \in Collections, Press(c)
           PROVE  Aside
        BY <1>1, <1>3, <1>9, <1>14, NothingAsked DEF Press, queryState
    <1>15. ASSUME NEW t \in Tables, OpenStorage(t)
           PROVE  Aside
        BY <1>4, <1>7, <1>9, <1>15 DEF OpenStorage, loadState, queryState
    <1>16. ASSUME NEW t \in Tables, PickIndex(t)
           PROVE  Aside
        BY <1>8, <1>9, <1>16 DEF PickIndex, loadState, queryState
    <1>17. ASSUME NEW t \in Tables, CreateIndex(t)
           PROVE  Aside
        BY <1>4, <1>7, <1>9, <1>17 DEF CreateIndex, loadState, queryState
    <1>18. ASSUME NEW k \in DOMAIN loads, Fetched(k)
           PROVE  Aside
        <2>. DEFINE t == TablesFor(loads[k].of)[loads[k].at]
        <2>1. /\ UNCHANGED <<outbox, streaming, catalog, copy, running, panels>>
              /\ DOMAIN loads' = DOMAIN loads /\ Post({}, "load", t, For("load", k))
            BY <1>1, <1>18 DEF Fetched, queryState, Shown
        <2>2. t \in Tables
            <3>1. /\ loads[k] \in Loads /\ loads[k].at <= Len(TablesFor(loads[k].of))
                BY <1>1 DEF Shown
            <3>2. TablesFor(loads[k].of) \in Seq(Tables)
                BY <3>1, SessionAssumption DEF TablesFor, Loads
            <3>. QED BY <3>1, <3>2 DEF Loads
        <2>. HIDE DEF t
        <2>3. Posts({}, For("load", k)) /\ For("load", k).for \notin Chain
            BY <2>1, <2>2 DEF Posts, PostedFor, Remembers, Chain, OfCatalog, For
        <2>. QED BY <1>4, <2>1, <2>3
    <1>19. ASSUME NEW k \in DOMAIN loads, FetchFails(k)
           PROVE  Aside
        BY <1>1, <1>3, <1>19, NothingAsked DEF FetchFails, GiveUp, queryState, worker
    <1>. QED BY <1>10, <1>11, <1>12, <1>13, <1>14, <1>15, <1>16, <1>17, <1>18, <1>19
             DEF Reader, Network

\* The reply at the head of the outbox, and who waits for it.
LEMMA HeadOfOutbox ==
    ASSUME IInv, NEW what, NEW kind, Received(what, kind)
    PROVE  LET id == outbox[1].id
           IN  /\ outbox # <<>> /\ 1 \in DOMAIN outbox /\ Head(outbox) = outbox[1]
               /\ id \in DOMAIN pending /\ pending[id].for = what /\ outbox[1].kind = kind
               /\ Answered = {id} /\ Arg = pending[id].arg
               /\ Remembers(pending[id], DOMAIN loads) /\ MeantFor(outbox[1], pending[id])
               /\ UNCHANGED <<streaming, catalog>> /\ outbox' = Tail(outbox)
               /\ kind # "progress" => Leaves({id})
    <1>1. outbox \in Seq(Replies) /\ outbox # <<>>
        BY DEF Received, IInv, Typed
    <1>2. Head(outbox) = outbox[1] /\ 1 \in DOMAIN outbox
        BY <1>1, HeadRemoved
    <1>. QED BY <1>1, <1>2 DEF Received, IInv, Waiting, Replied, Answered, Arg, Leaves

\* What the page does with a reply is one of five kinds of steps.
LEMMA ReceiveMoves ==
    ASSUME IInv, Receive
    PROVE  Aside \/ Begins \/ Advances \/ Finishes \/ Progressed
    <1>. DEFINE id == outbox[1].id
                old == pending[id]
    <1>1. /\ editor \in Sqls /\ copy.indexed \subseteq Tables
          /\ None \notin Tables
        BY SessionAssumption DEF IInv, Typed, Shown, Catalogs
    <1>2. ASSUME NEW what, NEW kind \in {"ok", "error"}, Received(what, kind)
          PROVE  /\ Leaves({id}) /\ outbox # <<>> /\ UNCHANGED <<streaming, catalog>>
                 /\ old.for = what /\ outbox[1].kind = kind /\ Remembers(old, DOMAIN loads)
                 /\ Answered = {id} /\ Arg = old.arg /\ Head(outbox) = outbox[1]
                 /\ MeantFor(outbox[1], old)
                 /\ Elsewhere({id}) <=> what \notin Chain
                 /\ Tells({id}) <=> kind = "ok" /\ what \in {"load", "createIndex"}
        BY <1>2, HeadOfOutbox DEF Elsewhere, Tells
    <1>3. ASSUME NEW what, NEW kind \in {"ok", "error"}, Received(what, kind),
                 what \notin Chain \union OfCatalog, ~Tells({id}),
                 UNCHANGED <<copy, running, panels>>, Settled({id})
          PROVE  Aside
        <2>1. Turn({id}) /\ Elsewhere({id})
            BY <1>2, <1>3 DEF Turn
        <2>. QED BY <1>3, <2>1 DEF Aside
    <1>4. ASSUME NEW what, NEW kind \in {"ok", "error"}, Received(what, kind), NEW w,
                 what \notin Chain \union OfCatalog, Tells({id}) => w.for \in OfCatalog,
                 UNCHANGED <<copy, running, panels>>, Posts({id}, w), w.for \notin Chain
          PROVE  Aside
        <2>1. Turn({id}) /\ Elsewhere({id})
            BY <1>2, <1>4 DEF Turn
        <2>. QED BY <1>4, <2>1 DEF Aside
    <1>5. ASSUME NEW t \in Tables, Post({id}, "indexTree", t, For("indexTree", t))
          PROVE  Posts({id}, For("indexTree", t)) /\ For("indexTree", t).for \notin Chain
        BY <1>5 DEF Posts, PostedFor, Remembers, Chain, OfCatalog, For
    <1>6. CASE LoadAnswered
        <2>1. CASE /\ Received("load", "ok")
                   /\ Post(Answered, "catalog", None, For("reload", Arg))
                   /\ loads' = [loads EXCEPT ![Arg].state = "refreshing"]
                   /\ UNCHANGED <<copy, schema, offered>>
            <3>1. DOMAIN loads' = DOMAIN loads /\ old.arg \in DOMAIN loads
                <4>1. loads \in Seq(Loads)
                    BY DEF IInv, Shown
                <4>2. DOMAIN loads' = DOMAIN loads
                    BY <2>1, <4>1
                <4>3. old.for = "load" /\ Remembers(old, DOMAIN loads)
                    BY <1>2, <2>1
                <4>. HIDE DEF old
                <4>. QED BY <4>2, <4>3 DEF Remembers, Chain
            <3>2. Posts({id}, For("reload", old.arg))
                BY <1>2, <2>1, <3>1 DEF Posts, PostedFor, Remembers, Chain, OfCatalog, For
            <3>3. UNCHANGED <<running, panels>>
                BY <1>6 DEF LoadAnswered, queryState
            <3>4. For("reload", old.arg).for = "reload"
                BY DEF For
            <3>. HIDE DEF id, old
            <3>. QED BY <1>4, <2>1, <3>2, <3>3, <3>4 DEF OfCatalog, Chain
        <2>2. CASE Received("load", "error") /\ Settled(Answered) /\ GiveUp(Arg)
            <3>1. UNCHANGED <<copy, running, panels>>
                BY <1>6, <2>2 DEF LoadAnswered, queryState, GiveUp
            <3>. QED BY <1>2, <1>3, <2>2, <3>1 DEF OfCatalog, Chain
        <2>. QED BY <1>6, <2>1, <2>2 DEF LoadAnswered
    <1>7. CASE CatalogReloaded
        <2>1. Received("reload", "ok") /\ UNCHANGED panels /\ copy' = outbox[1].value
            BY <1>2, <1>7 DEF CatalogReloaded
        <2>2. Turn({id}) /\ Elsewhere({id}) /\ ~Tells({id})
            <3>1. /\ Leaves({id}) /\ UNCHANGED <<streaming, catalog>> /\ old.for = "reload"
                  /\ Elsewhere({id}) /\ ~Tells({id})
                <4>. HIDE DEF id, old
                <4>1. "reload" \notin Chain
                    BY DEF Chain
                <4>2. Received("reload", "ok")
                    BY <2>1
                <4>3. Leaves({id}) /\ UNCHANGED <<streaming, catalog>> /\ old.for = "reload"
                    BY <1>2, <4>2
                <4>4. Elsewhere({id})
                    BY <1>2, <4>1, <4>2
                <4>5. ~Tells({id})
                    BY <4>3 DEF Tells, id, old
                <4>. QED BY <4>3, <4>4, <4>5
            <3>. QED BY <2>1, <3>1 DEF Turn, OfCatalog
        <2>3. CASE Settled({id}) /\ UNCHANGED running
            BY <2>1, <2>2, <2>3 DEF Aside
        <2>4. CASE RunQuery({id}, editor) /\ ~running
            <3>. DEFINE w == [for |-> "execute", arg |-> editor, drawn |-> 0]
            <3>1. Post({id}, "execute", editor, w) /\ running' = TRUE
                BY <2>4 DEF RunQuery
            <3>2. Posts({id}, w)
                BY <1>1, <3>1, Postings
            <3>. QED BY <2>1, <2>2, <2>4, <3>1, <3>2 DEF Begins
        <2>5. Answered = {id}
            BY <1>2, <2>1
        <2>. HIDE DEF id
        <2>6. (Settled({id}) /\ UNCHANGED running) \/ RunQuery({id}, editor)
            BY <1>7, <2>5 DEF CatalogReloaded
        <2>7. CASE RunQuery({id}, editor) /\ running
            BY <2>3, <2>7 DEF RunQuery
        <2>. QED BY <2>3, <2>4, <2>6, <2>7
    <1>8. CASE Executed
        <2>1. /\ \E kind \in {"ok", "error"} : Received("execute", kind)
              /\ Draw({"results"}, Arg) /\ Post(Answered, "parse", Arg, For("parse", Arg))
              /\ UNCHANGED <<running, copy>>
            BY <1>8 DEF Executed, loadState
        <2>2. /\ Leaves({id}) /\ outbox # <<>> /\ UNCHANGED <<streaming, catalog>>
              /\ old.for = "execute" /\ old.arg \in Sqls
              /\ Answered = {id} /\ Arg = old.arg
            BY <1>2, <2>1 DEF Remembers, Chain
        <2>. DEFINE w == For("parse", old.arg)
        <2>3. w.for = "parse" /\ w.arg = old.arg
            BY DEF For
        <2>4. Posts({id}, w)
            BY <2>1, <2>2, Postings
        <2>5. Turn({id})
            BY <2>1, <2>2 DEF Turn, OfCatalog
        <2>6. DrawnBefore("parse") = DrawnBefore("execute") \union {"results"}
            BY DEF DrawnBefore
        <2>7. Draw({"results"}, w.arg)
            BY <2>1, <2>2, <2>3
        <2>. HIDE DEF w, old
        <2>. QED BY <2>1, <2>2, <2>3, <2>4, <2>5, <2>6, <2>7 DEF Advances, Chain, old
    <1>9. ASSUME NEW what \in {"parse", "plan"}, NEW stages, NEW kind \in {"plan", "physicalPlan"},
                 NextStage(what, stages, kind), UNCHANGED copy,
                 DrawnBefore(kind) = DrawnBefore(what) \union stages
          PROVE  Advances
        <2>1. /\ Received(what, "ok")
              /\ Draw(stages, Arg) /\ Post(Answered, kind, Arg, For(kind, Arg))
              /\ UNCHANGED running
            BY <1>9 DEF NextStage
        <2>2. /\ Leaves({id}) /\ outbox # <<>> /\ UNCHANGED <<streaming, catalog>>
              /\ old.for = what /\ old.arg \in Sqls
              /\ Answered = {id} /\ Arg = old.arg
            BY <1>2, <2>1 DEF Remembers, Chain
        <2>. DEFINE w == For(kind, old.arg)
        <2>3. w.for = kind /\ w.arg = old.arg
            BY DEF For
        <2>4. Posts({id}, w)
            BY <2>1, <2>2 DEF Posts, PostedFor, Remembers, Chain, OfCatalog, For
        <2>5. Turn({id})
            BY <1>9, <2>1, <2>2 DEF Turn, OfCatalog
        <2>7. Draw(stages, w.arg)
            BY <2>1, <2>2, <2>3
        <2>. HIDE DEF w, old
        <2>. QED BY <1>9, <2>1, <2>2, <2>3, <2>4, <2>5, <2>7 DEF Advances, Chain, old
    <1>10. ASSUME NEW what \in {"parse", "plan", "physicalPlan"}, NEW stages,
                  NEW kind \in {"ok", "error"}, LastStage(what, kind, stages), UNCHANGED copy,
                  Stages \ DrawnBefore(what) \subseteq stages
           PROVE  Finishes
        <2>1. /\ Received(what, kind)
              /\ Draw(stages, Arg) /\ Settled(Answered)
              /\ running' = FALSE
            BY <1>10 DEF LastStage
        <2>2. /\ Leaves({id}) /\ outbox # <<>> /\ UNCHANGED <<streaming, catalog>>
              /\ old.for = what /\ Answered = {id} /\ Arg = old.arg
            BY <1>2, <2>1
        <2>3. Turn({id})
            BY <1>10, <2>1, <2>2 DEF Turn, OfCatalog
        <2>. QED BY <1>10, <2>1, <2>2, <2>3 DEF Finishes, Chain
    <1>11. CASE StageAnswered
        <2>1. UNCHANGED copy
            BY <1>11 DEF StageAnswered, loadState
        <2>2. /\ DrawnBefore("plan") = DrawnBefore("parse") \union {"tokens"}
              /\ DrawnBefore("physicalPlan") = DrawnBefore("plan") \union {"plan"}
              /\ Stages \ DrawnBefore("parse") \subseteq Stages \ {"results"}
              /\ Stages \ DrawnBefore("plan") \subseteq {"plan", "physical"}
              /\ Stages \ DrawnBefore("physicalPlan") \subseteq {"physical"}
            BY DEF DrawnBefore, Stages
        <2>3. CASE \E kind \in {"ok", "error"} : LastStage("physicalPlan", kind, {"physical"})
            BY <1>10, <2>1, <2>2, <2>3
        <2>. QED BY <1>9, <1>10, <1>11, <2>1, <2>2, <2>3 DEF StageAnswered
    <1>12. CASE IndexAnswered
        <2>1. UNCHANGED <<copy, running, panels>>
            BY <1>12 DEF IndexAnswered, queryState, loadState
        <2>2. ASSUME NEW what \in {"indexTree", "indexProbe"}, Received(what, "ok"), Settled(Answered)
              PROVE  Aside
            BY <1>2, <1>3, <2>1, <2>2 DEF Chain, OfCatalog
        <2>3. CASE /\ Received("indexProbe", "error")
                   /\ Post(Answered, "indexTree", Arg, For("indexTree", Arg))
            <3>1. old.arg \in Tables /\ Answered = {id} /\ Arg = old.arg /\ ~Tells({id})
                BY <1>2, <2>3 DEF Remembers, Chain
            <3>2. Posts({id}, For("indexTree", Arg)) /\ For("indexTree", Arg).for \notin Chain
                BY <1>5, <2>3, <3>1
            <3>. QED BY <1>4, <2>1, <2>3, <3>1, <3>2 DEF Chain, OfCatalog
        <2>. QED BY <1>12, <2>2, <2>3 DEF IndexAnswered
    <1>13. CASE IndexCreated
        <2>1. UNCHANGED <<copy, running, panels>>
            BY <1>13 DEF IndexCreated, queryState, loadState
        <2>2. CASE /\ Received("createIndex", "ok")
                   /\ Post(Answered, "catalog", None, For("reindex", Arg))
            <3>1. old.arg \in Tables /\ Answered = {id} /\ Arg = old.arg
                BY <1>2, <2>2 DEF Remembers, Chain
            <3>2. Posts({id}, For("reindex", Arg)) /\ For("reindex", Arg).for = "reindex"
                BY <2>2, <3>1 DEF Posts, PostedFor, Remembers, Chain, OfCatalog, For
            <3>. HIDE DEF id, old
            <3>. QED BY <1>4, <2>1, <2>2, <3>2 DEF Chain, OfCatalog
        <2>3. CASE Received("createIndex", "error") /\ Settled(Answered)
            BY <1>2, <1>3, <2>1, <2>3 DEF Chain, OfCatalog
        <2>. QED BY <1>13, <2>2, <2>3 DEF IndexCreated
    <1>14. CASE IndexListed
        <2>1. /\ Received("reindex", "ok") /\ copy' = outbox[1].value
              /\ UNCHANGED <<running, panels>>
              /\ RenderIndex({id}, old.arg, outbox[1].value.indexed)
            BY <1>2, <1>14 DEF IndexListed, queryState
        <2>2. old.arg \in Tables /\ outbox[1].value \in Catalogs
            BY <1>2, <2>1 DEF Remembers, Chain, MeantFor, OfCatalog
        <2>3. Turn({id}) /\ Elsewhere({id}) /\ ~Tells({id})
            BY <1>2, <2>1 DEF Turn, OfCatalog, Chain
        <2>. DEFINE indexed == outbox[1].value.indexed
        <2>4. indexed \subseteq Tables
            BY <2>2 DEF Catalogs
        <2>. HIDE DEF id, old, indexed
        <2>5. CASE Settled({id})
            BY <2>1, <2>3, <2>5 DEF Aside
        <2>6. CASE ~Settled({id})
            <3>1. PICK t \in IF old.arg \in indexed THEN {old.arg} ELSE indexed,
                       kind \in {"indexTree"} \union (IF tree = None THEN {} ELSE {"indexProbe"}) :
                           Post({id}, kind, t, For(kind, t))
                BY <2>1, <2>6 DEF RenderIndex, indexed
            <3>2. t \in Tables /\ kind \in {"indexTree", "indexProbe"}
                BY <2>2, <2>4
            <3>3. Posts({id}, For(kind, t)) /\ For(kind, t).for = kind
                BY <3>1, <3>2, Postings
            <3>. QED BY <2>1, <2>3, <3>2, <3>3 DEF Aside, Chain
        <2>. QED BY <2>5, <2>6
    <1>15. CASE LookAnswered
        <2>1. /\ \E what \in {"check", "storage"} : Received(what, "ok")
              /\ UNCHANGED <<copy, running, panels>> /\ Settled(Answered)
            BY <1>15 DEF LookAnswered, queryState, loadState
        <2>. QED BY <1>2, <1>3, <2>1 DEF Chain, OfCatalog
    <1>. QED BY <1>6, <1>7, <1>8, <1>11, <1>12, <1>13, <1>14, <1>15 DEF Receive

-----------------------------------------------------------------------------
(* Every request is in one place.                                          *)

\* Who waits after a request was posted, and after one was settled.
LEMMA AfterPost ==
    ASSUME Numbered, NEW gone, NEW kind, NEW arg, NEW w, Post(gone, kind, arg, w)
    PROVE  /\ Numbered' /\ next' = next + 1 /\ next \notin DOMAIN pending
           /\ DOMAIN pending' = (DOMAIN pending \ gone) \union {next}
           /\ pending'[next] = w
           /\ \A i \in DOMAIN pending \ gone : pending'[i] = pending[i]
    <1>1. next \in Nat \ {0} /\ DOMAIN pending \subseteq 1..next - 1
        BY DEF Numbered
    <1>2. next \notin DOMAIN pending
        BY <1>1
    <1>. DEFINE D == (DOMAIN pending \ gone) \union {next}
    <1>3. next' = next + 1 /\ pending' = [i \in D |-> IF i = next THEN w ELSE pending[i]]
        BY DEF Post
    <1>4. D \subseteq 1..next
        BY <1>1
    <1>. HIDE DEF D
    <1>5. DOMAIN pending' = D /\ pending' = [i \in D |-> pending'[i]]
        BY <1>3
    <1>6. D \subseteq 1..next' - 1
        BY <1>1, <1>3, <1>4
    <1>7. Numbered'
        BY <1>1, <1>3, <1>5, <1>6 DEF Numbered
    <1>8. next \in D /\ DOMAIN pending \ gone \subseteq D
        BY DEF D
    <1>9. pending'[next] = w /\ \A i \in DOMAIN pending \ gone : pending'[i] = pending[i]
        BY <1>2, <1>3, <1>8
    <1>. QED BY <1>2, <1>3, <1>5, <1>7, <1>9 DEF D

\* Who waits after a request was settled.
LEMMA AfterSettled ==
    ASSUME Numbered, NEW gone, Settled(gone)
    PROVE  /\ Numbered' /\ UNCHANGED <<inbox, next>>
           /\ DOMAIN pending' = DOMAIN pending \ gone
           /\ \A i \in DOMAIN pending \ gone : pending'[i] = pending[i]
    BY DEF Numbered, Settled

\* The replies that are left when the page has taken one, or none.
LEMMA AfterLeaving ==
    ASSUME IInv, NEW gone, Leaves(gone)
    PROVE  /\ gone \subseteq DOMAIN pending /\ streaming.id \notin gone
           /\ \A k \in DOMAIN inbox : inbox[k].id \notin gone
           /\ outbox' \in Seq(Replies)
           /\ \E d \in {0, 1} :
                  /\ d = IF gone = {} THEN 0 ELSE 1
                  /\ Len(outbox') = Len(outbox) - d /\ DOMAIN outbox' = 1..Len(outbox) - d
                  /\ \A k \in DOMAIN outbox' :
                         /\ k + d \in DOMAIN outbox
                         /\ outbox'[k] = outbox[k + d]
                         /\ outbox[k + d].id \notin gone
    <1>1. outbox \in Seq(Replies) /\ Requested /\ Replied
        BY DEF IInv, Typed
    <1>2. CASE gone = {} /\ outbox' = outbox
        BY <1>1, <1>2
    <1>3. CASE /\ outbox # <<>> /\ outbox[1].id \in DOMAIN pending /\ outbox[1].kind # "progress"
               /\ gone = {outbox[1].id} /\ outbox' = Tail(outbox)
        <2>1. /\ Tail(outbox) \in Seq(Replies) /\ Len(Tail(outbox)) = Len(outbox) - 1
              /\ DOMAIN Tail(outbox) = 1..Len(outbox) - 1
              /\ \A k \in DOMAIN Tail(outbox) :
                     k + 1 \in DOMAIN outbox /\ Tail(outbox)[k] = outbox[k + 1]
              /\ 1 \in DOMAIN outbox /\ Len(outbox) \in Nat
            BY <1>1, <1>3, HeadRemoved
        <2>2. \A k \in DOMAIN Tail(outbox) : k + 1 > 1 /\ outbox[k + 1].id # outbox[1].id
            BY <1>1, <1>3, <2>1 DEF Replied
        <2>3. streaming.id # outbox[1].id
            BY <1>1, <1>3, <2>1 DEF Replied
        <2>4. \A k \in DOMAIN inbox : inbox[k].id # outbox[1].id
            BY <1>1, <2>1 DEF Requested
        <2>. QED BY <1>3, <2>1, <2>2, <2>3, <2>4
    <1>. QED BY <1>2, <1>3 DEF Leaves

\* A step of the page takes the reply it settles, if any, and no other request moves.
LEMMA TurnProtocol ==
    ASSUME IInv, NEW gone, Turn(gone), Settled(gone) \/ \E w : Posts(gone, w)
    PROVE  /\ Numbered' /\ Requested' /\ Replied' /\ InHand'
           /\ inbox' \in Seq(Requests) /\ outbox' \in Seq(Replies)
           /\ streaming' = streaming /\ catalog' = catalog /\ copy' \in Catalogs
    <1>1. /\ Numbered /\ Typed /\ Requested /\ Replied /\ InHand
          /\ inbox \in Seq(Requests) /\ outbox \in Seq(Replies)
        BY DEF IInv, Typed
    <1>2. /\ gone \subseteq DOMAIN pending /\ streaming.id \notin gone
          /\ \A k \in DOMAIN inbox : inbox[k].id \notin gone
          /\ outbox' \in Seq(Replies)
        BY AfterLeaving DEF Turn
    <1>3. PICK d \in {0, 1} :
              /\ DOMAIN outbox' = 1..Len(outbox) - d
              /\ \A k \in DOMAIN outbox' :
                     /\ k + d \in DOMAIN outbox
                     /\ outbox'[k] = outbox[k + d]
                     /\ outbox[k + d].id \notin gone
        BY AfterLeaving DEF Turn
    <1>4. UNCHANGED <<streaming, catalog>>
        BY DEF Turn
    <1>5. copy' \in Catalogs
        <2>1. CASE gone # {} /\ pending[outbox[1].id].for \in OfCatalog
            <3>1. outbox # <<>>
                BY <2>1 DEF Turn, Leaves
            <3>2. 1 \in DOMAIN outbox
                BY <1>1, <3>1, HeadRemoved
            <3>. QED BY <1>1, <2>1, <3>2 DEF Turn, Replied, MeantFor
        <2>2. CASE ~(gone # {} /\ pending[outbox[1].id].for \in OfCatalog)
            BY <1>1, <2>2 DEF Turn, Typed
        <2>. QED BY <2>1, <2>2
    <1>6. ASSUME Numbered', \A i \in DOMAIN pending \ gone : i \in DOMAIN pending' /\ pending'[i] = pending[i]
          PROVE  Replied' /\ InHand'
        <2>1. Replied'
            <3>1. SUFFICES ASSUME NEW k \in DOMAIN outbox'
                           PROVE  /\ outbox'[k].id \in DOMAIN pending'
                                  /\ MeantFor(outbox'[k], pending'[outbox'[k].id])
                                  /\ outbox'[k].kind # "progress" =>
                                         /\ outbox'[k].id # streaming'.id
                                         /\ \A j \in DOMAIN outbox' :
                                                j > k => outbox'[j].id # outbox'[k].id
                BY DEF Replied, MeantFor
            <3>. DEFINE r == outbox[k + d]
            <3>2. outbox'[k] = r /\ k + d \in DOMAIN outbox /\ r.id \notin gone /\ r.id \in DOMAIN pending
                BY <1>1, <1>3 DEF Replied
            <3>3. r.id \in DOMAIN pending' /\ pending'[r.id] = pending[r.id] /\ MeantFor(r, pending[r.id])
                BY <1>1, <1>6, <3>2 DEF Replied
            <3>4. ASSUME r.kind # "progress", NEW j \in DOMAIN outbox', j > k
                  PROVE  outbox'[j].id # r.id
                <4>1. j + d > k + d /\ j + d \in DOMAIN outbox /\ outbox'[j] = outbox[j + d]
                    BY <1>3, <3>4
                <4>. QED BY <1>1, <3>2, <3>4, <4>1 DEF Replied
            <3>5. r.kind # "progress" => r.id # streaming.id
                BY <1>1, <3>2 DEF Replied
            <3>. HIDE DEF r
            <3>. QED BY <1>4, <3>2, <3>3, <3>4, <3>5
        <2>2. InHand'
            BY <1>1, <1>2, <1>4, <1>6 DEF InHand
        <2>. QED BY <2>1, <2>2
    <1>7. CASE Settled(gone)
        <2>1. /\ Numbered' /\ UNCHANGED <<inbox, next>>
              /\ \A i \in DOMAIN pending \ gone : i \in DOMAIN pending' /\ pending'[i] = pending[i]
            BY <1>1, <1>7, AfterSettled
        <2>2. ASSUME NEW k \in DOMAIN inbox
              PROVE  /\ inbox[k].id \in DOMAIN pending'
                     /\ PostedFor(inbox[k], pending'[inbox[k].id])
                     /\ inbox[k].id # streaming'.id
                     /\ \A j \in DOMAIN inbox : inbox[j].id = inbox[k].id => j = k
                     /\ \A j \in DOMAIN outbox' : outbox'[j].id # inbox[k].id
            <3>1. inbox[k].id \in DOMAIN pending \ gone
                BY <1>1, <1>2 DEF Requested
            <3>2. \A j \in DOMAIN outbox' : outbox'[j].id # inbox[k].id
                BY <1>1, <1>3 DEF Requested
            <3>. QED BY <1>1, <1>4, <2>1, <3>1, <3>2 DEF Requested
        <2>3. Requested'
            BY <2>1, <2>2 DEF Requested, PostedFor
        <2>. QED BY <1>1, <1>2, <1>4, <1>5, <1>6, <2>1, <2>3
    <1>8. CASE \E w : Posts(gone, w)
        <2>1. PICK w, kind, arg :
                  /\ Post(gone, kind, arg, w)
                  /\ arg \in Sqls \union Tables \union {None}
                  /\ PostedFor([id |-> next, kind |-> kind, arg |-> arg], w)
                  /\ Remembers(w, DOMAIN loads')
            BY <1>8 DEF Posts
        <2>. DEFINE q == [id |-> next, kind |-> kind, arg |-> arg]
        <2>2. /\ Numbered' /\ next' = next + 1 /\ next \notin DOMAIN pending
              /\ DOMAIN pending' = (DOMAIN pending \ gone) \union {next}
              /\ pending'[next] = w
              /\ \A i \in DOMAIN pending \ gone : pending'[i] = pending[i]
            BY <1>1, <2>1, AfterPost
        <2>3. q \in Requests
            <3>1. kind \in Kinds
                BY <2>1 DEF PostedFor, Remembers, Chain, OfCatalog, Kinds
            <3>2. next \in Nat
                BY <1>1 DEF Numbered
            <3>. QED BY <2>1, <3>1, <3>2 DEF Requests
        <2>4. /\ inbox' = Append(inbox, q) /\ q.id = next
              /\ PostedFor(q, w)
            BY <2>1 DEF Post
        <2>. HIDE DEF q
        <2>5. /\ inbox' \in Seq(Requests) /\ Len(inbox) \in Nat
              /\ DOMAIN inbox' = 1..Len(inbox) + 1 /\ DOMAIN inbox = 1..Len(inbox)
              /\ \A k \in DOMAIN inbox : inbox'[k] = inbox[k]
              /\ inbox'[Len(inbox) + 1] = q
            BY <1>1, <2>3, <2>4, Appended
        <2>6. streaming.id # next
            <3>1. CASE streaming = NotStreaming
                BY <1>1, <3>1 DEF NotStreaming, Numbered
            <3>2. CASE streaming # NotStreaming
                BY <1>1, <2>2, <3>2 DEF InHand
            <3>. QED BY <3>1, <3>2
        <2>7. ASSUME NEW k \in DOMAIN inbox
              PROVE  /\ inbox[k].id \in DOMAIN pending' /\ inbox[k].id # next
                     /\ PostedFor(inbox[k], pending'[inbox[k].id])
                     /\ inbox[k].id # streaming'.id
                     /\ \A j \in DOMAIN inbox : inbox[j].id = inbox[k].id => j = k
                     /\ \A j \in DOMAIN outbox' : outbox'[j].id # inbox[k].id
            <3>1. inbox[k].id \in DOMAIN pending \ gone
                BY <1>1, <1>2 DEF Requested
            <3>2. \A j \in DOMAIN outbox' : outbox'[j].id # inbox[k].id
                BY <1>1, <1>3 DEF Requested
            <3>. QED BY <1>1, <1>4, <2>2, <3>1, <3>2 DEF Requested
        <2>8. \A j \in DOMAIN outbox' : outbox'[j].id # next
            BY <1>1, <1>3, <2>2 DEF Replied
        <2>9. Requested'
            <3>1. SUFFICES ASSUME NEW k \in DOMAIN inbox'
                           PROVE  /\ inbox'[k].id \in DOMAIN pending'
                                  /\ PostedFor(inbox'[k], pending'[inbox'[k].id])
                                  /\ inbox'[k].id # streaming'.id
                                  /\ \A j \in DOMAIN inbox' : inbox'[j].id = inbox'[k].id => j = k
                                  /\ \A j \in DOMAIN outbox' : outbox'[j].id # inbox'[k].id
                BY DEF Requested, PostedFor
            <3>2. \A j \in DOMAIN inbox' : j \in DOMAIN inbox \/ j = Len(inbox) + 1
                BY <2>5
            <3>3. CASE k \in DOMAIN inbox
                BY <2>4, <2>5, <2>7, <3>2, <3>3
            <3>4. CASE k = Len(inbox) + 1
                BY <1>4, <2>2, <2>4, <2>5, <2>6, <2>7, <2>8, <3>2, <3>4
            <3>. QED BY <3>2, <3>3, <3>4
        <2>. QED BY <1>2, <1>4, <1>5, <1>6, <2>2, <2>5, <2>9
    <1>. QED BY <1>7, <1>8

\* A reply is posted behind the others.
LEMMA ReplyPosted ==
    ASSUME Typed, Replied, UNCHANGED pending,
           NEW r \in Replies, outbox' = Append(outbox, r),
           r.id \in DOMAIN pending, MeantFor(r, pending[r.id]),
           r.kind # "progress" => r.id # streaming'.id,
           \A k \in DOMAIN outbox :
               outbox[k].kind # "progress" =>
                   outbox[k].id # r.id /\ outbox[k].id # streaming'.id
    PROVE  Replied' /\ outbox' \in Seq(Replies)
    <1>1. /\ outbox' \in Seq(Replies) /\ Len(outbox) \in Nat
          /\ DOMAIN outbox' = 1..Len(outbox) + 1 /\ DOMAIN outbox = 1..Len(outbox)
          /\ \A k \in DOMAIN outbox : outbox'[k] = outbox[k]
          /\ outbox'[Len(outbox) + 1] = r
        BY Appended DEF Typed
    <1>2. SUFFICES ASSUME NEW k \in DOMAIN outbox'
                   PROVE  /\ outbox'[k].id \in DOMAIN pending
                          /\ MeantFor(outbox'[k], pending[outbox'[k].id])
                          /\ outbox'[k].kind # "progress" =>
                                 /\ outbox'[k].id # streaming'.id
                                 /\ \A j \in DOMAIN outbox' :
                                        j > k => outbox'[j].id # outbox'[k].id
        BY <1>1 DEF Replied, MeantFor
    <1>3. \A j \in DOMAIN outbox' : j \in DOMAIN outbox \/ j = Len(outbox) + 1
        BY <1>1
    <1>4. CASE k \in DOMAIN outbox
        BY <1>1, <1>3, <1>4 DEF Replied
    <1>5. CASE k = Len(outbox) + 1
        BY <1>1, <1>3, <1>5
    <1>. QED BY <1>3, <1>4, <1>5

\* A request is taken from the front; those behind it are for other waiters.
LEMMA RequestTaken ==
    ASSUME Typed, Numbered, Requested, inbox # <<>>
    PROVE  /\ Tail(inbox) \in Seq(Requests)
           /\ \A k \in DOMAIN Tail(inbox) :
                  /\ k + 1 \in DOMAIN inbox /\ Tail(inbox)[k] = inbox[k + 1]
                  /\ inbox[k + 1].id # inbox[1].id /\ inbox[k + 1].id # 0
           /\ inbox[1].id # 0 /\ inbox[1].id # streaming.id
           /\ \A k \in DOMAIN outbox : outbox[k].id # inbox[1].id
    <1>1. inbox \in Seq(Requests)
        BY DEF Typed
    <1>2. /\ Tail(inbox) \in Seq(Requests) /\ DOMAIN Tail(inbox) = 1..Len(inbox) - 1
          /\ \A k \in DOMAIN Tail(inbox) : k + 1 \in DOMAIN inbox /\ Tail(inbox)[k] = inbox[k + 1]
          /\ 1 \in DOMAIN inbox /\ Len(inbox) \in Nat
        BY <1>1, HeadRemoved
    <1>3. \A k \in DOMAIN inbox : inbox[k].id # 0
        BY DEF Requested, Numbered
    <1>4. \A k \in DOMAIN Tail(inbox) : k + 1 # 1
        BY <1>2
    <1>. QED BY <1>2, <1>3, <1>4 DEF Requested

\* The worker takes a request and posts its one reply.
LEMMA HandlesProtocol ==
    ASSUME IInv, Handles
    PROVE  /\ Requested' /\ Replied' /\ InHand'
           /\ inbox' \in Seq(Requests) /\ outbox' \in Seq(Replies)
    <1>1. /\ Numbered /\ Typed /\ Waiting /\ Requested /\ Replied /\ InHand
          /\ inbox # <<>> /\ inbox' = Tail(inbox) /\ UNCHANGED <<streaming, pending>>
          /\ streaming = NotStreaming /\ inbox[1].id \in DOMAIN pending
        BY HeadOfInbox DEF IInv, Handles, Takes, page
    <1>2. PICK r \in Replies :
              /\ outbox' = Append(outbox, r)
              /\ r.id = inbox[1].id /\ r.kind # "progress"
              /\ MeantFor(r, pending[r.id])
        BY DEF Handles
    <1>3. /\ inbox' \in Seq(Requests)
          /\ \A k \in DOMAIN inbox' :
                 /\ k + 1 \in DOMAIN inbox /\ inbox'[k] = inbox[k + 1]
                 /\ inbox[k + 1].id # inbox[1].id
          /\ inbox[1].id # streaming.id
          /\ \A k \in DOMAIN outbox : outbox[k].id # inbox[1].id
        BY <1>1, RequestTaken
    <1>4. Replied' /\ outbox' \in Seq(Replies)
        <2>1. \A k \in DOMAIN outbox : outbox[k].kind # "progress" => outbox[k].id # streaming'.id
            BY <1>1 DEF Replied
        <2>. QED BY <1>1, <1>2, <1>3, <2>1, ReplyPosted
    <1>5. InHand'
        BY <1>1 DEF InHand
    <1>6. \A j \in DOMAIN outbox' : outbox'[j].id = inbox[1].id \/ \E k \in DOMAIN outbox : outbox'[j] = outbox[k]
        <2>1. /\ DOMAIN outbox' = 1..Len(outbox) + 1 /\ DOMAIN outbox = 1..Len(outbox)
              /\ \A k \in DOMAIN outbox : outbox'[k] = outbox[k]
              /\ outbox'[Len(outbox) + 1] = r /\ Len(outbox) \in Nat
            BY <1>1, <1>2, Appended DEF Typed
        <2>2. \A j \in DOMAIN outbox' : j \in DOMAIN outbox \/ j = Len(outbox) + 1
            BY <2>1
        <2>. QED BY <1>2, <2>1, <2>2
    <1>7. Requested'
        <2>1. SUFFICES ASSUME NEW k \in DOMAIN inbox'
                       PROVE  /\ inbox'[k].id \in DOMAIN pending
                              /\ PostedFor(inbox'[k], pending[inbox'[k].id])
                              /\ inbox'[k].id # streaming.id
                              /\ \A j \in DOMAIN inbox' : inbox'[j].id = inbox'[k].id => j = k
                              /\ \A j \in DOMAIN outbox' : outbox'[j].id # inbox'[k].id
            BY <1>1 DEF Requested, PostedFor
        <2>2. k + 1 \in DOMAIN inbox /\ inbox'[k] = inbox[k + 1] /\ k \in Nat
            BY <1>3
        <2>3. \A j \in DOMAIN inbox' : inbox'[j].id = inbox'[k].id => j = k
            <3>1. ASSUME NEW j \in DOMAIN inbox', inbox'[j].id = inbox'[k].id
                  PROVE  j = k
                <4>1. j + 1 = k + 1 /\ j \in Nat
                    BY <1>1, <1>3, <2>2, <3>1 DEF Requested
                <4>. QED BY <2>2, <4>1
            <3>. QED BY <3>1
        <2>4. \A j \in DOMAIN outbox' : outbox'[j].id # inbox'[k].id
            BY <1>1, <1>3, <1>6, <2>2 DEF Requested
        <2>. QED BY <1>1, <2>2, <2>3, <2>4 DEF Requested
    <1>. QED BY <1>3, <1>4, <1>5, <1>7

\* The worker takes a request and has it in hand until its last batch.
LEMMA StartsProtocol ==
    ASSUME IInv, Starts
    PROVE  /\ Requested' /\ Replied' /\ InHand'
           /\ inbox' \in Seq(Requests) /\ streaming' \in Underway
    <1>1. /\ Numbered /\ Typed /\ Waiting /\ Requested /\ Replied /\ InHand
          /\ inbox # <<>> /\ inbox' = Tail(inbox) /\ UNCHANGED <<outbox, pending>>
          /\ inbox[1].id \in DOMAIN pending /\ inbox[1].id \in Nat
          /\ Remembers(pending[inbox[1].id], DOMAIN loads)
        BY HeadOfInbox DEF IInv, Starts, Takes, page
    <1>. DEFINE w == pending[inbox[1].id]
    <1>2. /\ w.for = "execute"
          /\ streaming' = [id |-> inbox[1].id, sql |-> w.arg, at |-> 1, shown |-> 0, total |-> 0]
        BY DEF Starts
    <1>3. /\ inbox' \in Seq(Requests)
          /\ \A k \in DOMAIN inbox' :
                 /\ k + 1 \in DOMAIN inbox /\ inbox'[k] = inbox[k + 1]
                 /\ inbox[k + 1].id # inbox[1].id
          /\ \A k \in DOMAIN outbox : outbox[k].id # inbox[1].id
          /\ inbox[1].id # 0
        BY <1>1, RequestTaken
    <1>4. streaming' \in Underway
        BY <1>1, <1>2, <1>3 DEF Underway, Remembers, Chain
    <1>5. Replied'
        BY <1>1, <1>2, <1>3 DEF Replied, MeantFor
    <1>6. InHand'
        BY <1>1, <1>2 DEF InHand
    <1>7. Requested'
        <2>1. SUFFICES ASSUME NEW k \in DOMAIN inbox'
                       PROVE  /\ inbox'[k].id \in DOMAIN pending
                              /\ PostedFor(inbox'[k], pending[inbox'[k].id])
                              /\ inbox'[k].id # streaming'.id
                              /\ \A j \in DOMAIN inbox' : inbox'[j].id = inbox'[k].id => j = k
                              /\ \A j \in DOMAIN outbox : outbox[j].id # inbox'[k].id
            BY <1>1 DEF Requested, PostedFor
        <2>2. k + 1 \in DOMAIN inbox /\ inbox'[k] = inbox[k + 1] /\ k \in Nat
            BY <1>3
        <2>3. \A j \in DOMAIN inbox' : inbox'[j].id = inbox'[k].id => j = k
            <3>1. ASSUME NEW j \in DOMAIN inbox', inbox'[j].id = inbox'[k].id
                  PROVE  j = k
                <4>1. j + 1 = k + 1 /\ j \in Nat
                    BY <1>1, <1>3, <2>2, <3>1 DEF Requested
                <4>. QED BY <2>2, <4>1
            <3>. QED BY <3>1
        <2>. QED BY <1>1, <1>2, <1>3, <2>2, <2>3 DEF Requested
    <1>. QED BY <1>3, <1>4, <1>5, <1>6, <1>7

\* Adding what still fits keeps what is shown at the lesser of the total and
\* the cap.
LEMMA Capped ==
    ASSUME NEW total \in Nat, NEW rows \in Nat, NEW cap \in Nat,
           NEW shown, shown = Lesser(total, cap),
           NEW room, room = IF shown < cap THEN cap - shown ELSE 0,
           NEW chunk, chunk = Lesser(rows, room)
    PROVE  /\ chunk \in Nat /\ total + rows \in Nat
           /\ shown + chunk = Lesser(total + rows, cap)
           /\ shown >= cap => chunk = 0
    <1>. USE DEF Lesser
    <1>1. CASE total < cap
        <2>1. shown = total /\ cap - total \in Nat
            BY <1>1
        <2>2. chunk = IF rows < cap - total THEN rows ELSE cap - total
            BY <1>1, <2>1
        <2>. QED BY <1>1, <2>1, <2>2
    <1>2. CASE ~ (total < cap)
        <2>1. shown = cap /\ chunk = 0
            BY <1>2
        <2>. QED BY <1>2, <2>1
    <1>. QED BY <1>1, <1>2

\* A batch: how many of its rows are copied, and what is said of it.
LEMMA BatchFacts ==
    ASSUME IInv, StreamBatch
    PROVE  LET q == streaming
               rows == Batches[q.sql][q.at]
               chunk == CopyChunk(rows)
               total == q.total + rows
               message == [id |-> q.id, kind |-> "progress",
                           value |-> [rows |-> total, chunk |-> chunk]]
           IN  /\ q \in Underway /\ rows \in Nat /\ chunk \in Nat /\ total \in Nat
               /\ q.at <= Len(Batches[q.sql]) /\ Len(Batches[q.sql]) \in Nat
               /\ total = Upto(q.sql)[q.at]
               /\ q.shown + chunk = Lesser(total, Cap)
               /\ q.shown >= Cap => chunk = 0
               /\ message \in Replies
               /\ streaming' = [q EXCEPT !.at = q.at + 1, !.shown = q.shown + chunk, !.total = total]
               /\ streaming' \in Underway /\ streaming # NotStreaming /\ streaming' # NotStreaming
               /\ outbox' = Append(outbox, message) \/ (q.shown >= Cap /\ outbox' = outbox)
               /\ UNCHANGED <<inbox, catalog, page>>
    <1>. DEFINE q == streaming
                rows == Batches[q.sql][q.at]
                chunk == CopyChunk(rows)
                total == q.total + rows
                counts == [rows |-> total, chunk |-> chunk]
                message == [id |-> q.id, kind |-> "progress", value |-> counts]
    <1>1. /\ streaming # NotStreaming /\ q.at <= Len(Batches[q.sql])
          /\ outbox' = Append(outbox, message) \/ (q.shown >= Cap /\ outbox' = outbox)
          /\ streaming' = [q EXCEPT !.at = q.at + 1, !.shown = q.shown + chunk, !.total = total]
          /\ UNCHANGED <<inbox, catalog, page>>
        BY DEF StreamBatch, Reply
    <1>2. q \in Underway
        BY <1>1 DEF IInv, Typed
    <1>3. q.sql \in Sqls /\ q.at \in Nat \ {0} /\ q.shown \in Nat /\ q.total \in Nat /\ q.id \in Nat \ {0}
        BY <1>2 DEF Underway
    <1>4. Batches[q.sql] \in Seq(Nat) /\ Len(Batches[q.sql]) \in Nat /\ Cap \in Nat
        BY <1>3, SessionAssumption
    <1>5. rows \in Nat
        BY <1>1, <1>3, <1>4
    <1>6. q.total = Upto(q.sql)[q.at - 1] /\ q.shown = Lesser(q.total, Cap)
        BY <1>1 DEF IInv, Streamed
    <1>7. total = Upto(q.sql)[q.at]
        <2>1. q.at \in 1..Len(Batches[q.sql])
            BY <1>1, <1>3, <1>4
        <2>. QED BY <1>3, <1>6, <2>1, Sums
    <1>8. chunk = Lesser(rows, IF q.shown < Cap THEN Cap - q.shown ELSE 0)
        BY DEF CopyChunk
    <1>. HIDE DEF rows, chunk
    <1>9. /\ chunk \in Nat /\ total \in Nat /\ q.shown + chunk = Lesser(total, Cap)
          /\ q.shown >= Cap => chunk = 0
        <2>1. PICK before \in Nat, shown \in Nat : before = q.total /\ shown = q.shown
            BY <1>3
        <2>2. total = before + rows
            BY <2>1
        <2>3. PICK room : room = IF shown < Cap THEN Cap - shown ELSE 0
            OBVIOUS
        <2>4. shown = Lesser(before, Cap) /\ chunk = Lesser(rows, room)
            BY <1>6, <1>8, <2>1, <2>3
        <2>5. Cap \in Nat
            BY <1>4
        <2>. HIDE DEF q, total
        <2>6. /\ chunk \in Nat /\ before + rows \in Nat
              /\ shown + chunk = Lesser(before + rows, Cap)
              /\ shown >= Cap => chunk = 0
            BY <1>5, <2>3, <2>4, <2>5, Capped
        <2>. QED BY <2>1, <2>2, <2>6
    <1>. HIDE DEF total
    <1>10. counts \in Counts
        BY <1>9 DEF Counts
    <1>11. message \in Replies
        <2>. HIDE DEF counts
        <2>. QED BY <1>3, <1>10 DEF Replies
    <1>12. streaming' \in Underway /\ streaming'.id = q.id /\ q.id # 0
        <2>1. streaming' = [id |-> q.id, sql |-> q.sql, at |-> q.at + 1,
                            shown |-> q.shown + chunk, total |-> total]
            BY <1>1, <1>2 DEF Underway
        <2>2. q.at + 1 \in Nat \ {0} /\ q.shown + chunk \in Nat
            BY <1>3, <1>9
        <2>. QED BY <1>3, <1>9, <2>1, <2>2 DEF Underway
    <1>13. streaming' # NotStreaming
        BY <1>12 DEF NotStreaming
    <1>. QED BY <1>1, <1>2, <1>4, <1>5, <1>7, <1>9, <1>11, <1>12, <1>13 DEF rows, chunk, total

\* A batch is posted for the request in hand, which stays in hand.
LEMMA BatchProtocol ==
    ASSUME IInv, StreamBatch
    PROVE  /\ Requested' /\ Replied' /\ InHand'
           /\ outbox' \in Seq(Replies) /\ streaming' \in Underway
    <1>. DEFINE message == [id |-> streaming.id, kind |-> "progress",
                            value |-> [rows |-> streaming.total + Batches[streaming.sql][streaming.at],
                                       chunk |-> CopyChunk(Batches[streaming.sql][streaming.at])]]
    <1>1. /\ message \in Replies /\ streaming \in Underway /\ streaming' \in Underway
          /\ streaming # NotStreaming
          /\ streaming'.id = streaming.id /\ streaming'.sql = streaming.sql
          /\ outbox' = Append(outbox, message) \/ outbox' = outbox
          /\ UNCHANGED <<inbox, pending>>
        BY BatchFacts DEF Underway, page
    <1>2. message.id = streaming.id /\ message.kind = "progress"
        OBVIOUS
    <1>. HIDE DEF message
    <1>3. Numbered /\ Typed /\ Requested /\ Replied /\ InHand /\ outbox \in Seq(Replies)
        BY DEF IInv, Typed
    <1>4. streaming.id \in DOMAIN pending /\ pending[streaming.id].for = "execute"
        BY <1>1, <1>3 DEF InHand
    <1>5. InHand'
        BY <1>1, <1>3 DEF InHand
    <1>6. CASE outbox' = Append(outbox, message)
        <2>1. MeantFor(message, pending[message.id])
            BY <1>2, <1>4 DEF MeantFor, OfCatalog
        <2>2. \A k \in DOMAIN outbox : outbox[k].kind # "progress" => outbox[k].id # streaming.id
            BY <1>3 DEF Replied
        <2>3. Replied' /\ outbox' \in Seq(Replies)
            BY <1>1, <1>2, <1>3, <1>4, <1>6, <2>1, <2>2, ReplyPosted
        <2>4. \A j \in DOMAIN outbox' : outbox'[j].id = streaming.id \/ \E k \in DOMAIN outbox : outbox'[j] = outbox[k]
            <3>1. /\ DOMAIN outbox' = 1..Len(outbox) + 1 /\ DOMAIN outbox = 1..Len(outbox)
                  /\ \A k \in DOMAIN outbox : outbox'[k] = outbox[k]
                  /\ outbox'[Len(outbox) + 1] = message /\ Len(outbox) \in Nat
                BY <1>1, <1>3, <1>6, Appended
            <3>2. \A j \in DOMAIN outbox' : j \in DOMAIN outbox \/ j = Len(outbox) + 1
                BY <3>1
            <3>. QED BY <1>2, <3>1, <3>2
        <2>5. Requested'
            BY <1>1, <1>3, <2>4 DEF Requested, PostedFor
        <2>. QED BY <1>1, <1>5, <2>3, <2>5
    <1>7. CASE outbox' = outbox
        <2>1. Replied' /\ Requested'
            BY <1>1, <1>3, <1>7 DEF Requested, Replied, PostedFor, MeantFor
        <2>. QED BY <1>1, <1>3, <1>5, <1>7, <2>1
    <1>. QED BY <1>1, <1>6, <1>7

\* The end: the answer to the query, or an error.
LEMMA EndFacts ==
    ASSUME IInv, StreamEnd
    PROVE  \E r \in Replies :
               /\ r.id = streaming.id /\ r.kind \in {"ok", "error"}
               /\ r.kind = "ok" =>
                      /\ r.value \in Summaries /\ r.value.streamed
                      /\ r.value.rows = Total(streaming.sql)
                      /\ streaming.shown = Lesser(r.value.rows, Cap)
               /\ outbox' = Append(outbox, r)
               /\ streaming \in Underway /\ streaming # NotStreaming /\ streaming' = NotStreaming
               /\ UNCHANGED <<inbox, catalog, page>>
    <1>. DEFINE q == streaming
                value == [rows |-> q.total, chunk |-> 0, streamed |-> TRUE]
                r == IF q.sql \in Breaks THEN Error(q.id) ELSE Ok(q.id, value)
    <1>1. /\ streaming # NotStreaming /\ q.at > Len(Batches[q.sql])
          /\ outbox' = Append(outbox, r) /\ streaming' = NotStreaming
          /\ UNCHANGED <<inbox, catalog, page>>
        BY DEF StreamEnd, Reply
    <1>2. q \in Underway
        BY <1>1 DEF IInv, Typed
    <1>3. q.sql \in Sqls /\ q.at \in Nat \ {0} /\ q.total \in Nat /\ q.id \in Nat \ {0}
        BY <1>2 DEF Underway
    <1>4. Len(Batches[q.sql]) \in Nat
        BY <1>3, SessionAssumption
    <1>5. q.total = Total(q.sql) /\ q.shown = Lesser(q.total, Cap)
        <2>1. q.at - 1 = Len(Batches[q.sql])
            BY <1>1, <1>3, <1>4 DEF IInv, Streamed
        <2>. QED BY <1>1, <2>1 DEF IInv, Streamed, Total
    <1>6. value \in Summaries
        BY <1>3 DEF Summaries
    <1>7. value.streamed /\ value.rows = q.total
        OBVIOUS
    <1>. HIDE DEF value
    <1>8. /\ r \in Replies /\ r.id = q.id /\ r.kind \in {"ok", "error"}
          /\ r.kind = "ok" => r.value = value
        BY <1>3, <1>6 DEF Replies, Ok, Error
    <1>. HIDE DEF r
    <1>. QED BY <1>1, <1>2, <1>5, <1>6, <1>7, <1>8

\* The last reply leaves the worker's hands empty.
LEMMA EndProtocol ==
    ASSUME IInv, StreamEnd
    PROVE  /\ Requested' /\ Replied' /\ InHand'
           /\ outbox' \in Seq(Replies)
    <1>1. PICK r \in Replies :
              /\ r.id = streaming.id /\ r.kind \in {"ok", "error"}
              /\ r.kind = "ok" => r.value \in Summaries
              /\ outbox' = Append(outbox, r)
              /\ streaming \in Underway /\ streaming # NotStreaming /\ streaming' = NotStreaming
              /\ UNCHANGED <<inbox, page>>
        BY EndFacts
    <1>2. /\ Numbered /\ Typed /\ Requested /\ Replied /\ InHand /\ outbox \in Seq(Replies)
          /\ UNCHANGED <<inbox, pending>>
        BY <1>1 DEF IInv, Typed, page
    <1>3. streaming.id \in DOMAIN pending /\ pending[streaming.id].for = "execute"
        BY <1>1, <1>2 DEF InHand
    <1>4. \A i \in DOMAIN pending : i # streaming'.id
        BY <1>1, <1>2 DEF Numbered, NotStreaming
    <1>5. InHand'
        BY <1>1 DEF InHand
    <1>6. Replied' /\ outbox' \in Seq(Replies)
        <2>1. MeantFor(r, pending[r.id])
            BY <1>1, <1>3 DEF MeantFor, OfCatalog
        <2>2. \A k \in DOMAIN outbox :
                  outbox[k].kind # "progress" => outbox[k].id # r.id /\ outbox[k].id # streaming'.id
            BY <1>1, <1>2, <1>4 DEF Replied
        <2>. QED BY <1>1, <1>2, <1>3, <1>4, <2>1, <2>2, ReplyPosted
    <1>7. \A j \in DOMAIN outbox' : outbox'[j].id = streaming.id \/ \E k \in DOMAIN outbox : outbox'[j] = outbox[k]
        <2>1. /\ DOMAIN outbox' = 1..Len(outbox) + 1 /\ DOMAIN outbox = 1..Len(outbox)
              /\ \A k \in DOMAIN outbox : outbox'[k] = outbox[k]
              /\ outbox'[Len(outbox) + 1] = r /\ Len(outbox) \in Nat
            BY <1>1, <1>2, Appended
        <2>2. \A j \in DOMAIN outbox' : j \in DOMAIN outbox \/ j = Len(outbox) + 1
            BY <2>1
        <2>. QED BY <1>1, <2>1, <2>2
    <1>8. Requested'
        BY <1>2, <1>4, <1>7 DEF Requested, PostedFor
    <1>. QED BY <1>5, <1>6, <1>8

\* Part of an answer is drawn: its request goes on waiting.
LEMMA ProgressFacts ==
    ASSUME IInv, Progressed
    PROVE  LET id == outbox[1].id
               old == pending[id]
               counts == outbox[1].value
               more == Lesser(counts.chunk, IF old.drawn < Cap THEN Cap - old.drawn ELSE 0)
           IN  /\ outbox # <<>> /\ 1 \in DOMAIN outbox /\ outbox[1] \in Replies
               /\ outbox[1].kind = "progress" /\ counts \in Counts
               /\ id \in DOMAIN pending /\ old.for = "execute" /\ Remembers(old, DOMAIN loads)
               /\ outbox' = Tail(outbox)
               /\ pending' = [pending EXCEPT ![id].drawn = old.drawn + more]
               /\ results' = [sql |-> old.arg, shown |-> old.drawn + more,
                              rows |-> counts.rows, state |-> "part"]
               /\ UNCHANGED <<inbox, next, streaming, catalog, running, panels, copy, schema, loads>>
    <1>1. Received("execute", "progress")
        BY DEF Progressed
    <1>2. /\ outbox # <<>> /\ 1 \in DOMAIN outbox /\ Head(outbox) = outbox[1]
          /\ outbox[1].kind = "progress" /\ outbox[1].id \in DOMAIN pending
          /\ pending[outbox[1].id].for = "execute" /\ Remembers(pending[outbox[1].id], DOMAIN loads)
          /\ Arg = pending[outbox[1].id].arg /\ outbox' = Tail(outbox)
          /\ UNCHANGED <<streaming, catalog>>
        BY <1>1, HeadOfOutbox
    <1>3. outbox[1] \in Replies
        BY <1>2 DEF IInv, Typed
    <1>4. outbox[1].value \in Counts
        BY <1>2, <1>3 DEF Replies
    <1>. QED BY <1>2, <1>3, <1>4 DEF Progressed, loadState

\* A part of an answer settles nothing.
LEMMA ProgressProtocol ==
    ASSUME IInv, Progressed
    PROVE  /\ Numbered' /\ Requested' /\ Replied' /\ InHand'
           /\ outbox' \in Seq(Replies)
           /\ DOMAIN pending' = DOMAIN pending
           /\ \A i \in DOMAIN pending :
                  /\ pending'[i].for = pending[i].for /\ pending'[i].arg = pending[i].arg
                  /\ DOMAIN pending'[i] = DOMAIN pending[i]
    <1>1. /\ Numbered /\ Typed /\ Requested /\ Replied /\ InHand /\ Waiting /\ outbox \in Seq(Replies)
        BY DEF IInv, Typed
    <1>. DEFINE id == outbox[1].id
    <1>2. PICK drawn :
              /\ outbox # <<>> /\ id \in DOMAIN pending /\ pending[id].for = "execute"
              /\ outbox' = Tail(outbox)
              /\ pending' = [pending EXCEPT ![id].drawn = drawn]
              /\ UNCHANGED <<inbox, next, streaming>>
        BY ProgressFacts
    <1>3. /\ outbox' \in Seq(Replies) /\ DOMAIN outbox' = 1..Len(outbox) - 1
          /\ \A k \in DOMAIN outbox' : k + 1 \in DOMAIN outbox /\ outbox'[k] = outbox[k + 1]
          /\ 1 \in DOMAIN outbox /\ Len(outbox) \in Nat
        BY <1>1, <1>2, HeadRemoved
    <1>4. /\ DOMAIN pending' = DOMAIN pending
          /\ pending' = [i \in DOMAIN pending |-> IF i = id THEN [pending[id] EXCEPT !.drawn = drawn] ELSE pending[i]]
        BY <1>1, <1>2 DEF Numbered
    <1>. HIDE DEF id
    <1>5. \A i \in DOMAIN pending :
              /\ pending'[i].for = pending[i].for /\ pending'[i].arg = pending[i].arg
              /\ DOMAIN pending'[i] = DOMAIN pending[i]
              /\ i # id => pending'[i] = pending[i]
        BY <1>4
    <1>6. Numbered'
        BY <1>1, <1>2, <1>4 DEF Numbered
    <1>7. \A k \in DOMAIN inbox : inbox[k].id # id
        BY <1>1, <1>3 DEF Requested, id
    <1>8. Requested'
        <2>1. \A k \in DOMAIN inbox : PostedFor(inbox[k], pending'[inbox[k].id])
            BY <1>1, <1>5, <1>7 DEF Requested
        <2>2. \A k \in DOMAIN inbox : \A j \in DOMAIN outbox' : outbox'[j].id # inbox[k].id
            BY <1>1, <1>3 DEF Requested
        <2>. QED BY <1>1, <1>2, <1>4, <2>1, <2>2 DEF Requested, PostedFor
    <1>9. Replied'
        <2>1. SUFFICES ASSUME NEW k \in DOMAIN outbox'
                       PROVE  /\ outbox'[k].id \in DOMAIN pending'
                              /\ MeantFor(outbox'[k], pending'[outbox'[k].id])
                              /\ outbox'[k].kind # "progress" =>
                                     /\ outbox'[k].id # streaming.id
                                     /\ \A j \in DOMAIN outbox' :
                                            j > k => outbox'[j].id # outbox'[k].id
            BY <1>2 DEF Replied, MeantFor
        <2>. DEFINE r == outbox[k + 1]
        <2>2. outbox'[k] = r /\ k + 1 \in DOMAIN outbox /\ r.id \in DOMAIN pending
            BY <1>1, <1>3 DEF Replied
        <2>3. MeantFor(r, pending'[r.id])
            BY <1>1, <1>5, <2>2 DEF Replied, MeantFor
        <2>4. ASSUME r.kind # "progress", NEW j \in DOMAIN outbox', j > k
              PROVE  outbox'[j].id # r.id
            <3>1. j + 1 > k + 1 /\ j + 1 \in DOMAIN outbox /\ outbox'[j] = outbox[j + 1]
                BY <1>3, <2>4
            <3>. QED BY <1>1, <2>2, <2>4, <3>1 DEF Replied
        <2>5. r.kind # "progress" => r.id # streaming.id
            BY <1>1, <2>2 DEF Replied
        <2>. HIDE DEF r
        <2>. QED BY <1>4, <2>2, <2>3, <2>4, <2>5
    <1>10. InHand'
        BY <1>1, <1>2, <1>4, <1>5 DEF InHand
    <1>. QED BY <1>3, <1>4, <1>5, <1>6, <1>8, <1>9, <1>10

-----------------------------------------------------------------------------
(* What the page shows keeps its shape.                                    *)

\* A load changes in place, and the table it is at stays one of its tables.
LEMMA LoadChanged ==
    ASSUME Shown, NEW k \in DOMAIN loads, NEW load \in Loads,
           load.at <= Len(TablesFor(load.of)),
           loads' = [loads EXCEPT ![k] = load]
    PROVE  /\ loads' \in Seq(Loads) /\ DOMAIN loads' = DOMAIN loads
           /\ \A j \in DOMAIN loads' : loads'[j].at <= Len(TablesFor(loads'[j].of))
    <1>1. loads \in Seq(Loads)
        BY DEF Shown
    <1>2. loads' \in Seq(Loads) /\ DOMAIN loads' = DOMAIN loads
        BY <1>1, ExceptSeq
    <1>3. \A j \in DOMAIN loads : loads'[j] = IF j = k THEN load ELSE loads[j]
        BY <1>1
    <1>4. ASSUME NEW j \in DOMAIN loads
          PROVE  loads'[j].at <= Len(TablesFor(loads'[j].of))
        BY <1>3 DEF Shown
    <1>. QED BY <1>2, <1>4

\* Page and worker share nothing.
LEMMA WorkerLeavesPage ==
    ASSUME Worker
    PROVE  UNCHANGED page /\ (ready' = ready \/ ready' \in {"kept", "broken"})
    BY DEF Worker, EngineLoaded, EngineFailsToLoad, HandleLoad, HandleCreateIndex,
           HandleReading, StartStreaming, StreamBatch, StreamEnd, Take

\* A load stays within its tables; loads are added and none is forgotten.
LEMMA LoadsNext ==
    ASSUME IInv, Next
    PROVE  /\ loads' \in Seq(Loads) /\ DOMAIN loads \subseteq DOMAIN loads'
           /\ \A j \in DOMAIN loads' : loads'[j].at <= Len(TablesFor(loads'[j].of))
           /\ offered' \subseteq Collections
    <1>. DEFINE Fine == /\ loads' \in Seq(Loads) /\ DOMAIN loads \subseteq DOMAIN loads'
                        /\ \A j \in DOMAIN loads' : loads'[j].at <= Len(TablesFor(loads'[j].of))
    <1>1. /\ Shown /\ loads \in Seq(Loads) /\ offered \subseteq Collections
          /\ DOMAIN loads = 1..Len(loads) /\ Len(loads) \in Nat
          /\ \A j \in DOMAIN loads : loads[j] \in Loads /\ loads[j].at <= Len(TablesFor(loads[j].of))
        BY DEF IInv, Shown
    <1>2. UNCHANGED loads => Fine
        BY <1>1 DEF Shown
    <1>3. ASSUME NEW k \in DOMAIN loads, NEW state \in {"fetching", "loading", "refreshing", "done", "failed"},
                 loads' = [loads EXCEPT ![k].state = state]
          PROVE  Fine
        <2>. DEFINE load == [loads[k] EXCEPT !.state = state]
        <2>1. loads[k] \in Loads
            BY <1>1
        <2>2. load \in Loads /\ load.at = loads[k].at /\ load.of = loads[k].of
            BY <2>1 DEF Loads
        <2>3. loads' = [loads EXCEPT ![k] = load]
            BY <1>3
        <2>4. load.at <= Len(TablesFor(load.of))
            BY <1>1, <2>2
        <2>. HIDE DEF load
        <2>. QED BY <1>1, <2>2, <2>3, <2>4, LoadChanged
    <1>4. ASSUME NEW k \in DOMAIN loads, GiveUp(k)
          PROVE  Fine /\ offered' \subseteq Collections
        <2>1. loads' = [loads EXCEPT ![k].state = "failed"]
            BY <1>4 DEF GiveUp
        <2>2. offered' \subseteq Collections
            BY <1>1, <1>4 DEF GiveUp
        <2>. QED BY <1>3, <2>1, <2>2
    <1>5. ASSUME NEW c \in Collections, Press(c)
          PROVE  Fine /\ offered' \subseteq Collections
        <2>1. loads' = Append(loads, Begun(c)) /\ offered' \subseteq offered
            BY <1>5 DEF Press
        <2>2. Begun(c) \in Loads /\ Begun(c).at = 1 /\ Begun(c).of = c
            BY DEF Begun, Loads
        <2>3. Len(TablesFor(c)) \in Nat \ {0}
            <3>1. TablesFor(c) \in Seq(Tables) \ {<<>>}
                BY SessionAssumption DEF TablesFor
            <3>. QED BY <3>1
        <2>4. /\ loads' \in Seq(Loads) /\ DOMAIN loads' = 1..Len(loads) + 1
              /\ \A j \in DOMAIN loads : loads'[j] = loads[j]
              /\ loads'[Len(loads) + 1] = Begun(c)
            BY <1>1, <2>1, <2>2, Appended
        <2>5. ASSUME NEW j \in DOMAIN loads'
              PROVE  loads'[j].at <= Len(TablesFor(loads'[j].of))
            <3>1. CASE j \in DOMAIN loads
                BY <1>1, <2>4, <3>1
            <3>2. CASE j = Len(loads) + 1
                BY <2>2, <2>3, <2>4, <3>2
            <3>. QED BY <1>1, <2>4, <3>1, <3>2
        <2>6. DOMAIN loads \subseteq DOMAIN loads'
            BY <1>1, <2>4
        <2>. QED BY <1>1, <2>1, <2>4, <2>5, <2>6
    <1>6. ASSUME NEW what, NEW kind, Received(what, kind), what \in {"load", "reload"}
          PROVE  Arg \in DOMAIN loads
        BY <1>6, HeadOfOutbox DEF Remembers, Chain
    <1>7. CASE LoadAnswered
        <2>1. Arg \in DOMAIN loads
            BY <1>6, <1>7 DEF LoadAnswered
        <2>. QED BY <1>1, <1>3, <1>4, <1>7, <2>1 DEF LoadAnswered
    <1>8. CASE CatalogReloaded
        <2>1. Arg \in DOMAIN loads /\ loads[Arg] \in Loads
            BY <1>1, <1>6, <1>8 DEF CatalogReloaded
        <2>2. CASE /\ loads[Arg].at < Len(TablesFor(loads[Arg].of))
                   /\ loads' = [loads EXCEPT ![Arg].state = "fetching", ![Arg].at = @ + 1]
                   /\ UNCHANGED offered
            <3>. DEFINE load == [of |-> loads[Arg].of, at |-> loads[Arg].at + 1,
                                 state |-> "fetching", attached |-> loads[Arg].attached]
            <3>1. loads' = [loads EXCEPT ![Arg] = load]
                <4>. DEFINE one == [loads[Arg] EXCEPT !.state = "fetching"]
                <4>1. one.at = loads[Arg].at /\ [one EXCEPT !.at = one.at + 1] = load
                    <5>. DEFINE l == loads[Arg]
                    <5>1. l \in Loads
                        BY <2>1
                    <5>. HIDE DEF l
                    <5>2. l = [of |-> l.of, at |-> l.at, state |-> l.state, attached |-> l.attached]
                        BY <5>1 DEF Loads
                    <5>3. one = [of |-> l.of, at |-> l.at, state |-> "fetching", attached |-> l.attached]
                        BY <5>2 DEF l
                    <5>. HIDE DEF one
                    <5>. QED BY <5>3 DEF l
                <4>2. loads' = [loads EXCEPT ![Arg] = [one EXCEPT !.at = one.at + 1]]
                    BY <1>1, <2>1, <2>2, <4>1
                <4>. QED BY <4>1, <4>2
            <3>2. load \in Loads /\ load.at = loads[Arg].at + 1 /\ load.of = loads[Arg].of
                BY <2>1 DEF Loads
            <3>3. loads[Arg].at + 1 <= Len(TablesFor(loads[Arg].of))
                <4>1. TablesFor(loads[Arg].of) \in Seq(Tables)
                    BY <2>1, SessionAssumption DEF TablesFor, Loads
                <4>2. Len(TablesFor(loads[Arg].of)) \in Nat /\ loads[Arg].at \in Nat
                    BY <2>1, <4>1 DEF Loads
                <4>. QED BY <2>2, <4>2
            <3>. HIDE DEF load
            <3>4. load \in Loads /\ load.at <= Len(TablesFor(load.of))
                BY <3>2, <3>3
            <3>5. /\ loads' \in Seq(Loads) /\ DOMAIN loads' = DOMAIN loads
                  /\ \A j \in DOMAIN loads' : loads'[j].at <= Len(TablesFor(loads'[j].of))
                BY <1>1, <2>1, <3>1, <3>4, LoadChanged
            <3>. QED BY <1>1, <2>2, <3>5
        <2>3. CASE Finish(Arg)
            <3>. DEFINE load(j) == [loads[j] EXCEPT !.state = IF j = Arg THEN "done" ELSE @,
                                                    !.attached = FALSE]
            <3>1. loads' = [j \in DOMAIN loads |-> load(j)] /\ offered' \subseteq Collections
                BY <2>3 DEF Finish
            <3>2. \A j \in DOMAIN loads :
                      load(j) \in Loads /\ load(j).at = loads[j].at /\ load(j).of = loads[j].of
                BY <1>1 DEF Loads
            <3>. HIDE DEF load
            <3>3. /\ DOMAIN loads' = DOMAIN loads
                  /\ \A j \in DOMAIN loads : loads'[j] = load(j)
                BY <3>1
            <3>4. loads' \in [1..Len(loads) -> Loads]
                BY <1>1, <3>1, <3>2
            <3>5. loads' \in Seq(Loads)
                BY <1>1, <3>4, SeqDef
            <3>6. ASSUME NEW j \in DOMAIN loads
                  PROVE  loads'[j].at <= Len(TablesFor(loads'[j].of))
                BY <1>1, <3>2, <3>3
            <3>. QED BY <3>1, <3>3, <3>5, <3>6
        <2>. QED BY <1>8, <2>2, <2>3 DEF CatalogReloaded
    <1>9. ASSUME Worker \/ Progressed \/ Executed \/ StageAnswered \/ IndexAnswered
                 \/ IndexCreated \/ IndexListed \/ LookAnswered
          PROVE  UNCHANGED <<loads, offered>>
        <2>. QED BY <1>9, WorkerLeavesPage DEF page, Progressed, Executed, StageAnswered, IndexAnswered,
                 IndexCreated, IndexListed, LookAnswered, loadState
    <1>10. ASSUME NEW e \in Examples, NEW t \in Tables,
                  Type \/ Run \/ OpenIndex \/ PickExample(e)
                  \/ OpenStorage(t) \/ PickIndex(t) \/ CreateIndex(t)
           PROVE  UNCHANGED <<loads, offered>>
        BY <1>10 DEF Type, Run, OpenIndex, PickExample, OpenStorage, PickIndex, CreateIndex, loadState
    <1>11. ASSUME NEW k \in DOMAIN loads, Fetched(k) \/ FetchFails(k)
           PROVE  Fine /\ offered' \subseteq Collections
        BY <1>1, <1>3, <1>4, <1>11 DEF Fetched, FetchFails
    <1>. QED
        <2>1. CASE Worker
            BY <1>1, <1>2, <1>9, <2>1
        <2>2. CASE Receive
            BY <1>1, <1>2, <1>7, <1>8, <1>9, <2>2 DEF Receive, LoadAnswered
        <2>3. CASE Reader
            <3>1. Examples # {} /\ Tables # {}
                BY <1>1, SessionAssumption DEF Shown, IInv
            <3>. QED BY <1>1, <1>2, <1>5, <1>10, <2>3, <3>1 DEF Reader
        <2>4. CASE Network
            BY <1>11, <2>4 DEF Network
        <2>. QED BY <2>1, <2>2, <2>3, <2>4 DEF Next

\* The editor holds a text, and the note is about the example that was picked.
LEMMA EditorNext ==
    ASSUME IInv, Next
    PROVE  editor' \in Sqls /\ picked' \in Examples /\ note' \in {None, picked'}
    <1>1. editor \in Sqls /\ picked \in Examples /\ note \in {None, picked} /\ Examples \subseteq Sqls
        BY SessionAssumption DEF IInv, Shown
    <1>2. \A sql : SyncNote(sql) \in {None, picked}
        BY <1>1 DEF SyncNote
    <1>3. ASSUME Worker \/ Progressed \/ Executed \/ StageAnswered \/ IndexAnswered \/ LoadAnswered
                 \/ IndexCreated \/ IndexListed \/ LookAnswered \/ Network
          PROVE  UNCHANGED <<editor, picked, note>>
        BY <1>3, WorkerLeavesPage
           DEF page, Progressed, Executed, StageAnswered, IndexAnswered, LoadAnswered,
               IndexCreated, IndexListed, LookAnswered, Network, Fetched, FetchFails, queryState
    <1>4. ASSUME CatalogReloaded \/ Run
          PROVE  UNCHANGED <<editor, picked>> /\ note' \in {None, picked}
        BY <1>1, <1>2, <1>4 DEF CatalogReloaded, Run
    <1>5. CASE Type
        BY <1>1, <1>5 DEF Type
    <1>6. ASSUME NEW e \in Examples, PickExample(e)
          PROVE  editor' \in Sqls /\ picked' \in Examples /\ note' \in {None, picked'}
        BY <1>1, <1>6 DEF PickExample
    <1>7. ASSUME NEW t, OpenIndex \/ Press(t) \/ OpenStorage(t) \/ PickIndex(t) \/ CreateIndex(t)
          PROVE  UNCHANGED <<editor, picked, note>>
        BY <1>7 DEF OpenIndex, Press, OpenStorage, PickIndex, CreateIndex, queryState
    <1>. QED BY <1>1, <1>3, <1>4, <1>5, <1>6, <1>7 DEF Next, Receive, Reader

\* The index that is chosen, and the one that is drawn, are of tables.
LEMMA IndexNext ==
    ASSUME IInv, Next
    PROVE  choice' \in Tables \union {None} /\ tree' \in Tables \union {None}
    <1>1. /\ choice \in Tables \union {None} /\ tree \in Tables \union {None}
          /\ copy.indexed \subseteq Tables
        BY DEF IInv, Shown, Typed, Catalogs
    <1>2. ASSUME NEW gone, NEW wanted \in Tables \union {None}, NEW indexed \in SUBSET Tables,
                 RenderIndex(gone, wanted, indexed)
          PROVE  choice' \in Tables \union {None} /\ tree' \in Tables \union {None}
        <2>1. CASE indexed = {}
            BY <1>2, <2>1 DEF RenderIndex
        <2>2. CASE indexed # {}
            <3>1. /\ UNCHANGED tree
                  /\ choice' \in IF wanted \in indexed THEN {wanted} ELSE indexed
                BY <1>2, <2>2 DEF RenderIndex
            <3>. QED BY <1>1, <3>1
        <2>. QED BY <2>1, <2>2
    <1>3. ASSUME Worker \/ Progressed \/ Executed \/ StageAnswered \/ LoadAnswered \/ CatalogReloaded
                 \/ IndexCreated \/ LookAnswered \/ Network \/ Type \/ Run
          PROVE  UNCHANGED indexState
        BY <1>3, WorkerLeavesPage
           DEF page, Progressed, Executed, StageAnswered, LoadAnswered, CatalogReloaded,
               IndexCreated, LookAnswered, Network, Fetched, FetchFails, Type, Run, indexState
    <1>4. ASSUME NEW t, Press(t) \/ OpenStorage(t) \/ CreateIndex(t) \/ PickExample(t)
          PROVE  UNCHANGED indexState
        BY <1>4 DEF Press, OpenStorage, CreateIndex, PickExample
    <1>5. CASE IndexAnswered
        <2>1. ASSUME NEW what \in {"indexTree", "indexProbe"}, Received(what, "ok")
              PROVE  Arg \in Tables
            BY <2>1, HeadOfOutbox DEF Remembers, Chain
        <2>. QED BY <1>1, <1>5, <2>1 DEF IndexAnswered
    <1>6. CASE IndexListed
        <2>1. Received("reindex", "ok") /\ RenderIndex(Answered, Arg, Head(outbox).value.indexed)
            BY <1>6 DEF IndexListed
        <2>2. Arg \in Tables
            BY <2>1, HeadOfOutbox DEF Remembers, Chain
        <2>3. Head(outbox).value \in Catalogs
            BY <2>1, HeadOfOutbox DEF MeantFor, OfCatalog
        <2>4. Head(outbox).value.indexed \in SUBSET Tables
            BY <2>3 DEF Catalogs
        <2>. QED BY <1>2, <2>1, <2>2, <2>4
    <1>7. CASE OpenIndex
        BY <1>1, <1>2, <1>7 DEF OpenIndex
    <1>8. ASSUME NEW t \in Tables, PickIndex(t)
          PROVE  choice' \in Tables \union {None} /\ tree' \in Tables \union {None}
        BY <1>1, <1>2, <1>8 DEF PickIndex
    <1>. QED BY <1>1, <1>3, <1>4, <1>5, <1>6, <1>7, <1>8 DEF Next, Receive, Reader, indexState

\* Completion's tables change with the copy of the catalog, unless a load goes on.
LEMMA ListedNext ==
    ASSUME IInv, Next
    PROVE  schema' \subseteq Tables /\ Listed'
    <1>1. /\ schema \subseteq Tables /\ Listed /\ loads \in Seq(Loads)
          /\ \A k \in DOMAIN loads : loads[k] \in Loads
        BY DEF IInv, Shown
    <1>2. Held(copy)' \subseteq Tables /\ (UNCHANGED copy => Held(copy)' = Held(copy))
        BY DEF Held
    <1>3. ASSUME UNCHANGED <<copy, schema, loads>>
          PROVE  schema' \subseteq Tables /\ Listed'
        BY <1>1, <1>2, <1>3 DEF Listed
    <1>4. ASSUME NEW k \in DOMAIN loads, UNCHANGED <<copy, schema>>,
                 loads' = [loads EXCEPT ![k].state = "failed"]
                 \/ loads' = [loads EXCEPT ![k].state = "loading"]
                 \/ loads' = [loads EXCEPT ![k].state = "refreshing"]
          PROVE  schema' \subseteq Tables /\ Listed'
        <2>1. k \in DOMAIN loads' /\ loads'[k].state # "done"
            BY <1>1, <1>4 DEF Loads
        <2>. QED BY <1>1, <1>4, <2>1 DEF Listed
    <1>5. ASSUME NEW k \in DOMAIN loads, GiveUp(k)
          PROVE  schema' \subseteq Tables /\ Listed'
        BY <1>4, <1>5 DEF GiveUp
    <1>6. ASSUME NEW what, NEW kind, Received(what, kind), what \in {"load", "reload"}
          PROVE  Arg \in DOMAIN loads
        BY <1>6, HeadOfOutbox DEF Remembers, Chain
    <1>7. CASE LoadAnswered
        BY <1>4, <1>5, <1>6, <1>7 DEF LoadAnswered
    <1>8. CASE CatalogReloaded
        <2>1. Arg \in DOMAIN loads
            BY <1>6, <1>8 DEF CatalogReloaded
        <2>2. CASE Finish(Arg)
            BY <1>2, <2>2 DEF Finish, Listed
        <2>3. CASE /\ loads' = [loads EXCEPT ![Arg].state = "fetching", ![Arg].at = @ + 1]
                   /\ UNCHANGED schema
            <3>1. Arg \in DOMAIN loads' /\ loads'[Arg].state = "fetching"
                BY <1>1, <2>1, <2>3 DEF Loads
            <3>. QED BY <1>1, <2>3, <3>1 DEF Listed
        <2>. QED BY <1>8, <2>2, <2>3 DEF CatalogReloaded
    <1>9. CASE IndexListed
        BY <1>2, <1>9 DEF IndexListed, Listed
    <1>10. ASSUME NEW c, Press(c)
           PROVE  schema' \subseteq Tables /\ Listed'
        <2>1. loads' = Append(loads, Begun(c)) /\ UNCHANGED <<copy, schema>> /\ c \in Collections
            BY <1>10 DEF Press, IInv, Shown
        <2>2. Begun(c) \in Loads /\ Begun(c).state = "fetching"
            BY <2>1 DEF Begun, Loads
        <2>3. Len(loads) + 1 \in DOMAIN loads' /\ loads'[Len(loads) + 1] = Begun(c)
            BY <1>1, <2>1, <2>2, Appended
        <2>. QED BY <1>1, <2>1, <2>2, <2>3 DEF Listed
    <1>11. ASSUME Worker \/ Progressed \/ Executed \/ StageAnswered \/ IndexAnswered
                 \/ IndexCreated \/ LookAnswered \/ Type \/ Run \/ OpenIndex
          PROVE  UNCHANGED <<copy, schema, loads>>
        BY <1>11, WorkerLeavesPage
           DEF page, Progressed, Executed, StageAnswered, IndexAnswered, IndexCreated,
               LookAnswered, Type, Run, OpenIndex, loadState
    <1>12. ASSUME NEW t, PickExample(t) \/ OpenStorage(t) \/ PickIndex(t) \/ CreateIndex(t)
          PROVE  UNCHANGED <<copy, schema, loads>>
        BY <1>12 DEF PickExample, OpenStorage, PickIndex, CreateIndex, loadState
    <1>13. ASSUME NEW k \in DOMAIN loads, Fetched(k) \/ FetchFails(k)
           PROVE  schema' \subseteq Tables /\ Listed'
        BY <1>4, <1>5, <1>13 DEF Fetched, FetchFails
    <1>. QED BY <1>3, <1>7, <1>8, <1>9, <1>10, <1>11, <1>12, <1>13 DEF Next, Receive, Reader, Network

-----------------------------------------------------------------------------
(* The query that runs, and the panels.                                    *)

\* Every step is one of the worker's, with the page as it was, or one of the page's.
LEMMA Moves ==
    ASSUME IInv, Next
    PROVE  \/ UNCHANGED page /\ (Rests \/ Handles \/ Starts \/ StreamBatch \/ StreamEnd)
           \/ Aside \/ Begins \/ Advances \/ Finishes \/ Progressed
    BY WorkerMoves, WorkerLeavesPage, ReaderMoves, ReceiveMoves DEF Next

\* What a step of the page does to who waits, of which it posts at most one.
LEMMA TurnPending ==
    ASSUME IInv, NEW gone, Settled(gone)
    PROVE  /\ DOMAIN pending' = DOMAIN pending \ gone
           /\ \A i \in DOMAIN pending' : pending'[i] = pending[i]
    BY AfterSettled DEF IInv

\* Who waits when a step of the page posts a request.
LEMMA PostPending ==
    ASSUME IInv, NEW gone, NEW w, Posts(gone, w)
    PROVE  /\ DOMAIN pending' = (DOMAIN pending \ gone) \union {next}
           /\ next \notin DOMAIN pending /\ pending'[next] = w
           /\ \A i \in DOMAIN pending \ gone : pending'[i] = pending[i]
           /\ Remembers(w, DOMAIN loads')
    BY AfterPost DEF IInv, Posts

\* Every waiter remembers what it asked for.
LEMMA WaitingNext ==
    ASSUME IInv, Next
    PROVE  Waiting'
    <1>1. DOMAIN loads \subseteq DOMAIN loads'
        BY LoadsNext
    <1>2. \A w : Remembers(w, DOMAIN loads) => Remembers(w, DOMAIN loads')
        BY <1>1 DEF Remembers
    <1>3. Waiting
        BY DEF IInv
    <1>4. ASSUME NEW gone, Settled(gone)
          PROVE  Waiting'
        BY <1>2, <1>3, <1>4, TurnPending DEF Waiting, Remembers
    <1>5. ASSUME NEW gone, NEW w, Posts(gone, w)
          PROVE  Waiting'
        <2>1. ASSUME NEW i \in DOMAIN pending'
              PROVE  Remembers(pending'[i], DOMAIN loads')
            BY <1>2, <1>3, <1>5, PostPending DEF Waiting
        <2>. QED BY <2>1 DEF Waiting, Remembers
    <1>6. CASE UNCHANGED page
        BY <1>2, <1>3, <1>6 DEF Waiting, Remembers, page
    <1>7. CASE Progressed
        <2>1. /\ DOMAIN pending' = DOMAIN pending
              /\ \A i \in DOMAIN pending :
                     /\ pending'[i].for = pending[i].for /\ pending'[i].arg = pending[i].arg
                     /\ DOMAIN pending'[i] = DOMAIN pending[i]
            BY <1>7, ProgressProtocol
        <2>. QED BY <1>2, <1>3, <2>1 DEF Waiting, Remembers
    <1>. QED BY <1>4, <1>5, <1>6, <1>7, Moves DEF Aside, Begins, Advances, Finishes

\* A run has one request under way, and draws the panels in order.
LEMMA ChainNext ==
    ASSUME IInv, Next
    PROVE  /\ OneRun' /\ PanelsFollow'
           /\ running' \in BOOLEAN /\ panels' \in [Stages -> Sqls \union {None}]
    <1>1. /\ OneRun /\ PanelsFollow /\ Waiting
          /\ running \in BOOLEAN /\ panels \in [Stages -> Sqls \union {None}]
        BY DEF IInv, Shown
    <1>2. ASSUME UNCHANGED <<running, panels>>,
                 \A i \in DOMAIN pending : pending[i].for \in Chain =>
                     i \in DOMAIN pending' /\ pending'[i].for = pending[i].for
                     /\ pending'[i].arg = pending[i].arg,
                 \A i \in DOMAIN pending' : pending'[i].for \in Chain =>
                     i \in DOMAIN pending /\ pending'[i].for = pending[i].for
                     /\ pending'[i].arg = pending[i].arg
          PROVE  /\ OneRun' /\ PanelsFollow'
                 /\ running' \in BOOLEAN /\ panels' \in [Stages -> Sqls \union {None}]
        <2>1. OneRun'
            BY <1>1, <1>2 DEF OneRun
        <2>2. PanelsFollow'
            BY <1>1, <1>2 DEF PanelsFollow, DrawnBefore
        <2>. QED BY <1>1, <1>2, <2>1, <2>2
    <1>3. CASE UNCHANGED page
        BY <1>2, <1>3 DEF page
    <1>4. CASE Progressed
        <2>1. UNCHANGED <<running, panels>>
            BY <1>4, ProgressFacts
        <2>2. /\ DOMAIN pending' = DOMAIN pending
              /\ \A i \in DOMAIN pending :
                     pending'[i].for = pending[i].for /\ pending'[i].arg = pending[i].arg
            BY <1>4, ProgressProtocol
        <2>. QED BY <1>2, <2>1, <2>2
    <1>5. CASE Aside
        <2>1. PICK gone : /\ Elsewhere(gone) /\ UNCHANGED <<running, panels>>
                          /\ Settled(gone) \/ \E w : Posts(gone, w) /\ w.for \notin Chain
            BY <1>5 DEF Aside
        <2>2. CASE Settled(gone)
            BY <1>2, <2>1, <2>2, TurnPending DEF Elsewhere
        <2>3. ASSUME NEW w, Posts(gone, w), w.for \notin Chain
              PROVE  /\ OneRun' /\ PanelsFollow'
                     /\ running' \in BOOLEAN /\ panels' \in [Stages -> Sqls \union {None}]
            <3>1. /\ \A i \in DOMAIN pending : pending[i].for \in Chain =>
                         i \in DOMAIN pending' /\ pending'[i] = pending[i]
                  /\ \A i \in DOMAIN pending' : pending'[i].for \in Chain =>
                         i \in DOMAIN pending /\ pending'[i] = pending[i]
                BY <2>1, <2>3, PostPending DEF Elsewhere
            <3>. QED BY <1>2, <2>1, <3>1
        <2>. QED BY <2>1, <2>2, <2>3
    <1>6. CASE Begins
        <2>1. PICK gone, sql :
                  /\ Elsewhere(gone) /\ ~running /\ running' = TRUE /\ UNCHANGED panels
                  /\ Posts(gone, [for |-> "execute", arg |-> sql, drawn |-> 0])
            BY <1>6 DEF Begins
        <2>. DEFINE w == [for |-> "execute", arg |-> sql, drawn |-> 0]
        <2>2. w.for = "execute"
            OBVIOUS
        <2>3. /\ DOMAIN pending' = (DOMAIN pending \ gone) \union {next}
              /\ pending'[next] = w
              /\ \A i \in DOMAIN pending \ gone : pending'[i] = pending[i]
            BY <2>1, PostPending
        <2>. HIDE DEF w
        <2>4. \A i \in DOMAIN pending : pending[i].for \notin Chain
            BY <1>1, <2>1 DEF OneRun
        <2>5. \A i \in DOMAIN pending' : pending'[i].for \in Chain <=> i = next
            BY <2>2, <2>3, <2>4 DEF Chain
        <2>6. OneRun'
            BY <2>1, <2>3, <2>5 DEF OneRun
        <2>7. PanelsFollow'
            BY <1>1, <2>1, <2>2, <2>3, <2>5 DEF PanelsFollow, DrawnBefore
        <2>. QED BY <1>1, <2>1, <2>6, <2>7
    <1>7. CASE Advances
        <2>1. PICK w, stages :
                  /\ outbox # <<>> /\ Leaves({outbox[1].id}) /\ pending[outbox[1].id].for \in Chain
                  /\ w.for \in Chain \ {"execute"} /\ w.arg = pending[outbox[1].id].arg
                  /\ Draw(stages, w.arg)
                  /\ DrawnBefore(w.for) = DrawnBefore(pending[outbox[1].id].for) \union stages
                  /\ UNCHANGED running
                  /\ Posts({outbox[1].id}, w)
            BY <1>7 DEF Advances, Turn
        <2>. DEFINE id == outbox[1].id
                    old == pending[id]
        <2>2. id \in DOMAIN pending
            BY <2>1 DEF Leaves
        <2>3. /\ DOMAIN pending' = (DOMAIN pending \ {id}) \union {next}
              /\ pending'[next] = w
              /\ \A i \in DOMAIN pending \ {id} : pending'[i] = pending[i]
            BY <2>1, PostPending
        <2>4. \A i \in DOMAIN pending : pending[i].for \in Chain <=> i = id
            BY <1>1, <2>1, <2>2 DEF OneRun
        <2>5. running
            BY <1>1, <2>1, <2>2 DEF OneRun
        <2>6. \A i \in DOMAIN pending' : pending'[i].for \in Chain <=> i = next
            BY <2>1, <2>3, <2>4
        <2>7. OneRun'
            BY <2>1, <2>3, <2>5, <2>6 DEF OneRun
        <2>8. old.arg \in Sqls
            BY <1>1, <2>1, <2>2 DEF Waiting, Remembers, Chain
        <2>9. panels' = [p \in Stages |-> IF p \in stages THEN w.arg ELSE panels[p]]
            BY <2>1 DEF Draw
        <2>10. /\ \A p \in DrawnBefore(old.for) : panels[p] = old.arg
               /\ \A p, q \in Stages \ DrawnBefore(old.for) : panels[p] = panels[q]
            BY <1>1, <2>1, <2>2 DEF PanelsFollow
        <2>11. DrawnBefore(w.for) \subseteq Stages
            BY DEF DrawnBefore, Stages
        <2>. HIDE DEF id, old
        <2>12. /\ \A p \in DrawnBefore(w.for) : panels'[p] = w.arg
               /\ \A p, q \in Stages \ DrawnBefore(w.for) : panels'[p] = panels'[q]
            BY <2>1, <2>9, <2>10, <2>11 DEF id, old
        <2>13. PanelsFollow'
            BY <2>1, <2>3, <2>5, <2>6, <2>12 DEF PanelsFollow, DrawnBefore
        <2>14. panels' \in [Stages -> Sqls \union {None}]
            BY <1>1, <2>1, <2>8, <2>9 DEF old, id
        <2>. QED BY <1>1, <2>1, <2>7, <2>13, <2>14
    <1>8. CASE Finishes
        <2>1. PICK stages :
                  /\ outbox # <<>> /\ Leaves({outbox[1].id}) /\ pending[outbox[1].id].for \in Chain
                  /\ Draw(stages, pending[outbox[1].id].arg)
                  /\ Stages \ DrawnBefore(pending[outbox[1].id].for) \subseteq stages
                  /\ running' = FALSE
                  /\ Settled({outbox[1].id})
            BY <1>8 DEF Finishes, Turn
        <2>. DEFINE id == outbox[1].id
                    old == pending[id]
        <2>2. id \in DOMAIN pending
            BY <2>1 DEF Leaves
        <2>3. /\ DOMAIN pending' = DOMAIN pending \ {id}
              /\ \A i \in DOMAIN pending' : pending'[i] = pending[i]
            BY <2>1, TurnPending
        <2>4. \A i \in DOMAIN pending : pending[i].for \in Chain <=> i = id
            BY <1>1, <2>1, <2>2 DEF OneRun
        <2>5. \A i \in DOMAIN pending' : pending'[i].for \notin Chain
            BY <2>3, <2>4
        <2>6. OneRun'
            BY <2>1, <2>5 DEF OneRun
        <2>7. old.arg \in Sqls
            BY <1>1, <2>1, <2>2 DEF Waiting, Remembers, Chain
        <2>8. panels' = [p \in Stages |-> IF p \in stages THEN old.arg ELSE panels[p]]
            BY <2>1 DEF Draw
        <2>9. \A p \in DrawnBefore(old.for) : panels[p] = old.arg
            BY <1>1, <2>1, <2>2 DEF PanelsFollow
        <2>10. \A p \in Stages : panels'[p] = old.arg
            <3>. HIDE DEF old, id
            <3>. QED BY <2>1, <2>8, <2>9 DEF old, id
        <2>11. PanelsFollow'
            BY <2>5, <2>10 DEF PanelsFollow
        <2>. HIDE DEF old
        <2>12. panels' \in [Stages -> Sqls \union {None}]
            BY <1>1, <2>7, <2>8
        <2>. QED BY <2>1, <2>6, <2>11, <2>12
    <1>. QED BY <1>3, <1>4, <1>5, <1>6, <1>7, <1>8, Moves

-----------------------------------------------------------------------------
(* The two catalogs.                                                       *)

\* The page takes the first d replies, one or none, and knows what they said.
LEMMA TakenFresh ==
    ASSUME IInv, UNCHANGED catalog,
           NEW d \in {0, 1}, Len(outbox') = Len(outbox) - d, DOMAIN outbox' = 1..Len(outbox) - d,
           \A k \in DOMAIN outbox' :
               /\ k + d \in DOMAIN outbox /\ outbox'[k] = outbox[k + d]
               /\ pending'[outbox[k + d].id].for = pending[outbox[k + d].id].for,
           (\E j \in DOMAIN inbox : inbox[j].kind = "catalog")
               => \E j \in DOMAIN inbox' : inbox'[j].kind = "catalog",
           \/ d = 1 /\ Knows(1) /\ copy' = Known(1)
           \/ /\ copy' = copy
              /\ d = 1 /\ Telling(outbox[1]) => \E j \in DOMAIN inbox' : inbox'[j].kind = "catalog"
    PROVE  Fresh'
    <1>. DEFINE Asked == \E j \in DOMAIN inbox' : inbox'[j].kind = "catalog"
    <1>1. outbox \in Seq(Replies) /\ Len(outbox) \in Nat /\ DOMAIN outbox = 1..Len(outbox) /\ Fresh
        BY DEF IInv, Typed
    <1>2. SUFFICES ASSUME NEW k \in 0..Len(outbox'), Knows(k)', ~Asked
                   PROVE  \/ Known(k)' = catalog
                          \/ \E j \in DOMAIN outbox' : j > k /\ Telling(outbox[j])'
        BY DEF Fresh
    <1>3. ASSUME NEW m \in 0..Len(outbox), Knows(m), m >= d, Known(k)' = Known(m), k = m - d
          PROVE  \/ Known(k)' = catalog
                 \/ \E j \in DOMAIN outbox' : j > k /\ Telling(outbox[j])'
        <2>1. CASE Known(m) = catalog
            BY <1>3, <2>1
        <2>2. CASE \E j \in DOMAIN outbox : j > m /\ Telling(outbox[j])
            <3>1. PICK j \in DOMAIN outbox : j > m /\ Telling(outbox[j])
                BY <2>2
            <3>2. j - d \in DOMAIN outbox' /\ (j - d) + d = j /\ j - d > k
                BY <1>1, <1>3, <3>1
            <3>3. Telling(outbox[j - d])'
                BY <3>1, <3>2 DEF Telling
            <3>. QED BY <3>2, <3>3
        <2>. QED BY <1>1, <1>2, <1>3, <2>1, <2>2 DEF Fresh
    <1>4. CASE k # 0
        <2>1. k \in DOMAIN outbox' /\ k + d \in DOMAIN outbox /\ k + d # 0 /\ k \in Nat
            BY <1>1, <1>4
        <2>2. Knows(k + d) /\ Known(k)' = Known(k + d)
            BY <1>2, <1>4, <2>1 DEF Knows, Known
        <2>3. k + d \in 0..Len(outbox) /\ k + d >= d /\ k = (k + d) - d
            BY <1>1, <2>1
        <2>. QED BY <1>3, <2>2, <2>3
    <1>5. CASE k = 0 /\ d = 1 /\ Knows(1) /\ copy' = Known(1)
        <2>1. 1 \in 0..Len(outbox)
            BY <1>1, <1>5
        <2>2. Known(k)' = Known(1)
            BY <1>5 DEF Known
        <2>. QED BY <1>3, <1>5, <2>1, <2>2
    <1>6. CASE /\ k = 0 /\ copy' = copy
               /\ d = 1 /\ Telling(outbox[1]) => Asked
        <2>1. Knows(0) /\ Known(0) = copy /\ Known(k)' = copy
            BY <1>6 DEF Knows, Known
        <2>2. CASE d = 0
            BY <1>1, <1>3, <1>6, <2>1, <2>2
        <2>3. CASE d = 1 /\ copy # catalog
            <3>1. PICK j \in DOMAIN outbox : j > 0 /\ Telling(outbox[j])
                BY <1>1, <1>2, <2>1, <2>3 DEF Fresh
            <3>2. j # 1
                BY <1>2, <1>6, <2>3, <3>1
            <3>3. j - d \in DOMAIN outbox' /\ (j - d) + d = j /\ j - d > k
                BY <1>1, <1>6, <2>3, <3>1, <3>2
            <3>4. Telling(outbox[j - d])'
                BY <3>1, <3>3 DEF Telling
            <3>. QED BY <3>3, <3>4
        <2>. QED BY <2>1, <2>2, <2>3
    <1>. QED BY <1>4, <1>5, <1>6

\* What a posted request adds to the inbox.
LEMMA PostInbox ==
    ASSUME IInv, NEW gone, NEW w, Posts(gone, w)
    PROVE  /\ (\E j \in DOMAIN inbox : inbox[j].kind = "catalog")
                   => \E j \in DOMAIN inbox' : inbox'[j].kind = "catalog"
           /\ w.for \in OfCatalog => \E j \in DOMAIN inbox' : inbox'[j].kind = "catalog"
    <1>1. PICK kind, arg :
              /\ Post(gone, kind, arg, w)
              /\ arg \in Sqls \union Tables \union {None}
              /\ PostedFor([id |-> next, kind |-> kind, arg |-> arg], w)
              /\ Remembers(w, DOMAIN loads')
        BY DEF Posts
    <1>. DEFINE q == [id |-> next, kind |-> kind, arg |-> arg]
    <1>2. q \in Requests
        <2>1. kind \in Kinds
            BY <1>1 DEF PostedFor, Remembers, Chain, OfCatalog, Kinds
        <2>2. next \in Nat
            BY DEF IInv, Numbered
        <2>. QED BY <1>1, <2>1, <2>2 DEF Requests
    <1>3. inbox' = Append(inbox, q) /\ (w.for \in OfCatalog => q.kind = "catalog")
        BY <1>1 DEF Post, PostedFor
    <1>. HIDE DEF q
    <1>4. /\ DOMAIN inbox' = 1..Len(inbox) + 1 /\ Len(inbox) \in Nat /\ DOMAIN inbox = 1..Len(inbox)
          /\ \A k \in DOMAIN inbox : inbox'[k] = inbox[k]
          /\ inbox'[Len(inbox) + 1] = q
        <2>1. inbox \in Seq(Requests)
            BY DEF IInv, Typed
        <2>. QED BY <1>2, <1>3, <2>1, Appended
    <1>5. Len(inbox) + 1 \in DOMAIN inbox' /\ DOMAIN inbox \subseteq DOMAIN inbox'
        BY <1>4
    <1>. QED BY <1>3, <1>4, <1>5

\* A step of the page that hears of a change of the catalog asks for it.
LEMMA TurnFresh ==
    ASSUME IInv, NEW gone, Turn(gone),
           \/ Settled(gone) /\ ~Tells(gone)
           \/ \E w : Posts(gone, w) /\ (Tells(gone) => w.for \in OfCatalog)
    PROVE  Fresh'
    <1>1. PICK d \in {0, 1} :
              /\ d = IF gone = {} THEN 0 ELSE 1
              /\ Len(outbox') = Len(outbox) - d /\ DOMAIN outbox' = 1..Len(outbox) - d
              /\ \A k \in DOMAIN outbox' :
                     /\ k + d \in DOMAIN outbox
                     /\ outbox'[k] = outbox[k + d]
                     /\ outbox[k + d].id \notin gone
        BY AfterLeaving DEF Turn
    <1>2. /\ UNCHANGED catalog
          /\ copy' = IF gone # {} /\ pending[outbox[1].id].for \in OfCatalog
                     THEN outbox[1].value ELSE copy
          /\ gone # {} => outbox # <<>>
        BY DEF Turn, Leaves
    <1>3. \A i \in DOMAIN pending \ gone : pending'[i] = pending[i]
        BY TurnPending, PostPending
    <1>4. \A k \in DOMAIN outbox' :
              /\ k + d \in DOMAIN outbox /\ outbox'[k] = outbox[k + d]
              /\ pending'[outbox[k + d].id].for = pending[outbox[k + d].id].for
        BY <1>1, <1>3 DEF IInv, Replied
    <1>5. (\E j \in DOMAIN inbox : inbox[j].kind = "catalog")
              => \E j \in DOMAIN inbox' : inbox'[j].kind = "catalog"
        BY PostInbox, AfterSettled DEF IInv
    <1>6. Tells(gone) => \E j \in DOMAIN inbox' : inbox'[j].kind = "catalog"
        BY PostInbox
    <1>7. \/ d = 1 /\ Knows(1) /\ copy' = Known(1)
          \/ /\ copy' = copy
             /\ d = 1 /\ Telling(outbox[1]) => \E j \in DOMAIN inbox' : inbox'[j].kind = "catalog"
        <2>1. CASE gone # {} /\ pending[outbox[1].id].for \in OfCatalog
            <3>1. 1 \in DOMAIN outbox
                BY <1>2, <2>1, HeadRemoved DEF IInv, Typed
            <3>. QED BY <1>1, <1>2, <2>1, <3>1 DEF Knows, Known
        <2>2. CASE ~(gone # {} /\ pending[outbox[1].id].for \in OfCatalog)
            <3>1. d = 1 /\ Telling(outbox[1]) => Tells(gone)
                BY <1>1, <2>2 DEF Telling, Tells
            <3>. QED BY <1>2, <1>6, <2>2, <3>1
        <2>. QED BY <2>1, <2>2
    <1>. QED BY <1>1, <1>2, <1>4, <1>5, <1>7, TakenFresh

\* The worker says something that is not about the catalog.
LEMMA SaidFresh ==
    ASSUME IInv, UNCHANGED <<catalog, copy, pending>>,
           (\E j \in DOMAIN inbox : inbox[j].kind = "catalog")
               => \E j \in DOMAIN inbox' : inbox'[j].kind = "catalog",
           NEW r \in Replies, outbox' = Append(outbox, r) \/ outbox' = outbox,
           pending[r.id].for \notin OfCatalog
    PROVE  Fresh'
    <1>1. outbox \in Seq(Replies) /\ Len(outbox) \in Nat /\ DOMAIN outbox = 1..Len(outbox) /\ Fresh
        BY DEF IInv, Typed
    <1>2. CASE outbox' = outbox
        BY <1>1, <1>2 DEF Fresh, Knows, Known, Telling
    <1>3. CASE outbox' = Append(outbox, r)
        <2>1. /\ Len(outbox') = Len(outbox) + 1 /\ DOMAIN outbox' = 1..Len(outbox) + 1
              /\ \A k \in DOMAIN outbox : outbox'[k] = outbox[k]
              /\ outbox'[Len(outbox) + 1] = r
            BY <1>1, <1>3, Appended
        <2>2. SUFFICES ASSUME NEW k \in 0..Len(outbox'), Knows(k)'
                       PROVE  \/ Known(k)' = catalog
                              \/ \E j \in DOMAIN inbox' : inbox'[j].kind = "catalog"
                              \/ \E j \in DOMAIN outbox' : j > k /\ Telling(outbox[j])'
            BY DEF Fresh
        <2>3. k \in 0..Len(outbox)
            <3>1. k # Len(outbox) + 1
                BY <1>1, <2>1, <2>2 DEF Knows
            <3>. QED BY <1>1, <2>1, <3>1
        <2>4. Knows(k) /\ Known(k)' = Known(k)
            BY <1>1, <2>1, <2>2, <2>3 DEF Knows, Known
        <2>5. \A j \in DOMAIN outbox : j \in DOMAIN outbox' /\ (Telling(outbox[j]) => Telling(outbox[j])')
            BY <1>1, <2>1 DEF Telling
        <2>. QED BY <1>1, <2>3, <2>4, <2>5 DEF Fresh
    <1>. QED BY <1>2, <1>3

\* A request for the catalog stays in the inbox until it is taken itself.
LEMMA TakenInbox ==
    ASSUME IInv, Takes, pending[inbox[1].id].for \notin OfCatalog
    PROVE  (\E j \in DOMAIN inbox : inbox[j].kind = "catalog")
               => \E j \in DOMAIN inbox' : inbox'[j].kind = "catalog"
    <1>1. inbox \in Seq(Requests) /\ inbox # <<>> /\ inbox' = Tail(inbox)
        BY DEF IInv, Typed, Takes
    <1>2. /\ DOMAIN inbox' = 1..Len(inbox) - 1 /\ Len(inbox) \in Nat /\ DOMAIN inbox = 1..Len(inbox)
          /\ \A k \in DOMAIN inbox' : inbox'[k] = inbox[k + 1]
        BY <1>1, HeadRemoved
    <1>3. inbox[1].kind # "catalog"
        BY <1>1, HeadOfInbox DEF IInv, PostedFor, Remembers, Chain
    <1>4. ASSUME NEW j \in DOMAIN inbox, inbox[j].kind = "catalog"
          PROVE  \E m \in DOMAIN inbox' : inbox'[m].kind = "catalog"
        <2>1. j # 1
            BY <1>3, <1>4
        <2>2. j - 1 \in DOMAIN inbox' /\ inbox'[j - 1] = inbox[j]
            BY <1>2, <2>1
        <2>. QED BY <1>4, <2>2
    <1>. QED BY <1>4

\* The page's copy is the engine's catalog, or a message says that it is not.
LEMMA FreshNext ==
    ASSUME IInv, Next
    PROVE  Fresh'
    <1>1. /\ Typed /\ Fresh /\ outbox \in Seq(Replies) /\ Len(outbox) \in Nat
          /\ DOMAIN outbox = 1..Len(outbox)
        BY DEF IInv, Typed
    <1>2. CASE Rests
        BY <1>1, <1>2 DEF Rests, page, Fresh, Knows, Known, Telling
    <1>3. CASE Handles
        <2>1. PICK r \in Replies :
                  /\ outbox' = Append(outbox, r) /\ r.id = inbox[1].id
                  /\ catalog' = catalog \/ Telling(r)
                  /\ pending[r.id].for \in OfCatalog => Telling(r) /\ r.value = catalog'
            BY <1>3 DEF Handles
        <2>2. Takes /\ UNCHANGED <<pending, copy>>
            BY <1>3 DEF Handles, Takes, page
        <2>3. CASE Telling(r)
            <3>1. /\ Len(outbox') = Len(outbox) + 1 /\ DOMAIN outbox' = 1..Len(outbox) + 1
                  /\ outbox'[Len(outbox) + 1] = r
                BY <1>1, <2>1, Appended
            <3>2. Telling(outbox[Len(outbox)])'
                BY <1>1, <2>2, <2>3, <3>1 DEF Telling
            <3>3. ASSUME NEW k \in 0..Len(outbox'), Knows(k)'
                  PROVE  Known(k)' = catalog' \/ \E j \in DOMAIN outbox' : j > k /\ Telling(outbox[j])'
                <4>1. CASE k = Len(outbox) + 1
                    <5>1. pending[r.id].for \in OfCatalog
                        BY <1>1, <2>2, <3>1, <3>3, <4>1 DEF Knows
                    <5>. QED BY <1>1, <2>1, <3>1, <4>1, <5>1 DEF Known
                <4>2. CASE k # Len(outbox) + 1
                    <5>1. Len(outbox') \in DOMAIN outbox' /\ Len(outbox') > k
                        BY <1>1, <3>1, <4>2
                    <5>. QED BY <3>2, <5>1
                <4>. QED BY <4>1, <4>2
            <3>. QED BY <3>3 DEF Fresh
        <2>4. CASE ~Telling(r)
            <3>1. pending[r.id].for \notin OfCatalog /\ UNCHANGED catalog
                BY <2>1, <2>4
            <3>. QED BY <2>1, <2>2, <3>1, TakenInbox, SaidFresh
        <2>. QED BY <2>3, <2>4
    <1>4. CASE Starts
        <2>1. Takes /\ UNCHANGED <<pending, copy, catalog, outbox>> /\ pending[inbox[1].id].for = "execute"
            BY <1>4 DEF Starts, Takes, page
        <2>2. (\E j \in DOMAIN inbox : inbox[j].kind = "catalog")
                  => \E j \in DOMAIN inbox' : inbox'[j].kind = "catalog"
            BY <2>1, TakenInbox DEF OfCatalog
        <2>. QED BY <1>1, <2>1, <2>2 DEF Fresh, Knows, Known, Telling
    <1>5. CASE StreamBatch
        <2>1. PICK r \in Replies : /\ r.id = streaming.id
                                   /\ outbox' = Append(outbox, r) \/ outbox' = outbox
            BY <1>5, BatchFacts
        <2>2. streaming # NotStreaming /\ UNCHANGED <<inbox, catalog, copy, pending>>
            BY <1>5, BatchFacts DEF page
        <2>3. pending[r.id].for \notin OfCatalog
            BY <2>1, <2>2 DEF IInv, InHand, OfCatalog
        <2>. QED BY <2>1, <2>2, <2>3, SaidFresh
    <1>6. CASE StreamEnd
        <2>1. PICK r \in Replies :
                  /\ r.id = streaming.id /\ outbox' = Append(outbox, r)
                  /\ streaming # NotStreaming /\ UNCHANGED <<inbox, catalog, page>>
            BY <1>6, EndFacts
        <2>2. pending[r.id].for \notin OfCatalog /\ UNCHANGED <<copy, pending>>
            BY <2>1 DEF IInv, InHand, OfCatalog, page
        <2>. QED BY <2>1, <2>2, SaidFresh
    <1>7. CASE Aside
        BY <1>7, TurnFresh DEF Aside
    <1>8. CASE Begins
        <2>1. PICK gone, sql : /\ Turn(gone) /\ ~Tells(gone)
                               /\ Posts(gone, [for |-> "execute", arg |-> sql, drawn |-> 0])
            BY <1>8 DEF Begins
        <2>. QED BY <2>1, TurnFresh
    <1>9. ASSUME NEW id, id = outbox[1].id, pending[id].for \in Chain
          PROVE  ~Tells({id})
        BY <1>9 DEF Tells, Chain
    <1>10. CASE Advances
        <2>1. PICK w : /\ Turn({outbox[1].id}) /\ pending[outbox[1].id].for \in Chain
                       /\ Posts({outbox[1].id}, w)
            BY <1>10 DEF Advances
        <2>. QED BY <1>9, <2>1, TurnFresh
    <1>11. CASE Finishes
        <2>1. /\ Turn({outbox[1].id}) /\ pending[outbox[1].id].for \in Chain
              /\ Settled({outbox[1].id})
            BY <1>11 DEF Finishes
        <2>. QED BY <1>9, <2>1, TurnFresh
    <1>12. CASE Progressed
        <2>1. /\ outbox # <<>> /\ outbox[1].kind = "progress" /\ outbox' = Tail(outbox)
              /\ UNCHANGED <<inbox, catalog, copy>>
            BY <1>12, ProgressFacts
        <2>2. /\ Len(outbox') = Len(outbox) - 1 /\ DOMAIN outbox' = 1..Len(outbox) - 1
              /\ \A k \in DOMAIN outbox' : k + 1 \in DOMAIN outbox /\ outbox'[k] = outbox[k + 1]
            BY <1>1, <2>1, HeadRemoved
        <2>3. \A k \in DOMAIN outbox' : pending'[outbox[k + 1].id].for = pending[outbox[k + 1].id].for
            BY <1>12, <2>2, ProgressProtocol DEF IInv, Replied
        <2>4. ~Telling(outbox[1])
            BY <2>1 DEF Telling
        <2>. DEFINE d == 1
        <2>5. /\ d \in {0, 1} /\ Len(outbox') = Len(outbox) - d /\ DOMAIN outbox' = 1..Len(outbox) - d
              /\ \A k \in DOMAIN outbox' :
                     /\ k + d \in DOMAIN outbox /\ outbox'[k] = outbox[k + d]
                     /\ pending'[outbox[k + d].id].for = pending[outbox[k + d].id].for
            BY <2>2, <2>3
        <2>. HIDE DEF d
        <2>. QED BY <2>1, <2>4, <2>5, TakenFresh
    <1>. QED BY <1>2, <1>3, <1>4, <1>5, <1>6, <1>7, <1>8, <1>10, <1>11, <1>12, Moves

-----------------------------------------------------------------------------
(* The rows of an answer, from the engine to the grid.                     *)

\* The count and the copied rows of a streamed query follow its batches.
LEMMA StreamedNext ==
    ASSUME IInv, Next
    PROVE  Streamed' /\ streaming' \in Underway \union {NotStreaming}
    <1>1. Streamed /\ streaming \in Underway \union {NotStreaming}
        BY DEF IInv, Typed
    <1>2. CASE UNCHANGED streaming
        BY <1>1, <1>2 DEF Streamed
    <1>3. CASE Starts
        <2>1. streaming' \in Underway
            BY <1>3, StartsProtocol
        <2>2. streaming'.at = 1 /\ streaming'.shown = 0 /\ streaming'.total = 0
            BY <1>3 DEF Starts
        <2>3. streaming'.sql \in Sqls
            BY <2>1 DEF Underway
        <2>4. Upto(streaming'.sql)[0] = 0 /\ Len(Batches[streaming'.sql]) \in Nat
            BY <2>3, Sums, SessionAssumption
        <2>5. Lesser(0, Cap) = 0
            BY SessionAssumption DEF Lesser
        <2>. QED BY <2>1, <2>2, <2>4, <2>5 DEF Streamed, Upto, Lesser
    <1>4. CASE StreamBatch
        <2>. DEFINE q == streaming
                    total == q.total + Batches[q.sql][q.at]
                    shown == q.shown + CopyChunk(Batches[q.sql][q.at])
        <2>1. /\ q \in Underway /\ streaming' \in Underway
              /\ streaming' = [q EXCEPT !.at = q.at + 1, !.shown = shown, !.total = total]
              /\ total = Upto(q.sql)[q.at] /\ shown = Lesser(total, Cap)
              /\ q.at <= Len(Batches[q.sql]) /\ Len(Batches[q.sql]) \in Nat
            BY <1>4, BatchFacts
        <2>. HIDE DEF total, shown
        <2>2. /\ streaming'.at = q.at + 1 /\ streaming'.shown = shown /\ streaming'.total = total
              /\ streaming'.sql = q.sql /\ q.at \in Nat
            BY <2>1 DEF Underway
        <2>3. streaming'.at - 1 = q.at
            BY <2>2
        <2>4. /\ streaming'.at <= Len(Batches[streaming'.sql]) + 1
              /\ streaming'.total = Upto(streaming'.sql)[streaming'.at - 1]
              /\ streaming'.shown = Lesser(streaming'.total, Cap)
            BY <2>1, <2>2, <2>3
        <2>. QED BY <2>1, <2>4 DEF Streamed, Upto, Lesser
    <1>5. CASE StreamEnd
        <2>1. streaming' = NotStreaming
            BY <1>5 DEF StreamEnd
        <2>. QED BY <2>1 DEF Streamed, NotStreaming
    <1>6. ASSUME Rests \/ Handles \/ Aside \/ Begins \/ Advances \/ Finishes \/ Progressed
          PROVE  UNCHANGED streaming
        BY <1>6, ProgressFacts DEF Rests, Handles, Aside, Begins, Advances, Finishes, Turn
    <1>. QED BY <1>2, <1>3, <1>4, <1>5, <1>6, Moves

\* A reply is posted: what the grid will have after it is what it has after the
\* others, or the rows of the reply more.
LEMMA GridPosted ==
    ASSUME IInv, NEW i \in DOMAIN pending, UNCHANGED pending,
           NEW grid \in [0..Len(outbox) -> 0..Cap], GridAfter(grid, i),
           NEW r \in Replies, outbox' = Append(outbox, r), NEW shown \in 0..Cap,
           streaming'.id = i => shown = streaming'.shown,
           IF r.id = i /\ r.kind = "progress"
           THEN /\ shown = grid[Len(outbox)] + r.value.chunk
                /\ shown = Lesser(r.value.rows, Cap)
           ELSE /\ shown = grid[Len(outbox)]
                /\ r.id = i /\ r.kind = "ok" =>
                       /\ r.value.rows = Total(pending[i].arg)
                       /\ Lesser(r.value.rows, Cap) =
                              IF r.value.streamed THEN shown ELSE r.value.chunk
    PROVE  \E more \in [0..Len(outbox') -> 0..Cap] : GridAfter(more, i)'
    <1>. DEFINE n == Len(outbox)
                longer == [k \in 0..n + 1 |-> IF k = n + 1 THEN shown ELSE grid[k]]
    <1>1. /\ n \in Nat /\ Len(outbox') = n + 1 /\ DOMAIN outbox' = 1..n + 1 /\ DOMAIN outbox = 1..n
          /\ \A k \in DOMAIN outbox : outbox'[k] = outbox[k]
          /\ outbox'[n + 1] = r
        <2>1. outbox \in Seq(Replies)
            BY DEF IInv, Typed
        <2>. QED BY <2>1, Appended
    <1>. HIDE DEF n
    <1>2. /\ longer \in [0..n + 1 -> 0..Cap]
          /\ longer[n + 1] = shown /\ \A k \in 0..n : longer[k] = grid[k]
        BY <1>1 DEF n
    <1>. HIDE DEF longer
    <1>3. PICK more \in [0..n + 1 -> 0..Cap] :
              more[n + 1] = shown /\ \A k \in 0..n : more[k] = grid[k]
        BY <1>2
    <1>4. more[0] = pending'[i].drawn
        BY <1>1, <1>3 DEF GridAfter
    <1>5. streaming'.id = i => more[Len(outbox')] = streaming'.shown
        BY <1>1, <1>3
    <1>6. ASSUME NEW k \in DOMAIN outbox'
          PROVE  IF outbox'[k].id = i /\ outbox'[k].kind = "progress"
                 THEN /\ more[k] = more[k - 1] + outbox'[k].value.chunk
                      /\ more[k] = Lesser(outbox'[k].value.rows, Cap)
                 ELSE /\ more[k] = more[k - 1]
                      /\ outbox'[k].id = i /\ outbox'[k].kind = "ok" =>
                             /\ outbox'[k].value.rows = Total(pending'[i].arg)
                             /\ Lesser(outbox'[k].value.rows, Cap) =
                                    IF outbox'[k].value.streamed THEN more[k]
                                    ELSE outbox'[k].value.chunk
        <2>1. CASE k = n + 1
            <3>1. k - 1 = n /\ outbox'[k] = r /\ more[k] = shown /\ more[k - 1] = grid[n]
                BY <1>1, <1>3, <2>1
            <3>. QED BY <3>1 DEF n
        <2>2. CASE k # n + 1
            <3>1. k \in DOMAIN outbox /\ k \in 0..n /\ k - 1 \in 0..n
                BY <1>1, <2>2
            <3>2. outbox'[k] = outbox[k] /\ more[k] = grid[k] /\ more[k - 1] = grid[k - 1]
                BY <1>1, <1>3, <3>1
            <3>. QED BY <3>1, <3>2 DEF GridAfter
        <2>. QED BY <2>1, <2>2
    <1>7. GridAfter(more, i)'
        BY <1>4, <1>5, <1>6 DEF GridAfter, Lesser, Total, Upto
    <1>. QED BY <1>1, <1>7

\* The first reply is taken, and what it brought is drawn.
LEMMA GridTaken ==
    ASSUME IInv, NEW i \in DOMAIN pending, UNCHANGED streaming,
           pending'[i].arg = pending[i].arg,
           NEW grid \in [0..Len(outbox) -> 0..Cap], GridAfter(grid, i),
           outbox # <<>>, outbox' = Tail(outbox),
           pending'[i].drawn = grid[1]
    PROVE  \E left \in [0..Len(outbox') -> 0..Cap] : GridAfter(left, i)'
    <1>. DEFINE n == Len(outbox)
                shorter == [k \in 0..n - 1 |-> grid[k + 1]]
    <1>1. /\ n \in Nat \ {0} /\ Len(outbox') = n - 1 /\ DOMAIN outbox' = 1..n - 1 /\ DOMAIN outbox = 1..n
          /\ \A k \in DOMAIN outbox' : k + 1 \in DOMAIN outbox /\ outbox'[k] = outbox[k + 1]
        <2>1. outbox \in Seq(Replies)
            BY DEF IInv, Typed
        <2>. QED BY <2>1, HeadRemoved
    <1>2. grid \in [0..n -> 0..Cap] /\ (streaming.id = i => grid[n] = streaming.shown)
        BY DEF GridAfter
    <1>. HIDE DEF n
    <1>3. shorter \in [0..n - 1 -> 0..Cap] /\ \A k \in 0..n - 1 : shorter[k] = grid[k + 1]
        BY <1>1, <1>2
    <1>. HIDE DEF shorter
    <1>4. PICK left \in [0..n - 1 -> 0..Cap] : \A k \in 0..n - 1 : left[k] = grid[k + 1]
        BY <1>3
    <1>5. left[0] = pending'[i].drawn
        BY <1>1, <1>4
    <1>6. streaming'.id = i => left[Len(outbox')] = streaming'.shown
        BY <1>1, <1>2, <1>4
    <1>7. ASSUME NEW k \in DOMAIN outbox'
          PROVE  IF outbox'[k].id = i /\ outbox'[k].kind = "progress"
                 THEN /\ left[k] = left[k - 1] + outbox'[k].value.chunk
                      /\ left[k] = Lesser(outbox'[k].value.rows, Cap)
                 ELSE /\ left[k] = left[k - 1]
                      /\ outbox'[k].id = i /\ outbox'[k].kind = "ok" =>
                             /\ outbox'[k].value.rows = Total(pending'[i].arg)
                             /\ Lesser(outbox'[k].value.rows, Cap) =
                                    IF outbox'[k].value.streamed THEN left[k]
                                    ELSE outbox'[k].value.chunk
        <2>1. k \in 0..n - 1 /\ k - 1 \in 0..n - 1 /\ (k - 1) + 1 = k /\ (k + 1) - 1 = k
            <3>1. n \in Nat /\ n - 1 \in Nat /\ k \in 1..n - 1
                BY <1>1
            <3>. QED BY <3>1
        <2>2. left[k] = grid[k + 1] /\ left[k - 1] = grid[k]
            BY <1>4, <2>1
        <2>3. k + 1 \in DOMAIN outbox /\ outbox'[k] = outbox[k + 1]
            BY <1>1
        <2>. QED BY <2>1, <2>2, <2>3 DEF GridAfter
    <1>8. GridAfter(left, i)'
        BY <1>5, <1>6, <1>7 DEF GridAfter, Lesser, Total, Upto
    <1>. QED BY <1>1, <1>8

\* Nothing of an answer is on its way: the grid is empty and stays so.
LEMMA GridEmpty ==
    ASSUME IInv, NEW i, pending'[i].drawn = 0, outbox' \in Seq(Replies),
           \A k \in DOMAIN outbox' : outbox'[k].id # i,
           streaming'.id = i => streaming'.shown = 0
    PROVE  \E grid \in [0..Len(outbox') -> 0..Cap] : GridAfter(grid, i)'
    <1>. DEFINE n == Len(outbox')
                empty == [k \in 0..n |-> 0]
    <1>1. n \in Nat /\ DOMAIN outbox' = 1..n /\ Cap \in Nat
        BY SessionAssumption
    <1>. HIDE DEF n
    <1>2. empty \in [0..n -> 0..Cap] /\ \A k \in 0..n : empty[k] = 0
        BY <1>1
    <1>. HIDE DEF empty
    <1>3. PICK grid \in [0..n -> 0..Cap] : \A k \in 0..n : grid[k] = 0
        BY <1>2
    <1>5. grid[0] = 0 /\ grid[n] = 0 /\ \A k \in DOMAIN outbox' : grid[k] = grid[k - 1]
        BY <1>1, <1>3
    <1>4. GridAfter(grid, i)'
        BY <1>5 DEF GridAfter, n
    <1>. QED BY <1>4 DEF n

\* Nothing is posted or taken: the grid will have what it would have had.
LEMMA GridSame ==
    ASSUME IInv, NEW i \in DOMAIN pending, UNCHANGED outbox, pending'[i] = pending[i],
           NEW grid \in [0..Len(outbox) -> 0..Cap], GridAfter(grid, i),
           streaming'.id = i => grid[Len(outbox)] = streaming'.shown
    PROVE  \E same \in [0..Len(outbox') -> 0..Cap] : GridAfter(same, i)'
    <1>1. PICK w : w = pending[i]
        OBVIOUS
    <1>2. PICK t : t = Total(w.arg)
        OBVIOUS
    <1>3. /\ grid[0] = w.drawn
          /\ \A k \in DOMAIN outbox :
                 IF outbox[k].id = i /\ outbox[k].kind = "progress"
                 THEN /\ grid[k] = grid[k - 1] + outbox[k].value.chunk
                      /\ grid[k] = Lesser(outbox[k].value.rows, Cap)
                 ELSE /\ grid[k] = grid[k - 1]
                      /\ outbox[k].id = i /\ outbox[k].kind = "ok" =>
                             /\ outbox[k].value.rows = t
                             /\ Lesser(outbox[k].value.rows, Cap) =
                                    IF outbox[k].value.streamed THEN grid[k]
                                    ELSE outbox[k].value.chunk
        BY <1>1, <1>2 DEF GridAfter
    <1>4. Total(pending'[i].arg) = t
        BY <1>1, <1>2
    <1>5. GridAfter(grid, i)'
        BY <1>1, <1>3, <1>4 DEF GridAfter, Lesser, Total, Upto
    <1>. QED BY <1>5

\* The page takes a reply that draws nothing, or none, and posts at most one request.
LEMMA TurnGrid ==
    ASSUME IInv, NEW gone, Turn(gone), Settled(gone) \/ \E w : Posts(gone, w)
    PROVE  GridFollows'
    <1>1. /\ Numbered /\ Replied /\ InHand /\ GridFollows /\ outbox \in Seq(Replies)
          /\ streaming \in Underway \union {NotStreaming}
        BY DEF IInv, Typed
    <1>2. PICK d \in {0, 1} :
              /\ d = IF gone = {} THEN 0 ELSE 1
              /\ DOMAIN outbox' = 1..Len(outbox) - d
              /\ \A k \in DOMAIN outbox' : k + d \in DOMAIN outbox /\ outbox'[k] = outbox[k + d]
        BY AfterLeaving DEF Turn
    <1>3. /\ UNCHANGED streaming /\ gone \subseteq DOMAIN pending /\ streaming.id \notin gone
          /\ outbox' \in Seq(Replies)
        BY AfterLeaving DEF Turn
    <1>4. SUFFICES ASSUME NEW i \in DOMAIN pending', pending'[i].for = "execute"
                   PROVE  \E grid \in [0..Len(outbox') -> 0..Cap] : GridAfter(grid, i)'
        BY DEF GridFollows
    <1>5. CASE i \in DOMAIN pending \ gone /\ pending'[i] = pending[i]
        <2>1. PICK grid \in [0..Len(outbox) -> 0..Cap] : GridAfter(grid, i)
            BY <1>1, <1>4, <1>5 DEF GridFollows
        <2>2. CASE gone = {}
            <3>1. outbox' = outbox
                BY <2>2 DEF Turn, Leaves
            <3>2. streaming'.id = i => grid[Len(outbox)] = streaming'.shown
                BY <1>3, <2>1 DEF GridAfter
            <3>. QED BY <1>5, <2>1, <3>1, <3>2, GridSame
        <2>3. CASE gone # {}
            <3>1. outbox # <<>> /\ outbox' = Tail(outbox) /\ gone = {outbox[1].id}
                BY <2>3 DEF Turn, Leaves
            <3>2. 1 \in DOMAIN outbox
                BY <1>1, <3>1, HeadRemoved
            <3>3. grid[1] = grid[0]
                BY <1>5, <2>1, <3>1, <3>2 DEF GridAfter
            <3>4. pending'[i].drawn = grid[1]
                BY <1>5, <2>1, <3>3 DEF GridAfter
            <3>. QED BY <1>3, <1>5, <2>1, <3>1, <3>4, GridTaken
        <2>. QED BY <2>2, <2>3
    <1>6. CASE i = next /\ next \notin DOMAIN pending /\ pending'[i].drawn = 0
        <2>1. \A k \in DOMAIN outbox' : outbox'[k].id # i
            BY <1>1, <1>2, <1>6 DEF Replied
        <2>2. streaming'.id # i
            <3>1. next # 0
                BY <1>1 DEF Numbered
            <3>. QED BY <1>1, <1>3, <1>6, <3>1 DEF InHand, NotStreaming
        <2>. QED BY <1>3, <1>6, <2>1, <2>2, GridEmpty
    <1>7. CASE Settled(gone)
        BY <1>4, <1>5, <1>7, TurnPending
    <1>8. ASSUME NEW w, Posts(gone, w)
          PROVE  \/ i \in DOMAIN pending \ gone /\ pending'[i] = pending[i]
                 \/ i = next /\ next \notin DOMAIN pending /\ pending'[i].drawn = 0
        <2>1. w.for = "execute" => w.drawn = 0
            BY <1>8 DEF Posts, PostedFor
        <2>. QED BY <1>4, <1>8, <2>1, PostPending
    <1>. QED BY <1>5, <1>6, <1>7, <1>8

\* What the grid will have after the replies that are on their way is the first
\* rows of what they tell of, whatever step is taken.
LEMMA GridNext ==
    ASSUME IInv, Next
    PROVE  GridFollows'
    <1>1. /\ Numbered /\ Typed /\ Waiting /\ Requested /\ Replied /\ InHand /\ GridFollows
          /\ outbox \in Seq(Replies) /\ streaming \in Underway \union {NotStreaming}
        BY DEF IInv, Typed
    <1>2. ASSUME UNCHANGED pending,
                 \A i \in DOMAIN pending :
                     pending[i].for = "execute" =>
                         \A grid \in [0..Len(outbox) -> 0..Cap] :
                             GridAfter(grid, i) =>
                                 \E more \in [0..Len(outbox') -> 0..Cap] : GridAfter(more, i)'
          PROVE  GridFollows'
        BY <1>1, <1>2 DEF GridFollows
    <1>3. ASSUME NEW gone, Turn(gone), Settled(gone) \/ \E w : Posts(gone, w)
          PROVE  GridFollows'
        BY <1>3, TurnGrid
    <1>4. CASE Aside \/ Begins \/ Advances \/ Finishes
        BY <1>3, <1>4 DEF Aside, Begins, Advances, Finishes
    <1>5. CASE Rests
        <2>1. UNCHANGED <<pending, outbox, streaming>>
            BY <1>5 DEF Rests, page
        <2>2. ASSUME NEW i \in DOMAIN pending, NEW grid \in [0..Len(outbox) -> 0..Cap], GridAfter(grid, i)
              PROVE  \E more \in [0..Len(outbox') -> 0..Cap] : GridAfter(more, i)'
            <3>1. streaming'.id = i => grid[Len(outbox)] = streaming'.shown
                BY <2>1, <2>2 DEF GridAfter
            <3>. QED BY <2>1, <2>2, <3>1, GridSame
        <2>. QED BY <1>2, <2>1, <2>2
    <1>6. CASE Handles
        <2>1. PICK r \in Replies :
                  /\ outbox' = Append(outbox, r) /\ r.kind # "progress"
                  /\ Complete(r, pending[r.id])
            BY <1>6 DEF Handles
        <2>2. UNCHANGED <<pending, streaming>> /\ streaming = NotStreaming
            BY <1>6 DEF Handles, Takes, page
        <2>3. ASSUME NEW i \in DOMAIN pending, pending[i].for = "execute",
                     NEW grid \in [0..Len(outbox) -> 0..Cap], GridAfter(grid, i)
              PROVE  \E more \in [0..Len(outbox') -> 0..Cap] : GridAfter(more, i)'
            <3>. DEFINE shown == grid[Len(outbox)]
            <3>1. shown \in 0..Cap /\ streaming'.id # i
                BY <1>1, <2>2 DEF Numbered, NotStreaming
            <3>2. r.id = i /\ r.kind = "ok" =>
                      /\ r.value.rows = Total(pending[i].arg)
                      /\ Lesser(r.value.rows, Cap) = IF r.value.streamed THEN shown ELSE r.value.chunk
                BY <2>1, <2>3 DEF Complete
            <3>. HIDE DEF shown
            <3>3. shown = grid[Len(outbox)]
                BY DEF shown
            <3>. QED BY <2>1, <2>2, <2>3, <3>1, <3>2, <3>3, GridPosted
        <2>. QED BY <1>2, <2>2, <2>3
    <1>7. CASE Starts
        <2>1. /\ UNCHANGED <<pending, outbox>> /\ inbox # <<>>
              /\ streaming' = [id |-> inbox[1].id, sql |-> pending[inbox[1].id].arg,
                               at |-> 1, shown |-> 0, total |-> 0]
              /\ pending[inbox[1].id].for = "execute"
            BY <1>7 DEF Starts, Takes, page
        <2>2. ASSUME NEW i \in DOMAIN pending, NEW grid \in [0..Len(outbox) -> 0..Cap], GridAfter(grid, i)
              PROVE  \E more \in [0..Len(outbox') -> 0..Cap] : GridAfter(more, i)'
            <3>1. CASE i = inbox[1].id
                <4>1. \A k \in DOMAIN outbox' : outbox'[k].id # i
                    BY <1>1, <2>1, <3>1, RequestTaken
                <4>2. pending'[i].drawn = 0
                    BY <1>1, <2>1, <3>1, HeadOfInbox DEF PostedFor
                <4>3. streaming'.shown = 0 /\ outbox' \in Seq(Replies)
                    BY <1>1, <2>1
                <4>. QED BY <4>1, <4>2, <4>3, GridEmpty
            <3>2. CASE i # inbox[1].id
                <4>1. streaming'.id # i
                    BY <2>1, <3>2
                <4>. QED BY <2>1, <2>2, <4>1, GridSame
            <3>. QED BY <3>1, <3>2
        <2>. QED BY <1>2, <2>1, <2>2
    <1>8. CASE StreamBatch
        <2>. DEFINE q == streaming
                    rows == Batches[q.sql][q.at]
                    chunk == CopyChunk(rows)
                    total == q.total + rows
                    counts == [rows |-> total, chunk |-> chunk]
                    message == [id |-> q.id, kind |-> "progress", value |-> counts]
        <2>1. /\ q \in Underway /\ chunk \in Nat /\ total \in Nat
              /\ q.shown + chunk = Lesser(total, Cap)
              /\ q.shown >= Cap => chunk = 0
              /\ message \in Replies
              /\ streaming' = [q EXCEPT !.at = q.at + 1, !.shown = q.shown + chunk, !.total = total]
              /\ outbox' = Append(outbox, message) \/ (q.shown >= Cap /\ outbox' = outbox)
              /\ UNCHANGED pending
            BY <1>8, BatchFacts DEF page
        <2>2. /\ message.id = q.id /\ message.kind = "progress" /\ message.value = counts
              /\ counts.rows = total /\ counts.chunk = chunk
            OBVIOUS
        <2>. HIDE DEF message, counts, total, chunk, rows
        <2>3. streaming'.id = q.id /\ streaming'.shown = q.shown + chunk /\ q.shown \in Nat
            BY <2>1 DEF Underway
        <2>4. Lesser(total, Cap) \in 0..Cap
            BY <2>1, SessionAssumption DEF Lesser
        <2>5. ASSUME NEW i \in DOMAIN pending, NEW grid \in [0..Len(outbox) -> 0..Cap], GridAfter(grid, i)
              PROVE  \E more \in [0..Len(outbox') -> 0..Cap] : GridAfter(more, i)'
            <3>1. q.id = i => grid[Len(outbox)] = q.shown
                BY <2>5 DEF GridAfter
            <3>2. CASE outbox' = outbox /\ q.shown >= Cap
                <4>1. streaming'.id = i => grid[Len(outbox)] = streaming'.shown
                    BY <2>1, <2>3, <3>1, <3>2
                <4>. QED BY <2>1, <2>5, <3>2, <4>1, GridSame
            <3>3. CASE outbox' = Append(outbox, message)
                <4>. DEFINE shown == IF q.id = i THEN q.shown + chunk ELSE grid[Len(outbox)]
                <4>1. shown \in 0..Cap
                    BY <1>1, <2>1, <2>4
                <4>2. streaming'.id = i => shown = streaming'.shown
                    BY <2>3
                <4>3. IF message.id = i /\ message.kind = "progress"
                      THEN /\ shown = grid[Len(outbox)] + message.value.chunk
                           /\ shown = Lesser(message.value.rows, Cap)
                      ELSE shown = grid[Len(outbox)]
                    BY <2>1, <2>2, <3>1
                <4>4. message.kind # "ok"
                    BY <2>2
                <4>. HIDE DEF shown
                <4>. QED BY <2>1, <2>5, <3>3, <4>1, <4>2, <4>3, <4>4, GridPosted
            <3>. QED BY <2>1, <3>2, <3>3
        <2>. QED BY <1>2, <2>1, <2>5
    <1>9. CASE StreamEnd
        <2>1. PICK r \in Replies :
                  /\ r.id = streaming.id /\ r.kind \in {"ok", "error"}
                  /\ r.kind = "ok" =>
                         /\ r.value \in Summaries /\ r.value.streamed
                         /\ r.value.rows = Total(streaming.sql)
                         /\ streaming.shown = Lesser(r.value.rows, Cap)
                  /\ outbox' = Append(outbox, r)
                  /\ streaming # NotStreaming /\ streaming' = NotStreaming
                  /\ UNCHANGED pending
            BY <1>9, EndFacts DEF page
        <2>2. pending[streaming.id].arg = streaming.sql
            BY <1>1, <2>1 DEF InHand
        <2>3. ASSUME NEW i \in DOMAIN pending, NEW grid \in [0..Len(outbox) -> 0..Cap], GridAfter(grid, i)
              PROVE  \E more \in [0..Len(outbox') -> 0..Cap] : GridAfter(more, i)'
            <3>. DEFINE shown == grid[Len(outbox)]
            <3>1. shown \in 0..Cap /\ streaming'.id # i
                <4>1. streaming'.id = 0 /\ i \in 1..next - 1 /\ next \in Nat
                    BY <1>1, <2>1 DEF Numbered, NotStreaming
                <4>2. shown \in 0..Cap
                    BY <1>1
                <4>. QED BY <4>1, <4>2
            <3>2. r.id = i /\ r.kind = "ok" =>
                      /\ r.value.rows = Total(pending[i].arg)
                      /\ Lesser(r.value.rows, Cap) = IF r.value.streamed THEN shown ELSE r.value.chunk
                BY <2>1, <2>2, <2>3 DEF GridAfter
            <3>. HIDE DEF shown
            <3>3. shown = grid[Len(outbox)] /\ r.kind # "progress"
                BY <2>1 DEF shown
            <3>. QED BY <2>1, <2>3, <3>1, <3>2, <3>3, GridPosted
        <2>. QED BY <1>2, <2>1, <2>3
    <1>10. CASE Progressed
        <2>. DEFINE id == outbox[1].id
                    old == pending[id]
                    counts == outbox[1].value
                    more == Lesser(counts.chunk, IF old.drawn < Cap THEN Cap - old.drawn ELSE 0)
        <2>1. /\ outbox # <<>> /\ 1 \in DOMAIN outbox /\ outbox[1].kind = "progress"
              /\ counts \in Counts /\ outbox' = Tail(outbox)
              /\ pending' = [pending EXCEPT ![id].drawn = old.drawn + more]
              /\ UNCHANGED streaming /\ id \in DOMAIN pending /\ old.for = "execute"
            BY <1>10, ProgressFacts
        <2>2. /\ DOMAIN pending' = DOMAIN pending
              /\ \A i \in DOMAIN pending :
                     pending'[i].for = pending[i].for /\ pending'[i].arg = pending[i].arg
            BY <1>10, ProgressProtocol
        <2>3. SUFFICES ASSUME NEW i \in DOMAIN pending, pending[i].for = "execute"
                       PROVE  \E left \in [0..Len(outbox') -> 0..Cap] : GridAfter(left, i)'
            BY <2>2 DEF GridFollows
        <2>4. PICK grid \in [0..Len(outbox) -> 0..Cap] : GridAfter(grid, i)
            BY <1>1, <2>3 DEF GridFollows
        <2>5. grid[0] = pending[i].drawn /\ grid[0] \in 0..Cap /\ grid[1] \in 0..Cap
            <3>1. 0 \in 0..Len(outbox) /\ 1 \in 0..Len(outbox)
                BY <1>1, <2>1
            <3>. QED BY <2>4, <3>1 DEF GridAfter
        <2>6. pending'[i].drawn = grid[1]
            <3>1. CASE i = id
                <4>1. grid[1] = grid[0] + counts.chunk /\ counts.chunk \in Nat /\ Cap \in Nat
                    <5>1. grid[1] = grid[1 - 1] + counts.chunk
                        BY <2>1, <2>4, <3>1 DEF GridAfter
                    <5>2. counts.chunk \in Nat /\ Cap \in Nat
                        BY <2>1, SessionAssumption DEF Counts
                    <5>. QED BY <5>1, <5>2
                <4>2. more = counts.chunk
                    BY <2>5, <3>1, <4>1 DEF Lesser
                <4>3. pending'[i].drawn = old.drawn + more
                    <5>1. "drawn" \in DOMAIN pending[i]
                        BY <1>1, <2>3 DEF Waiting, Remembers
                    <5>2. pending'[i] = [pending[i] EXCEPT !.drawn = old.drawn + more]
                        BY <2>1, <2>3, <3>1
                    <5>. QED BY <5>1, <5>2
                <4>. QED BY <2>5, <3>1, <4>1, <4>2, <4>3
            <3>2. CASE i # id
                <4>1. grid[1] = grid[0]
                    BY <2>1, <2>4, <3>2 DEF GridAfter
                <4>2. pending'[i] = pending[i]
                    BY <2>1, <2>3, <3>2
                <4>. QED BY <2>5, <4>1, <4>2
            <3>. QED BY <3>1, <3>2
        <2>. QED BY <2>1, <2>2, <2>3, <2>4, <2>6, GridTaken
    <1>. QED BY <1>4, <1>5, <1>6, <1>7, <1>8, <1>9, <1>10, Moves

\* Only a reply to a query changes what the grid says.
LEMMA ResultsNext ==
    ASSUME IInv, Next
    PROVE  UNCHANGED results \/ Progressed \/ Executed
    <1>1. ASSUME Worker \/ Network
          PROVE  UNCHANGED results
        BY <1>1, WorkerLeavesPage DEF page, Network, Fetched, FetchFails, queryState
    <1>2. ASSUME Receive
          PROVE  UNCHANGED results \/ Progressed \/ Executed
        BY <1>2 DEF Receive, LoadAnswered, CatalogReloaded, StageAnswered, IndexAnswered,
                    IndexCreated, IndexListed, LookAnswered, queryState
    <1>3. ASSUME NEW t, \/ Type \/ Run \/ OpenIndex \/ PickExample(t) \/ Press(t)
                        \/ OpenStorage(t) \/ PickIndex(t) \/ CreateIndex(t)
          PROVE  UNCHANGED results
        BY <1>3 DEF Type, Run, OpenIndex, PickExample, Press, OpenStorage, PickIndex,
                    CreateIndex, queryState
    <1>4. Reader => UNCHANGED results
        BY <1>3 DEF Reader
    <1>. QED BY <1>1, <1>2, <1>4 DEF Next

\* What is drawn of an answer are its first rows: the rows that the reply tells
\* of are those of the batches up to it, and the grid holds as many as it can.
LEMMA DrawnNext ==
    ASSUME IInv, Next
    PROVE  DrawnIsTheAnswer'
    <1>1. GridFollows /\ DrawnIsTheAnswer /\ outbox \in Seq(Replies) /\ Cap \in Nat
        BY SessionAssumption DEF IInv, Typed
    <1>2. CASE UNCHANGED results
        BY <1>1, <1>2 DEF DrawnIsTheAnswer, Lesser, Total, Upto
    <1>3. CASE Progressed
        <2>. DEFINE id == outbox[1].id
                    old == pending[id]
                    counts == outbox[1].value
                    more == Lesser(counts.chunk, IF old.drawn < Cap THEN Cap - old.drawn ELSE 0)
        <2>1. /\ 1 \in DOMAIN outbox /\ outbox[1].kind = "progress" /\ counts \in Counts
              /\ id \in DOMAIN pending /\ old.for = "execute"
              /\ results' = [sql |-> old.arg, shown |-> old.drawn + more,
                             rows |-> counts.rows, state |-> "part"]
            BY <1>3, ProgressFacts
        <2>2. PICK grid \in [0..Len(outbox) -> 0..Cap] : GridAfter(grid, id)
            BY <1>1, <2>1 DEF GridFollows
        <2>3. grid[0] = old.drawn /\ grid[0] \in 0..Cap /\ grid[1] \in 0..Cap
            <3>1. 0 \in 0..Len(outbox) /\ 1 \in 0..Len(outbox)
                BY <1>1, <2>1
            <3>. QED BY <2>2, <3>1 DEF GridAfter
        <2>4. grid[1] = grid[1 - 1] + counts.chunk /\ grid[1] = Lesser(counts.rows, Cap)
            BY <2>1, <2>2 DEF GridAfter
        <2>5. grid[1] = old.drawn + more
            <3>1. counts.chunk \in Nat
                BY <2>1 DEF Counts
            <3>. QED BY <1>1, <2>3, <2>4, <3>1 DEF Lesser
        <2>6. /\ results'.state = "part" /\ results'.rows = counts.rows
              /\ results'.shown = grid[1]
            BY <2>1, <2>5
        <2>. QED BY <2>4, <2>6 DEF DrawnIsTheAnswer, Lesser
    <1>4. CASE Executed
        <2>. DEFINE id == outbox[1].id
                    old == pending[id]
                    done == outbox[1].value
        <2>1. CASE Received("execute", "ok")
            <3>1. /\ 1 \in DOMAIN outbox /\ Head(outbox) = outbox[1] /\ id \in DOMAIN pending
                  /\ old.for = "execute" /\ outbox[1].kind = "ok"
                  /\ Arg = old.arg
                BY <2>1, HeadOfOutbox
            <3>2. results' = [sql |-> old.arg, rows |-> done.rows, state |-> "ok",
                              shown |-> IF done.streamed THEN old.drawn ELSE done.chunk]
                BY <1>4, <2>1, <3>1 DEF Executed, Received
            <3>3. PICK grid \in [0..Len(outbox) -> 0..Cap] : GridAfter(grid, id)
                BY <1>1, <3>1 DEF GridFollows
            <3>4. /\ grid[0] = old.drawn /\ grid[1] = grid[1 - 1]
                  /\ done.rows = Total(old.arg)
                  /\ Lesser(done.rows, Cap) = IF done.streamed THEN grid[1] ELSE done.chunk
                BY <3>1, <3>3 DEF GridAfter
            <3>5. /\ results'.rows = done.rows /\ results'.sql = old.arg
                  /\ results'.shown = Lesser(done.rows, Cap)
                BY <3>2, <3>4
            <3>. QED BY <3>4, <3>5 DEF DrawnIsTheAnswer, Lesser, Total, Upto
        <2>2. CASE Received("execute", "error")
            <3>1. Head(outbox).kind = "error"
                BY <2>2 DEF Received
            <3>2. results'.state = "failed"
                BY <1>4, <3>1 DEF Executed, Received
            <3>. QED BY <3>2 DEF DrawnIsTheAnswer
        <2>. QED BY <1>4, <2>1, <2>2 DEF Executed
    <1>. QED BY <1>2, <1>3, <1>4, ResultsNext

-----------------------------------------------------------------------------
(* The invariant holds.                                                    *)

\* Every request stays in one place, whichever side of the worker takes a step.
LEMMA ProtocolNext ==
    ASSUME IInv, Next
    PROVE  Numbered' /\ Typed' /\ Requested' /\ Replied' /\ InHand'
    <1>1. /\ Numbered /\ Typed /\ Requested /\ Replied /\ InHand
        BY DEF IInv
    <1>2. UNCHANGED page => Numbered' /\ copy' \in Catalogs
        BY <1>1 DEF page, Numbered, Typed
    <1>3. ASSUME NEW gone, Turn(gone), Settled(gone) \/ \E w : Posts(gone, w)
          PROVE  Numbered' /\ Typed' /\ Requested' /\ Replied' /\ InHand'
        BY <1>1, <1>3, TurnProtocol DEF Typed
    <1>4. CASE Aside \/ Begins \/ Advances \/ Finishes
        BY <1>3, <1>4 DEF Aside, Begins, Advances, Finishes
    <1>5. CASE Rests
        BY <1>1, <1>5 DEF Rests, page, Numbered, Typed, Requested, PostedFor, Replied, MeantFor, InHand
    <1>6. CASE Handles
        <2>1. UNCHANGED page /\ UNCHANGED streaming /\ catalog' \in Catalogs
            BY <1>6 DEF Handles, Takes
        <2>. QED BY <1>1, <1>2, <1>6, <2>1, HandlesProtocol DEF Typed
    <1>7. CASE Starts
        <2>1. UNCHANGED page /\ UNCHANGED <<catalog, outbox>>
            BY <1>7 DEF Starts, Takes
        <2>. QED BY <1>1, <1>2, <1>7, <2>1, StartsProtocol DEF Typed
    <1>8. CASE StreamBatch
        <2>1. UNCHANGED page /\ UNCHANGED <<catalog, inbox>>
            BY <1>8 DEF StreamBatch
        <2>. QED BY <1>1, <1>2, <1>8, <2>1, BatchProtocol DEF Typed
    <1>9. CASE StreamEnd
        <2>1. UNCHANGED page /\ UNCHANGED <<catalog, inbox>> /\ streaming' = NotStreaming
            BY <1>9 DEF StreamEnd
        <2>. QED BY <1>1, <1>2, <1>9, <2>1, EndProtocol DEF Typed
    <1>10. CASE Progressed
        <2>1. UNCHANGED <<inbox, streaming, catalog, copy>>
            BY <1>10, ProgressFacts
        <2>. QED BY <1>1, <1>10, <2>1, ProgressProtocol DEF Typed
    <1>. QED BY <1>4, <1>5, <1>6, <1>7, <1>8, <1>9, <1>10, Moves

\* What the page shows keeps its shape.
LEMMA ShownNext ==
    ASSUME IInv, Next
    PROVE  Shown'
    <1>1. ready' \in {"pending", "kept", "broken"}
        <2>1. ready \in {"pending", "kept", "broken"}
            BY DEF IInv, Shown
        <2>2. ASSUME NEW what, NEW kind, Received(what, kind)
              PROVE  ready' = ready
            BY <2>2 DEF Received
        <2>3. Receive => ready' = ready
            BY <2>2 DEF Receive, LoadAnswered, CatalogReloaded, Progressed, Executed, StageAnswered,
                        NextStage, LastStage, IndexAnswered, IndexCreated, IndexListed, LookAnswered
        <2>4. Reader => ready' = ready
            BY DEF Reader, Click, Type, Run, OpenIndex, PickExample, Press, OpenStorage,
                   PickIndex, CreateIndex
        <2>5. Network => ready' = ready
            BY DEF Network, Fetched, FetchFails, worker
        <2>. QED BY <2>1, <2>3, <2>4, <2>5, WorkerLeavesPage DEF Next
    <1>2. /\ loads' \in Seq(Loads) /\ offered' \subseteq Collections
          /\ \A j \in DOMAIN loads' : loads'[j].at <= Len(TablesFor(loads'[j].of))
        BY LoadsNext
    <1>3. editor' \in Sqls /\ picked' \in Examples /\ note' \in {None, picked'}
        BY EditorNext
    <1>4. choice' \in Tables \union {None} /\ tree' \in Tables \union {None}
        BY IndexNext
    <1>5. schema' \subseteq Tables
        BY ListedNext
    <1>6. running' \in BOOLEAN /\ panels' \in [Stages -> Sqls \union {None}]
        BY ChainNext
    <1>. QED BY <1>1, <1>2, <1>3, <1>4, <1>5, <1>6 DEF Shown, TablesFor

\* Nothing was asked yet, the catalogs are empty and the first table is fetched.
LEMMA InitInv == Init => IInv
    <1>. SUFFICES ASSUME Init
                  PROVE  IInv
        OBVIOUS
    <1>1. /\ inbox = <<>> /\ outbox = <<>> /\ pending = <<>> /\ next = 1
          /\ DOMAIN inbox = {} /\ DOMAIN outbox = {} /\ DOMAIN pending = {} /\ Len(outbox) = 0
        BY DEF Init
    <1>2. Numbered
        BY <1>1 DEF Numbered
    <1>3. Typed
        <2>1. Empty \in Catalogs
            BY DEF Empty, Catalogs
        <2>. QED BY <1>1, <2>1 DEF Typed, Init
    <1>4. loads = <<Begun(Boot)>> /\ DOMAIN loads = {1} /\ loads[1] = Begun(Boot)
        BY DEF Init
    <1>5. Begun(Boot) \in Loads /\ Begun(Boot).state = "fetching"
        BY DEF Begun, Loads
    <1>6. Begun(Boot).at <= Len(TablesFor(Begun(Boot).of))
        BY SessionAssumption DEF Begun, TablesFor
    <1>7. Shown
        <2>1. loads \in Seq(Loads)
            BY <1>4, <1>5
        <2>2. \A k \in DOMAIN loads : loads[k].at <= Len(TablesFor(loads[k].of))
            BY <1>4, <1>6
        <2>3. panels \in [Stages -> Sqls \union {None}]
            BY DEF Init
        <2>. QED BY <2>1, <2>2, <2>3, SessionAssumption DEF Shown, Init
    <1>8. Waiting /\ Requested /\ Replied /\ GridFollows
        BY <1>1 DEF Waiting, Requested, Replied, GridFollows
    <1>9. InHand /\ Streamed
        BY DEF Init, InHand, Streamed
    <1>10. OneRun /\ PanelsFollow
        BY <1>1 DEF Init, OneRun, PanelsFollow
    <1>11. Fresh
        <2>1. \A k \in 0..Len(outbox) : Known(k) = catalog
            BY <1>1 DEF Init, Known
        <2>. QED BY <2>1 DEF Fresh
    <1>12. Listed
        BY <1>4, <1>5 DEF Listed
    <1>13. DrawnIsTheAnswer
        BY DEF Init, Blank, DrawnIsTheAnswer
    <1>. QED BY <1>2, <1>3, <1>7, <1>8, <1>9, <1>10, <1>11, <1>12, <1>13 DEF IInv

\* A step that changes nothing keeps the invariant.
LEMMA StutterInv ==
    ASSUME IInv, UNCHANGED vars
    PROVE  IInv'
    <1>1. UNCHANGED <<ready, inbox, streaming, catalog, outbox, next, pending, copy, schema, loads,
                      offered, running, editor, picked, note, panels, results, choice, tree>>
        BY DEF vars, worker, page
    <1>2. (Numbered /\ Typed /\ Shown /\ Waiting)'
        BY <1>1 DEF IInv, Numbered, Typed, Shown, TablesFor, Waiting, Remembers
    <1>3. (Requested /\ Replied /\ InHand /\ OneRun /\ PanelsFollow)'
        BY <1>1 DEF IInv, Requested, PostedFor, Replied, MeantFor, InHand, OneRun, PanelsFollow, DrawnBefore
    <1>4. (Fresh /\ Listed /\ Streamed)'
        BY <1>1 DEF IInv, Fresh, Knows, Known, Telling, Listed, Held, Streamed, Upto, Lesser
    <1>5. DrawnIsTheAnswer'
        BY <1>1 DEF IInv, DrawnIsTheAnswer, Upto, Total, Lesser
    <1>6. GridFollows'
        <2>1. ASSUME NEW i \in DOMAIN pending, pending[i].for = "execute"
              PROVE  \E grid \in [0..Len(outbox') -> 0..Cap] : GridAfter(grid, i)'
            <3>1. PICK grid \in [0..Len(outbox) -> 0..Cap] : GridAfter(grid, i)
                BY <2>1 DEF IInv, GridFollows
            <3>2. streaming'.id = i => grid[Len(outbox)] = streaming'.shown
                BY <1>1, <3>1 DEF GridAfter
            <3>. QED BY <1>1, <2>1, <3>1, <3>2, GridSame
        <2>. QED BY <1>1, <2>1 DEF GridFollows
    <1>. QED BY <1>2, <1>3, <1>4, <1>5, <1>6 DEF IInv

\* The invariant is inductive: it holds at the start and every step keeps it.
THEOREM Invariance == Spec => []IInv
    <1>1. Init => IInv
        BY InitInv
    <1>2. IInv /\ [Next]_vars => IInv'
        <2>1. ASSUME IInv, Next
              PROVE  IInv'
            BY <2>1, ProtocolNext, ShownNext, WaitingNext, ChainNext, FreshNext, ListedNext,
               StreamedNext, GridNext, DrawnNext DEF IInv
        <2>. QED BY <2>1, StutterInv
    <1>. QED BY <1>1, <1>2, PTL DEF Spec

-----------------------------------------------------------------------------
(* What the session promises.                                              *)

\* When no query runs, no request of one waits, so that every stage of the last
\* one has been drawn: the panels describe one query (renderStages in main.ts).
THEOREM PanelsAreOfOneQuery == Spec => []PanelsAgree
    <1>1. IInv => PanelsAgree
        BY DEF IInv, PanelsFollow, PanelsAgree
    <1>. QED BY <1>1, Invariance, PTL

\* The grid never shows other rows, or a count, than those of the query's answer.
THEOREM GridIsTheAnswer == Spec => []DrawnIsTheAnswer
    <1>1. IInv => DrawnIsTheAnswer
        BY DEF IInv
    <1>. QED BY <1>1, Invariance, PTL

\* The copy that the page keeps of the catalog is never out of date for longer
\* than a request that changes the catalog is under way.
THEOREM CopyStaysCurrent == Spec => []CopyIsCurrent
    <1>1. ASSUME IInv
          PROVE  CopyIsCurrent
        <2>1. TypeOK
            BY <1>1 DEF IInv, Numbered, Typed, Shown, Requested, Catalogs, TypeOK
        <2>2. ASSUME ~Unsettled
              PROVE  copy = catalog
            <3>1. \A j \in DOMAIN inbox : inbox[j].kind # "catalog"
                BY <1>1, <2>2 DEF IInv, Requested, PostedFor, Waiting, Remembers, Chain, OfCatalog, Unsettled
            <3>2. \A j \in DOMAIN outbox : ~Telling(outbox[j])
                BY <1>1, <2>2 DEF IInv, Replied, Telling, OfCatalog, Unsettled
            <3>3. 0 \in 0..Len(outbox) /\ Knows(0) /\ Known(0) = copy
                BY <1>1 DEF IInv, Typed, Knows, Known
            <3>. QED BY <1>1, <3>1, <3>2, <3>3 DEF IInv, Fresh
        <2>. QED BY <1>1, <2>1, <2>2 DEF IInv, Listed, CopyIsCurrent
    <1>2. IInv => CopyIsCurrent
        BY <1>1
    <1>. QED BY <1>2, Invariance, PTL

\* The page posts a request, or settles one, or both, or neither, in one step.
LEMMA RequestsNext ==
    ASSUME IInv, Next
    PROVE  \E gone :
               /\ gone = {} \/ \E id \in DOMAIN pending : gone = {id}
               /\ \/ next' = next /\ DOMAIN pending' = DOMAIN pending \ gone
                  \/ next' = next + 1 /\ DOMAIN pending' = (DOMAIN pending \ gone) \union {next}
    <1>1. ASSUME NEW gone, Turn(gone), Settled(gone) \/ \E w : Posts(gone, w)
          PROVE  /\ gone = {} \/ \E id \in DOMAIN pending : gone = {id}
                 /\ \/ next' = next /\ DOMAIN pending' = DOMAIN pending \ gone
                    \/ next' = next + 1 /\ DOMAIN pending' = (DOMAIN pending \ gone) \union {next}
        <2>1. gone = {} \/ \E id \in DOMAIN pending : gone = {id}
            BY <1>1 DEF Turn, Leaves
        <2>. QED BY <1>1, <2>1, AfterSettled, AfterPost DEF Posts, IInv
    <1>2. CASE Aside \/ Begins \/ Advances \/ Finishes
        <2>1. \E gone : Turn(gone) /\ (Settled(gone) \/ \E w : Posts(gone, w))
            BY <1>2 DEF Aside, Begins, Advances, Finishes
        <2>. QED BY <1>1, <2>1
    <1>3. CASE UNCHANGED page \/ Progressed
        <2>1. next' = next /\ DOMAIN pending' = DOMAIN pending \ {}
            BY <1>3, ProgressFacts, ProgressProtocol DEF page
        <2>. QED BY <2>1
    <1>. QED BY <1>2, <1>3, Moves

\* The handle of client.ts implements the table of requests: each is answered
\* once, though progress, many requests and one worker lie between.
THEOREM AnsweredOnce == Spec => AnswersOnce
    <1>. DEFINE request == [i \in Ids |-> IF i >= next THEN "unused"
                                          ELSE IF i \in DOMAIN pending THEN "waiting"
                                          ELSE "answered"]
    <1>1. Init => Answers!Init
        <2>1. ASSUME Init
              PROVE  Answers!Init
            <3>1. next = 1 /\ \A i \in Ids : i >= 1
                BY <2>1, SessionAssumption DEF Init, Ids
            <3>. QED BY <3>1 DEF Answers!Init
        <2>. QED BY <2>1
    <1>2. IInv /\ [Next]_vars => [Answers!Next]_request
        <2>1. SUFFICES ASSUME IInv, Next
                       PROVE  Answers!Next \/ UNCHANGED request
            BY DEF vars, page
        <2>2. /\ next \in Nat \ {0} /\ DOMAIN pending \subseteq 1..next - 1
              /\ \A i \in Ids : i \in Nat /\ i >= 1
            BY <2>1, SessionAssumption DEF IInv, Numbered, Ids
        <2>3. PICK gone :
                  /\ gone = {} \/ \E id \in DOMAIN pending : gone = {id}
                  /\ \/ next' = next /\ DOMAIN pending' = DOMAIN pending \ gone
                     \/ next' = next + 1 /\ DOMAIN pending' = (DOMAIN pending \ gone) \union {next}
            BY <2>1, RequestsNext
        <2>. DEFINE posted == IF next' = next THEN {} ELSE {next}
        <2>4. \A i \in Ids : request'[i] =
                  IF i \in posted THEN "waiting" ELSE IF i \in gone THEN "answered" ELSE request[i]
            BY <2>2, <2>3
        <2>5. /\ \A i \in Ids : i \in posted => request[i] = "unused"
              /\ \A i \in Ids : i \in gone => request[i] = "waiting"
            BY <2>2, <2>3
        <2>6. /\ request = [i \in Ids |-> request[i]]
              /\ request' = [i \in Ids |-> request'[i]]
              /\ DOMAIN request = Ids
            OBVIOUS
        <2>7. /\ \A i, j \in posted : i = j
              /\ \A i, j \in gone : i = j
              /\ posted \intersect gone = {}
            BY <2>2, <2>3
        <2>. HIDE DEF request, posted
        <2>8. ASSUME NEW i \in Ids, i \in posted, gone \intersect Ids = {}
              PROVE  Answers!Next
            <3>1. request' = [request EXCEPT ![i] = "waiting"]
                BY <2>4, <2>6, <2>7, <2>8
            <3>2. Answers!Send(i)
                BY <2>5, <2>8, <3>1 DEF Answers!Send, request
            <3>. QED BY <3>2 DEF Answers!Next
        <2>9. ASSUME NEW i \in Ids, i \in gone, posted \intersect Ids = {}
              PROVE  Answers!Next
            <3>1. request' = [request EXCEPT ![i] = "answered"]
                BY <2>4, <2>6, <2>7, <2>9
            <3>2. Answers!Answer(i)
                BY <2>5, <2>9, <3>1 DEF Answers!Answer, request
            <3>. QED BY <3>2 DEF Answers!Next, Answers!Settle
        <2>10. ASSUME NEW i \in Ids, NEW j \in Ids, i \in gone, j \in posted
               PROVE  Answers!Next
            <3>1. request' = [request EXCEPT ![i] = "answered", ![j] = "waiting"]
                BY <2>4, <2>6, <2>7, <2>10
            <3>2. Answers!AnswerAndSend(i, j)
                BY <2>5, <2>10, <3>1 DEF Answers!AnswerAndSend, request
            <3>. QED BY <3>2 DEF Answers!Next, Answers!Settle
        <2>11. CASE posted \intersect Ids = {} /\ gone \intersect Ids = {}
            BY <2>4, <2>6, <2>11
        <2>. QED BY <2>8, <2>9, <2>10, <2>11
    <1>. QED BY <1>1, <1>2, Invariance, PTL DEF Spec, AnswersOnce, Answers!Spec

=============================================================================
