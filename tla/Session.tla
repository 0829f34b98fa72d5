------------------------------ MODULE Session ------------------------------
(***************************************************************************)
(* A session in the browser: the page (main.ts), its handle on the engine  *)
(* (client.ts) and the worker that holds the engine (worker.ts and the     *)
(* wasm crate).  Page and worker share nothing; each posts messages to the *)
(* other and they arrive in order.  An asynchronous function of the page   *)
(* runs without a pause from one await to the next, so an action takes a   *)
(* reply and does everything the page does until it waits again.           *)
(***************************************************************************)
EXTENDS Naturals, Sequences, FiniteSets, SequencesExt

CONSTANTS
    Datasets,      \* the tables loaded at the start, in order
    Collections,   \* the sets of tables offered on request
    TablesOf,      \* the tables of a collection, in order
    Size,          \* rows of a table
    Examples,      \* the example queries
    Sqls,          \* the texts a reader may run, examples included
    Parses,        \* those of them that parse
    Builds,        \* those of them whose plan can be made operators of
    Needs,         \* the tables a text names
    Batches,       \* the rows of each batch of a text's answer
    Breaks,        \* the texts whose execution fails after those batches
    Damaged,       \* the tables with a column that does not decode
    Cap,           \* RESULT_CAP
    StreamAbove,   \* STREAM_ABOVE_ROWS
    ProbeFits,     \* the tables whose index can look up what is typed
    MaxIds,        \* the requests followed from when they are sent to when they are answered
    MaxClicks      \* bound: what a reader does

Boot == "boot"
None == "none"
Tables == ToSet(Datasets) \union UNION {ToSet(TablesOf[c]) : c \in Collections}
Ids == 1..MaxIds

ASSUME SessionAssumption ==
    /\ Boot \notin Collections
    /\ Examples \union Parses \union Builds \union Breaks \subseteq Sqls
    /\ None \notin Sqls \union Tables
    /\ Datasets \in Seq(Tables) \ {<<>>}
    /\ \A c \in Collections : TablesOf[c] \in Seq(Tables) \ {<<>>}
    /\ Batches \in [Sqls -> Seq(Nat)]
    /\ Cap \in Nat /\ StreamAbove \in Nat /\ MaxIds \in Nat /\ MaxClicks \in Nat

VARIABLES
    ready,       \* the promise every request waits for: "pending", "kept", "broken"
    inbox,       \* requests posted and not yet taken up
    streaming,   \* the query the worker is in the middle of, or NotStreaming
    catalog,     \* the engine's tables, by how often each was loaded, and indexes
    outbox,      \* replies posted and not yet received
    next,        \* the number of the next request
    pending,     \* who waits for which request
    copy,        \* the page's copy of the catalog
    schema,      \* the tables that completion and the catalog's cards show
    loads,       \* the loads that were begun, in order
    offered,     \* the collections whose button can be pressed
    running,     \* set while a query is running
    editor,      \* the text in the editor
    picked,      \* the example that was selected last
    note,        \* the example the marginal note is about
    panels,      \* the text each panel was drawn for
    results,     \* the grid: what was drawn of which answer
    choice,      \* the index the reader chose to see
    tree,        \* the index that is drawn
    clicks

worker == <<ready, inbox, streaming, catalog, outbox>>
page == <<next, pending, copy, schema, loads, offered, running, editor, picked,
          note, panels, results, choice, tree, clicks>>
vars == <<worker, page>>

NotStreaming == [id |-> 0]
Stages == {"results", "tokens", "plan", "physical"}
Blank == [sql |-> None, shown |-> 0, rows |-> 0, state |-> "blank"]

TypeOK ==
    /\ ready \in {"pending", "kept", "broken"}
    /\ next \in Nat \ {0}
    /\ \A i \in DOMAIN pending : i \in 1..next - 1
    /\ \A k \in DOMAIN inbox : inbox[k].id \in 1..next - 1
    /\ copy.loaded \in [Tables -> Nat] /\ copy.indexed \subseteq Tables
    /\ catalog.loaded \in [Tables -> Nat] /\ catalog.indexed \subseteq Tables
    /\ schema \subseteq Tables /\ offered \subseteq Collections
    /\ running \in BOOLEAN
    /\ editor \in Sqls /\ picked \in Examples /\ note \in {None, picked}
    /\ panels \in [Stages -> Sqls \union {None}]
    /\ choice \in Tables \union {None} /\ tree \in Tables \union {None}

Begun(who) == [of |-> who, at |-> 1, state |-> "fetching", attached |-> TRUE]

Empty == [loaded |-> [t \in Tables |-> 0], indexed |-> {}]

Init ==
    /\ ready = "pending"
    /\ inbox = <<>> /\ outbox = <<>> /\ streaming = NotStreaming
    /\ catalog = Empty /\ copy = Empty /\ schema = {}
    /\ next = 1 /\ pending = <<>>
    /\ loads = <<Begun(Boot)>>
    /\ offered = {}
    /\ running = FALSE
    /\ editor \in Examples /\ picked = editor /\ note = editor
    /\ panels = [p \in Stages |-> None] /\ results = Blank
    /\ choice = None /\ tree = None
    /\ clicks = 0

-----------------------------------------------------------------------------
(* The worker.                                                             *)

Present(t) == catalog.loaded[t] > 0
Binds(sql) == sql \in Parses /\ \A t \in Needs[sql] : Present(t)

\* A plan is made for what binds; the operators are built after that, and may fail.
Runnable(sql) == Binds(sql) /\ sql \in Builds

\* The largest table decides, whichever tables the query reads.
Streams == \E t \in Tables : Present(t) /\ Size[t] >= StreamAbove

\* The rows of the first batches of an answer, and of all of them.
Upto(sql) ==
    LET rows[k \in 0..Len(Batches[sql])] ==
            IF k = 0 THEN 0 ELSE rows[k - 1] + Batches[sql][k]
    IN rows
Total(sql) == Upto(sql)[Len(Batches[sql])]

Ok(id, value) == [id |-> id, kind |-> "ok", value |-> value]
Error(id) == [id |-> id, kind |-> "error"]

Lesser(a, b) == IF a < b THEN a ELSE b

\* The whole answer in one reply, as many of its rows copied as the grid draws.
Whole(id, sql) ==
    IF Runnable(sql) /\ sql \notin Breaks
    THEN Ok(id, [rows |-> Total(sql), chunk |-> Lesser(Total(sql), Cap), streamed |-> FALSE])
    ELSE Error(id)

Answerable(request) ==
    CASE request.kind = "parse" -> request.arg \in Parses
      [] request.kind = "plan" -> Binds(request.arg)
      [] request.kind = "physicalPlan" -> Runnable(request.arg)
      [] request.kind = "storage" -> Present(request.arg)
      [] request.kind = "indexTree" -> request.arg \in catalog.indexed
      [] request.kind = "indexProbe" ->
             request.arg \in catalog.indexed /\ request.arg \in ProbeFits
      [] OTHER -> TRUE

\* What a request that only reads the engine is answered.
Reading(request) ==
    IF request.kind = "catalog" THEN Ok(request.id, catalog)
    ELSE IF request.kind = "execute" THEN Whole(request.id, request.arg)
    ELSE IF Answerable(request) THEN Ok(request.id, request.arg)
    ELSE Error(request.id)

Reply(r) == outbox' = Append(outbox, r)

EngineLoaded ==
    /\ ready = "pending"
    /\ ready' = "kept"
    /\ UNCHANGED <<inbox, streaming, catalog, outbox, page>>

\* init() rejects: `await ready` throws in every handler, before its try block.
EngineFailsToLoad ==
    /\ ready = "pending"
    /\ ready' = "broken"
    /\ UNCHANGED <<inbox, streaming, catalog, outbox, page>>

Take ==
    /\ ready = "kept" /\ streaming = NotStreaming
    /\ inbox # <<>>
    /\ inbox' = Tail(inbox)
    /\ UNCHANGED <<ready, page>>

\* Mutant of HandleLoad: the error of a load is not caught and nobody is told.
HandleLoadUncaught ==
    /\ Take
    /\ Head(inbox).kind = "load"
    /\ \/ /\ Reply(Ok(Head(inbox).id, Head(inbox).arg))
          /\ catalog' = [catalog EXCEPT !.loaded[Head(inbox).arg] = @ + 1]
       \/ UNCHANGED <<outbox, catalog>>
    /\ UNCHANGED streaming

HandleLoad ==
    /\ Take
    /\ Head(inbox).kind = "load"
    /\ \/ /\ Reply(Ok(Head(inbox).id, Head(inbox).arg))
          /\ catalog' = [catalog EXCEPT !.loaded[Head(inbox).arg] = @ + 1]
       \/ /\ Reply(Error(Head(inbox).id))     \* not a table after all
          /\ UNCHANGED catalog
    /\ UNCHANGED streaming

HandleCreateIndex ==
    /\ Take
    /\ Head(inbox).kind = "createIndex"
    /\ \/ /\ Present(Head(inbox).arg)
          /\ Reply(Ok(Head(inbox).id, Head(inbox).arg))
          /\ catalog' = [catalog EXCEPT !.indexed = @ \union {Head(inbox).arg}]
       \/ /\ Present(Head(inbox).arg) => Head(inbox).arg \in Damaged
          /\ Reply(Error(Head(inbox).id))
          /\ UNCHANGED catalog
    /\ UNCHANGED streaming

\* A query to be streamed is bound, planned and built before its first batch.
StartStreaming ==
    /\ Take
    /\ Head(inbox).kind = "execute" /\ Streams
    /\ IF Runnable(Head(inbox).arg)
       THEN /\ streaming' = [id |-> Head(inbox).id, sql |-> Head(inbox).arg,
                             at |-> 1, shown |-> 0, total |-> 0]
            /\ UNCHANGED outbox
       ELSE /\ Reply(Error(Head(inbox).id))
            /\ UNCHANGED streaming
    /\ UNCHANGED catalog

HandleReading ==
    /\ Take
    /\ \/ Head(inbox).kind \notin {"load", "createIndex", "execute"}
       \/ Head(inbox).kind = "execute" /\ ~Streams
    /\ Reply(Reading(Head(inbox)))
    /\ UNCHANGED <<streaming, catalog>>

\* The rows of a batch that are copied out: those the grid has room for.
CopyChunk(rows) == LET room == IF streaming.shown < Cap THEN Cap - streaming.shown ELSE 0
                   IN Lesser(rows, room)

\* Mutant of StreamBatch: a chunk waits for the frame's clock and is lost when it is not due.
StreamBatchByFrame ==
    /\ streaming # NotStreaming
    /\ streaming.at <= Len(Batches[streaming.sql])
    /\ LET rows == Batches[streaming.sql][streaming.at]
           chunk == CopyChunk(rows)
           total == streaming.total + rows
           message == [id |-> streaming.id, kind |-> "progress",
                       value |-> [rows |-> total, chunk |-> chunk]]
       IN /\ Reply(message) \/ UNCHANGED outbox
          /\ streaming' = [streaming EXCEPT !.at = @ + 1, !.shown = @ + chunk,
                                            !.total = total]
    /\ UNCHANGED <<ready, inbox, catalog, page>>

\* Past the cap only the frame's clock decides whether a batch is reported.
StreamBatch ==
    /\ streaming # NotStreaming
    /\ streaming.at <= Len(Batches[streaming.sql])
    /\ LET rows == Batches[streaming.sql][streaming.at]
           chunk == CopyChunk(rows)
           total == streaming.total + rows
           message == [id |-> streaming.id, kind |-> "progress",
                       value |-> [rows |-> total, chunk |-> chunk]]
       IN /\ \/ Reply(message)
             \/ streaming.shown >= Cap /\ UNCHANGED outbox
          /\ streaming' = [streaming EXCEPT !.at = @ + 1, !.shown = @ + chunk,
                                            !.total = total]
    /\ UNCHANGED <<ready, inbox, catalog, page>>

StreamEnd ==
    /\ streaming # NotStreaming
    /\ streaming.at > Len(Batches[streaming.sql])
    /\ Reply(IF streaming.sql \in Breaks THEN Error(streaming.id)
             ELSE Ok(streaming.id,
                     [rows |-> streaming.total, chunk |-> 0, streamed |-> TRUE]))
    /\ streaming' = NotStreaming
    /\ UNCHANGED <<ready, inbox, catalog, page>>

Worker ==
    \/ EngineLoaded \/ EngineFailsToLoad
    \/ HandleLoad \/ HandleCreateIndex \/ HandleReading
    \/ StartStreaming \/ StreamBatch \/ StreamEnd

-----------------------------------------------------------------------------
(* The page.                                                               *)

\* Mutant of Post: the lowest number nobody waits for is given out again.
PostReusing(gone, kind, arg, waiter) ==
    LET id == CHOOSE i \in 1..next :
                  /\ i \notin DOMAIN pending \ gone
                  /\ \A j \in 1..i - 1 : j \in DOMAIN pending \ gone
    IN /\ inbox' = Append(inbox, [id |-> id, kind |-> kind, arg |-> arg])
       /\ pending' = [i \in (DOMAIN pending \ gone) \union {id} |->
                          IF i = id THEN waiter ELSE pending[i]]
       /\ next' = IF id = next THEN next + 1 ELSE next

\* Settle the requests in gone and post a new one, with who waits for it.
Post(gone, kind, arg, waiter) ==
    /\ inbox' = Append(inbox, [id |-> next, kind |-> kind, arg |-> arg])
    /\ pending' = [i \in (DOMAIN pending \ gone) \union {next} |->
                       IF i = next THEN waiter ELSE pending[i]]
    /\ next' = next + 1

Settled(gone) ==
    /\ pending' = [i \in DOMAIN pending \ gone |-> pending[i]]
    /\ UNCHANGED <<inbox, next>>

For(what, arg) == [for |-> what, arg |-> arg]

\* Mutant of RunQuery: a run does not ask whether another is under way.
RunQueryAnyway(gone, sql) ==
    /\ Post(gone, "execute", sql, [for |-> "execute", arg |-> sql, drawn |-> 0])
    /\ running' = TRUE

\* runQuery(): a second run while one is under way does nothing at all.
RunQuery(gone, sql) ==
    IF running
    THEN /\ Settled(gone)
         /\ UNCHANGED running
    ELSE /\ Post(gone, "execute", sql, [for |-> "execute", arg |-> sql, drawn |-> 0])
         /\ running' = TRUE

\* syncNote(): the note stays only while the text is the selected example's.
SyncNote(sql) == IF running THEN note ELSE IF sql = picked THEN picked ELSE None

queryState == <<running, editor, picked, note, panels, results>>
indexState == <<choice, tree>>
loadState == <<copy, schema, loads, offered>>

TablesFor(who) == IF who = Boot THEN Datasets ELSE TablesOf[who]

\* Bytes arrived, from the network or from IndexedDB, and are handed over.
Fetched(k) ==
    /\ loads[k].state = "fetching"
    /\ loads' = [loads EXCEPT ![k].state = "loading"]
    /\ Post({}, "load", TablesFor(loads[k].of)[loads[k].at], For("load", k))
    /\ UNCHANGED <<ready, streaming, catalog, outbox, copy, schema, offered,
                   queryState, indexState, clicks>>

\* A load stops where it failed; the button is back, if it is still on the page.
GiveUp(k) ==
    /\ loads' = [loads EXCEPT ![k].state = "failed"]
    /\ offered' = IF loads[k].of \in Collections /\ loads[k].attached
                  THEN offered \union {loads[k].of} ELSE offered
    /\ UNCHANGED <<copy, schema>>

FetchFails(k) ==
    /\ loads[k].state = "fetching"
    /\ GiveUp(k)
    /\ UNCHANGED <<worker, next, pending, queryState, indexState, clicks>>

Held(c) == {t \in Tables : c.loaded[t] > 0}
LoadedSets == {loads'[k].of : k \in {j \in DOMAIN loads' : loads'[j].state = "done"}}

\* The last table is in: draw the catalog, and every button, afresh.
Finish(k) ==
    /\ loads' = [j \in DOMAIN loads |->
                     [loads[j] EXCEPT !.state = IF j = k THEN "done" ELSE @,
                                      !.attached = FALSE]]
    /\ schema' = Held(copy')
    /\ offered' = Collections \ LoadedSets

-----------------------------------------------------------------------------
(* What the page does with a reply, by what waits for it.  Where a reply   *)
(* cannot be an error there is no action for one: it would go unanswered.  *)

Received(what, kind) ==
    /\ outbox # <<>>
    /\ Head(outbox).id \in DOMAIN pending
    /\ pending[Head(outbox).id].for = what
    /\ Head(outbox).kind = kind
    /\ outbox' = Tail(outbox)
    /\ UNCHANGED <<ready, streaming, catalog, clicks>>

Arg == pending[Head(outbox).id].arg
Answered == {Head(outbox).id}

LoadAnswered ==
    /\ \/ /\ Received("load", "ok")
          /\ Post(Answered, "catalog", None, For("reload", Arg))
          /\ loads' = [loads EXCEPT ![Arg].state = "refreshing"]
          /\ UNCHANGED <<copy, schema, offered>>
       \/ /\ Received("load", "error")
          /\ Settled(Answered)
          /\ GiveUp(Arg)
    /\ UNCHANGED <<queryState, indexState>>

CatalogReloaded ==
    /\ Received("reload", "ok")
    /\ copy' = Head(outbox).value
    /\ IF loads[Arg].at < Len(TablesFor(loads[Arg].of))
       THEN /\ loads' = [loads EXCEPT ![Arg].state = "fetching", ![Arg].at = @ + 1]
            /\ Settled(Answered)
            /\ UNCHANGED <<schema, offered, running, note>>
       ELSE /\ Finish(Arg)
            /\ IF loads[Arg].of = Boot
               THEN RunQuery(Answered, editor) /\ note' = SyncNote(editor)
               ELSE Settled(Answered) /\ UNCHANGED <<running, note>>
    /\ UNCHANGED <<editor, picked, panels, results, indexState>>

Draw(stages, sql) == panels' = [p \in Stages |-> IF p \in stages THEN sql ELSE panels[p]]

Progressed ==
    /\ Received("execute", "progress")
    /\ LET id == Head(outbox).id
           drawn == pending[id].drawn
           more == Lesser(Head(outbox).value.chunk, IF drawn < Cap THEN Cap - drawn ELSE 0)
       IN /\ pending' = [pending EXCEPT ![id].drawn = drawn + more]
          /\ results' = [sql |-> Arg, shown |-> drawn + more,
                         rows |-> Head(outbox).value.rows, state |-> "part"]
    /\ UNCHANGED <<inbox, next, running, editor, picked, note, panels,
                   loadState, indexState>>

Executed ==
    /\ \/ /\ Received("execute", "ok")
          /\ LET done == Head(outbox).value
                 drawn == pending[Head(outbox).id].drawn
             IN results' = [sql |-> Arg, rows |-> done.rows, state |-> "ok",
                            shown |-> IF done.streamed THEN drawn ELSE done.chunk]
       \/ /\ Received("execute", "error")
          /\ results' = [sql |-> Arg, rows |-> 0, state |-> "failed", shown |-> 0]
    /\ Draw({"results"}, Arg)
    /\ Post(Answered, "parse", Arg, For("parse", Arg))
    /\ UNCHANGED <<running, editor, picked, note, loadState, indexState>>

\* renderStages(): a panel that cannot be drawn says so, of the same query.
NextStage(what, stages, kind) ==
    /\ Received(what, "ok")
    /\ Draw(stages, Arg)
    /\ Post(Answered, kind, Arg, For(kind, Arg))
    /\ UNCHANGED running

LastStage(what, kind, stages) ==
    /\ Received(what, kind)
    /\ Draw(stages, Arg)
    /\ Settled(Answered)
    /\ running' = FALSE

StageAnswered ==
    /\ \/ NextStage("parse", {"tokens"}, "plan")
       \/ LastStage("parse", "error", Stages \ {"results"})
       \/ NextStage("plan", {"plan"}, "physicalPlan")
       \/ LastStage("plan", "error", {"plan", "physical"})
       \/ \E kind \in {"ok", "error"} : LastStage("physicalPlan", kind, {"physical"})
    /\ UNCHANGED <<editor, picked, note, results, loadState, indexState>>

\* renderIndex(): keep the choice while the copy of the catalog has its index.
RenderIndex(gone, wanted, indexed) ==
    IF indexed = {}
    THEN /\ tree' = None
         /\ choice' = wanted
         /\ Settled(gone)
    ELSE \E t \in IF wanted \in indexed THEN {wanted} ELSE indexed,
            kind \in {"indexTree"} \union (IF tree = None THEN {} ELSE {"indexProbe"}) :
             /\ choice' = t
             /\ Post(gone, kind, t, For(kind, t))
             /\ UNCHANGED tree

IndexAnswered ==
    /\ \/ /\ \E what \in {"indexTree", "indexProbe"} : Received(what, "ok")
          /\ tree' = Arg
          /\ Settled(Answered)
       \/ /\ Received("indexProbe", "error")      \* ask again without the key
          /\ Post(Answered, "indexTree", Arg, For("indexTree", Arg))
          /\ UNCHANGED tree
    /\ UNCHANGED <<choice, queryState, loadState>>

\* Mutant of IndexCreated: createIndex() without the refresh of the catalog.
IndexCreatedOnly ==
    /\ \E kind \in {"ok", "error"} : Received("createIndex", kind)
    /\ Settled(Answered)
    /\ UNCHANGED <<queryState, loadState, indexState>>

\* An index that could not be built is reported to nobody: the click's promise
\* is rejected and the list of columns stays as it was.
IndexCreated ==
    /\ \/ /\ Received("createIndex", "ok")
          /\ Post(Answered, "catalog", None, For("reindex", Arg))
       \/ /\ Received("createIndex", "error")
          /\ Settled(Answered)
    /\ UNCHANGED <<queryState, loadState, indexState>>

IndexListed ==
    /\ Received("reindex", "ok")
    /\ copy' = Head(outbox).value
    /\ schema' = Held(copy')
    /\ RenderIndex(Answered, Arg, Head(outbox).value.indexed)
    /\ UNCHANGED <<loads, offered, queryState>>

\* A check of the text, or the storage panel: the reply is drawn and no more.
LookAnswered ==
    /\ \E what \in {"check", "storage"} : Received(what, "ok")
    /\ Settled(Answered)
    /\ UNCHANGED <<queryState, loadState, indexState>>

Receive ==
    \/ LoadAnswered \/ CatalogReloaded
    \/ Progressed \/ Executed \/ StageAnswered
    \/ IndexAnswered \/ IndexCreated \/ IndexListed
    \/ LookAnswered

-----------------------------------------------------------------------------
(* What the reader does, at any time.                                      *)

Click ==
    /\ clicks < MaxClicks
    /\ clicks' = clicks + 1
    /\ UNCHANGED <<ready, streaming, catalog, outbox>>

Type ==
    /\ Click
    /\ editor' \in Sqls \ {editor}
    /\ Post({}, "check", editor', For("check", editor'))
    /\ UNCHANGED <<running, picked, note, panels, results, loadState, indexState>>

Run ==
    /\ Click
    /\ ~running
    /\ RunQuery({}, editor)
    /\ note' = SyncNote(editor)
    /\ UNCHANGED <<editor, picked, panels, results, loadState, indexState>>

PickExample(e) ==
    /\ Click
    /\ editor' = e /\ picked' = e
    /\ note' = e
    /\ RunQuery({}, e)
    /\ UNCHANGED <<panels, results, loadState, indexState>>

Press(c) ==
    /\ Click
    /\ c \in offered
    /\ offered' = offered \ {c}
    /\ loads' = Append(loads, Begun(c))
    /\ UNCHANGED <<next, pending, inbox, copy, schema, queryState, indexState>>

OpenStorage(t) ==
    /\ Click
    /\ t \in Held(copy)
    /\ Post({}, "storage", t, For("storage", t))
    /\ UNCHANGED <<queryState, loadState, indexState>>

OpenIndex ==
    /\ Click
    /\ RenderIndex({}, choice, copy.indexed)
    /\ UNCHANGED <<queryState, loadState>>

PickIndex(t) ==
    /\ Click
    /\ tree # None /\ t \in copy.indexed
    /\ RenderIndex({}, t, copy.indexed)
    /\ UNCHANGED <<queryState, loadState>>

CreateIndex(t) ==
    /\ Click
    /\ tree = None /\ t \in Held(copy)
    /\ Post({}, "createIndex", t, For("createIndex", t))
    /\ UNCHANGED <<queryState, loadState, indexState>>

Reader ==
    \/ Type \/ Run \/ OpenIndex
    \/ \E e \in Examples : PickExample(e)
    \/ \E c \in Collections : Press(c)
    \/ \E t \in Tables : OpenStorage(t) \/ PickIndex(t) \/ CreateIndex(t)

Network == \E k \in DOMAIN loads : Fetched(k) \/ FetchFails(k)

Next == Worker \/ Receive \/ Reader \/ Network

-----------------------------------------------------------------------------
(* Properties.                                                             *)

\* The worker's event loop and the page's go on; a reader and the network may not.
Spec ==
    /\ Init /\ [][Next]_vars
    /\ WF_vars(Worker) /\ WF_vars(Receive)

\* A request is answered once and no answer is for another: the handle of
\* client.ts implements the table of requests.
Answers == INSTANCE RequestReply
    WITH request <- [i \in Ids |-> IF i >= next THEN "unused"
                                   ELSE IF i \in DOMAIN pending THEN "waiting"
                                   ELSE "answered"]
AnswersOnce == Answers!Spec

\* Every request is answered, a query that fails midway or a load of bytes that
\* are no table included, unless the engine itself never loaded: then the
\* handlers throw before they can reply, and every request waits for ever.
EveryRequestSettles ==
    \A i \in Ids : i \in DOMAIN pending ~> i \notin DOMAIN pending \/ ready = "broken"

\* The page's copy of the catalog is the engine's whenever nothing that changes
\* it is under way, and completion knows the tables of every finished load.
Unsettled == \E i \in DOMAIN pending :
                 pending[i].for \in {"load", "reload", "createIndex", "reindex"}
CopyIsCurrent ==
    /\ TypeOK
    /\ ~Unsettled =>
        /\ copy = catalog
        /\ (\A k \in DOMAIN loads : loads[k].state = "done") => schema = Held(copy)

\* The grid holds the first rows of the answer and the count is of all of them,
\* at every moment, whether the worker streamed or answered at once.
DrawnIsTheAnswer ==
    results.state \in {"part", "ok"} =>
        /\ results.shown = Lesser(results.rows, Cap)
        /\ results.state = "ok" => results.rows = Total(results.sql)

\* Between two queries every panel describes the same one, the last that ran.
PanelsAgree == ~running => \A p, q \in Stages : panels[p] = panels[q]

=============================================================================
