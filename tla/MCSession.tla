----------------------------- MODULE MCSession -----------------------------
(***************************************************************************)
(* Two tables at the start, of which the second is large enough to stream, *)
(* and a collection of one; a query that works, one that names a table of  *)
(* the collection and fails at its end, one that does not parse and one    *)
(* that plans but cannot be built; a table with a column that does not     *)
(* decode.                                                                 *)
(***************************************************************************)
EXTENDS Session

MCDatasets == <<"people", "orders">>
MCCollections == {"tpch"}
MCTablesOf == [c \in MCCollections |-> <<"nation">>]
MCSize == [people |-> 1, orders |-> 3, nation |-> 1]
MCExamples == {"count", "join"}
MCSqls == {"count", "join", "typo", "deep"}
MCParses == {"count", "join", "deep"}
MCBuilds == {"count", "join"}
MCNeeds == [count |-> {"people"}, join |-> {"people", "nation"}, typo |-> {}, deep |-> {"people"}]
MCBatches == [count |-> <<1, 0, 2, 1>>, join |-> <<1>>, typo |-> <<>>, deep |-> <<>>]
MCBreaks == {"join"}
MCDamaged == {"orders"}
MCNoProbeFits == {}
=============================================================================
