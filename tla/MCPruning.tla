------------------------------ MODULE MCPruning ------------------------------
(***************************************************************************)
(* What narrows the rows a scan reads: the metadata of a row group, a tree *)
(* as it is built, and the catalog that hands indexes to streams.  They    *)
(* share no state: in a behaviour one of them moves and the others rest.   *)
(***************************************************************************)
EXTENDS ZoneMap, BTree, Catalog

VARIABLE subject  \* which of the three moves

PruningInit ==
  /\ subject \in {"row group", "tree", "catalog"}
  /\ WalkInit
  /\ subject # "row group" =>
       num_rows = 0 /\ InMemory(group) /\ blooms = [c \in Scanned |-> NoFilter]
  /\ TreeInit
  /\ Init

PruningNext ==
  /\ UNCHANGED subject
  /\ \/ subject = "row group" /\ WalkNext /\ UNCHANGED <<treeVars, vars>>
     \/ subject = "tree" /\ TreeNext /\ UNCHANGED <<walkVars, vars>>
     \/ subject = "catalog" /\ Next /\ UNCHANGED <<walkVars, treeVars>>

PruningSpec == PruningInit /\ [][PruningNext]_<<subject, walkVars, treeVars, vars>>

MCNumber == 0..5
-----------------------------------------------------------------------------
(* Row groups of two rows over one integer column.  Equal numbers of two   *)
(* classes hash to different bits, and all numbers but 1 collide.  Those   *)
(* above 2 are beyond every literal.                                       *)

MCScanned == {"c"}
MCClass == {"integer", "float"}
MCClassOf == [c \in MCScanned |-> "integer"]
MCHashBits ==
  [k \in MCClass |-> [v \in MCNumber \cup {NaN} |->
     IF v = NaN THEN {0, 3}
     ELSE IF v = 1 THEN IF k = "integer" THEN {1, 2} ELSE {4, 5}
     ELSE IF k = "integer" THEN {1, 3} ELSE {4, 6}]]

MCRowCounts == {0, 2}

MCStats ==
  [min : {NULL, NaN, 0, 1}, max : {NULL, 1, 2}, null_count : {Unrecorded, 0, 1, 2}]

MCLiterals ==
  {[class |-> "null", value |-> NULL], [class |-> "float", value |-> NaN]}
  \cup {[class |-> "integer", value |-> v] : v \in 0..2}
  \cup {[class |-> "float", value |-> 1]}

MCItemLists == {items \in SUBSET MCLiterals : Cardinality(items) <= 2}
-----------------------------------------------------------------------------
(* Two tables, of three rows and of two, under names that may come to mean *)
(* either, indexed or not, two columns to index, and a stream open across  *)
(* the changes.  At most two rows may be named before a scan is preferred. *)

MCColumn == {"a", "b"}
MCVersion == {1, 2}
MCContent ==
  <<<<[a |-> 1, b |-> 0], [a |-> 2, b |-> NULL], [a |-> NULL, b |-> 1]>>,
    <<[a |-> 0, b |-> 1], [a |-> 1, b |-> 2]>>>>

Test(column_tested, op, value, exact) ==
  [column |-> column_tested, op |-> op, value |-> value, exact |-> exact]

MCPredicates ==
  {<<>>,
   <<Test("a", ">=", 1, TRUE)>>,
   <<Test("a", ">", 0, TRUE), Test("a", "<", 2, TRUE), Test("b", "<>", 1, TRUE)>>,
   <<Test("a", "=", 1, FALSE), Test("b", "<=", 1, TRUE)>>,
   <<Test("b", "=", NULL, TRUE), Test("a", "<=", 1, TRUE), Test("a", "<", 1, TRUE)>>,
   <<Test("a", "<", 2, TRUE), Test("a", "<=", 2, TRUE), Test("b", ">", 0, TRUE)>>}
==============================================================================
