--------------------------- MODULE MCQueryPipeline ---------------------------
(***************************************************************************)
(* Three row groups of three, no and two rows, read two rows at a time:    *)
(* batches end inside a group and at its end, and one group is empty.  At  *)
(* most one row or group is defective, and any group without a match may   *)
(* be ruled out by any structure.                                          *)
(***************************************************************************)
EXTENDS QueryPipeline

MCG == 3
MCStarts == <<0, 3, 3, 5>>
MCSkips == 0..1
MCFetches == 0..2 \cup {NoFetch}

Defects ==
  {[faulty |-> f, unprojectable |-> p, unreadable |-> u] :
     f \in SUBSET (0..4), p \in SUBSET (0..4), u \in SUBSET (1..3)}

OneDefect == {d \in Defects :
  Cardinality(d.faulty) + Cardinality(d.unprojectable) + Cardinality(d.unreadable) <= 1}

MCQueries ==
  {[match |-> m, faulty |-> d.faulty, unprojectable |-> d.unprojectable,
    unreadable |-> d.unreadable, ruled_out |-> ruled,
    leaf |-> "scan", named |-> {}, skip |-> s, fetch |-> n] :
     m \in {{}, {0}, {2, 3}, {0, 1, 4}, 0..4}, d \in OneDefect,
     ruled \in [1..3 -> {"nothing", "zone map", "bloom"}], s \in MCSkips, n \in MCFetches}
  \cup
  {[match |-> m, faulty |-> d.faulty, unprojectable |-> d.unprojectable,
    unreadable |-> d.unreadable, ruled_out |-> [g \in 1..3 |-> "nothing"],
    leaf |-> "index", named |-> m \cup extra, skip |-> s, fetch |-> n] :
     m \in {{}, {0}, {2, 3}, {0, 1, 4}}, extra \in {{}, {2}, {0, 1, 2}},
     d \in OneDefect, s \in MCSkips, n \in MCFetches}
==============================================================================
