-------------------------------- MODULE BTree --------------------------------
(***************************************************************************)
(* storage/btree.rs: the arena of nodes behind an index, filled one row    *)
(* after the other as Catalog::create_index walks a column.  A node is     *)
(* known by its place in the arena; a leaf has no children.                *)
(***************************************************************************)
EXTENDS IndexRange, SequencesExt

CONSTANTS
  NODE_CAPACITY,
  Keys,      \* the values of the column
  Probes,    \* the values predicates mention
  MaxRows    \* bound: rows in the column

ASSUME BTreeAssumption ==
  /\ NODE_CAPACITY \in Nat \ {0, 1}
  /\ Keys \subseteq Datum
  /\ Probes \subseteq Number
  /\ MaxRows \in Nat

VARIABLES
  nodes,
  root,
  height,
  num_keys,
  column  \* the values inserted so far, NULLs included; row ids count from 0

treeVars == <<nodes, root, height, num_keys, column>>
first_leaf == 1

leaf(keys, rows, next) == [keys |-> keys, children |-> <<>>, rows |-> rows, next |-> next]
internal(keys, children) == [keys |-> keys, children |-> children, rows |-> <<>>, next |-> 0]

is_leaf(n) == n.children = <<>>

\* NaN compares with nothing, and cmp_keys calls that a tie.
cmp_keys(a, b) == IF Compare(a, b) = "none" THEN "equal" ELSE Compare(a, b)

\* partition_point, on keys the predicate splits in two.
Count(keys, orderings, key) ==
  Cardinality({i \in DOMAIN keys : cmp_keys(keys[i], key) \in orderings})

Below(keys, key) == Count(keys, {"less"}, key)
AtOrBelow(keys, key) == Count(keys, {"less", "equal"}, key)

TreeInit ==
  /\ nodes = <<leaf(<<>>, <<>>, 0)>>
  /\ root = 1
  /\ height = 1
  /\ num_keys = 0
  /\ column = <<>>

child_slot(n, key) == AtOrBelow(n.keys, key) + 1

\* The nodes visited descending to a key, root first.
path_to(key) ==
  LET path[level \in 1..height] ==
        IF level = 1 THEN root
        ELSE LET n == nodes[path[level - 1]] IN n.children[child_slot(n, key)]
  IN  path

\* A leaf's separator is a copy of its right half's first key ...
split_leaf(arena, node) ==
  LET n == arena[node]
      mid == Len(n.keys) \div 2
      right == Len(arena) + 1
      kept == leaf(SubSeq(n.keys, 1, mid), SubSeq(n.rows, 1, mid), right)
      moved == leaf(SubSeq(n.keys, mid + 1, Len(n.keys)),
                    SubSeq(n.rows, mid + 1, Len(n.rows)), n.next)
  IN  [arena |-> Append([arena EXCEPT ![node] = kept], moved), separator |-> moved.keys[1]]

\* Mutant of split_internal: the separator is copied up, as from a leaf.
split_internal_copy(arena, node) ==
  LET n == arena[node]
      mid == Len(n.keys) \div 2
      kept == internal(SubSeq(n.keys, 1, mid), SubSeq(n.children, 1, mid + 1))
      moved == internal(SubSeq(n.keys, mid + 1, Len(n.keys)),
                        SubSeq(n.children, mid + 2, Len(n.children)))
  IN  [arena |-> Append([arena EXCEPT ![node] = kept], moved),
       separator |-> n.keys[mid + 1]]

\* ... an internal node's is its middle key, moved up.
split_internal(arena, node) ==
  LET n == arena[node]
      mid == Len(n.keys) \div 2
      kept == internal(SubSeq(n.keys, 1, mid), SubSeq(n.children, 1, mid + 1))
      moved == internal(SubSeq(n.keys, mid + 2, Len(n.keys)),
                        SubSeq(n.children, mid + 2, Len(n.children)))
  IN  [arena |-> Append([arena EXCEPT ![node] = kept], moved),
       separator |-> n.keys[mid + 1]]

\* Split the overfull node at the end of a path, and its ancestors as need be.
RECURSIVE split(_, _)
split(arena, path) ==
  LET node == path[Len(path)]
      half == IF is_leaf(arena[node]) THEN split_leaf(arena, node)
              ELSE split_internal(arena, node)
      right == Len(half.arena)
      above == Front(path)
      parent == path[Len(path) - 1]
      slot == AtOrBelow(half.arena[parent].keys, half.separator) + 1
      taken == [half.arena EXCEPT
                  ![parent].keys = InsertAt(@, slot, half.separator),
                  ![parent].children = InsertAt(@, slot + 1, right)]
  IN  IF Len(path) = 1
      THEN [arena |-> Append(half.arena, internal(<<half.separator>>, <<node, right>>)),
            root |-> right + 1, height |-> height + 1]
      ELSE IF Len(taken[parent].keys) <= NODE_CAPACITY
      THEN [arena |-> taken, root |-> root, height |-> height]
      ELSE split(taken, above)

insert(key) ==
  LET path == path_to(key)
      target == path[height]
      pos == Below(nodes[target].keys, key) + 1
      row == Len(column)
      duplicate == /\ pos <= Len(nodes[target].keys)
                   /\ cmp_keys(nodes[target].keys[pos], key) = "equal"
      grown == [nodes EXCEPT ![target].keys = InsertAt(@, pos, key),
                             ![target].rows = InsertAt(@, pos, <<row>>)]
      result == IF Len(grown[target].keys) > NODE_CAPACITY THEN split(grown, path)
                ELSE [arena |-> grown, root |-> root, height |-> height]
  IN  IF duplicate
      THEN /\ nodes' = [nodes EXCEPT ![target].rows[pos] = Append(@, row)]
           /\ UNCHANGED <<root, height, num_keys>>
      ELSE /\ nodes' = result.arena
           /\ root' = result.root
           /\ height' = result.height
           /\ num_keys' = num_keys + 1

\* A NULL is dropped, and the row id advances all the same.
Insert(key) ==
  /\ Len(column) < MaxRows
  /\ column' = Append(column, key)
  /\ IF key = NULL THEN UNCHANGED <<nodes, root, height, num_keys>> ELSE insert(key)

TreeNext == \E key \in Keys : Insert(key)
-----------------------------------------------------------------------------
\* The leaf and slot where a key is or would be.
seek(key) ==
  LET target == path_to(key)[height]
  IN  [leaf |-> target, pos |-> Below(nodes[target].keys, key) + 1]

\* Mutant of in_upper_bound: an excluded bound is admitted.
in_upper_bound_inclusive(key, upper) ==
  upper.kind = "unbounded" \/ cmp_keys(key, upper.value) # "greater"

in_upper_bound(key, upper) ==
  \/ upper.kind = "unbounded"
  \/ upper.kind = "included" /\ cmp_keys(key, upper.value) # "greater"
  \/ upper.kind = "excluded" /\ cmp_keys(key, upper.value) = "less"

\* Where the walk along the leaves begins.
Origin(lower) ==
  LET at == seek(lower.value)
      keys == nodes[at.leaf].keys
      hit == at.pos <= Len(keys) /\ cmp_keys(keys[at.pos], lower.value) = "equal"
  IN  IF lower.kind = "unbounded" THEN [leaf |-> first_leaf, pos |-> 1]
      ELSE IF lower.kind = "excluded" /\ hit THEN [at EXCEPT !.pos = @ + 1]
      ELSE at

GaveUp == "gave up"

\* collect: the rows from a place in the chain up to the bound, or GaveUp past
\* the limit.  They are sorted when the walk ends, so a set stands for them.
RECURSIVE collect(_, _, _, _)
collect(at, upper, limit, out) ==
  LET n == nodes[at.leaf]
  IN  IF at.pos > Len(n.keys)
      THEN IF n.next = 0 THEN ToSet(out)
           ELSE collect([leaf |-> n.next, pos |-> 1], upper, limit, out)
      ELSE IF ~ in_upper_bound(n.keys[at.pos], upper) THEN ToSet(out)
      ELSE IF Len(out) + Len(n.rows[at.pos]) > limit THEN GaveUp
      ELSE collect([at EXCEPT !.pos = @ + 1], upper, limit, out \o n.rows[at.pos])

range_limited(lower, upper, limit) == collect(Origin(lower), upper, limit, <<>>)

lookup(key) ==
  LET at == seek(key)
      n == nodes[at.leaf]
  IN  IF at.pos <= Len(n.keys) /\ cmp_keys(n.keys[at.pos], key) = "equal"
      THEN n.rows[at.pos] ELSE <<>>
-----------------------------------------------------------------------------
TreeTypeOK ==
  /\ nodes \in Seq([keys : Seq(Keys), children : Seq(1..Len(nodes)),
                    rows : Seq(Seq(0..MaxRows)), next : 0..Len(nodes)])
  /\ root \in 1..Len(nodes)
  /\ height \in 1..MaxRows + 1
  /\ num_keys \in 0..MaxRows
  /\ column \in Seq(Keys)

Inserted == 0..Len(column) - 1
KeyBounds == {Unbounded} \cup {Included(k) : k \in Probes} \cup {Excluded(k) : k \in Probes}

\* Depth of a subtree whose keys lie from low up to but without high; -1 when
\* it is malformed.
RECURSIVE check(_, _, _)
check(node, low, high) ==
  LET n == nodes[node]
      wellFormed ==
        /\ Len(n.keys) <= NODE_CAPACITY
        /\ \A i \in 1..Len(n.keys) - 1 : n.keys[i] < n.keys[i + 1]
        /\ \A i \in DOMAIN n.keys : /\ low.kind = "included" => low.value <= n.keys[i]
                                    /\ high.kind = "excluded" => n.keys[i] < high.value
        /\ IF is_leaf(n)
           THEN Len(n.rows) = Len(n.keys) /\ \A i \in DOMAIN n.rows : n.rows[i] # <<>>
           ELSE Len(n.children) = Len(n.keys) + 1 /\ n.keys # <<>>
      depths == {check(n.children[i],
                       IF i = 1 THEN low ELSE Included(n.keys[i - 1]),
                       IF i > Len(n.keys) THEN high ELSE Excluded(n.keys[i])) :
                   i \in DOMAIN n.children}
  IN  IF ~ wellFormed THEN -1
      ELSE IF is_leaf(n) THEN 1
      ELSE IF Cardinality(depths) = 1 /\ -1 \notin depths
      THEN (CHOOSE d \in depths : TRUE) + 1 ELSE -1

RECURSIVE Chain(_)
Chain(node) ==
  nodes[node].keys \o IF nodes[node].next = 0 THEN <<>> ELSE Chain(nodes[node].next)

(***************************************************************************)
(* What validate() asserts after every insert of the tests: the tree is    *)
(* balanced at its recorded height, every node is in order, within its     *)
(* capacity and its separators, and the leaf chain visits every key        *)
(* exactly once in ascending order.                                        *)
(***************************************************************************)
Validates ==
  LET chain == Chain(first_leaf)
  IN  /\ TreeTypeOK
      /\ check(root, Unbounded, Unbounded) = height
      /\ \A i \in 1..Len(chain) - 1 : chain[i] < chain[i + 1]
      /\ ToSet(chain) = ToSet(column) \ {NULL}
      /\ Len(chain) = num_keys

(***************************************************************************)
(* A range scan names exactly the rows whose key lies in the range, and a  *)
(* capped one gives up exactly when there are more of them than the cap; a *)
(* lookup returns the rows of its key, in insertion order.                 *)
(***************************************************************************)
ScansNameExactly ==
  /\ \A lower, upper \in KeyBounds :
       LET expected == {r \in Inserted : /\ column[r + 1] # NULL
                                         /\ Admits([lower |-> lower, upper |-> upper], column[r + 1])}
       IN  \A limit \in {2, MaxRows} :
             range_limited(lower, upper, limit) =
               IF Cardinality(expected) > limit THEN GaveUp ELSE expected
  /\ \A key \in Keys \ {NULL} :
       lookup(key) = SelectSeq([i \in 1..Len(column) |-> i - 1],
                               LAMBDA r : column[r + 1] = key)

==============================================================================
