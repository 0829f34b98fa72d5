------------------------------- MODULE Operators -------------------------------
(***************************************************************************)
(* The operators of exec/, one at a time, each over inputs that hand it    *)
(* their rows, and what every one of them owes its caller: the rows SQL    *)
(* asks for, whichever algorithm was picked to find them.                  *)
(***************************************************************************)
EXTENDS JoinOperator, Sorting, Grouping

joinVars == <<hashVars, mergeVars>>
unaryVars == <<rowVars, heap, groupVars, setVars>>
vars == <<operatorVars, joinVars, unaryVars>>

Init ==
  /\ OperatorInit /\ HashInit /\ MergeInit /\ RowInit
  /\ JoinInputsArrive
  /\ plan.kind = "aggregate" => Arrives(plan.input, plan.order)
  /\ heap = {}
  /\ groups = <<>> /\ open = <<>> /\ input_ended = FALSE
  /\ seen = {} /\ counts = NotCounted /\ left_done = FALSE /\ right_read = 0

Joins ==
  /\ plan.kind = "join"
  /\ \/ build_join(plan) = "hash" /\ HashNext("hash") /\ UNCHANGED mergeVars
     \/ build_join(plan) = "nested loop" /\ HashNext("nested loop") /\ UNCHANGED mergeVars
     \/ build_join(plan) = "merge" /\ MergeNext /\ UNCHANGED hashVars
  /\ UNCHANGED unaryVars

Step ==
  /\ status = "running"
  /\ \/ Joins
     \/ SortStep /\ UNCHANGED <<joinVars, groupVars, setVars>>
     \/ AggregateStep /\ UNCHANGED <<joinVars, heap, setVars>>
     \/ SetStep /\ UNCHANGED <<joinVars, heap, groupVars>>
     \/ WindowStep /\ UNCHANGED <<joinVars, heap, groupVars, setVars>>

Next == Step \/ (Fail /\ UNCHANGED <<joinVars, unaryVars>>)

\* The operator above drains this one; nothing makes an error happen.
Spec == Init /\ [][Next]_vars /\ WF_vars(Step)
-----------------------------------------------------------------------------
Places(input) == 1..Len(input)
Pairs(l, r) == (0..Len(l)) \X (0..Len(r))

JoinTypeOK ==
  /\ plan \in Join
  /\ out \in Seq(Pairs(plan.left, plan.right))
  /\ build_read \in BOOLEAN
  /\ \A k \in DOMAIN index : index[k] \subseteq Places(plan.right)
  /\ probe_at \in 0..Len(plan.left)
  /\ matched \subseteq Places(plan.right)
  /\ flushing \in BOOLEAN
  /\ flush_pos \in 0..Len(plan.right)
  /\ left \in Seq(Places(plan.left))
  /\ right \in Seq(Places(plan.right))
  /\ left_at \in 1..Len(left) + 1
  /\ right_at \in 1..Len(right) + 1
  /\ run \in Seq(Places(plan.right))
  /\ run_matched \subseteq ToSet(run)
  /\ pending \in Seq(Pairs(plan.left, plan.right))
  /\ finished \in BOOLEAN

BuiltTypeOK ==
  /\ at \in 0..Len(plan.input)
  /\ built \in BOOLEAN
  /\ emitted \in 0..Len(plan.input) + 1
  /\ heap \subseteq Places(plan.input)

\* Positions in the inputs, cursors at most one past them, one group open.
TypeOK ==
  /\ status \in {"running", "done", "failed"}
  /\ CASE plan.kind = "join" -> JoinTypeOK
       [] plan.kind = "sort" ->
            plan \in Sort /\ BuiltTypeOK /\ {out, rows} \subseteq Seq(Places(plan.input))
       [] plan.kind = "top-n" ->
            plan \in TopN /\ BuiltTypeOK /\ {out, rows} \subseteq Seq(Places(plan.input))
       [] plan.kind = "aggregate" ->
            /\ plan \in Aggregate /\ BuiltTypeOK
            /\ Len(open) <= 1
            /\ \A i \in DOMAIN groups : groups[i].key \in Row /\ groups[i].acc.n \in Nat
            /\ input_ended \in BOOLEAN
       [] plan.kind \in {"distinct", "set"} ->
            /\ plan \in Distinct \cup SetOp
            /\ at \in 0..Len(plan.left)
            /\ \A key \in DOMAIN counts : counts[key] \in Nat
            /\ left_done \in BOOLEAN
            /\ right_read \in Nat
       [] plan.kind = "window" ->
            plan \in WindowPlan /\ BuiltTypeOK /\ \A i \in DOMAIN out : out[i].row \in Places(plan.input)

RowsOfTheJoin ==
  /\ ToSet(out) \subseteq Answer
  /\ Len(out) = Cardinality(ToSet(out))
  /\ status = "done" => ToSet(out) = Answer

(***************************************************************************)
(* Whichever join operator runs and wherever its batches end, what it      *)
(* returns are rows of the join, none of them twice, and all of them once  *)
(* it is done: the equivalence that running a query under every            *)
(* JoinAlgorithm is meant to show.  Of a merge join this holds where its   *)
(* comparison is that of the sort its inputs come from (InStep).           *)
(***************************************************************************)
ReturnsTheJoin == plan.kind = "join" /\ InStep => RowsOfTheJoin

(***************************************************************************)
(* The same of every join build_join picks an operator for: a merge join   *)
(* is picked only where an ordering was proved, and MergeJoinExec::compare *)
(* claims to compare the way the sort that produced the keys did.          *)
(* It does not hold of sides that are both sorted in descending order.     *)
(***************************************************************************)
EveryJoinAgrees == plan.kind = "join" => RowsOfTheJoin

(***************************************************************************)
(* Every cursor of every operator stays within its input (TypeOK), and     *)
(* a merge join never looks backward, so it must never have to: while its  *)
(* inputs are in step a right row the cursor is past and that is not in    *)
(* the run joins no left row still to come.  (This is what makes one run   *)
(* enough memory.)                                                         *)
(***************************************************************************)
NothingBehindIsWanted ==
  /\ TypeOK
  /\ plan.kind = "join" /\ InStep =>
       \A i \in 1..right_at - 1, k \in left_at..Len(left) :
         right[i] \notin ToSet(run) => ~ On(left[k], right[i])

(***************************************************************************)
(* A drained operator ends: a comment on the merge join's fill(), and one  *)
(* on the streaming aggregate's, recall a loop that spun for ever.         *)
(***************************************************************************)
Terminates == <>(status # "running")
================================================================================
