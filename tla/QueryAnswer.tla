----------------------------- MODULE QueryAnswer -----------------------------
(***************************************************************************)
(* What a streamed query promises its caller, whatever reads the table:    *)
(* QueryStream::next_batch hands back the rows of the answer, in table     *)
(* order and each of them once, a batch at a time, and says it is finished *)
(* only when every one has been handed back.  Rows are known by their      *)
(* position in the table.                                                  *)
(***************************************************************************)
EXTENDS Integers

CONSTANT Row  \* the row positions of the table

VARIABLES
  answer,    \* the rows the query's answer consists of
  returned,  \* those handed back so far
  status     \* running, done, or failed with an error

vars == <<answer, returned, status>>

Init ==
  /\ answer \in SUBSET Row
  /\ returned = {}
  /\ status = "running"

\* A batch is the next few rows of the answer, and never empty.
Return(batch) ==
  /\ status = "running"
  /\ batch # {}
  /\ batch \subseteq answer \ returned
  /\ \A r \in batch : \A earlier \in answer : earlier < r => earlier \in returned \cup batch
  /\ returned' = returned \cup batch
  /\ UNCHANGED <<answer, status>>

Finish ==
  /\ status = "running"
  /\ returned = answer
  /\ status' = "done"
  /\ UNCHANGED <<answer, returned>>

\* A chunk that does not decode, or an expression that cannot be evaluated.
Fail ==
  /\ status = "running"
  /\ status' = "failed"
  /\ UNCHANGED <<answer, returned>>

Next == (\E batch \in SUBSET Row : Return(batch)) \/ Finish \/ Fail

Spec == Init /\ [][Next]_vars
==============================================================================
