---------------------------- MODULE RequestReply ----------------------------
(***************************************************************************)
(* What the page's handle on the engine promises (client.ts): a request    *)
(* that was sent waits, and is answered, once.  How many messages cross    *)
(* the worker boundary for it, and in which order, is not seen here.       *)
(***************************************************************************)
CONSTANT Ids       \* the numbers a request may carry

VARIABLE request   \* request[i]: "unused", "waiting" or "answered"

TypeOK == request \in [Ids -> {"unused", "waiting", "answered"}]

Init == request = [i \in Ids |-> "unused"]

Send(i) ==
    /\ request[i] = "unused"
    /\ request' = [request EXCEPT ![i] = "waiting"]

Answer(i) ==
    /\ request[i] = "waiting"
    /\ request' = [request EXCEPT ![i] = "answered"]

\* A caller that is told the outcome may ask its next question at once.
AnswerAndSend(i, j) ==
    /\ request[i] = "waiting"
    /\ request[j] = "unused"
    /\ request' = [request EXCEPT ![i] = "answered", ![j] = "waiting"]

Settle(i) == Answer(i) \/ \E j \in Ids : AnswerAndSend(i, j)

Next == \E i \in Ids : Send(i) \/ Settle(i)

Spec == Init /\ [][Next]_request
=============================================================================
