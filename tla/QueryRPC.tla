------------------------------ MODULE QueryRPC ------------------------------
(***************************************************************************)
(* What mq.QueryMQ promises its caller, whatever the driver: a query is    *)
(* asked once and ends once, with a timeout or with an answer to a request *)
(* of its correlation id, its own one unless callers share an id.          *)
(***************************************************************************)
CONSTANTS Queries,      \* the calls of QueryMQ
          Corr,         \* Corr[q]: the correlation id of q
          NoAnswer      \* what a query that was not answered holds

VARIABLES client,       \* client[q]: where the call q is
          answer        \* answer[q]: the query whose answer q returned with

vars == <<client, answer>>

States == {"idle", "waiting", "answered", "timeout"}

Init ==
    /\ client = [q \in Queries |-> "idle"]
    /\ answer = [q \in Queries |-> NoAnswer]

Ask(q) ==
    /\ client[q] = "idle"
    /\ client' = [client EXCEPT ![q] = "waiting"]
    /\ UNCHANGED answer

Answer(q) ==
    /\ client[q] = "waiting"
    /\ client' = [client EXCEPT ![q] = "answered"]
    /\ \E r \in Queries : /\ Corr[r] = Corr[q]
                          /\ answer' = [answer EXCEPT ![q] = r]

TimeOut(q) ==
    /\ client[q] = "waiting"
    /\ client' = [client EXCEPT ![q] = "timeout"]
    /\ UNCHANGED answer

Next == \E q \in Queries : Ask(q) \/ Answer(q) \/ TimeOut(q)

\* A query that was asked ends.
Spec ==
    /\ Init /\ [][Next]_vars
    /\ \A q \in Queries : WF_vars(Answer(q) \/ TimeOut(q))

=============================================================================
