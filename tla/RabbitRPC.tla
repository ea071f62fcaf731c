----------------------------- MODULE RabbitRPC ------------------------------
(***************************************************************************)
(* Queries over RabbitMQ: RabbitMQ.QueryRPC, the publishing side of Run,   *)
(* and the rpc instance of the connection, whose single worker goroutine   *)
(* (processConsumerDeliveries) runs handleRPCCallback for one response     *)
(* after the other.                                                        *)
(*                                                                         *)
(* All callers of one instance wait on the same channel,                   *)
(* r.rpcResponseChannel; the instances of a connection share one rpc       *)
(* instance.  A response is identified with the query it answers; every    *)
(* query has a correlation id of its own.                                  *)
(***************************************************************************)
EXTENDS Integers, Sequences, FiniteSets

CONSTANTS Queries,
          NoAnswer,             \* not a query
          Inst,                 \* Inst[q]: the RabbitMQ instance q is asked on
          PublishChannelSize,   \* capacity of r.Publish
          MaxRedelivered        \* bound: requests delivered again

VARIABLES
    client,         \* where QueryRPC(q) is
    answer,         \* the query whose response QueryRPC(q) returned
    disabled,       \* the messages with callbackDisabled
    publishCh,      \* publishCh[i]: r.Publish of instance i
    rpcCallbacks,   \* the queries registered with the rpc instance
    deliveryQueue,  \* responses on their way to the worker
    worker,         \* what the worker does: [at, q] with at one of "idle",
                    \* "send" (blocked on q's Response) and "delete"
    requests,       \* requests[q]: deliveries of the request q under way
    redelivered,    \* requests delivered again so far
    overlapped      \* whether two queries of one instance ever overlapped

callerVars == <<client, answer, disabled, publishCh, overlapped>>
rpcVars    == <<rpcCallbacks, deliveryQueue, worker>>
netVars    == <<requests, redelivered>>
vars == <<callerVars, rpcVars, netVars>>

Instances == {Inst[q] : q \in Queries}
Waiting(q) == client[q] = "waiting"
Idle == [at |-> "idle", q |-> NoAnswer]

Init ==
    /\ client = [q \in Queries |-> "idle"]
    /\ answer = [q \in Queries |-> NoAnswer]
    /\ disabled = {}
    /\ publishCh = [i \in Instances |-> << >>]
    /\ rpcCallbacks = {} /\ deliveryQueue = << >> /\ worker = Idle
    /\ requests = [q \in Queries |-> 0] /\ redelivered = 0
    /\ overlapped = FALSE

-----------------------------------------------------------------------------
(* The caller and its instance *)

\* QueryRPC up to the select.
QueryRPC(q) ==
    /\ client[q] = "idle"
    /\ Len(publishCh[Inst[q]]) < PublishChannelSize
    /\ client' = [client EXCEPT ![q] = "waiting"]
    /\ publishCh' = [publishCh EXCEPT ![Inst[q]] = Append(@, q)]
    /\ overlapped' = (overlapped \/ \E p \in Queries : Inst[p] = Inst[q] /\ Waiting(p))
    /\ UNCHANGED <<answer, disabled, rpcVars, netVars>>

\* Run of instance i publishes: the message is registered with the rpc instance
\* (ensureRPCMessage) and then accepted by the channel or not.
Publish(i) ==
    /\ publishCh[i] # << >>
    /\ publishCh' = [publishCh EXCEPT ![i] = Tail(@)]
    /\ LET q == Head(publishCh[i])
       IN /\ rpcCallbacks' = rpcCallbacks \cup {q}
          /\ requests' \in {requests, [requests EXCEPT ![q] = @ + 1]}
    /\ UNCHANGED <<client, answer, disabled, deliveryQueue, worker, redelivered, overlapped>>

\* publish returns early when the queue cannot be declared.
PublishFails(i) ==
    /\ publishCh[i] # << >>
    /\ publishCh' = [publishCh EXCEPT ![i] = Tail(@)]
    /\ UNCHANGED <<client, answer, disabled, rpcVars, netVars, overlapped>>

\* handleRPCCallback up to its send.
HandleRPCCallback ==
    /\ worker.at = "idle" /\ deliveryQueue # << >>
    /\ deliveryQueue' = Tail(deliveryQueue)
    /\ LET q == Head(deliveryQueue)
       IN \/ q \notin rpcCallbacks /\ UNCHANGED <<rpcCallbacks, worker>>
          \/ /\ q \in rpcCallbacks /\ q \in disabled
             /\ rpcCallbacks' = rpcCallbacks \ {q}
             /\ UNCHANGED worker
          \/ /\ q \in rpcCallbacks /\ q \notin disabled
             /\ worker' = [at |-> "send", q |-> q]
             /\ UNCHANGED rpcCallbacks
    /\ UNCHANGED <<callerVars, netVars>>

\* The worker's send meets the receive of any caller that waits on the channel
\* of the instance the query was asked on.
Respond(p) ==
    /\ worker.at = "send" /\ Waiting(p) /\ Inst[p] = Inst[worker.q]
    /\ client' = [client EXCEPT ![p] = "answered"]
    /\ answer' = [answer EXCEPT ![p] = worker.q]
    /\ worker' = [worker EXCEPT !.at = "delete"]
    /\ UNCHANGED <<disabled, publishCh, overlapped, rpcCallbacks, deliveryQueue, netVars>>

\* Mutant: the worker goes on without deleting the entry.
DeleteCallbackSkips ==
    /\ worker.at = "delete" /\ worker' = Idle
    /\ UNCHANGED <<callerVars, rpcCallbacks, deliveryQueue, netVars>>

\* handleRPCCallback after its send.
DeleteCallback ==
    /\ worker.at = "delete" /\ worker' = Idle
    /\ rpcCallbacks' = rpcCallbacks \ {worker.q}
    /\ UNCHANGED <<callerVars, deliveryQueue, netVars>>

\* The timer of QueryRPC: OnClosed.
TimeOut(q) ==
    /\ Waiting(q)
    /\ client' = [client EXCEPT ![q] = "timeout"]
    /\ disabled' = disabled \cup {q}
    /\ UNCHANGED <<answer, publishCh, overlapped, rpcVars, netVars>>

-----------------------------------------------------------------------------
(* The consumer that answers, and the broker (external) *)

\* handleConsumeCallback in the answering process: one worker, which registers
\* the id, runs the callback, and publishes what it returned, if anything; the
\* id is registered and answered within the step, so pendingReplies, which only
\* suppresses a second reply, does not show here.
HandleConsume(q) ==
    /\ requests[q] > 0
    /\ requests' = [requests EXCEPT ![q] = @ - 1]
    /\ deliveryQueue' \in {deliveryQueue, Append(deliveryQueue, q)}
    /\ UNCHANGED <<callerVars, rpcCallbacks, worker, redelivered>>

\* A request whose acknowledgement was lost is delivered again.
Redeliver(q) ==
    /\ redelivered < MaxRedelivered
    /\ \E i \in 1 .. Len(deliveryQueue) : deliveryQueue[i] = q
    /\ redelivered' = redelivered + 1
    /\ requests' = [requests EXCEPT ![q] = @ + 1]
    /\ UNCHANGED <<callerVars, rpcVars>>

-----------------------------------------------------------------------------

Next ==
    \/ \E q \in Queries : QueryRPC(q) \/ TimeOut(q) \/ Respond(q)
    \/ \E i \in Instances : Publish(i) \/ PublishFails(i)
    \/ HandleRPCCallback \/ DeleteCallback
    \/ \E q \in Queries : HandleConsume(q) \/ Redeliver(q)

\* Go runs the goroutines; the timer of a waiting caller fires.
Fairness ==
    /\ \A q \in Queries : WF_vars(TimeOut(q) \/ Respond(q))
    /\ WF_vars(HandleRPCCallback) /\ WF_vars(DeleteCallback)

Spec == Init /\ [][Next]_vars /\ Fairness

-----------------------------------------------------------------------------

\* Type invariant.
TypeOK ==
    /\ client \in [Queries -> {"idle", "waiting", "answered", "timeout"}]
    /\ answer \in [Queries -> Queries \cup {NoAnswer}]
    /\ disabled \subseteq Queries
    /\ publishCh \in [Instances -> Seq(Queries)]
    /\ rpcCallbacks \subseteq Queries
    /\ deliveryQueue \in Seq(Queries)
    /\ worker \in [at : {"idle", "send", "delete"}, q : Queries \cup {NoAnswer}]
    /\ worker.at # "idle" => worker.q \in Queries
    /\ requests \in [Queries -> Nat] /\ redelivered \in 0 .. MaxRedelivered
    /\ overlapped \in BOOLEAN

\* No response is handed to two callers, not even when the request was delivered
\* and answered twice, and none crosses from one instance to another.
AnswersDistinct ==
    \A p, q \in Queries : client[p] = "answered" =>
        /\ Inst[answer[p]] = Inst[p]
        /\ client[q] = "answered" /\ answer[p] = answer[q] => p = q

\* "QueryRPC publishes a message and waiting the response": also for callers
\* that ask one after the other the response is the one to their own message.
OneAtATimeAnswersOwn ==
    ~overlapped => \A p \in Queries : client[p] = "answered" => answer[p] = p

=============================================================================
