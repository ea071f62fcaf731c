----------------------------- MODULE PulsarRPC ------------------------------
(***************************************************************************)
(* Queries over Pulsar: PulsarMQ.QueryRPC, the publishing side of Run, the *)
(* rpc instance that takes the responses (handleRPCCallback), and the      *)
(* consumer that answers (handleConsumeCallback).  Both callbacks run in a *)
(* goroutine per message, so their steps interleave.                       *)
(*                                                                         *)
(* Corr[q] is the correlation id of query q: an id of its own when the     *)
(* caller leaves it empty, but a caller may set it, and then two queries   *)
(* can share one.  A response carries the id of its request; it is         *)
(* identified here with the query it answers.                              *)
(***************************************************************************)
EXTENDS Integers

CONSTANTS Queries,
          NoAnswer,         \* not a query
          Ids,              \* correlation ids
          Corr,             \* Corr[q]: the correlation id of query q
          MaxRedelivered    \* bound: requests delivered again, and replies that
                            \* callbacks publish themselves

VARIABLES
    client,         \* where QueryRPC(q) is
    answer,         \* the query whose response QueryRPC(q) returned
    disabled,       \* the messages with callbackDisabled
    received,       \* queries Run has received from r.Publish, which is
                    \* unbuffered, and not published: pending ones included
    rpcCallbacks,   \* rpcCallbacks of the rpc instance, NoAnswer for no entry
    senders,        \* senders[p][q]: handleRPCCallback goroutines that found p
                    \* with the response to q, most blocked on p.Response
    deleting,       \* deleting[id]: those past that, about to delete the entry
    requests,       \* requests[q]: deliveries of the request q under way
    responses,      \* responses[q]: responses to q under way
    working,        \* working[q]: consumer callbacks running for q
    pendingReplies, \* ids in pendingReplies of the answering instance
    replying,       \* replying[q]: replies to q about to be published, by the
                    \* goroutine of the callback or, handed to r.Publish, by Run
    redelivered     \* requests delivered again and such replies so far

callerVars   == <<client, answer, disabled, received>>
rpcVars      == <<rpcCallbacks, senders, deleting>>
consumerVars == <<working, pendingReplies, replying>>
netVars      == <<requests, responses, redelivered>>
vars == <<callerVars, rpcVars, consumerVars, netVars>>

\* No other query has the id of q.
OwnId(q) == \A p \in Queries : Corr[p] = Corr[q] => p = q

Init ==
    /\ client = [q \in Queries |-> "idle"]
    /\ answer = [q \in Queries |-> NoAnswer]
    /\ disabled = {} /\ received = {}
    /\ rpcCallbacks = [i \in Ids |-> NoAnswer]
    /\ senders = [p \in Queries |-> [q \in Queries |-> 0]]
    /\ deleting = [i \in Ids |-> 0]
    /\ requests = [q \in Queries |-> 0]
    /\ responses = [q \in Queries |-> 0]
    /\ working = [q \in Queries |-> 0]
    /\ pendingReplies = {}
    /\ replying = [q \in Queries |-> 0]
    /\ redelivered = 0

-----------------------------------------------------------------------------
(* The caller and its instance *)

\* QueryRPC up to the select: the timer runs from here on, whether or not the
\* message has been published.
QueryRPC(q) ==
    /\ client[q] = "idle"
    /\ client' = [client EXCEPT ![q] = "waiting"]
    /\ received' = received \cup {q}
    /\ UNCHANGED <<answer, disabled, rpcVars, consumerVars, netVars>>

\* ensureRPCMessage: an entry that waits for a response is not overwritten.
EnsureRPCMessage(q) ==
    rpcCallbacks' = [rpcCallbacks EXCEPT ![Corr[q]] = IF @ = NoAnswer THEN q ELSE @]

\* publish, called by Run or, for a message that was pending, by the goroutine
\* that connected: in any order.
Publish(q) ==
    /\ q \in received
    /\ received' = received \ {q}
    /\ EnsureRPCMessage(q)
    /\ requests' = [requests EXCEPT ![q] = @ + 1]
    /\ UNCHANGED <<client, answer, disabled, senders, deleting, consumerVars,
                   responses, redelivered>>

\* publish returns early: no producer for the topic.
PublishFails(q) ==
    /\ q \in received
    /\ received' = received \ {q}
    /\ UNCHANGED <<client, answer, disabled, rpcVars, consumerVars, netVars>>

\* handleRPCCallback's lookup of the id of the response.
HandleRPCCallback(q) ==
    /\ responses[q] > 0
    /\ responses' = [responses EXCEPT ![q] = @ - 1]
    /\ LET p == rpcCallbacks[Corr[q]]
       IN senders' = IF p = NoAnswer THEN senders ELSE [senders EXCEPT ![p][q] = @ + 1]
    /\ UNCHANGED <<callerVars, rpcCallbacks, deleting, consumerVars, requests, redelivered>>

\* CallbackEnabled is false for a message whose caller has given up.  A goroutine
\* that tested it before is blocked for ever.
SkipSend(p, q) ==
    /\ senders[p][q] > 0 /\ p \in disabled
    /\ senders' = [senders EXCEPT ![p][q] = @ - 1]
    /\ deleting' = [deleting EXCEPT ![Corr[q]] = @ + 1]
    /\ UNCHANGED <<callerVars, rpcCallbacks, consumerVars, netVars>>

\* The send on p.Response meets the caller's receive.
Respond(p, q) ==
    /\ senders[p][q] > 0 /\ client[p] = "waiting"
    /\ senders' = [senders EXCEPT ![p][q] = @ - 1]
    /\ client' = [client EXCEPT ![p] = "answered"]
    /\ answer' = [answer EXCEPT ![p] = q]
    /\ deleting' = [deleting EXCEPT ![Corr[q]] = @ + 1]
    /\ UNCHANGED <<disabled, received, rpcCallbacks, consumerVars, netVars>>

\* handleRPCCallback's end deletes the entry of the id, whose ever it is by now.
DeleteCallback(id) ==
    /\ deleting[id] > 0
    /\ deleting' = [deleting EXCEPT ![id] = @ - 1]
    /\ rpcCallbacks' = [rpcCallbacks EXCEPT ![id] = NoAnswer]
    /\ UNCHANGED <<callerVars, senders, consumerVars, netVars>>

\* Mutant: a caller that gives up leaves without an outcome.
TimeOutForgets(q) ==
    /\ client[q] = "waiting"
    /\ disabled' = disabled \cup {q}
    /\ client' = [client EXCEPT ![q] = "idle"]
    /\ UNCHANGED <<answer, received, rpcVars, consumerVars, netVars>>

\* The timer of QueryRPC: OnClosed.
TimeOut(q) ==
    /\ client[q] = "waiting"
    /\ client' = [client EXCEPT ![q] = "timeout"]
    /\ disabled' = disabled \cup {q}
    /\ UNCHANGED <<answer, received, rpcVars, consumerVars, netVars>>

-----------------------------------------------------------------------------
(* The consumer that answers *)

\* handleConsumeCallback up to the callback: setReplyNeededMessage.
HandleConsume(q) ==
    /\ requests[q] > 0
    /\ requests' = [requests EXCEPT ![q] = @ - 1]
    /\ pendingReplies' = pendingReplies \cup {Corr[q]}
    /\ working' = [working EXCEPT ![q] = @ + 1]
    /\ UNCHANGED <<callerVars, rpcVars, replying, responses, redelivered>>

\* The callback returned a response: it is going to be published unless the id
\* was answered meanwhile.
Reply(q) ==
    /\ working[q] > 0
    /\ working' = [working EXCEPT ![q] = @ - 1]
    /\ replying' = IF Corr[q] \in pendingReplies
                   THEN [replying EXCEPT ![q] = @ + 1] ELSE replying
    /\ UNCHANGED <<callerVars, rpcVars, pendingReplies, netVars>>

\* The callback returned nil: the id stays in pendingReplies.
NoReply(q) ==
    /\ working[q] > 0
    /\ working' = [working EXCEPT ![q] = @ - 1]
    /\ UNCHANGED <<callerVars, rpcVars, pendingReplies, replying, netVars>>

\* A callback that replies itself hands the reply to Run, and may return a
\* response as well, before or after Run has published it.
CallbackReplies(q) ==
    /\ working[q] > 0 /\ redelivered < MaxRedelivered
    /\ redelivered' = redelivered + 1
    /\ replying' = [replying EXCEPT ![q] = @ + 1]
    /\ UNCHANGED <<callerVars, rpcVars, working, pendingReplies, requests, responses>>

\* publish of a reply, by Run or by the goroutine of the callback, marks the id
\* as answered; it does not look whether it was.
PublishReply(q) ==
    /\ replying[q] > 0
    /\ replying' = [replying EXCEPT ![q] = @ - 1]
    /\ responses' = [responses EXCEPT ![q] = @ + 1]
    /\ pendingReplies' = pendingReplies \ {Corr[q]}
    /\ UNCHANGED <<callerVars, rpcVars, working, requests, redelivered>>

-----------------------------------------------------------------------------
(* The Pulsar service (external): it loses messages and delivers a request  *)
(* again that was not acknowledged in time.                                 *)

LoseRequest(q) ==
    /\ requests[q] > 0
    /\ requests' = [requests EXCEPT ![q] = @ - 1]
    /\ UNCHANGED <<callerVars, rpcVars, consumerVars, responses, redelivered>>

LoseResponse(q) ==
    /\ responses[q] > 0
    /\ responses' = [responses EXCEPT ![q] = @ - 1]
    /\ UNCHANGED <<callerVars, rpcVars, consumerVars, requests, redelivered>>

Redeliver(q) ==
    /\ working[q] > 0 /\ redelivered < MaxRedelivered
    /\ redelivered' = redelivered + 1
    /\ requests' = [requests EXCEPT ![q] = @ + 1]
    /\ UNCHANGED <<callerVars, rpcVars, consumerVars, responses>>

-----------------------------------------------------------------------------

Caller(q)   == QueryRPC(q) \/ TimeOut(q)
Ends(q)     == TimeOut(q) \/ \E p \in Queries : Respond(q, p)
Run(q)      == Publish(q) \/ PublishFails(q)
Consumer(q) == \/ HandleConsume(q) \/ Reply(q) \/ NoReply(q)
               \/ CallbackReplies(q) \/ PublishReply(q)
Network(q)  == LoseRequest(q) \/ LoseResponse(q) \/ Redeliver(q)

Next ==
    \/ \E q \in Queries : Caller(q) \/ Run(q) \/ HandleRPCCallback(q) \/ Consumer(q) \/ Network(q)
    \/ \E p, q \in Queries : Respond(p, q) \/ SkipSend(p, q)
    \/ \E id \in Ids : DeleteCallback(id)

\* The timer of a waiting caller fires, Run publishes, and a goroutine that can
\* delete its entry does.
Fairness ==
    /\ \A q \in Queries : WF_vars(Ends(q))
    /\ \A q \in Queries : WF_vars(Run(q))
    /\ \A id \in Ids : WF_vars(DeleteCallback(id))

Spec == Init /\ [][Next]_vars /\ Fairness

-----------------------------------------------------------------------------

\* Type invariant.
TypeOK ==
    /\ client \in [Queries -> {"idle", "waiting", "answered", "timeout"}]
    /\ answer \in [Queries -> Queries \cup {NoAnswer}]
    /\ disabled \subseteq Queries /\ received \subseteq Queries
    /\ rpcCallbacks \in [Ids -> Queries \cup {NoAnswer}]
    /\ senders \in [Queries -> [Queries -> Nat]]
    /\ deleting \in [Ids -> Nat] /\ pendingReplies \subseteq Ids
    /\ requests \in [Queries -> Nat] /\ responses \in [Queries -> Nat]
    /\ working \in [Queries -> Nat] /\ replying \in [Queries -> Nat]
    /\ redelivered \in 0 .. MaxRedelivered

\* A query returns only responses to requests of its own correlation id, through
\* every interleaving of handleRPCCallback goroutines, timeouts and deletions;
\* with an id of its own that is the response to itself.
AnswersMatchId ==
    \A p \in Queries : client[p] = "answered" =>
        answer[p] \in Queries /\ Corr[answer[p]] = Corr[p]

\* What QueryMQ promises: every query ends, and once, with a timeout or with a
\* response of its id, whatever the goroutines and the network do.
Promise == INSTANCE QueryRPC WITH client <- client, answer <- answer
ImplementsQueryRPC == Promise!Spec

=============================================================================
