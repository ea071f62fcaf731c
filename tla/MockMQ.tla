------------------------------- MODULE MockMQ -------------------------------
(***************************************************************************)
(* mq/mockmq: the in-process broker behind the mock driver.  publish runs  *)
(* the subscribers' callbacks in the goroutine of the caller, so a query   *)
(* has its response looked up, its entry deleted and a goroutine started   *)
(* for its channel before it begins to wait.                               *)
(*                                                                         *)
(* The queue manager's map is locked, the slices of a queue are not: the   *)
(* test for subscribers and the append that follows are two steps, both in *)
(* publish and in subscribe.  Subscribers are told apart by the code of    *)
(* the method value, so every instance's bindToOnMessage is the same one.  *)
(* One topic is modelled, with one instance that queries and the instances *)
(* that subscribe.                                                         *)
(***************************************************************************)
EXTENDS Integers, Sequences

CONSTANTS Queries,          \* the calls of Send with a reply
          NoAnswer,
          Ids,
          Corr,             \* Corr[q]: the correlation id of q
          Instances         \* the instances that subscribe to the topic

VARIABLES
    client,         \* where Send(q) is: "idle", in publish before it has the
                    \* queue ("publish"), before its test for subscribers
                    \* ("test"), about to "retain" the message, in the loop over
                    \* subscribers ("deliver"), in bindToReplyMessage ("lookup",
                    \* "delete"), "waiting", "answered", or at its "timeout"
    todo,           \* todo[q]: the subscribers the loop of q still has to call
    found,          \* found[q]: the query whose waiter q has looked up
    answer,         \* answer[q]: the query whose response q received
    waiters,        \* waitingResponseMessages: the query registered for an id
    senders,        \* senders[p][q]: goroutines blocked on p's channel with the
                    \* response to q
    subscriber,     \* where Subscribe of an instance is: "idle", holding m1 at
                    \* the "test", at the "append", at the "replay", or at the end
                    \* ("register"), "done", or "stuck" on its own m1
    created,        \* the topic is in topicQueues
    subscribes,     \* subscribes of the queue
    messages        \* messages of the queue

clientVars == <<client, todo, found, answer>>
rpcVars    == <<waiters, senders>>
queueVars  == <<created, subscribes, messages>>
vars == <<clientVars, rpcVars, subscriber, queueVars>>

OwnId(q) == \A p \in Queries : Corr[p] = Corr[q] => p = q

Init ==
    /\ client = [q \in Queries |-> "idle"]
    /\ todo = [q \in Queries |-> << >>]
    /\ found = [q \in Queries |-> NoAnswer]
    /\ answer = [q \in Queries |-> NoAnswer]
    /\ waiters = [i \in Ids |-> NoAnswer]
    /\ senders = [p \in Queries |-> [q \in Queries |-> 0]]
    /\ subscriber = [s \in Instances |-> "idle"]
    /\ created = FALSE /\ subscribes = << >> /\ messages = {}

Goto(q, from, to) == client[q] = from /\ client' = [client EXCEPT ![q] = to]

\* Instances whose m1 is locked by their Subscribe.
Locked == {s \in Instances : subscriber[s] \notin {"idle", "done"}}

-----------------------------------------------------------------------------
(* Send *)

\* prepareRepliablePubilshMessage: an entry of the same id is overwritten.
Prepare(q) ==
    /\ Goto(q, "idle", "publish")
    /\ waiters' = [waiters EXCEPT ![Corr[q]] = q]
    /\ UNCHANGED <<todo, found, answer, senders, subscriber, queueVars>>

\* publish of the queue manager: without a queue the message is dropped.
Publish(q) ==
    /\ Goto(q, "publish", IF created THEN "test" ELSE "waiting")
    /\ UNCHANGED <<todo, found, answer, rpcVars, subscriber, queueVars>>

\* publish of the queue.
TestSubscribers(q) ==
    /\ Goto(q, "test", IF subscribes = << >> THEN "retain" ELSE "deliver")
    /\ todo' = [todo EXCEPT ![q] = subscribes]
    /\ UNCHANGED <<found, answer, rpcVars, subscriber, queueVars>>

Retain(q) ==
    /\ Goto(q, "retain", "waiting")
    /\ messages' = messages \cup {q}
    /\ UNCHANGED <<todo, found, answer, rpcVars, subscriber, created, subscribes>>

\* After a callback: the next subscriber, or the select.
Continue(q, from) ==
    /\ todo' = [todo EXCEPT ![q] = Tail(@)]
    /\ Goto(q, from, IF Len(todo[q]) > 1 THEN "deliver" ELSE "waiting")

\* bindToOnMessage waits for m1 of the subscriber; its callback returns a
\* response, which is published to the caller's reply topic, or nil.
Callback(q) ==
    /\ client[q] = "deliver" /\ Head(todo[q]) \notin Locked
    /\ \/ Goto(q, "deliver", "lookup") /\ UNCHANGED todo
       \/ Continue(q, "deliver")
    /\ UNCHANGED <<found, answer, rpcVars, subscriber, queueVars>>

\* bindToReplyMessage: the lookup under one lock ...
LookupWaiter(q) ==
    /\ client[q] = "lookup"
    /\ IF waiters[Corr[q]] = NoAnswer
       THEN Continue(q, "lookup") /\ UNCHANGED found
       ELSE /\ Goto(q, "lookup", "delete")
            /\ found' = [found EXCEPT ![q] = waiters[Corr[q]]]
            /\ UNCHANGED todo
    /\ UNCHANGED <<answer, rpcVars, subscriber, queueVars>>

\* Mutant: the entry is not deleted.
DeleteWaiterKeeps(q) ==
    /\ senders' = [senders EXCEPT ![found[q]][q] = @ + 1]
    /\ Continue(q, "delete")
    /\ found' = [found EXCEPT ![q] = NoAnswer]
    /\ UNCHANGED <<answer, waiters, subscriber, queueVars>>

\* Mutant: the response goes to whoever is found waiting.
DeleteWaiterAny(q) ==
    /\ waiters' = [waiters EXCEPT ![Corr[q]] = NoAnswer]
    /\ \E p \in Queries : senders' = [senders EXCEPT ![p][q] = @ + 1]
    /\ Continue(q, "delete")
    /\ found' = [found EXCEPT ![q] = NoAnswer]
    /\ UNCHANGED <<answer, subscriber, queueVars>>

\* ... and the delete under another, then a goroutine that sends on the channel.
DeleteWaiter(q) ==
    /\ waiters' = [waiters EXCEPT ![Corr[q]] = NoAnswer]
    /\ senders' = [senders EXCEPT ![found[q]][q] = @ + 1]
    /\ Continue(q, "delete")
    /\ found' = [found EXCEPT ![q] = NoAnswer]
    /\ UNCHANGED <<answer, subscriber, queueVars>>

\* The select: the channel,
Receive(p, q) ==
    /\ senders[p][q] > 0
    /\ senders' = [senders EXCEPT ![p][q] = @ - 1]
    /\ Goto(p, "waiting", "answered")
    /\ answer' = [answer EXCEPT ![p] = q]
    /\ UNCHANGED <<todo, found, waiters, subscriber, queueVars>>

\* Mutant: a select without its timer.
TimeOutAfterAnswer(q) ==
    /\ client[q] = "waiting" /\ \E p \in Queries : senders[q][p] > 0
    /\ Goto(q, "waiting", "timeout")
    /\ UNCHANGED <<todo, found, answer, rpcVars, subscriber, queueVars>>

\* or the timer, which leaves the entry in the map.
TimeOut(q) ==
    /\ Goto(q, "waiting", "timeout")
    /\ UNCHANGED <<todo, found, answer, rpcVars, subscriber, queueVars>>

-----------------------------------------------------------------------------
(* Subscribe *)

Step(s, from, to) == subscriber[s] = from /\ subscriber' = [subscriber EXCEPT ![s] = to]

\* m1.Lock, and subscribe of the queue manager, which makes the queue.
BeginSubscribe(s) ==
    /\ Step(s, "idle", "test")
    /\ created' = TRUE
    /\ UNCHANGED <<clientVars, rpcVars, subscribes, messages>>

\* subscribe of the queue: any subscriber looks like a duplicate.
TestDuplicate(s) ==
    /\ Step(s, "test", IF subscribes = << >> THEN "append" ELSE "register")
    /\ UNCHANGED <<clientVars, rpcVars, queueVars>>

AppendSubscriber(s) ==
    /\ Step(s, "append", "replay")
    /\ subscribes' = Append(subscribes, s)
    /\ UNCHANGED <<clientVars, rpcVars, created, messages>>

\* Mutant: every subscription replays.
ReplaySticks(s) ==
    /\ Step(s, "replay", "stuck")
    /\ UNCHANGED <<clientVars, rpcVars, queueVars>>

\* Retained messages are handed to bindToOnMessage, which asks for the m1 that
\* this goroutine holds: it blocks for ever.
Replay(s) ==
    /\ Step(s, "replay", IF messages = {} THEN "register" ELSE "stuck")
    /\ UNCHANGED <<clientVars, rpcVars, queueVars>>

\* consumerRegisters[topic] = consumeProxy, m1.Unlock.
Register(s) ==
    /\ Step(s, "register", "done")
    /\ UNCHANGED <<clientVars, rpcVars, queueVars>>

-----------------------------------------------------------------------------

Sending(q) ==
    \/ Publish(q) \/ TestSubscribers(q) \/ Retain(q)
    \/ Callback(q) \/ LookupWaiter(q)
    \/ client[q] = "delete" /\ DeleteWaiter(q)
    \/ TimeOut(q) \/ \E p \in Queries : Receive(q, p)

Subscribing(s) == TestDuplicate(s) \/ AppendSubscriber(s) \/ Replay(s) \/ Register(s)

Next ==
    \/ \E q \in Queries : Prepare(q) \/ Sending(q)
    \/ \E s \in Instances : BeginSubscribe(s) \/ Subscribing(s)

\* Go runs the goroutines, and the timer of a waiting caller fires.
Fairness ==
    /\ \A q \in Queries : WF_vars(Sending(q))
    /\ \A s \in Instances : WF_vars(Subscribing(s))

Spec == Init /\ [][Next]_vars /\ Fairness

-----------------------------------------------------------------------------

Places == {"idle", "publish", "test", "retain", "deliver", "lookup", "delete",
           "waiting", "answered", "timeout"}

\* Type invariant.
TypeOK ==
    /\ client \in [Queries -> Places]
    /\ todo \in [Queries -> Seq(Instances)]
    /\ found \in [Queries -> Queries \cup {NoAnswer}]
    /\ answer \in [Queries -> Queries \cup {NoAnswer}]
    /\ waiters \in [Ids -> Queries \cup {NoAnswer}]
    /\ senders \in [Queries -> [Queries -> Nat]]
    /\ subscriber \in [Instances -> {"idle", "test", "append", "replay", "register", "done", "stuck"}]
    /\ created \in BOOLEAN /\ subscribes \in Seq(Instances)
    /\ messages \subseteq Queries

\* However many subscribers answer (two that subscribe at once both get in), a
\* query with an id of its own has one goroutine for its channel at most, and
\* none once it has its answer, so that no goroutine is left blocked.
OneSender ==
    \A p \in Queries : OwnId(p) =>
        \A q, r \in Queries : senders[p][q] > 0 =>
            /\ client[p] # "answered"
            /\ senders[p][q] = 1
            /\ senders[p][r] > 0 => q = r

\* A query returns with a response of its id, also when several share one.
AnswersMatchId == \A q \in Queries :
    answer[q] # NoAnswer => Corr[answer[q]] = Corr[q]

Asking == {q \in Queries : client[q] \notin {"idle", "answered", "timeout"}}
Stuck  == {s \in Instances : subscriber[s] = "stuck"}

\* Queries end, by their timers at the latest, unless a subscriber is stuck: a
\* timer starts only when all callbacks have returned.
QueriesEnd == (Asking # {}) ~> (Asking = {} \/ Stuck # {})

\* Subscribe returns unless a message was published between the making of the
\* queue and its first subscriber.
SubscribersReady == (Locked # {}) ~> (Locked = {} \/ messages # {})

\* What QueryMQ promises, but for the end of a query: one outcome, an answer of
\* its id.  A query that publishes is waiting already.
Promise == INSTANCE QueryRPC WITH
               client <- [q \in Queries |->
                            IF client[q] \in {"idle", "answered", "timeout"}
                            THEN client[q] ELSE "waiting"],
               answer <- answer
KeepsPromise == Promise!Init /\ [][Promise!Next]_(Promise!vars)

=============================================================================
