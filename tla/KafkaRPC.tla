------------------------------ MODULE KafkaRPC ------------------------------
(***************************************************************************)
(* mq/kafka.KafkaWorker: Send with needReply, the reader goroutine of each *)
(* subscribed topic with its onMessage, and the pool of response channels. *)
(* Nothing here takes a lock.  A slice is read and stored back in two      *)
(* steps, and a map entry is looked up and deleted in two steps.           *)
(*                                                                         *)
(* The private topic carries the responses to this worker.  The service    *)
(* topic carries its requests; another process answers them, or this       *)
(* worker once it has subscribed to that topic itself.  A packet is        *)
(* identified by its kind and its query; the packet of a failed read       *)
(* (KafkaConsumer's zero message) has the empty correlation id.            *)
(***************************************************************************)
EXTENDS Integers, Sequences

CONSTANTS Queries,          \* the calls of Send with needReply
          NoQuery,          \* the query of the packet of a failed read
          Ids,              \* correlation ids
          EmptyId,          \* the id of a caller that sets none
          Corr,             \* Corr[q]: publishMsg.CorrelationID of q
          Channels,         \* Go channels made by newChannel, numbered
          MaxFaults         \* bound: losses, repetitions and failed reads

NoChannel == 0
Topics    == {"private", "service"}

Packet(k, q) == [kind |-> k, query |-> q]
NoPacket     == Packet("none", NoQuery)
ZeroPacket   == Packet("zero", NoQuery)
Packets      == [kind : {"request", "response"}, query : Queries] \cup {NoPacket, ZeroPacket}

IdOf(m) == IF m.query \in Queries THEN Corr[m.query] ELSE EmptyId

VARIABLES
    client,         \* where Send(q) is: "idle", in obtainChannel ("obtain"),
                    \* with its channel ("register"), "waiting", in recycleChannel
                    \* with its answer ("recycle"), or "done"
    chan,           \* chan[q]: the channel of q
    pool,           \* worker.availableChannels
    seen,           \* seen[q]: the pool as q has read it
    made,           \* how many channels were made
    waiting,        \* worker.waitResponseMessage
    answer,         \* answer[q]: the packet q received
    reader,         \* reader[t]: the goroutine of topic t in onMessage, "idle",
                    \* or "found" an entry, or blocked on "send", and with what
    requests,       \* requests[q]: deliveries of the request of q under way
    responses,      \* responses[q]: responses to q under way
    subscribed,     \* this worker consumes the service topic, too (it
                    \* subscribes to it before its first query, or never)
    raced,          \* two callers were inside the pool's operations at once
    lost,           \* queries of which a request or a response was lost
    faults

clientVars == <<client, chan, answer>>
poolVars   == <<pool, seen, made, raced>>
netVars    == <<requests, responses>>
vars == <<clientVars, poolVars, waiting, reader, netVars, subscribed, lost, faults>>

Idle == [at |-> "idle", chan |-> NoChannel, packet |-> NoPacket]

\* No other query has the id of q, and it is not empty.
OwnId(q) == Corr[q] # EmptyId /\ \A p \in Queries : Corr[p] = Corr[q] => p = q

Init ==
    /\ client = [q \in Queries |-> "idle"]
    /\ chan = [q \in Queries |-> NoChannel]
    /\ answer = [q \in Queries |-> NoPacket]
    /\ pool = << >> /\ seen = [q \in Queries |-> << >>] /\ made = 0 /\ raced = FALSE
    /\ waiting = [i \in Ids |-> NoChannel]
    /\ reader = [t \in Topics |-> Idle]
    /\ requests = [q \in Queries |-> 0] /\ responses = [q \in Queries |-> 0]
    /\ subscribed \in BOOLEAN /\ lost = {} /\ faults = 0

Goto(q, from, to) == client[q] = from /\ client' = [client EXCEPT ![q] = to]

Fault == faults < MaxFaults /\ faults' = faults + 1

-----------------------------------------------------------------------------
(* Send *)

ReadPool(q) ==
    /\ seen' = [seen EXCEPT ![q] = pool]
    /\ raced' = (raced \/ \E p \in Queries : client[p] \in {"obtain", "recycle"})

\* obtainChannel up to its read of the last free channel; with none left a
\* channel is made.
ObtainChannel(q) ==
    /\ IF pool = << >>
       THEN /\ made' = made + 1
            /\ chan' = [chan EXCEPT ![q] = made + 1]
            /\ Goto(q, "idle", "register")
            /\ UNCHANGED <<seen, raced>>
       ELSE /\ chan' = [chan EXCEPT ![q] = pool[Len(pool)]]
            /\ ReadPool(q)
            /\ Goto(q, "idle", "obtain")
            /\ UNCHANGED made
    /\ UNCHANGED <<answer, pool, waiting, reader, netVars, subscribed, lost, faults>>

\* The store of a slice that was read before, changed by now or not.
StorePool(q, s) ==
    /\ pool' = s
    /\ seen' = [seen EXCEPT ![q] = << >>]
    /\ UNCHANGED raced

\* worker.availableChannels = worker.availableChannels[:channelLength-1]
ObtainStores(q) ==
    /\ Goto(q, "obtain", "register")
    /\ StorePool(q, SubSeq(seen[q], 1, Len(seen[q]) - 1))
    /\ UNCHANGED <<chan, answer, made, waiting, reader, netVars, subscribed, lost, faults>>

\* Mutant: a query whose request could not be sent is not registered.
RegisterLater(q) ==
    /\ Goto(q, "register", "waiting")
    /\ requests' = [requests EXCEPT ![q] = @ + 1]
    /\ UNCHANGED <<chan, answer, poolVars, waiting, reader, responses, subscribed, lost, faults>>

\* The entry of the id is overwritten; what sendWorker returns is ignored, and
\* there is no timeout.
Register(q) ==
    /\ Goto(q, "register", "waiting")
    /\ waiting' = [waiting EXCEPT ![Corr[q]] = chan[q]]
    /\ \/ requests' = [requests EXCEPT ![q] = @ + 1] /\ UNCHANGED <<lost, faults>>
       \/ Fault /\ lost' = lost \cup {q} /\ UNCHANGED requests
    /\ UNCHANGED <<chan, answer, poolVars, reader, responses, subscribed>>

\* recycleChannel, once append has read the slice (Respond): the store.
RecycleStores(q) ==
    /\ Goto(q, "recycle", "done")
    /\ StorePool(q, Append(seen[q], chan[q]))
    /\ UNCHANGED <<chan, answer, made, waiting, reader, netVars, subscribed, lost, faults>>

-----------------------------------------------------------------------------
(* The reader goroutines *)

\* Mutant: the entry that is found is any entry there is.
OnMessageAnyEntry(t, m) ==
    /\ reader[t].at = "idle"
    /\ \/ /\ \A i \in Ids : waiting[i] = NoChannel
          /\ UNCHANGED reader
       \/ \E i \in Ids :
             /\ waiting[i] # NoChannel
             /\ reader' = [reader EXCEPT ![t] = [at |-> "found", chan |-> waiting[i], packet |-> m]]

\* onMessage up to the lookup: without an entry a response is of no interest.
OnMessage(t, m) ==
    /\ reader[t].at = "idle"
    /\ IF waiting[IdOf(m)] = NoChannel
       THEN UNCHANGED reader
       ELSE reader' = [reader EXCEPT ![t] =
                           [at |-> "found", chan |-> waiting[IdOf(m)], packet |-> m]]

ReadResponse(q) ==
    /\ responses[q] > 0
    /\ responses' = [responses EXCEPT ![q] = @ - 1]
    /\ OnMessage("private", Packet("response", q))
    /\ UNCHANGED <<clientVars, poolVars, waiting, requests, subscribed, lost, faults>>

\* A request read by this worker itself: whether the id waits for a response is
\* asked first, and only then the consumer's callback is, which replies.
ReadRequest(q) ==
    /\ subscribed /\ requests[q] > 0
    /\ requests' = [requests EXCEPT ![q] = @ - 1]
    /\ OnMessage("service", Packet("request", q))
    /\ responses' = IF waiting[Corr[q]] = NoChannel
                    THEN [responses EXCEPT ![q] = @ + 1] ELSE responses
    /\ UNCHANGED <<clientVars, poolVars, waiting, subscribed, lost, faults>>

\* A failed read on either topic: the packet of an empty message.
ReadZero(t) ==
    /\ t = "service" => subscribed
    /\ Fault
    /\ OnMessage(t, ZeroPacket)
    /\ UNCHANGED <<clientVars, poolVars, waiting, netVars, subscribed, lost>>

\* delete(worker.waitResponseMessage, packet.CorrelationId), whoever's it is by now.
DeleteEntry(t) ==
    /\ reader[t].at = "found"
    /\ reader' = [reader EXCEPT ![t].at = "send"]
    /\ waiting' = [waiting EXCEPT ![IdOf(reader[t].packet)] = NoChannel]
    /\ UNCHANGED <<clientVars, poolVars, netVars, subscribed, lost, faults>>

\* ch <- packet meets <-ch of any caller that waits on this channel, which goes
\* on to recycleChannel.
Respond(t, q) ==
    /\ reader[t].at = "send" /\ chan[q] = reader[t].chan
    /\ Goto(q, "waiting", "recycle")
    /\ answer' = [answer EXCEPT ![q] = reader[t].packet]
    /\ ReadPool(q)
    /\ reader' = [reader EXCEPT ![t] = Idle]
    /\ UNCHANGED <<chan, pool, made, waiting, netVars, subscribed, lost, faults>>

-----------------------------------------------------------------------------
(* The broker and the answering process (external) *)

Answer(q) ==
    /\ requests[q] > 0
    /\ requests' = [requests EXCEPT ![q] = @ - 1]
    /\ responses' = [responses EXCEPT ![q] = @ + 1]
    /\ UNCHANGED <<clientVars, poolVars, waiting, reader, subscribed, lost, faults>>

\* A restarted process answers again what it had not committed.
AnswerAgain(q) ==
    /\ requests[q] > 0 /\ Fault
    /\ responses' = [responses EXCEPT ![q] = @ + 1]
    /\ UNCHANGED <<clientVars, poolVars, waiting, reader, requests, subscribed, lost>>

LoseResponse(q) ==
    /\ responses[q] > 0 /\ Fault
    /\ responses' = [responses EXCEPT ![q] = @ - 1]
    /\ lost' = lost \cup {q}
    /\ UNCHANGED <<clientVars, poolVars, waiting, reader, requests, subscribed>>

-----------------------------------------------------------------------------

Calling(q) == ObtainStores(q) \/ Register(q) \/ RecycleStores(q)
Send(q)   == ObtainChannel(q) \/ ObtainStores(q) \/ Register(q) \/ RecycleStores(q)
Broker(q) == Answer(q) \/ AnswerAgain(q) \/ LoseResponse(q)

Next ==
    \/ \E q \in Queries : Send(q) \/ ReadResponse(q) \/ ReadRequest(q) \/ Broker(q)
    \/ \E t \in Topics : ReadZero(t) \/ DeleteEntry(t) \/ \E q \in Queries : Respond(t, q)

Read(t) ==
    \/ t = "private" /\ \E q \in Queries : ReadResponse(q)
    \/ t = "service" /\ \E q \in Queries : ReadRequest(q)
    \/ DeleteEntry(t)
    \/ \E q \in Queries : Respond(t, q)

\* Go runs the callers and the readers; the service answers in the end.
Fairness ==
    /\ \A q \in Queries : WF_vars(Calling(q))
    /\ \A t \in Topics : WF_vars(Read(t))
    /\ WF_vars(\E q \in Queries : Answer(q))

Spec == Init /\ [][Next]_vars /\ Fairness

-----------------------------------------------------------------------------

Places == {"idle", "obtain", "register", "waiting", "recycle", "done"}

\* Type invariant.
TypeOK ==
    /\ client \in [Queries -> Places]
    /\ chan \in [Queries -> Channels \cup {NoChannel}]
    /\ answer \in [Queries -> Packets]
    /\ pool \in Seq(Channels) /\ seen \in [Queries -> Seq(Channels)]
    /\ made \in Channels \cup {NoChannel}
    /\ waiting \in [Ids -> Channels \cup {NoChannel}]
    /\ reader \in [Topics -> [at : {"idle", "found", "send"},
                              chan : Channels \cup {NoChannel}, packet : Packets]]
    /\ requests \in [Queries -> Nat] /\ responses \in [Queries -> Nat]
    /\ subscribed \in BOOLEAN /\ raced \in BOOLEAN
    /\ lost \subseteq Queries /\ faults \in 0 .. MaxFaults

\* A query returns with a response of its own id while the pool is sound and no
\* second reader can look the id up at the same time.
AnswersMatchId ==
    \A q \in Queries :
        ~raced /\ ~subscribed /\ answer[q] # NoPacket /\ Corr[q] # EmptyId =>
            answer[q].kind = "response" /\ Corr[answer[q].query] = Corr[q]

\* A query with an id of its own of which nothing was lost returns: no reader
\* is left blocked in front of its response.
QueriesEnd ==
    \A q \in Queries : OwnId(q) =>
        ((client[q] = "waiting") ~> (client[q] # "waiting" \/ raced \/ subscribed \/ q \in lost))

=============================================================================
