----------------------------- MODULE MCServices -----------------------------
(***************************************************************************)
(* Components that share no state, checked side by side: part says which   *)
(* of them is running, the variables of the others keep their initial      *)
(* values.                                                                 *)
(*   rabbit    RabbitRPC, q1 and q2 on one instance, q3 on another         *)
(*   pulsar    PulsarRPC; q1 and q2 share an id their callers chose        *)
(*   instance  PulsarRPCInstance, two goroutines that publish a query, of  *)
(*             which one creates the instance                              *)
(*   mock      MockMQ; q1 and q2 share an id their callers chose           *)
(*   kafka     KafkaRPC; the callers of k1 and k2 set no id                *)
(*   consumer  KafkaConsumer, two partitions of two messages; its names    *)
(*             are the ones of this module                                 *)
(*   one       Healthz, one request, a ping, a clock, a lost connection    *)
(*   two       Healthz, any requests within one second, no ping            *)
(*   saver     AsyncRecordSaver, two rows in a group                       *)
(*   publishers  RabbitPublishers, Run and the delivery worker             *)
(***************************************************************************)
EXTENDS KafkaConsumer

CONSTANTS Parts,
          q1, q2, Calls, Subscribers, NoAnswer,
          Askers, NoInstance,
          k1, k2, KafkaQueries, NoQuery, NoId, KafkaFaults,
          Requests, NoHandler, HealthQueues, NoCategory, DataBases,
          HealthSeconds, HealthFaults,
          Records, NoRecord, GroupSize, MaxFailed,
          Queued, Responses, NoMsg, PublisherFaults

VARIABLES
    part,
    asker, response, disabled, publishCh, rpcCallbacks, deliveryQueue, handler,
    deliveries, redelivered, overlapped,
    query, reply, closed, unsent, entries, blocked, deleting, asked, answered,
    working, pendingReplies, replying, repeated,
    publishes, used, registered, connecting, clientSet, runs, connector, again, toConsume,
    subscription, reading, refused, takenDown, gaveUp,
    client, todo, found, answer, waiters, senders, subscriber,
    created, subscribes, messages,
    callers, chan, pool, seen, made, waiting, received, reader, requests,
    responses, subscribed, raced, lost, losses,
    place, todos, current, categories, parts, still, timer, clears, results, pushes, cache,
    channel, pending, flush, status, link, delivered, worker, consumed, pings,
    route, enabling, now, failures,
    push, logs, t, tick, loop, waits, groups, db, failed,
    run, conn, amqpChannel, named, unpublished, msg, step, copied, flushing, taken,
    flushes, published, out, overwritten, panicked, drops

RpcId(q)  == IF q = q2 THEN q1 ELSE q
KafkaId(q) == IF q \in {k1, k2} THEN NoId ELSE q

Rabbit == INSTANCE RabbitRPC WITH
              Queries <- Calls,
              Inst <- [q \in Calls |-> IF q \in {q1, q2} THEN 1 ELSE 2],
              PublishChannelSize <- 1, MaxRedelivered <- 1,
              client <- asker, answer <- response, worker <- handler,
              requests <- deliveries

Pulsar == INSTANCE PulsarRPC WITH
              Queries <- Calls, Ids <- {RpcId(q) : q \in Calls},
              Corr <- [q \in Calls |-> RpcId(q)], MaxRedelivered <- 1,
              client <- query, answer <- reply, disabled <- closed,
              received <- unsent, rpcCallbacks <- entries, senders <- blocked,
              requests <- asked, responses <- answered, redelivered <- repeated

RpcInstance == INSTANCE PulsarRPCInstance WITH
                   DsnMayFail <- TRUE, at <- publishes, client <- clientSet, run <- runs,
                   pending <- toConsume, subscriber <- subscription

\* One instance gets as far as its connector.
OneInstance == \A a, b \in Askers :
    connector[a]["first"] # "none" /\ connector[b]["first"] # "none" => a = b

Mock == INSTANCE MockMQ WITH
            Queries <- Calls, Ids <- {RpcId(q) : q \in Calls},
            Corr <- [q \in Calls |-> RpcId(q)], Instances <- Subscribers

Kafka == INSTANCE KafkaRPC WITH
             Queries <- KafkaQueries, Ids <- {KafkaId(q) : q \in KafkaQueries} \cup {NoId},
             EmptyId <- NoId, Corr <- [q \in KafkaQueries |-> KafkaId(q)],
             Channels <- 1 .. Cardinality(KafkaQueries), MaxFaults <- KafkaFaults,
             client <- callers, answer <- received, faults <- losses

Health == INSTANCE Healthz WITH
              Handlers <- Requests, Categories <- HealthQueues, Pings <- DataBases,
              ChannelSize <- 1, MaxSecond <- HealthSeconds, MaxFaults <- HealthFaults,
              at <- place, todo <- todos, cur <- current, faults <- failures

\* A message is lost or repeated, or the worker reads the service topic, too.
KafkaBound == subscribed => losses = 0

\* One request, or several within one second that lose no connection.
OneRequest == \E h \in Requests : \A g \in Requests \ {h} : place[g] = "idle"
OneSecond  == now = 1 /\ failures = 0

Saver == INSTANCE AsyncRecordSaver

Publishers == INSTANCE RabbitPublishers WITH
                  MaxFaults <- PublisherFaults, channel <- amqpChannel,
                  pending <- unpublished, seen <- copied, flush <- flushes,
                  accepted <- published, raced <- overwritten, crashed <- panicked,
                  faults <- drops

rabbitVars   == <<asker, response, disabled, publishCh, rpcCallbacks, deliveryQueue,
                  handler, deliveries, redelivered, overlapped>>
pulsarVars   == <<query, reply, closed, unsent, entries, blocked, deleting, asked,
                  answered, working, pendingReplies, replying, repeated>>
instanceVars == <<publishes, used, registered, connecting, clientSet, runs, connector,
                  again, toConsume, subscription, reading, refused, takenDown, gaveUp>>
mockVars     == <<client, todo, found, answer, waiters, senders, subscriber,
                  created, subscribes, messages>>
kafkaVars    == <<callers, chan, pool, seen, made, waiting, received, reader, requests,
                  responses, subscribed, raced, lost, losses>>
healthzVars  == <<place, todos, current, categories, parts, still, timer, clears, results,
                  pushes, cache, channel, pending, flush, status, link, delivered,
                  worker, consumed, pings, route, enabling, now, failures>>
saverVars    == <<push, logs, t, tick, loop, waits, groups, db, failed>>
publisherVars == <<run, conn, amqpChannel, named, unpublished, msg, step, copied,
                   flushing, taken, flushes, published, out, overwritten, panicked, drops>>

allVars == <<part, rabbitVars, pulsarVars, instanceVars, mockVars, kafkaVars, vars,
             healthzVars, saverVars, publisherVars>>

\* What is chosen at the start of a part is fixed when it is another one's turn.
AllInit ==
    /\ part \in Parts
    /\ Rabbit!Init /\ Pulsar!Init /\ RpcInstance!Init /\ Mock!Init /\ Saver!Init
    /\ Publishers!Init
    /\ Kafka!Init /\ (part # "kafka" => ~subscribed)
    /\ Init /\ (part # "consumer" => assigned = {})
    /\ Health!Init /\ pings = IF part = "one" THEN DataBases ELSE {}
    /\ part \in {"one", "two"} \/ (enabling = 1 /\ route = [c \in HealthQueues |-> "sends"])

PartNext ==
    \/ part = "rabbit"   /\ Rabbit!Next
    \/ part = "pulsar"   /\ Pulsar!Next
    \/ part = "instance" /\ RpcInstance!Next /\ OneInstance'
    \/ part = "mock"     /\ Mock!Next
    \/ part = "kafka"    /\ Kafka!Next /\ KafkaBound'
    \/ part = "consumer" /\ Next
    \/ part = "one"      /\ Health!Next /\ OneRequest'
    \/ part = "two"      /\ Health!Next /\ OneSecond'
    \/ part = "saver"    /\ Saver!Next
    \/ part = "publishers" /\ Publishers!Next

\* The variables of the other parts stay as they are.
AllNext ==
    /\ PartNext
    /\ UNCHANGED part
    /\ part = "rabbit"   \/ UNCHANGED rabbitVars
    /\ part = "pulsar"   \/ UNCHANGED pulsarVars
    /\ part = "instance" \/ UNCHANGED instanceVars
    /\ part = "mock"     \/ UNCHANGED mockVars
    /\ part = "kafka"    \/ UNCHANGED kafkaVars
    /\ part = "consumer" \/ UNCHANGED vars
    /\ part \in {"one", "two"} \/ UNCHANGED healthzVars
    /\ part = "saver"    \/ UNCHANGED saverVars
    /\ part = "publishers" \/ UNCHANGED publisherVars

SafetySpec == AllInit /\ [][AllNext]_allVars

-----------------------------------------------------------------------------
(* KafkaConsumer's own invariants hold of the other parts as well: nothing is
   accepted, skipped or committed while one of them runs. *)

\* The type invariants of the parts.
TypesOK ==
    /\ TypeOK
    /\ part = "rabbit" => Rabbit!TypeOK
    /\ part = "pulsar" => Pulsar!TypeOK
    /\ part = "instance" => RpcInstance!TypeOK
    /\ part = "mock" => Mock!TypeOK
    /\ part = "kafka" => Kafka!TypeOK
    /\ Health!TypeOK
    /\ part = "saver" => Saver!TypeOK
    /\ part = "publishers" => Publishers!TypeOK

\* rabbitmq.go: no response is handed to two callers or across instances.
AnswersDistinct == part = "rabbit" => Rabbit!AnswersDistinct

\* rabbitmq.go: a race for pendingPublishes loses or repeats only the messages that
\* were written over.
KeptUnlessRaced == part = "publishers" => Publishers!KeptUnlessRaced

\* kafkaWorker.go, pulsar.go, mqmock.go: a query returns with a response of its
\* own id.
AnswersMatchId ==
    /\ part = "kafka" => Kafka!AnswersMatchId
    /\ part = "pulsar" => Pulsar!AnswersMatchId
    /\ part = "mock" => Mock!AnswersMatchId

\* healthz.go: an answer before the timeout has heard of every check.
NoEarlyAnswer == Health!NoEarlyAnswer

\* healthz.go: a message that comes back makes one request successful at most.
OneSuccessPerMessage == Health!OneSuccessPerMessage

\* asyncrecordsaver.go: a record is in one place only.
InOnePlace == part = "saver" => Saver!InOnePlace

=============================================================================
