------------------------------ MODULE MCProgress ------------------------------
(***************************************************************************)
(* The components with a liveness property, side by side: part says which  *)
(* of them is running, the variables of the others keep their initial      *)
(* values.                                                                 *)
(*   mock      MockMQ; its names are the ones of this module, every query  *)
(*             has an id of its own                                        *)
(*   pulsar    PulsarRPC; all queries share an id their callers chose      *)
(*   instance  PulsarRPCInstance, two goroutines that publish a query and  *)
(*             may both create an instance                                 *)
(*   retried   the same, with one creator, whose connectors may run again  *)
(*   kafka     KafkaRPC; the caller of k1 sets no id                       *)
(*   health    Healthz, one request, a ping, a clock of two seconds        *)
(*   saver     AsyncRecordSaver, two rows in a group                       *)
(*   rabbit    RabbitMQ's Run loop, one message and three faults           *)
(*   replaced  the same with one fault and a replacement                   *)
(***************************************************************************)
EXTENDS MockMQ, FiniteSets

CONSTANTS Parts,
          q1,
          Askers, a1, NoInstance,
          k1, KafkaQueries, NoQuery, NoId, KafkaFaults,
          h1, NoHandler, c1, NoCategory, db1,
          Records, NoRecord,
          Proxies

VARIABLES
    part,
    query, reply, closed, unsent, entries, blocked, deleting, asked, answered,
    working, pendingReplies, replying, repeated,
    publishes, used, registered, connecting, clientSet, runs, connector, again, toConsume,
    subscription, reading, refused, takenDown, gaveUp,
    callers, chan, pool, seen, made, waiting, received, reader, requests,
    responses, subscribed, raced, lost, losses,
    at, todos, cur, categories, parts, still, timer, clears, results, pushes, cache,
    channel, pending, flush, status, link, delivered, worker, consumed, pings,
    route, enabling, now, faults,
    push, logs, t, tick, loop, waits, groups, db, failed,
    run, conn, amqpChannel, named, events, hears, consumers, pendingConsumers,
    pendingPublishes, publishCh, handlers, adrift, done, closing, abandoned, dialedLate,
    consuming, declined, published, waited, sent, unaccepted, dropped, brokerFaults,
    dsnFailed, exchangeType

EachItsOwn == [q \in Queries |-> q]
KafkaId(q) == IF q = k1 THEN NoId ELSE q

Pulsar == INSTANCE PulsarRPC WITH
              Ids <- {q1}, Corr <- [q \in Queries |-> q1],
              MaxRedelivered <- 1,
              client <- query, answer <- reply, disabled <- closed,
              received <- unsent, rpcCallbacks <- entries, senders <- blocked,
              requests <- asked, responses <- answered, redelivered <- repeated

RpcInstance == INSTANCE PulsarRPCInstance WITH
                   DsnMayFail <- TRUE, at <- publishes, client <- clientSet, run <- runs,
                   pending <- toConsume, subscriber <- subscription

\* Both askers and one connector each that runs once, or the other way round.
InstanceBound ==
    IF part = "instance"
    THEN \A a \in Askers : runs'[a] # "reopen" /\ ~again'[a]["first"]
    ELSE \A a \in Askers \ {a1} : publishes'[a] \in {"idle", "publish", "published"}

Kafka == INSTANCE KafkaRPC WITH
             Queries <- KafkaQueries, Ids <- {KafkaId(q) : q \in KafkaQueries} \cup {NoId},
             EmptyId <- NoId, Corr <- [q \in KafkaQueries |-> KafkaId(q)],
             Channels <- 1 .. Cardinality(KafkaQueries), MaxFaults <- KafkaFaults,
             client <- callers, answer <- received, faults <- losses

Health == INSTANCE Healthz WITH
              Handlers <- {h1}, Categories <- {c1}, Pings <- {db1},
              ChannelSize <- 1, MaxSecond <- 2, MaxFaults <- 1, todo <- todos

Saver == INSTANCE AsyncRecordSaver WITH GroupSize <- 2, MaxFailed <- 2

Rabbit == INSTANCE RabbitMQ WITH
              MaxMsgs <- 1, PublishChannelSize <- 1, MaxFaults <- 3,
              ExchangeTypes <- {"direct"}, DsnMayFail <- FALSE, MayReplace <- TRUE,
              channel <- amqpChannel, registered <- consuming, failed <- unaccepted,
              faults <- brokerFaults

pulsarVars   == <<query, reply, closed, unsent, entries, blocked, deleting, asked,
                  answered, working, pendingReplies, replying, repeated>>
instanceVars == <<publishes, used, registered, connecting, clientSet, runs, connector,
                  again, toConsume, subscription, reading, refused, takenDown, gaveUp>>
kafkaVars    == <<callers, chan, pool, seen, made, waiting, received, reader, requests,
                  responses, subscribed, raced, lost, losses>>
healthzVars  == <<at, todos, cur, categories, parts, still, timer, clears, results,
                  pushes, cache, channel, pending, flush, status, link, delivered,
                  worker, consumed, pings, route, enabling, now, faults>>
saverVars    == <<push, logs, t, tick, loop, waits, groups, db, failed>>
\* Three faults, or one and a replacement.
RabbitBound == IF part = "rabbit" THEN closing' = "no" ELSE brokerFaults' <= 1

rabbitVars   == <<run, conn, amqpChannel, named, events, hears, consumers,
                  pendingConsumers, pendingPublishes, publishCh, handlers, adrift, done,
                  closing, abandoned, dialedLate, consuming, declined, published, waited,
                  sent, unaccepted, dropped, brokerFaults, dsnFailed, exchangeType>>

allVars == <<part, vars, pulsarVars, instanceVars, kafkaVars, healthzVars, saverVars,
             rabbitVars>>

\* What is chosen at the start of a part is fixed when it is another one's turn.
AllInit ==
    /\ part \in Parts
    /\ Init /\ Pulsar!Init /\ RpcInstance!Init /\ Health!Init /\ Saver!Init
    /\ Rabbit!Init
    /\ Kafka!Init /\ (part # "kafka" => ~subscribed)
    /\ pings = IF part = "health" THEN {db1} ELSE {}
    /\ part = "health" \/ (enabling = 1 /\ route = [c \in {c1} |-> "sends"])

PartNext ==
    \/ part = "mock"     /\ Next
    \/ part = "pulsar"   /\ Pulsar!Next
    \/ part \in {"instance", "retried"} /\ RpcInstance!Next /\ InstanceBound
    \/ part = "kafka"    /\ Kafka!Next
    \/ part = "health"   /\ Health!Next
    \/ part = "saver"    /\ Saver!Next
    \/ part \in {"rabbit", "replaced"} /\ Rabbit!Next /\ RabbitBound

\* The variables of the other parts stay as they are.
AllNext ==
    /\ PartNext
    /\ UNCHANGED part
    /\ part = "mock"     \/ UNCHANGED vars
    /\ part = "pulsar"   \/ UNCHANGED pulsarVars
    /\ part \in {"instance", "retried"} \/ UNCHANGED instanceVars
    /\ part = "kafka"    \/ UNCHANGED kafkaVars
    /\ part = "health"   \/ UNCHANGED healthzVars
    /\ part = "saver"    \/ UNCHANGED saverVars
    /\ part \in {"rabbit", "replaced"} \/ UNCHANGED rabbitVars

\* The fairness of each component, for the part that is running.
MockFairness ==
    /\ \A q \in Queries : WF_vars(part = "mock" /\ Sending(q))
    /\ \A s \in Instances : WF_vars(part = "mock" /\ Subscribing(s))

PulsarFairness ==
    /\ \A q \in Queries :
           /\ WF_pulsarVars(part = "pulsar" /\ Pulsar!Ends(q))
           /\ WF_pulsarVars(part = "pulsar" /\ Pulsar!Run(q))
    /\ WF_pulsarVars(part = "pulsar" /\ Pulsar!DeleteCallback(q1))

Creating == part \in {"instance", "retried"}
InstanceFairness ==
    \A a \in Askers :
        /\ WF_instanceVars(Creating /\ RpcInstance!Asking(a) /\ InstanceBound)
        /\ WF_instanceVars(Creating /\ RpcInstance!Running(a) /\ InstanceBound)
        /\ \A k \in RpcInstance!Connectors :
               WF_instanceVars(Creating /\ RpcInstance!Connector(a, k) /\ InstanceBound)

KafkaFairness ==
    /\ \A q \in KafkaQueries : WF_kafkaVars(part = "kafka" /\ Kafka!Calling(q))
    /\ \A topic \in Kafka!Topics : WF_kafkaVars(part = "kafka" /\ Kafka!Read(topic))
    /\ WF_kafkaVars(part = "kafka" /\ \E q \in KafkaQueries : Kafka!Answer(q))

HealthzFairness ==
    /\ WF_healthzVars(part = "health" /\ Health!Handler(h1))
    /\ WF_healthzVars(part = "health" /\ Health!Worker(c1))
    /\ WF_healthzVars(part = "health" /\ Health!Run(c1))

SaverFairness ==
    \A r \in Records :
        /\ WF_saverVars(part = "saver" /\ (Saver!PushTest(r) \/ Saver!Loop(r)))
        /\ WF_saverVars(part = "saver" /\ Saver!Tick(r))

Rabbits == part \in {"rabbit", "replaced"}
RabbitFairness ==
    /\ WF_rabbitVars(Rabbits /\ Rabbit!InitRabbitMQ /\ RabbitBound)
    /\ WF_rabbitVars(Rabbits /\ Rabbit!Reconnect /\ RabbitBound)
    /\ WF_rabbitVars(Rabbits /\ Rabbit!OpenChannel /\ RabbitBound)
    /\ SF_rabbitVars(Rabbits /\ Rabbit!RunPublish /\ RabbitBound)
    /\ SF_rabbitVars(Rabbits /\ Rabbit!RunClose /\ RabbitBound)
    /\ SF_rabbitVars(Rabbits /\ Rabbit!RunTick /\ RabbitBound)
    /\ WF_rabbitVars(Rabbits /\ closing # "no" /\ Rabbit!Replace /\ RabbitBound)

FairSpec == /\ AllInit /\ [][AllNext]_allVars
            /\ MockFairness /\ PulsarFairness /\ InstanceFairness
            /\ KafkaFairness /\ HealthzFairness /\ SaverFairness
            /\ RabbitFairness

-----------------------------------------------------------------------------

\* pulsar.go: the queries implement QueryRPC, every one ends.
ImplementsQueryRPC == Pulsar!ImplementsQueryRPC

\* pulsar.go: getRPCInstance returns.
CallsReturn == RpcInstance!CallsReturn

\* pulsar.go: responses are read unless Subscribe failed or a connector is stuck.
ResponsesAreRead == RpcInstance!ResponsesAreRead

\* kafkaWorker.go: a query of which nothing was lost returns.
KafkaQueriesEnd == Kafka!QueriesEnd

\* healthz.go: a request is answered.
RequestsEnd == Health!RequestsEnd

\* asyncrecordsaver.go: every record is inserted, or its Insert failed.
Saved == Saver!Saved

\* rabbitmq.go: every message leaves the instance.
MessagesLeave == Rabbit!MessagesLeave

\* rabbitmq.go: an instance that was replaced stops.
ReplacedStops == Rabbit!ReplacedStops

=============================================================================
