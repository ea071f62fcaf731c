# gocom in TLA+

`gocom` is a Go library of service components: message queue drivers behind one interface
(`mq/`), in-memory queues (`queues/`), an ORM layer (`orm/rdbms`), a micro-service frame
(`microsvc/`) and adapters for external services. This directory models the parts whose
correctness depends on the order of events, checks them with TLC on small instances and
proves the central invariants with TLAPS.

`PROJECT.json` lists the components, the runs, the lines each definition models, the
hazards and the theorems.

## Inventory

| Component | State | Operations | Interacts through | What is hard | What makes it correct |
|---|---|---|---|---|---|
| `queues.OrderedQueue` | a slice sorted by `OrderingValue`, a mutex | Add, Pop, PopMany, Remove, GetOne, CutBefore, CutAfter, readers | calls under the mutex | the bisection's bounds, equal ordering values, panics with the mutex held | sorted after every operation; every search ends; Remove removes what it was given |
| `mq/rabbitmq` connection loop | connection, channel, queue description, consumers, two pending lists, event channels | `InitRabbitMQ`, `Run`, `initConn`, `close`, `ensureQueue`, `publish`, `consume` | Go channels `Publish`, `Consume`, `Done`, `Close`; events of the AMQP library | any order of faults and events, events of an old connection, replacement by another goroutine | nothing lost or stuck, order kept, consumers resumed, stops when told |
| `mq/rabbitmq` queries | `rpcCallbacks`, `rpcResponseChannel`, one delivery worker | `QueryRPC`, `publish`, `handleRPCCallback`, `handleConsumeCallback` | a shared channel, the broker | timeouts racing late answers, overlapping callers | a query ends once, with the answer to itself |
| `mq/pulsar` queries | `rpcCallbacks`, `pendingReplies`, a response channel per query | as above, a goroutine per message | maps under mutexes, the Pulsar service | check-then-act in concurrent callbacks, duplicates, losses | as above |
| `mq/pulsar` connection loop | client, producers, consumers, pending lists | `Run`, `init`, `ensureProducer`, `ensureConsumer` | Go channels | failed initialisation, pending work | pending work is picked up |
| `mq/mockmq` | a queue per topic: subscribers, retained messages; waiting response topics | Subscribe, Send, publish, bindToOnMessage, bindToReplyMessage | callbacks in the goroutine of the caller, a goroutine per response | check-then-append without a lock, replays under a lock | a query ends once and is answered by its own id |
| `mq/kafka` | per topic the running flag, the offset and a cancel function; a pool of response channels, waiting queries | Receive, StopConsumer, Send, reply, onMessage | kafka-go readers, the consumer group, Go channels of a pool | an offset per topic for many partitions, restarts, a pool and maps without a lock | a message is handled once and skipped for a reason only; an answer reaches its query |
| `mq` registry | instances and routes by category | InitMQTopic, PublishMQ, QueryMQ, ConsumeMQ | the drivers | initialisation order | dispatch to the right driver |
| `queues.FIFOQueue` | a slice, a mutex | Push, Pop, PopMany, Remove, cuts | calls | cuts at boundaries | first in, first out |
| `orm/rdbms` | engines; caches that are written and never read | fetch, save, delete | database | nothing: the reads of the caches are commented out | rows as in the database |
| `microsvc` | tables of handlers, filters, observers filled at start-up; counters of the login verifier | one request through filters, delegates, handler and observers in one goroutine | `mq`, HTTP | nothing shared between requests but tables | one reply per request |
| `microsvc/builtinmodels` | `AsyncRecordSaver`: collected records, a ticker | Push, the loop that inserts what was collected | a mutex on the slice only, the database | several loops on one ticker | every record is inserted once |
| `healthz` | per request the checks that are out and their results; one table of handlers per second | `GET /healthz`, the consumers of the health queues | RabbitMQ instances, unbuffered channels, a two seconds timer | late and duplicate results, requests of one second, a Run that waits for the request | a request is answered, not before everything was heard of, or by the timer |
| `httpnotifier`, `netutils/sshtunnel`, `utils.Timer` | headers; a pair of connections per accepted one; a ticker nobody starts | a request, copying, ticks | HTTP, TCP | little | out of scope, see below |
| `caching`, `mongodb`, `httpclient`, `soapclient`, `oauth`, `dbutils`, `config`, `logger`, `validator`, `definations`, `application`, `cmd/goormctl`, scaffolds, autodocs, serializers | none that matters here | I/O, formatting, parsing, code generation | libraries | nothing concurrent of their own | not modelled |

## Modules

**`OrderedQueue`** (`queues/orderedqueue.go`). `queue`, the mutex `m`, and the locals
`cur` of the operation that holds the mutex. Add, Remove and GetOne bisect: taking the
lock (`BeginSearch`), one loop iteration (`SearchStep`) and what the operation does with
the index (`FinishAdd`, `FinishRemove`, `FinishGetOne`) are separate steps, so the loop
invariant of `findOrderedQueueInsertingIndex` is a state invariant. The other operations
are single steps under the lock. An index beyond the end makes the two cut operations
slice out of range; the panic leaves the mutex locked (`m = "dead"`).

**`RabbitMQ`** (`mq/rabbitmq/rabbitmq.go`, the connection loop). One instance with its
`Run` goroutine. `run` is Run's place in its loop: before `InitRabbitMQ`, at the head of
the loop without a connection, or in the select. Every case of the select is an action
with everything the handler does before the next select, including the `close()` or the
`ensureQueue` with its `ensurePendings`. `conn`, `channel` and `named` are `r.Conn`,
`r.Channel` and whether `r.queueInfo` has a name; they change independently in the code
(the tick forgets the connection and not the channel, for one). `handlers` are the
`handleConsumes` goroutines of the current channel and `done` counts those of any channel
that are blocked on `r.Done`. `exchangeType` is chosen at the start and never changes: a
fanout exchange declares its queue for a consumer only, so a message that finds a channel
goes out before others that still wait for one (`waited`). `Broker` is the AMQP library
and the broker (external): connections drop, channels are closed, consumers cancelled.
`InitRabbitMQ` for another configuration calls `close()` in the goroutine of its caller,
without a lock, so it is taken apart at its tests and uses of `r.Channel` and `r.Conn`
(`ReplaceClears` to `ReplaceForgetsConn`), before `ReplaceSignals`; `closing` is its
place. It meets `initConn`, which is two steps: `Dial` sets `r.Conn`, `OpenChannel` does
the rest, on the connection it dialled even when `r.Conn` is nil by then. `abandoned` says
that an open connection was forgotten by `r.Conn = nil`, `dialedLate` that one was dialled
between `close()`'s test of `r.Conn` and that. A field that becomes nil between a test and
its use is a panic (`run = "panic"`), in either goroutine. `adrift` counts the
`handleConsumes` goroutines of a channel that `r.Channel` no longer is, `hears` says
whether the select still receives from the event channels. `declined` are consumers that
`consume` turned away because `ensureQueue` failed. Message contents, headers and names
are abstracted to the number of the message; proxies all ask for the instance's own queue.

**`QueryRPC`**. The abstract specification of a query: asked once, ends once, with a
timeout or with an answer to a request of its correlation id.

**`PulsarRPC`** (`mq/pulsar/pulsar.go`, the query path). Callers, the publishing side of
Run, `handleRPCCallback` in a goroutine per response split at its lookup with the test of
`CallbackEnabled`, its blocking send, which a disabled entry skips (`SkipSend`), and its
delete, and the answering consumer with `pendingReplies`. A reply is decided on (`Reply`,
`CallbackReplies`) and published (`PublishReply`) in two steps, as the mark in
`pendingReplies` and the publication are in the code; a callback may reply itself and
return a response as well. The Pulsar service (external) loses messages and redelivers
requests. `ImplementsQueryRPC` is the refinement; the mapping is the identity on `client`
and `answer`.

**`PulsarRPCInstance`** (`getRPCInstance` of the same file). Goroutines that publish a
query find the rpc instance of the connection, or create it: `init`, `consume` of the
response queue, registration, and the wait for `Ready`, at most five seconds, while the
connector of the new instance dials, takes the pending consumer, subscribes it and says so
on the unbuffered `Ready`. `Run` of the new instance may see neither `connecting` nor a
client and reopen: it makes a subscribed proxy pending, closes its consumer
(`RunTakesDown`) and starts a second connector, whose `Subscribe` is followed by a `Ready`
that nobody may receive any more. A connector that found a tick left in its ticker
connects once more (`ConnectAgain`). Two goroutines may both create an instance; the later
registration stays.

**`PulsarMQ`** (`mq/pulsar/pulsar.go`, the connection loop). Here `init` starts a
goroutine (a connector) that opens the client, sets it and flushes the pending lists, next
to `Run`, next to consumer callbacks that call `publish`, next to `InitPulsarMQ` closing
the instance from its caller's goroutine. `publish` and `consume` have the same shape, so
one set of actions serves both: the test of `r.client` (`BeginCall`), then `AppendPending`
or `Send`/`Subscribe`; a client that went away in between is `NilClient`, a panic. `call`
is the call each goroutine is in, `flush` a connector's copy of a list, `at` its place;
`connecting` is reset one step before `client` is set, as in the code. `tick` is a tick
left in the stopped ticker. The client is only nil or not. When `Run` reopens, it walks
over `r.consumers` and closes each over the network (`RunClosesConsumer`), with the mutex
of the pending list but not with the one under which `ensureConsumer` inserts, and then
makes a new map (`RunForgetsConsumers`): `due` are the topics the walk has to meet,
`walked` those it has met, `late` those that were inserted during it. An insertion may
also make the runtime end the process ("concurrent map iteration and map write",
`MapFault`). `close()` of a replacement is `ReplaceResets` and `ReplaceForgetsClient`,
around the closing of the client. `Run`'s case for `Done` is left out, as nothing sends on
it, and its own `close` is one step, as it is at its select then.

**`RabbitRPC`** (`mq/rabbitmq/rabbitmq.go`, the query path). As `PulsarRPC`, but all
callers of an instance receive from one `rpcResponseChannel`, and a single worker handles
the responses of a connection, one after the other. `overlapped` is a history variable.

**`RabbitPublishers`** (the same file). In `RabbitMQ` only Run publishes. Here the
delivery worker, which publishes what a callback returned, does too, and every access to
what the two share is a step: the test of `r.Channel`, the read and the write of `append`,
the test of `queueInfo`, `ensureQueue`, the copy and the reset in `ensurePendings`, the
use of the channel, and the steps of Run that close and reopen the connection. `msg` and
`step` say where each call of `publish` is, the goroutine's own or the one of its flush;
`raced` are the messages that the other goroutine appended or took between the read of a
list and its write (`Changed`), `crashed` says that a method of a nil channel was called.
The list is a set, as `InOrder` is about the order.

**`KafkaConsumer`** (`mq/kafka/consumer.go`). The goroutine of `Receive` for one topic:
the test of `running`, the new context, ReadMessage, the test of the offset, the callback;
`StopConsumer` in two steps from another goroutine. The reader, the group that moves
partitions, the commits once a second and restarts of the process are external.

**`KafkaRPC`** (`mq/kafka/kafkaWorker.go`). `Send` with a reply takes a channel from the
pool or makes one, registers it, waits and gives it back; `onMessage` of the reader of
each topic finds the entry, deletes it and sends. No lock anywhere, so each slice is read
and stored in two steps. The broker loses and repeats messages.

**`MockMQ`** (`mq/mockmq/mqmock.go`). `publish` runs the callbacks of the subscribers in
the caller's goroutine (`client` is its place in the loop), `Subscribe` runs next to it
under the lock `m1`, which its replay of retained messages takes again. `Promise` is
`QueryRPC` with the places in `publish` mapped to waiting.

**`Healthz`** (`healthz/healthz.go`). Each request's `handlerHealthz`: publishing a
message per category and registering its key in two steps, the loop over results, trigger
and timer, Remove and Clear; the goroutines that push results; the worker that looks a
handler up and evicts it; and `Run` of each category's RabbitMQ instance, reduced to its
channel, its pending list, its connection and the send on `PublishStatus`. `pings`, the
data bases and cachers that are configured, `route`, what `PublishMQ` does for a category
(it sends, it returns an error and the key is registered all the same, or there is no
route and no key), and `enabling`, the second until which `SetDelayCheckNetworking` has
every request answered at once (`at = "excused"`), are chosen at the start and never
change.

**`AsyncRecordSaver`** (`microsvc/builtinmodels/asyncrecordsaver.go`). A goroutine per
Push, the loop that each may start, the ticker and what a loop has taken out of the list.
`Insert` is that of `orm/rdbms/index.go`, which opens no transaction: the rows before the
one that fails stay inserted, that one and the rest are lost (`failed`), as `persistLogs`
drops the error.

**`MCServices`** runs the components that share no state side by side: `part` says which
one is running, and the variables of the others keep still, so that its state space is the
sum of theirs. **`MCProgress`** does the same for those with a liveness property, under
their fairness. The first extends `KafkaConsumer`, the second `MockMQ`, whose properties
they check as they stand; a property of another part has a wrapper of the same name.
`Healthz` runs as two parts: "one" has one request and a ping, "two" has two requests in
one second and no ping. In `MCProgress`, `PulsarRPCInstance` runs as "instance", with two
creators and one connector each, and as "retried", with one creator whose instance reopens
and whose connectors may connect again; `RabbitMQ` as "rabbit", with three faults, and as
"replaced", with one fault and a replacement, both with a direct exchange and good DSNs.
**`MCOrderedQueue`, `MCPulsarMQ`, `MCRabbitRPC`** give values to the constants; the runs
of `RabbitMQ`, `Healthz` and `PulsarRPCInstance` need none but their cfg.
**`OrderedQueueProofs`, `RabbitMQProofs`, `RabbitPublishersProofs`, `RabbitRPCProofs`,
`PulsarRPCProofs`, `PulsarMQProofs`, `MockMQProofs`, `ServicesProofs`** hold the theorems;
the last is about `KafkaConsumer`, `KafkaRPC`, `Healthz`, `AsyncRecordSaver`, the types of
`PulsarRPCInstance` and the composition in `MCServices`, and takes the inductive steps of
the other components from an INSTANCE of their proof modules.

Definitions marked "Mutant" are faulty variants of the definition that follows them;
`PROJECT.json` pairs each with the property it must break.

## Runs

| Run | Shows |
|---|---|
| `ordered_queue` | Sorted slice, the loop invariant of the bisection and its termination; Remove finds an element if the ordering values differ |
| `ordered_queue_remove_by_id` | Violation: Remove misses an element among three of one ordering value |
| `ordered_queue_cuts` | Violation: inside the queue CutBefore cuts everything, CutAfter nothing |
| `rabbitmq_loop` | Direct and fanout exchanges, with faults, failing DSNs and a replacement: consumers only on the open channel, nothing left pending, messages at most once and in order (a fanout exchange lets a message that found a channel overtake others that wait), the last consumer kept until a replacement, a stopped instance closed unless a connection was dialled within `close()` |
| `rabbitmq_settles_down` | Violation: after one fault the instance closes and reopens its connection for ever |
| `pulsar_mq_loop` | Run, two connectors, a callback and a replacement in every interleaving: each message handled once, a topic keeps its consumer (or its subscription failed, or met Run's replacement of the map), a client is always on its way, a nil client is used only by a replaced instance; messages leave unless stranded |
| `pulsar_mq_stranded` | Violation: a message appended after the connector took the list stays there |
| `rabbit_rpc_one_at_a_time` | Violation: after a timeout the next query returns the late response |
| `components` | Safety of the parts of `MCServices`: RabbitMQ queries hand no response out twice or across instances; Run and the delivery worker keep every message but those written over in the pending list; the answers of Pulsar, Kafka and the mock driver match ids; a Kafka process handles a message once, skips it for a reason only, loses one at most per restart and calls back once at most after StopConsumer; health checks that are not excused answer neither early nor with a success too many; a record is in one place, also when an Insert fails half-way |
| `components_progress` | The parts of `MCProgress`: the mock driver keeps the safety of `QueryRPC` and leaves no goroutine behind; Pulsar queries implement `QueryRPC` with its liveness, `getRPCInstance` returns and responses are read unless Subscribe failed or the last connector is left on `Ready`; mock and Kafka queries, subscriptions and health requests end; every record is saved or its Insert failed; a message handed to a RabbitMQ instance leaves it, and a replaced instance stops |
| `healthz_resumes` | Violation: after an outage longer than a health check, Run blocks for ever on the status of a request that was answered |
| `pulsar_rpc_instance` | Violation: a request goes out before its response's consumer is subscribed |

Bounds. `MaxLen = 4` with four elements, two of equal ordering value, gives every position
and every shape of window in the bisection (three equal elements are enough for the miss).
Two faults, two proxies and two messages allow a fault during the recovery from another or
within a replacement, a second consumer in between, and messages in the channel, the
pending list and the connection at once; an instance is replaced once. Two connectors are
what the window between `connecting` and `client` gives, a second one while the first is
at work; two topics of one proxy each let a subscription arrive in the walk over the
other's consumer, and one message that Run or a callback publishes puts work into each
list, copy and hand. The constraint `OneOrReplaced` of that run leaves out the states in
which both proxies were handed over and a replacement began: a replacement meets one
proxy. `PublishesLeave` excepts a message that is left in the pending list with nobody to
flush it; as the run has one message, that is the message itself.

In `MCServices` and `MCProgress`: three queries and one redelivery give a duplicate
response that meets a timeout, a later query or a query under the same id (two of
RabbitMQ's share an instance; two of Pulsar's and of the mock driver's share an id; in the
progress run Pulsar's share one, so that the matching of ids says nothing there and is
checked in `components`, and the mock driver's have their own). Two goroutines suffice to
create two rpc instances, two instances to subscribe at once to a mock topic. Three Kafka
queries, two of which share the empty id, meet in the pool and in the map; one fault loses
or repeats a message in between, unless the worker reads the service topic as well
(`KafkaBound`). Two partitions of two messages let the offset of one hide a message of the
other, and one fault is a restart, a rebalance or a failed read. One health request with a
ping, a two seconds clock and one broken connection has every result come before and after
the timer, or is excused; two requests in one second share the key. Only `components` has
two: in the progress run `RequestsEnd` is about one request, which no other can have left
with a Run that is stuck. Three records in groups of two need two Inserts and may start
two loops. One message of a client, two of callbacks and two faults put messages into the
list, a copy and both goroutines' hands while Run reconnects. The progress run has two
queries and records. `MaxConnectors`, `MaxFaults`, `MaxMsgs`, `MaxRedelivered`,
`MaxSecond`, `MaxFailed` and `MaxLen` are the only bounds that are not in the code;
`GroupSize` is 100 there. The theorems hold for each value of them.

Deadlock is not checked: a queue whose mutex is lost, a stopped instance and a set of
queries that have all ended really do stop.

Fairness. Go runs every goroutine that can run, so the steps of `Run`, of the workers and
of a search that holds the mutex are weakly fair. `select` picks at random among the ready
cases, so a case that is ready again and again is taken: strong fairness for the cases of
Run's select. Timers fire: weak fairness for timeouts. Nothing is assumed of the broker,
of the clients or of the consumer's callback, except that dialling, which is retried every
second, succeeds in the end. In `PulsarMQ` the connectors and the calls that are under way
are weakly fair, and Run needs no fairness of its own. `RabbitMQ` has the strong fairness
in `FairSpec` only, for `rabbitmq_settles_down`; `Spec` asks for less. In `MCProgress`
each goroutine of the part that is running is weakly fair: callers, readers, connectors
and loops go on, timers and tickers fire, NewClient and Subscribe return, a Kafka service
answers what reaches it. New queries, health requests and subscriptions need not come, and
nothing has to fail or to recover.

## Findings

* `Remove` and `GetOne` look at three places around the insertion point only.
* `CutBefore` and `CutAfter` compare the length with the index the wrong way round.
* A `Done` of the previous connection's consumer makes Run close the new connection. The
  resumed consumer then does the same, and the instance never settles.
* Pulsar's `publish` and `consume` test the client before they lock the pending list; a
  message or a consumer appended after the connector took the list is never picked up.
* Over RabbitMQ the shared `rpcResponseChannel` hands a late response to the next query.
* Run sends the status of a publication on an unbuffered channel. A health check's message
  that waited for the connection longer than its request finds no receiver any more, and
  Run never returns to its select.
* Pulsar's `getRPCInstance` waits for the subscription so that no request precedes it, but
  for five seconds only, and only the goroutine that creates the instance.

Further exposures, of which no comment of the code says otherwise. The models have them,
and the properties name them as exceptions; no property of a run fails because of them.

* RabbitMQ, two publishers: when the delivery worker and Run write `pendingPublishes` at
  once, a message that one of them appended or took meanwhile is lost or goes out twice
  (`raced` in `KeptUnlessRaced`); one the worker appends after Run's flush waits for the
  next. The runs also reach a call on a channel that the other goroutine has set to nil.
* RabbitMQ, fanout: messages that wait for a channel are overtaken by those that find one,
  and wait until a consumer comes (`InOrder`, `MessagesLeave`). A consumer whose queue
  cannot be declared is dropped, with the connection (`LatestConsumerKept`).
* RabbitMQ, replacement: `close()` in the caller's goroutine may set to nil a connection
  that Run dialled meanwhile, which then is closed by nobody (`dialedLate` in
  `StoppedIsClosed`), may close what Run has just opened, and may panic on a field that
  Run sets to nil, or make Run panic.
* Pulsar, reopening: a consumer that is subscribed while Run closes those of the last
  client is lost with the old map (`late` in `TopicKeepsConsumer`), or the runtime ends
  the process.
* Pulsar, rpc instance: a connector whose `Ready` nobody receives any more, as the creator
  gave up or has heard of an earlier one, blocks before it starts to read responses
  (`StuckOnReady` in `ResponsesAreRead`). A refused subscription is not repeated.
* Pulsar queries: a second query under an id that waits is not registered and times out;
  of the responses of a callback that both replies and returns one, either may be the
  answer.
* Kafka: two goroutines in `Send` may take one channel of the pool (`raced`); `Send` waits
  for ever when its request or its response is lost (`lost` in `KafkaQueriesEnd`); a
  message with a smaller offset of another partition, or message 0 after a failed read, is
  skipped (`SkippedForAReason`).
* The mock driver: a message published while a topic gets its first subscriber is retained
  and not delivered; a subscriber of a topic with retained messages waits for its own lock
  for ever (`Stuck` in `QueriesEnd`); a second instance that subscribes to a topic is
  taken for the first.
* `healthz`: of two requests of one second the worker may remove one that the other
  registered, which then is told "timeout" although its message came back; a refused
  message is reported as failed and its request waits for the timeout all the same; an
  excused request is told "Ok".
* `AsyncRecordSaver`: an Insert that fails half-way leaves part of the group in the data
  base.

Eleven of the hazards `PROJECT.json` lists have no property, and say so with the reason.
Two need parts that are not modelled (RabbitMQ's `getRPCInstance`, the registry of
instances); the others are exposures of this list in which the code does what a property
would have to deny, though nothing written in the repository denies it.

## Proofs

All theorems hold for every value of the constants, under the named assumptions in the
modules (`ASSUME`, or the hypothesis `Constants` of the theorems): bounds are naturals,
flags Boolean, proxies finite, ordering values integers, the values that stand for no
query, message or partition are none, messages, proxies and goroutines are distinct.

* `OrderedQueueProofs`: `AlwaysSorted`, `BisectionCorrect`, `TypeCorrect`, `RemoveFinds`.
  The inductive invariant is `TypeOK /\ Sorted /\ BisectionOK`: the slice stays sorted
  because the index the loop stops at separates the smaller from the larger elements, and
  the loop keeps that because the slice is sorted; neither is inductive alone.
  `RemoveFinds` is the action property: with one element per ordering value, the index the
  loop stops at is the element's own.
* `RabbitMQProofs`: `TypeCorrect`, `HandlersCorrect`, `NeverStranded`, `OrderKept`,
  `LatestKept`, `StoppedClosed`. `NothingStranded` needs `LoopInv`: Run connects only
  without a connection, a channel that is open meanwhile belongs to an abandoned one, all
  consumers are pending by then, a fanout queue is declared only with a consumer to
  resume, and with a channel Run waits with a declared queue. It also shows that `publish`
  never has to declare the queue itself while there is a connection, which is why
  `RunPublish` has no such case. `OrderKept` needs `InLine`: of what was sent, is pending
  and is still in Go's channel any two messages are in order, or (`Loose`) only the later
  one ever waited, and what is pending waited. `StoppedClosed` needs `StoppedInv`: a
  connection that is open when `close()` sets `r.Conn` to nil was dialled after its test,
  and Run stops only when `close()` is over.
* `PulsarRPCProofs`: `TypeCorrect`, `MatchesId`, `Refinement`. The invariant `IdInv`
  follows an id through the system: the entries of `rpcCallbacks` sit under their own id,
  hence a blocked goroutine holds a response of its caller's id, hence an answer has it.
  `Refinement` is the safety part of `ImplementsQueryRPC`.
* `PulsarMQProofs`: `TypeCorrect`, `NoPanic`, `AlwaysConnecting`,
  `NeitherLostNorRepeated`, `TopicsKept`. `UseInv` says that a goroutine past the test has
  a client unless the instance was replaced: connectors only ever set the client, and
  close() runs only for a replacement. `WayInv` is `ClientOnItsWay` for each place of
  Run's loop. `OnceInv` counts a message in the channel, the pending list, the copy of
  each connector and each call at once, and needs `CallInv` for what a goroutine holds at
  each of its places; `Kept` finds the consumer of a topic in the same places, and needs
  `WalkInv`: what is in the map during Run's walk was there at the beginning or came late,
  and what was met is pending, for Run holds the list.
* `RabbitPublishersProofs`: `TypeCorrect`, `MessagesKept`. `KeptUnlessRaced` needs
  `FrameInv` (a call of publish has a message exactly while it is under way) and
  `KnownInv` (what is listed, copied or read was accepted). Every step then moves a
  message from one place to another (`Moves`) or leaves it (`Stays`): but for the messages
  in `raced`, the list that is written is the list that was read.
* `RabbitRPCProofs`: `TypeCorrect`, `AnswersCorrect`. `PublishInv` says that a query in
  the publish channel is there once, not registered yet and nobody's answer; `EntryInv`
  that an answered query is registered only as long as the worker is about to delete it,
  so no response is handed over again.
* `MockMQProofs`: `TypeCorrect`, `Refinement`, `SendersCorrect`, `MatchesId`. `IdInv`
  follows ids as in `PulsarRPC`; `SenderInv` says that the goroutine for a query's channel
  exists only after its entry was deleted. `Refinement` maps every place in `publish` to
  waiting.
* `ServicesProofs`, of the Kafka consumer: `TypeCorrect`, `HandledOnce`, `SkippedCorrect`,
  `StopCorrect`, `RestartLosesOne`. `OffsetInv` is the first two properties with `LastInv`
  (`OffsetDict` is the offset of the last message that passed) and `FetchInv` (between the
  committed offset and the reader's position nothing of a partition was left out).
  `StopInv` allows the one round that StopConsumer could not reach. `LostInv` bounds the
  messages that are neither handled nor skipped nor still to be read by the restarts.
* `ServicesProofs`, of the composition: `RabbitAnswers`, `PublishersKeepMessages`,
  `QueriesMatchIds`. A step of `MCServices` is a step of one part that leaves the
  variables of the others alone (`PartSteps`), so an inductive invariant of a part is one
  of the composition; the lemmas named `...Same` say that it does not depend on the rest.
  `AnswersMatchId` of `KafkaRPC` rests on `KafkaInv`: as long as no slice was written over
  and nobody shares an id, `PoolInv` (a channel is in the pool once, and free), `HoldInv`
  (a waiting query holds a channel of its own) and `LookupInv` (the channel a reader is
  about to send on is the one of the query whose entry it deleted).
* `ServicesProofs`, of `Healthz`: `HealthTyped`, `NoAnswerTooEarly`, `OneSuccessEach`.
  `HeardInv` says that what a request waits for and has not heard of is with a goroutine,
  a Run or a message on the way, `PartsInv` who can still send which result, and
  `CountInv` that these and the successes heard are one per check. The constants' queues
  and data bases are disjoint, as `healthz.go` gives their keys different prefixes.
* `ServicesProofs`, of `AsyncRecordSaver`: `RecordsInOnePlace`, for every `GroupSize` but
  zero. `GroupsInv` says that a loop has groups exactly while it inserts, `PlacesInv`
  where the rows of the list, of the groups, of the data base and of failed Inserts are,
  without counting: each list has a row once and no two share one. What `persistLogs`
  makes of the rows it took is a recursive function of the rounds of its loop. `RoundInv`
  is the invariant of that loop (the first `off` rows are in full groups, the others in
  the one being filled, which has room for the rest); that it holds after every round, and
  that the recursion has a value at all, follow from the smallest round that would be an
  exception (`SmallestNumber`), with no induction theorem.
* `ServicesProofs`, of all parts: `AllTyped` is `TypesOK`. It needs `KafkaMade`: a channel
  in the pool, in the map or in a caller's or a reader's hand was made, and a channel is
  made by a caller that begins, which each does once, so there are as many as callers at
  most.

Every safety property the passing runs check is a theorem. Only model-checked is liveness,
and the refinement's liveness, as the proof system does not reason about fairness here:
`SearchTerminates`, `MessagesLeave`, `ReplacedStops`, `PublishesLeave`, `QueriesEnd`,
`CallsReturn`, `ResponsesAreRead`, `KafkaQueriesEnd`, `SubscribersReady`, `RequestsEnd`,
`Saved` and the fairness in `ImplementsQueryRPC`, whose safety is `Refinement` of
`PulsarRPCProofs`.

## Plan

1. RabbitMQ's `getRPCInstance`, next to `PulsarRPCInstance`, with `amqprpc.go` and the
   instance that is registered although its DSN failed.
2. The goroutine of Pulsar's `handleConsumes`, which goes on reading a closed consumer.
3. `KafkaRPC`: what a concurrent map write does, and the topics `sendOpenChannel` opens.
4. Proofs of the safety of what 1 to 3 add.

## Not modelled

Formatting, logging, parsing of configurations, SQL and GraphQL generation, HTTP and
database I/O. The bundles of Swagger UI under `microsvc/autodocs/swagger` are minified
third-party code, the only JavaScript of the repository; the program is the Go code, and
the map names lines of Go only.

* RabbitMQ: `close()` by Run itself is one step (a replacement's, next to it, is not), as
  is `ensureQueue`; a second replacement of the same instance; the tracker queue (an extra
  message per publication), queue names and the deletion of an old auto-delete queue (dead
  code, as `copy` clears `lastName` just before it is tested), `CheckQueueConsumers`,
  which only asks the broker, `amqprpc.go`, and the creation of rpc instances.
  `RabbitPublishers` leaves out consumers, fanout exchanges and failing DSNs, which are in
  `RabbitMQ`, and takes `close` as one step.
* Kafka: producers, the opening of topics, gRPC, and the crash that Go's runtime makes of
  concurrent writes to a map; slices that race are modelled as a read and a store.
* `Healthz`: what is done under one lock is one step; a caller that waits because
  `r.Publish` is full is not modelled, nor what else uses a Run that is stuck.
* `orm/rdbms`: its caches are written only, as every read of them is commented out.
* `queues.FIFOQueue`: single steps under one mutex, without a search.
* `microsvc`: a request runs in one goroutine, and the tables it reads are filled at
  start-up. The login verifier's counters and black list are left out.
* `utils.Timer` is used by its unit test only; `httpnotifier` sends one request and keeps
  nothing but headers; `netutils/sshtunnel` copies bytes between connections.
