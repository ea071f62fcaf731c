------------------------------ MODULE RabbitMQ ------------------------------
(***************************************************************************)
(* mq/rabbitmq.RabbitMQ: one instance, its Run goroutine, the clients that *)
(* publish and consume through it, and the AMQP library it talks to.       *)
(*                                                                         *)
(* Run loops: with no connection it reconnects (initConn, synchronously,   *)
(* so r.connecting is FALSE whenever the loop looks at it), then it waits  *)
(* in a select for a message to publish, a consumer to start, an event of  *)
(* the connection or the channel, the end of a consumer's deliveries       *)
(* (Done), the Close signal or the two-second tick.                        *)
(*                                                                         *)
(* Messages are numbered in the order clients hand them to r.Publish.      *)
(* Every proxy asks for the instance's own queue, so r.consumers, a map    *)
(* from queue names, holds at most one of them.                            *)
(*                                                                         *)
(* InitRabbitMQ with another configuration calls close() on the instance   *)
(* from the caller's goroutine, without a lock: its reads and writes of    *)
(* r.Channel, r.Conn and the event channels are steps of their own between *)
(* those of Run.  Run itself is interrupted between setting r.Conn and     *)
(* opening the channel; its own close() is one step.                       *)
(***************************************************************************)
EXTENDS Integers, Sequences, FiniteSets

CONSTANTS Proxies,              \* the RabbitConsumerProxy values clients register
          MaxMsgs,              \* bound: how many messages are published
          PublishChannelSize,   \* capacity of r.Publish
          MaxFaults,            \* bound: how often the broker misbehaves
          ExchangeTypes,        \* Config.ExchangeType is one of these
          DsnMayFail,           \* formatConnectionDSN can fail (an SSH tunnel is used)
          MayReplace            \* InitRabbitMQ may be called with another config

ASSUME ProxiesAssumption == IsFiniteSet(Proxies)
ASSUME BoundsAssumption ==
    MaxMsgs \in Nat /\ PublishChannelSize \in Nat /\ MaxFaults \in Nat
ASSUME FlagsAssumption ==
    DsnMayFail \in BOOLEAN /\ MayReplace \in BOOLEAN

VARIABLES
    run,                \* where Run is: "init" (not started), "top" of its loop
                        \* (about to reconnect), "dialed" ("initDialed" on behalf
                        \* of InitRabbitMQ): r.Conn is set, the channel is not,
                        \* in "select", "stopped", "dead": init failed and Run is
                        \* never started, or "panic": the process is gone
    conn,               \* r.Conn: "nil", "open", or "closed" (IsClosed())
    channel,            \* r.Channel: "nil", "open" or "closed"
    named,              \* r.queueInfo.name # ""
    events,             \* the event channels that are ready to be received from
    hears,              \* whether Run receives from them: "yes", "thisRound" (the
                        \* fields were set to nil, the select it is in goes on with
                        \* the channels it was entered with) or "no"
    consumers,          \* the values of r.consumers
    pendingConsumers,   \* r.pendingConsumers
    pendingPublishes,   \* r.pendingPublishes
    publishCh,          \* the buffer of r.Publish
    handlers,           \* proxies with a handleConsumes goroutine on r.Channel
    adrift,             \* handleConsumes goroutines on a channel that r.Channel no
                        \* longer is, and that nobody closed
    done,               \* handleConsumes goroutines blocked on r.Done
    closing,            \* InitRabbitMQ replacing this instance: "no", the places
                        \* inside close(), "closed" (close() has returned), then
                        \* "signalled"
    abandoned,          \* r.Conn was set to nil while the connection was open, which
                        \* is closed later only if its channel cannot be opened
    dialedLate,         \* Run dialled between close()'s test and its r.Conn = nil
    registered,         \* proxies handed to r.Consume, in this order ...
    declined,           \* ... except those whose consume had no queue
    published,          \* how many messages were handed to r.Publish
    waited,             \* messages that ever were pending
    sent,               \* messages Channel.Publish accepted, in this order
    failed,             \* messages whose Channel.Publish returned an error
    dropped,            \* messages publish returned from before trying
    faults,             \* faults so far
    dsnFailed,          \* whether formatConnectionDSN ever failed
    exchangeType        \* Config.ExchangeType, which never changes

linkVars     == <<conn, channel, named>>
connVars     == <<linkVars, events, hears>>
consumerVars == <<consumers, pendingConsumers, handlers>>
doneVars     == <<done, adrift>>
msgVars      == <<pendingPublishes, waited, sent, failed, dropped>>
clientVars   == <<publishCh, published, registered, declined>>
replaceVars  == <<closing, abandoned, dialedLate>>
faultVars    == <<faults, dsnFailed, exchangeType>>
vars == <<run, connVars, consumerVars, doneVars, msgVars, clientVars, replaceVars, faultVars>>

Msgs   == 1 .. MaxMsgs
Events == {"connClosed", "channelClosed", "channelCancel"}

Init ==
    /\ run = "init"
    /\ conn = "nil" /\ channel = "nil" /\ named = FALSE /\ events = {} /\ hears = "no"
    /\ consumers = << >> /\ pendingConsumers = << >> /\ handlers = {}
    /\ pendingPublishes = << >> /\ waited = {}
    /\ sent = << >> /\ failed = {} /\ dropped = {}
    /\ publishCh = << >> /\ published = 0 /\ registered = << >> /\ declined = {}
    /\ done = 0 /\ adrift = 0
    /\ closing = "no" /\ abandoned = FALSE /\ dialedLate = FALSE
    /\ faults = 0 /\ dsnFailed = FALSE
    /\ exchangeType \in ExchangeTypes

Fault == faults < MaxFaults /\ faults' = faults + 1 /\ UNCHANGED <<dsnFailed, exchangeType>>

\* Config.IsBroadcastExange()
Broadcast == exchangeType = "fanout"

\* After a case of the select, Run starts over: with a connection it is in the
\* select again, without one it reconnects.
LoopAgain == run' = IF conn' = "nil" THEN "top" ELSE "select"

\* A new round of the select takes the event channels from the fields anew.
Round ==
    /\ hears' = IF hears = "yes" THEN "yes" ELSE "no"
    /\ events' = IF hears = "yes" THEN events ELSE {}

\* The AMQP library closes or sends to event channels.
Notify(es) ==
    /\ events' = IF hears = "no" THEN events ELSE events \cup es
    /\ hears' = hears

\* clearNotifyChan() by another goroutine: the event channels are nil.
Deafen ==
    /\ hears' = IF run = "select" /\ hears # "no" THEN "thisRound" ELSE "no"
    /\ events' = IF run = "select" THEN events ELSE {}

\* r.Channel is set while its consumers still run.
LeaveHandlers == adrift' = adrift + Cardinality(handlers) /\ done' = done

-----------------------------------------------------------------------------
(* Clients *)

\* r.Publish <- pm; a full buffer blocks the client.
PublishMQ ==
    /\ published < MaxMsgs
    /\ Len(publishCh) < PublishChannelSize
    /\ published' = published + 1
    /\ publishCh' = Append(publishCh, published + 1)
    /\ UNCHANGED <<run, connVars, consumerVars, doneVars, msgVars, registered, declined,
                   replaceVars, faultVars>>

-----------------------------------------------------------------------------
(* Connecting and closing *)

\* Mutant: the channel is forgotten, not closed.
CloseKeepsHandlers ==
    /\ conn' = "nil" /\ channel' = "nil" /\ events' = {} /\ hears' = "no"
    /\ UNCHANGED <<doneVars, handlers>>

(***************************************************************************)
(* close() by Run.  Closing an open channel ends the deliveries of its     *)
(* consumers; every handleConsumes goroutine leaves its loop and blocks on *)
(* r.Done.                                                                 *)
(***************************************************************************)
Close ==
    /\ conn' = "nil" /\ channel' = "nil" /\ events' = {} /\ hears' = "no"
    /\ done' = done + Cardinality(handlers) /\ adrift' = adrift
    /\ handlers' = {}

\* Mutant: afterEnsureQueue resumes the consumers only.
EnsureQueueNoFlush(pend, refused) ==
    /\ named' = TRUE
    /\ pendingConsumers' = << >>
    /\ consumers' = IF pend = << >> THEN << >> ELSE <<pend[Len(pend)]>>
    /\ handlers' = IF refused THEN {} ELSE {pend[i] : i \in 1 .. Len(pend)}
    /\ UNCHANGED msgVars

(***************************************************************************)
(* ensureQueue after the queue was declared, with its afterEnsureQueue:    *)
(* the pending consumers are started, each overwriting the one before in   *)
(* r.consumers, and the pending messages are published.                    *)
(***************************************************************************)
EnsureQueue(pend, refused) ==
    /\ named' = TRUE
    /\ pendingConsumers' = << >>
    /\ consumers' = IF pend = << >> THEN << >> ELSE <<pend[Len(pend)]>>
    /\ handlers' = IF refused THEN {} ELSE {pend[i] : i \in 1 .. Len(pend)}
    /\ pendingPublishes' = << >>
    /\ sent' = sent \o pendingPublishes
    /\ UNCHANGED <<waited, failed, dropped>>

\* Run collects the consumers of the lost connection before it dials.
ToResume == pendingConsumers \o consumers

KeepPending ==
    /\ pendingConsumers' = ToResume /\ consumers' = << >>
    /\ UNCHANGED <<msgVars, clientVars>>

\* initConn up to r.Conn = conn.  Dialling is retried every second until it
\* succeeds.
Dial ==
    /\ KeepPending
    /\ conn' = "open" /\ events' = {} /\ hears' = "yes"
    /\ dialedLate' = (dialedLate \/ closing = "forgetConn")
    /\ UNCHANGED <<channel, named, handlers, doneVars, closing, abandoned, faultVars>>

InitConnDsnFails ==
    /\ DsnMayFail /\ dsnFailed' = TRUE
    /\ faults < MaxFaults /\ faults' = faults + 1 /\ UNCHANGED exchangeType
    /\ KeepPending
    /\ UNCHANGED <<connVars, handlers, doneVars, replaceVars>>

\* A fanout exchange needs no queue without a consumer; and with r.Conn set to
\* nil by the replacement meanwhile, ensureQueue returns an error.
SkipsQueue == conn = "nil" \/ (Broadcast /\ pendingConsumers = << >>)

(***************************************************************************)
(* initConn from createChannel on, on the connection it dialled: r.Conn,   *)
(* or one that r.Conn has ceased to be.  The broker may refuse the         *)
(* consumers.                                                              *)
(***************************************************************************)
InitConnOk(refused) ==
    /\ conn = "open" \/ (conn = "nil" /\ abandoned)
    /\ refused => Fault /\ ~SkipsQueue /\ pendingConsumers # << >>
    /\ ~refused => UNCHANGED faultVars
    /\ channel' = "open" /\ events' = {} /\ hears' = "yes"
    /\ LeaveHandlers
    /\ IF SkipsQueue
       THEN handlers' = {} /\ UNCHANGED <<named, consumers, pendingConsumers, msgVars>>
       ELSE EnsureQueue(pendingConsumers, refused)
    /\ UNCHANGED <<conn, clientVars, replaceVars>>

\* The channel fails, always on a connection that is closed by now, and the
\* connection is closed, which makes its own close notification ready.
InitConnChannelFails ==
    /\ IF conn = "open" \/ (conn = "nil" /\ abandoned) THEN Fault ELSE UNCHANGED faultVars
    /\ conn' = "nil" /\ channel' = "nil" /\ handlers' = {} /\ LeaveHandlers
    /\ Notify({"connClosed"})
    /\ UNCHANGED <<named, consumers, pendingConsumers, msgVars, clientVars, replaceVars>>

\* The queue cannot be declared: close().
InitConnQueueFails ==
    /\ conn = "open" /\ ~SkipsQueue /\ Fault
    /\ conn' = "nil" /\ channel' = "nil" /\ events' = {} /\ hears' = "no"
    /\ handlers' = {} /\ LeaveHandlers
    /\ UNCHANGED <<named, consumers, pendingConsumers, msgVars, clientVars, replaceVars>>

\* The head of Run's loop without a connection.
Reconnect ==
    /\ run = "top"
    /\ \/ Dial /\ run' = "dialed"
       \/ InitConnDsnFails /\ run' = "select"

\* InitRabbitMQ: the instance is in amqpInsts before init is called, and stays
\* there when init fails on the DSN, without a Run goroutine.
InitRabbitMQ ==
    /\ run = "init"
    /\ \/ Dial /\ run' = "initDialed"
       \/ InitConnDsnFails /\ run' = "dead"

\* The rest of initConn, after which Run enters its select, or its loop.
OpenChannel ==
    /\ run \in {"dialed", "initDialed"}
    /\ \/ \E refused \in BOOLEAN : InitConnOk(refused)
       \/ InitConnChannelFails
       \/ InitConnQueueFails
    /\ IF run = "dialed" THEN run' = "select" ELSE LoopAgain

-----------------------------------------------------------------------------
(* InitRabbitMQ with a different configuration: close() is called from the  *)
(* caller's goroutine, then the Close channel is closed.                    *)

ReplacePlaces == {"no", "closeChannel", "forgetChannel", "testConn", "closeConn", "forgetConn",
                  "closed", "signalled"}

\* clearNotifyChan(), and the test of r.Channel.
ReplaceClears ==
    /\ MayReplace /\ closing = "no"
    /\ closing' = IF channel = "nil" THEN "testConn" ELSE "closeChannel"
    /\ Deafen
    /\ UNCHANGED <<run, linkVars, consumerVars, doneVars, msgVars, clientVars,
                   abandoned, dialedLate, faultVars>>

\* r.Channel.Close(), unless Run has set it to nil since.
ReplaceClosesChannel ==
    /\ closing = "closeChannel"
    /\ \/ /\ channel = "nil" /\ run' = "panic"
          /\ UNCHANGED <<connVars, handlers, doneVars, closing>>
       \/ /\ channel # "nil" /\ run' = run
          /\ closing' = "forgetChannel"
          /\ channel' = "closed" /\ handlers' = {}
          /\ done' = done + Cardinality(handlers) /\ adrift' = adrift
          /\ Notify(IF channel = "open" THEN {"channelClosed"} ELSE {})
          /\ UNCHANGED <<conn, named>>
    /\ UNCHANGED <<consumers, pendingConsumers, msgVars, clientVars,
                   abandoned, dialedLate, faultVars>>

\* Run may stand between a test of what is set to nil and its use.
MayPanic(field) == IF run = "select" /\ field # "nil" THEN {run, "panic"} ELSE {run}

\* r.Channel = nil, whichever channel that is by now.
ReplaceForgetsChannel ==
    /\ closing = "forgetChannel" /\ closing' = "testConn"
    /\ channel' = "nil" /\ handlers' = {} /\ LeaveHandlers
    /\ run' \in MayPanic(channel)
    /\ UNCHANGED <<conn, named, events, hears, consumers, pendingConsumers, msgVars, clientVars,
                   abandoned, dialedLate, faultVars>>

\* r.Conn != nil && !r.Conn.IsClosed()
ReplaceTestsConn ==
    /\ closing = "testConn"
    /\ closing' = IF conn = "open" THEN "closeConn" ELSE "forgetConn"
    /\ UNCHANGED <<run, connVars, consumerVars, doneVars, msgVars, clientVars,
                   abandoned, dialedLate, faultVars>>

\* r.Conn.Close(), unless Run has set it to nil since.
ReplaceClosesConn ==
    /\ closing = "closeConn"
    /\ \/ /\ conn = "nil" /\ run' = "panic"
          /\ UNCHANGED <<connVars, handlers, doneVars, closing>>
       \/ /\ conn # "nil" /\ run' = run
          /\ closing' = "forgetConn"
          /\ conn' = "closed"
          /\ channel' = IF channel = "open" THEN "closed" ELSE channel
          /\ handlers' = {}
          /\ done' = done + Cardinality(handlers) /\ adrift' = adrift
          /\ Notify(IF conn = "open" THEN {"connClosed", "channelClosed"} ELSE {})
          /\ UNCHANGED named
    /\ UNCHANGED <<consumers, pendingConsumers, msgVars, clientVars,
                   abandoned, dialedLate, faultVars>>

\* r.Conn = nil, whichever connection that is by now.
ReplaceForgetsConn ==
    /\ closing = "forgetConn" /\ closing' = "closed"
    /\ conn' = "nil" /\ abandoned' = (abandoned \/ conn = "open")
    /\ Deafen
    /\ run' \in MayPanic(conn)
    /\ UNCHANGED <<channel, named, consumerVars, doneVars, msgVars, clientVars,
                   dialedLate, faultVars>>

\* close(amqpInst.Close)
ReplaceSignals ==
    /\ closing = "closed" /\ closing' = "signalled"
    /\ UNCHANGED <<run, connVars, consumerVars, doneVars, msgVars, clientVars,
                   abandoned, dialedLate, faultVars>>

Replace ==
    \/ ReplaceClears \/ ReplaceClosesChannel \/ ReplaceForgetsChannel
    \/ ReplaceTestsConn \/ ReplaceClosesConn \/ ReplaceForgetsConn
    \/ ReplaceSignals

-----------------------------------------------------------------------------
(* The cases of Run's select *)

\* publish(pm) with a usable queue: Channel.Publish fails on a closed channel.
ChannelPublish(pm) ==
    IF channel = "open"
    THEN sent' = Append(sent, pm) /\ UNCHANGED failed
    ELSE failed' = failed \cup {pm} /\ UNCHANGED sent

\* Mutant: a message that finds no channel is put in front of the pending ones.
RunPublishInFront ==
    /\ run = "select" /\ publishCh # << >>
    /\ publishCh' = Tail(publishCh)
    /\ IF channel = "nil"
       THEN /\ pendingPublishes' = <<Head(publishCh)>> \o pendingPublishes
            /\ waited' = waited \cup {Head(publishCh)}
            /\ UNCHANGED <<sent, failed>>
       ELSE ChannelPublish(Head(publishCh)) /\ UNCHANGED <<pendingPublishes, waited>>
    /\ UNCHANGED <<linkVars, consumerVars, doneVars, dropped, published, registered, declined,
                   replaceVars, faultVars>>
    /\ Round /\ LoopAgain

(***************************************************************************)
(* case pm := <-r.Publish.  Without a channel the message waits; without a *)
(* declared queue the queue is declared first, which fails, and drops the  *)
(* message, without a connection; with one the queue is always declared    *)
(* here (NothingStranded).  A fanout exchange needs no queue: the message  *)
(* goes out although others may be pending.                                *)
(***************************************************************************)
RunPublish ==
    /\ run = "select" /\ publishCh # << >>
    /\ publishCh' = Tail(publishCh)
    /\ LET pm == Head(publishCh)
       IN \/ /\ channel = "nil"
             /\ pendingPublishes' = Append(pendingPublishes, pm)
             /\ waited' = waited \cup {pm}
             /\ UNCHANGED <<sent, failed, dropped>>
          \/ /\ channel # "nil" /\ (named \/ Broadcast)
             /\ ChannelPublish(pm)
             /\ UNCHANGED <<pendingPublishes, waited, dropped>>
          \/ /\ channel # "nil" /\ ~named /\ ~Broadcast
             /\ conn = "nil"
             /\ dropped' = dropped \cup {pm}
             /\ UNCHANGED <<pendingPublishes, waited, sent, failed>>
    /\ UNCHANGED <<linkVars, consumerVars, doneVars, published, registered, declined,
                   replaceVars, faultVars>>
    /\ Round /\ LoopAgain

\* Channel.Consume for one proxy: r.consumers is overwritten in any case.
StartConsumer(cm) ==
    /\ consumers' = <<cm>>
    /\ \/ /\ channel = "open"
          /\ handlers' = handlers \cup {cm}
          /\ UNCHANGED faultVars
       \/ /\ channel = "open" /\ Fault
          /\ UNCHANGED handlers
       \/ /\ channel = "closed"
          /\ UNCHANGED <<handlers, faultVars>>
    /\ Round
    /\ UNCHANGED <<linkVars, pendingConsumers, msgVars, doneVars>>

Unknown(cm) == cm \notin declined /\ \A i \in 1 .. Len(registered) : registered[i] # cm

\* consume(cm) takes the consumer: it is kept pending or in r.consumers.
Takes(cm) == registered' = Append(registered, cm) /\ UNCHANGED declined

\* consume(cm) returns the error of ensureQueue: nothing keeps the consumer.
Declines(cm) == declined' = declined \cup {cm} /\ UNCHANGED registered

\* Mutant: a consumer that finds no channel is not kept.
RunConsumeForgets(cm) ==
    /\ run = "select" /\ Unknown(cm)
    /\ Takes(cm)
    /\ \/ /\ channel = "nil" /\ Round
          /\ UNCHANGED <<linkVars, consumerVars, msgVars, doneVars, faultVars>>
       \/ channel # "nil" /\ named /\ StartConsumer(cm)
    /\ LoopAgain
    /\ UNCHANGED <<publishCh, published, replaceVars>>

(***************************************************************************)
(* case cm := <-r.Consume, an unbuffered channel.  A consumer that cannot  *)
(* have its queue declared is dropped.                                     *)
(***************************************************************************)
RunConsume(cm) ==
    /\ run = "select" /\ Unknown(cm)
    /\ \/ /\ channel = "nil" /\ Takes(cm) /\ Round
          /\ pendingConsumers' = Append(pendingConsumers, cm)
          /\ UNCHANGED <<linkVars, consumers, handlers, msgVars, doneVars, faultVars>>
       \/ channel # "nil" /\ named /\ Takes(cm) /\ StartConsumer(cm)
       \/ /\ channel = "open" /\ ~named /\ conn # "nil" /\ Takes(cm) /\ Round
          /\ EnsureQueue(Append(pendingConsumers, cm), FALSE)
          /\ UNCHANGED <<conn, channel, doneVars, faultVars>>
       \/ /\ channel # "nil" /\ ~named /\ conn # "nil" /\ Declines(cm)
          /\ channel = "open" => Fault
          /\ channel # "open" => UNCHANGED faultVars
          /\ Close
          /\ UNCHANGED <<named, consumers, pendingConsumers, msgVars>>
       \/ /\ channel # "nil" /\ ~named /\ conn = "nil" /\ Declines(cm) /\ Round
          /\ UNCHANGED <<linkVars, consumerVars, msgVars, doneVars, faultVars>>
    /\ LoopAgain
    /\ UNCHANGED <<publishCh, published, replaceVars>>

\* Mutant: Done is handled without having been received.
RunDoneUnguarded ==
    /\ run = "select"
    /\ named' = FALSE
    /\ conn' = "nil" /\ channel' = "nil" /\ events' = {} /\ hears' = "no"
    /\ done' = done - 1 + Cardinality(handlers) /\ adrift' = adrift
    /\ handlers' = {}
    /\ LoopAgain
    /\ UNCHANGED <<consumers, pendingConsumers, msgVars, clientVars, replaceVars, faultVars>>

\* case <-r.Done: close(), whichever connection the deliveries belonged to.
RunDone ==
    /\ run = "select" /\ done > 0
    /\ named' = FALSE
    /\ conn' = "nil" /\ channel' = "nil" /\ events' = {} /\ hears' = "no"
    /\ done' = done - 1 + Cardinality(handlers) /\ adrift' = adrift
    /\ handlers' = {}
    /\ LoopAgain
    /\ UNCHANGED <<consumers, pendingConsumers, msgVars, clientVars, replaceVars, faultVars>>

\* case <-r.eventChannelCancel, <-r.eventConnClosed, <-r.eventChannelClosed.
\* The latter two set r.Channel to nil before they call close().
RunEvent(e) ==
    /\ run = "select" /\ e \in events
    /\ named' = FALSE
    /\ Close
    /\ LoopAgain
    /\ UNCHANGED <<consumers, pendingConsumers, msgVars, clientVars, replaceVars, faultVars>>

\* Mutant: the Close signal ends Run without closing the connection.
RunCloseKeepsConn ==
    /\ run = "select" /\ closing = "signalled"
    /\ run' = "stopped"
    /\ named' = FALSE
    /\ UNCHANGED <<conn, channel, events, hears, consumerVars, doneVars, msgVars, clientVars,
                   replaceVars, faultVars>>

\* Mutant: the Close signal does not leave Run's loop.
RunCloseLoops ==
    /\ run = "select" /\ closing = "signalled"
    /\ named' = FALSE
    /\ Close
    /\ LoopAgain
    /\ UNCHANGED <<consumers, pendingConsumers, msgVars, clientVars, replaceVars, faultVars>>

\* case <-r.Close
RunClose ==
    /\ run = "select" /\ closing = "signalled"
    /\ run' = "stopped"
    /\ named' = FALSE
    /\ Close
    /\ UNCHANGED <<consumers, pendingConsumers, msgVars, clientVars, replaceVars, faultVars>>

\* Nothing for the tick to do but to go round, when no queue is inspected or
\* every inspection is fine.
TickIdles ==
    /\ conn = "open" => channel # "closed" \/ consumers = << >>
    /\ conn # "closed"
    /\ Round
    /\ UNCHANGED <<linkVars, handlers, doneVars, faultVars>>

TickForgetsClosed ==
    /\ conn = "closed" /\ conn' = "nil" /\ named' = FALSE
    /\ Round
    /\ UNCHANGED <<channel, handlers, doneVars, faultVars>>

TickReconnects ==
    /\ conn = "open" /\ channel # "nil" /\ consumers # << >>
    /\ channel = "open" => Fault
    /\ channel = "closed" => UNCHANGED faultVars
    /\ Close
    /\ UNCHANGED named

\* Mutant: without a connection the tick does not start the loop over.
RunTickKeepsWaiting ==
    /\ run = "select" /\ conn # "nil"
    /\ TickIdles \/ TickForgetsClosed \/ TickReconnects
    /\ LoopAgain
    /\ UNCHANGED <<consumers, pendingConsumers, msgVars, clientVars, replaceVars>>

(***************************************************************************)
(* case <-tick.C.  Without a connection Run starts over; a closed one is   *)
(* forgotten (the channel is not); on an open one every consumer's queue   *)
(* is inspected, and when that fails or the consumer looks stalled the     *)
(* connection is closed.                                                   *)
(***************************************************************************)
RunTick ==
    /\ run = "select"
    /\ TickIdles \/ TickForgetsClosed \/ TickReconnects
    /\ LoopAgain
    /\ UNCHANGED <<consumers, pendingConsumers, msgVars, clientVars, replaceVars>>

-----------------------------------------------------------------------------
(* The AMQP library and the broker (external) *)

\* When a channel goes down by itself its deliveries may be ended as well, or
\* the library may stay blocked on a notification nobody receives any more.
DeliveriesEnd ==
    /\ done' \in {done, done + Cardinality(handlers)} /\ adrift' = adrift
    /\ handlers' = {}

\* While Run is connecting r.Channel still is the channel before.
BrokerDropsConn ==
    /\ conn = "open" /\ Fault
    /\ conn' = "closed"
    /\ IF run \in {"dialed", "initDialed"}
       THEN /\ Notify({"connClosed"})
            /\ UNCHANGED <<channel, handlers, doneVars>>
       ELSE /\ channel' = IF channel = "nil" THEN "nil" ELSE "closed"
            /\ Notify({"connClosed", "channelClosed"})
            /\ DeliveriesEnd
    /\ UNCHANGED <<run, named, consumers, pendingConsumers, msgVars, clientVars, replaceVars>>

\* ... or the abandoned connection of that channel goes down.
BrokerClosesChannel ==
    /\ channel = "open" /\ Fault
    /\ channel' = "closed"
    /\ Notify({"channelClosed"})
    /\ DeliveriesEnd
    /\ UNCHANGED <<run, conn, named, consumers, pendingConsumers, msgVars, clientVars, replaceVars>>

BrokerCancelsConsumer ==
    /\ channel = "open" /\ handlers # {} /\ Fault
    /\ Notify({"channelCancel"})
    /\ UNCHANGED <<run, linkVars, consumerVars, doneVars, msgVars, clientVars, replaceVars>>

\* The deliveries of a channel that r.Channel no longer is end with its connection.
AdriftEnd ==
    /\ adrift > 0 /\ adrift' = 0 /\ done' = done + adrift
    /\ UNCHANGED <<run, connVars, consumerVars, msgVars, clientVars, replaceVars, faultVars>>

Broker == BrokerDropsConn \/ BrokerClosesChannel \/ BrokerCancelsConsumer

-----------------------------------------------------------------------------

Next ==
    /\ run # "panic"
    /\ \/ PublishMQ
       \/ InitRabbitMQ
       \/ Reconnect
       \/ OpenChannel
       \/ RunPublish
       \/ \E cm \in Proxies : RunConsume(cm)
       \/ RunDone
       \/ \E e \in Events : RunEvent(e)
       \/ RunClose
       \/ RunTick
       \/ Replace
       \/ Broker
       \/ AdriftEnd

(***************************************************************************)
(* Go runs the goroutines, the broker accepts a connection in the end, and *)
(* select chooses at random among the cases that are ready, so a case that *)
(* is ready again and again is taken.  Spec asks it of the cases that the  *)
(* liveness below needs, FairSpec of all of them.                          *)
(***************************************************************************)
Fairness ==
    /\ WF_vars(InitRabbitMQ) /\ WF_vars(Reconnect) /\ WF_vars(OpenChannel)
    /\ SF_vars(RunPublish) /\ SF_vars(RunClose) /\ SF_vars(RunTick)
    /\ WF_vars(closing # "no" /\ Replace)

Spec == Init /\ [][Next]_vars /\ Fairness

FairSpec == Spec /\ SF_vars(RunDone) /\ SF_vars(\E e \in Events : RunEvent(e))

-----------------------------------------------------------------------------

\* Type invariant.
TypeOK ==
    /\ run \in {"init", "initDialed", "top", "dialed", "select", "stopped", "dead", "panic"}
    /\ conn \in {"nil", "open", "closed"} /\ channel \in {"nil", "open", "closed"}
    /\ named \in BOOLEAN
    /\ events \subseteq Events /\ hears \in {"yes", "thisRound", "no"}
    /\ consumers \in Seq(Proxies) /\ pendingConsumers \in Seq(Proxies)
    /\ handlers \subseteq Proxies
    /\ publishCh \in Seq(Msgs) /\ pendingPublishes \in Seq(Msgs) /\ sent \in Seq(Msgs)
    /\ waited \subseteq Msgs /\ failed \subseteq Msgs /\ dropped \subseteq Msgs
    /\ registered \in Seq(Proxies) /\ declined \subseteq Proxies
    /\ done \in Nat /\ adrift \in Nat
    /\ published \in 0 .. MaxMsgs /\ faults \in 0 .. MaxFaults
    /\ closing \in ReplacePlaces /\ abandoned \in BOOLEAN /\ dialedLate \in BOOLEAN
    /\ dsnFailed \in BOOLEAN /\ exchangeType \in ExchangeTypes

\* Consumers run on the current, open channel only, that channel belongs to the
\* open connection of the instance, unless the replacement has abandoned the
\* connection, and Run never dials with a connection.
HandlersOnOpenChannel ==
    /\ handlers # {} => channel = "open"
    /\ channel = "open" => conn = "open" \/ abandoned
    /\ run = "top" => conn = "nil"

\* Nothing is left waiting while Run has a connection, a channel and a declared
\* queue: ensurePendings has emptied both pending lists by the time the select
\* is entered.  Without a fanout exchange the queue is always declared there,
\* and publish drops a message only after a DSN could not be formatted or the
\* replacement has abandoned a connection.
NothingStranded ==
    /\ run = "select" /\ channel # "nil" /\ conn # "nil" =>
           /\ named => pendingConsumers = << >> /\ pendingPublishes = << >>
           /\ ~Broadcast => named
    /\ ~Broadcast /\ ~dsnFailed /\ ~abandoned => dropped = {}

\* Each message goes out at most once, across any number of reconnections, and
\* in the order it was handed to r.Publish: what was sent, what is pending and
\* what still waits in the channel form one strictly ascending sequence.  There
\* is one exception, with a fanout exchange or when the replacement has abandoned
\* a connection: a message that found a channel overtakes messages that had to
\* wait (for one, and for a consumer).
InOrder ==
    LET all == sent \o pendingPublishes \o publishCh
    IN \A i, j \in 1 .. Len(all) :
           i < j => \/ all[i] < all[j]
                    \/ /\ Broadcast \/ abandoned
                       /\ all[i] \notin waited /\ all[j] \in waited

\* The consumer that consume took last survives every reconnection of an
\* instance that is not being replaced: it is in r.consumers or the last one to
\* be resumed.  consume turns one away only for a fanout exchange, after a DSN
\* could not be formatted, or when the instance is being replaced.
LatestConsumerKept ==
    /\ closing = "no" /\ registered # << >> =>
           ToResume # << >> /\ ToResume[Len(ToResume)] = registered[Len(registered)]
    /\ declined # {} => Broadcast \/ dsnFailed \/ abandoned

\* A stopped instance has given back its channel and every connection, except
\* one that Run dialled after close() had looked at r.Conn and before it set
\* r.Conn to nil.
StoppedIsClosed ==
    run = "stopped" => conn = "nil" /\ channel = "nil" /\ (abandoned => dialedLate)

\* Run has ended, was never started, or the process is gone, of which only the
\* replacement is capable.
Over == run \in {"stopped", "dead", "panic"}

\* Every message a client hands over leaves the instance: again and again none
\* is in the channel or among the pending ones (no fanout exchange).
MessagesLeave ==
    []<>(Broadcast \/ (publishCh = << >> /\ pendingPublishes = << >>) \/ Over)

\* An instance replaced by InitRabbitMQ stops.
ReplacedStops == closing = "signalled" ~> Over

\* "3. if the connection is closed, try to restart it" (and only then): once
\* the broker has stopped failing the connection stays up.
SettlesDown == <>[](conn = "open") \/ <>(closing # "no") \/ <>(run = "dead")

=============================================================================
