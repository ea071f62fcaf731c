------------------------------ MODULE PulsarMQ ------------------------------
(***************************************************************************)
(* The connection loop of mq/pulsar: PulsarMQ.Run, the goroutines that     *)
(* init starts to open a client, the goroutines of consumer callbacks that *)
(* publish their responses, and InitPulsarMQ replacing the instance.       *)
(*                                                                         *)
(* publish and consume have one shape: test r.client; without a client     *)
(* append to a pending list under its mutex, with one create the producer  *)
(* or the consumer and go on.  The test and what follows are separate      *)
(* steps of whichever goroutine makes the call.  Run, when it reopens the  *)
(* client, walks over r.consumers under the mutex of the pending list,     *)
(* which those who insert into r.consumers do not take.                    *)
(***************************************************************************)
EXTENDS Integers, Sequences, FiniteSets

CONSTANTS Msgs, Proxies, NoItem,
          Replies,          \* the messages that may also come from consumer
                            \* callbacks, each in a goroutine of its own
          Topics, Topic,    \* Topic[p]: the topic of proxy p
          Run,              \* the goroutine of Run
          MaxConnectors,    \* bound: goroutines started by init
          DsnMayFail,       \* the SSH tunnel may fail to start
          MayReplace        \* InitPulsarMQ is called with another configuration

Connectors == 1 .. MaxConnectors
Goroutines == Connectors \cup Replies \cup {Run}
Work       == Msgs \cup Proxies

ASSUME WorkAssumption  == /\ Replies \subseteq Msgs /\ Msgs \cap Proxies = {}
                          /\ NoItem \notin Work
ASSUME TopicAssumption == Topic \in [Proxies -> Topics] /\ IsFiniteSet(Proxies)
ASSUME RunAssumption   == Run \notin Connectors \cup Replies /\ Replies \cap Connectors = {}
ASSUME BoundsAssumption ==
    MaxConnectors \in Nat \ {0} /\ DsnMayFail \in BOOLEAN /\ MayReplace \in BOOLEAN

VARIABLES
    run,                \* where Run is: "new", "head" of the loop, "reopen",
                        \* "closing" consumers, "producers", "init",
                        \* "select", "stopped", "none" when init had failed
    due, walked,        \* Run's walk over r.consumers: the topics it is sure
                        \* to meet, and those it has met
    connecting,         \* r.connecting
    client,             \* r.client # nil
    at,                 \* at[c]: where the connector goroutine c is
    tick,               \* tick[c]: a tick is left in its stopped ticker
    flush,              \* flush[c]: its copy of a pending list
    call,               \* call[g]: the publish or consume that g is in
    pendingConsumers,
    pendingPublishes,
    producer,           \* whether r.producers has one for the topic
    consumers,          \* r.consumers: the proxy of a topic's consumer
    accepted,           \* history: work that publish or consume was called with
    out,                \* history: out[m], times m was sent or given up
    refused,            \* history: proxies whose subscription failed
    late,               \* history: topics subscribed during Run's walk
    closing,            \* InitPulsarMQ: "no", "reset" connecting, "closed",
                        \* "signalled"
    crashed             \* "nil": a method of the nil client was called, "map":
                        \* r.consumers was written during the walk

loopVars  == <<run, connecting, client, closing, due, walked>>
connVars  == <<at, tick, flush>>
pendVars  == <<pendingConsumers, pendingPublishes>>
cacheVars == <<producer, consumers>>
histVars  == <<accepted, out, refused, late, crashed>>
vars == <<loopVars, connVars, call, pendVars, cacheVars, histVars>>

\* A panic, or a fatal error of the runtime, ends every goroutine.
Alive == crashed = "no"

NoCall == [item |-> NoItem, step |-> "none"]

Init ==
    /\ run = "new" /\ connecting = FALSE /\ client = FALSE /\ closing = "no"
    /\ due = {} /\ walked = {}
    /\ at = [c \in Connectors |-> "unused"]
    /\ tick = [c \in Connectors |-> FALSE]
    /\ flush = [c \in Connectors |-> << >>]
    /\ call = [g \in Goroutines |-> NoCall]
    /\ pendingConsumers = << >> /\ pendingPublishes = << >>
    /\ producer = FALSE /\ consumers = [t \in Topics |-> NoItem]
    /\ accepted = {} /\ out = [m \in Msgs |-> 0] /\ refused = {}
    /\ late = {} /\ crashed = "no"

-----------------------------------------------------------------------------
(* init and close *)

\* The next goroutine to be started.
FirstUnused(c) == at[c] = "unused" /\ \A d \in Connectors : d < c => at[d] # "unused"

\* formatConnectionDSN fails when it needs an SSH tunnel that does not start.
FormatConnectionDSN(ok) == ok \/ DsnMayFail

\* init: it returns early, with connecting set, when the DSN cannot be formatted.
\* It touches nothing else.
InitClient ==
    /\ connecting' = TRUE
    /\ \/ /\ FormatConnectionDSN(TRUE)
          /\ \E c \in Connectors : FirstUnused(c) /\ at' = [at EXCEPT ![c] = "dialing"]
       \/ FormatConnectionDSN(FALSE) /\ UNCHANGED at

\* close, in the goroutine of Run, which is the one that tests both fields.
Close == connecting' = FALSE /\ client' = FALSE

\* InitPulsarMQ for a new name: Run is started only when init succeeded.
InitPulsarMQ ==
    /\ Alive
    /\ run = "new"
    /\ InitClient
    /\ run' = IF at' = at THEN "none" ELSE "head"
    /\ UNCHANGED <<client, closing, due, walked, tick, flush, call, pendVars, cacheVars, histVars>>

\* InitPulsarMQ for a name whose configuration changed, in the caller's
\* goroutine: the beginning and the end of close, with the client closed over
\* the network between them, then the signal on r.Close.
ReplaceResets ==
    /\ Alive
    /\ MayReplace /\ run # "new" /\ closing = "no"
    /\ closing' = "reset"
    /\ connecting' = FALSE
    /\ UNCHANGED <<run, client, due, walked, connVars, call, pendVars, cacheVars, histVars>>

ReplaceForgetsClient ==
    /\ Alive
    /\ closing = "reset" /\ closing' = "closed"
    /\ client' = FALSE
    /\ UNCHANGED <<run, connecting, due, walked, connVars, call, pendVars, cacheVars, histVars>>

ReplaceSignal ==
    /\ Alive
    /\ closing = "closed" /\ closing' = "signalled"
    /\ UNCHANGED <<run, connecting, client, due, walked, connVars, call, pendVars,
                   cacheVars, histVars>>

-----------------------------------------------------------------------------
(* Run *)

\* The test at the head of the loop.
RunHead ==
    /\ Alive
    /\ run = "head" /\ call[Run] = NoCall
    /\ run' = IF ~connecting /\ ~client THEN "reopen" ELSE "select"
    /\ UNCHANGED <<connecting, client, closing, due, walked, connVars, call, pendVars,
                   cacheVars, histVars>>

Subscribed == {consumers[t] : t \in Topics} \ {NoItem}
Taken      == {t \in Topics : consumers[t] # NoItem}

\* Run holds pendingConsumersMutex during its walk.
ListIsFree == run # "closing"

\* Without consumers there is nothing to close, and r.consumers stays.  The walk
\* meets every topic that is there when it begins.
RunReopen ==
    /\ Alive
    /\ run = "reopen"
    /\ run' = IF Taken = {} THEN "producers" ELSE "closing"
    /\ due' = Taken /\ walked' = {}
    /\ UNCHANGED <<connecting, client, closing, connVars, call, pendVars, cacheVars, histVars>>

\* Mutant: the consumer of the last client is closed and its proxy forgotten.
RunClosesConsumerOnly(t) ==
    /\ Alive
    /\ run = "closing" /\ t \in Taken \ walked
    /\ walked' = walked \cup {t}
    /\ UNCHANGED <<run, connecting, client, closing, due, connVars, call, pendVars,
                   cacheVars, histVars>>

\* The body of the walk: the proxy is made pending and its consumer closed, over
\* the network.  A topic inserted during the walk is met or not.
RunClosesConsumer(t) ==
    /\ Alive
    /\ run = "closing" /\ t \in Taken \ walked
    /\ pendingConsumers' = Append(pendingConsumers, consumers[t])
    /\ walked' = walked \cup {t}
    /\ UNCHANGED <<run, connecting, client, closing, due, connVars, call, pendingPublishes,
                   cacheVars, histVars>>

\* After the walk r.consumers is a new map, with nothing in it.
RunForgetsConsumers ==
    /\ Alive
    /\ run = "closing" /\ due \subseteq walked
    /\ run' = "producers"
    /\ consumers' = [t \in Topics |-> NoItem]
    /\ due' = {} /\ walked' = {}
    /\ UNCHANGED <<connecting, client, closing, connVars, call, pendVars, producer, histVars>>

\* The producers are closed under the mutex that ensureProducer takes.
RunClosesProducers ==
    /\ Alive
    /\ run = "producers" /\ run' = "init"
    /\ producer' = FALSE
    /\ UNCHANGED <<connecting, client, closing, due, walked, connVars, call, pendVars,
                   consumers, histVars>>

RunInit ==
    /\ Alive
    /\ run = "init" /\ run' = "select"
    /\ InitClient
    /\ UNCHANGED <<client, closing, due, walked, tick, flush, call, pendVars, cacheVars, histVars>>

\* Mutant: publish and consume go on without looking at the client.
BeginCallUnchecked(g, w) == call' = [call EXCEPT ![g] = [item |-> w, step |-> "use"]]

\* publish or consume up to the test of r.client.
BeginCall(g, w) ==
    call' = [call EXCEPT ![g] = [item |-> w, step |-> IF client THEN "use" ELSE "append"]]

\* The cases of the select for r.Publish and r.Consume, unbuffered both.
RunReceive(w) ==
    /\ Alive
    /\ run = "select" /\ w \notin accepted
    /\ accepted' = accepted \cup {w}
    /\ run' = "head"
    /\ BeginCall(Run, w)
    /\ UNCHANGED <<connecting, client, closing, due, walked, connVars, pendVars, cacheVars,
                   out, refused, late, crashed>>

\* The tick only leads back to the head of the loop.  No goroutine sends on
\* r.Done, so its case is never taken.
RunTick ==
    /\ Alive
    /\ run = "select" /\ run' = "head"
    /\ UNCHANGED <<connecting, client, closing, due, walked, connVars, call, pendVars,
                   cacheVars, histVars>>

\* The case of the select for r.Close.
RunClose ==
    /\ Alive
    /\ run = "select" /\ closing = "signalled"
    /\ run' = "stopped"
    /\ Close
    /\ UNCHANGED <<closing, due, walked, connVars, call, pendVars, cacheVars, histVars>>

-----------------------------------------------------------------------------
(* The goroutines that init starts *)

\* NewClient succeeds, at once or after failures that change nothing.  The
\* field connecting is reset before the client is set.  A tick that arrived
\* during NewClient stays in the channel of the ticker, which is stopped but
\* never drained.
Connect(c) ==
    /\ Alive
    /\ \/ at[c] = "dialing" /\ tick' \in {[tick EXCEPT ![c] = b] : b \in BOOLEAN}
       \/ /\ at[c] = "publishes" /\ flush[c] = << >> /\ call[c] = NoCall
          /\ tick[c] /\ tick' = [tick EXCEPT ![c] = FALSE]
    /\ at' = [at EXCEPT ![c] = "connected"]
    /\ connecting' = FALSE
    /\ UNCHANGED <<run, client, closing, due, walked, flush, call, pendVars, cacheVars, histVars>>

\* Mutant: the connector flushes the pending lists without setting the client.
SetClientForgets(c) ==
    /\ Alive
    /\ at[c] = "connected"
    /\ at' = [at EXCEPT ![c] = "set"]
    /\ UNCHANGED <<loopVars, tick, flush, call, pendVars, cacheVars, histVars>>

\* r.client = client, over the client of another connector if there is one.
SetClient(c) ==
    /\ Alive
    /\ at[c] = "connected"
    /\ at' = [at EXCEPT ![c] = "set"]
    /\ client' = TRUE
    /\ UNCHANGED <<run, connecting, closing, due, walked, tick, flush, call, pendVars,
                   cacheVars, histVars>>

\* Mutant: the pending list is copied and not emptied.
TakePendingCopies(c) ==
    /\ Alive
    /\ call[c] = NoCall /\ flush[c] = << >>
    /\ \/ at[c] = "set" /\ at' = [at EXCEPT ![c] = "consumers"] /\ ListIsFree
          /\ flush' = [flush EXCEPT ![c] = pendingConsumers]
       \/ at[c] = "consumers" /\ at' = [at EXCEPT ![c] = "publishes"]
          /\ flush' = [flush EXCEPT ![c] = pendingPublishes]
    /\ UNCHANGED <<loopVars, tick, call, pendVars, cacheVars, histVars>>

\* Mutant: the pending messages are emptied before they are copied.
TakePendingLoses(c) ==
    /\ Alive
    /\ call[c] = NoCall /\ flush[c] = << >>
    /\ \/ at[c] = "set" /\ at' = [at EXCEPT ![c] = "consumers"] /\ ListIsFree
          /\ flush' = [flush EXCEPT ![c] = pendingConsumers]
          /\ pendingConsumers' = << >> /\ UNCHANGED pendingPublishes
       \/ at[c] = "consumers" /\ at' = [at EXCEPT ![c] = "publishes"]
          /\ pendingPublishes' = << >> /\ UNCHANGED <<flush, pendingConsumers>>
    /\ UNCHANGED <<loopVars, tick, call, cacheVars, histVars>>

\* ensurePendings takes the consumers and, when they have been subscribed, the
\* messages, each under its mutex.
TakePending(c) ==
    /\ Alive
    /\ call[c] = NoCall /\ flush[c] = << >>
    /\ \/ /\ at[c] = "set" /\ at' = [at EXCEPT ![c] = "consumers"] /\ ListIsFree
          /\ flush' = [flush EXCEPT ![c] = pendingConsumers]
          /\ pendingConsumers' = << >> /\ UNCHANGED pendingPublishes
       \/ /\ at[c] = "consumers" /\ at' = [at EXCEPT ![c] = "publishes"]
          /\ flush' = [flush EXCEPT ![c] = pendingPublishes]
          /\ pendingPublishes' = << >> /\ UNCHANGED pendingConsumers
    /\ UNCHANGED <<loopVars, tick, call, cacheVars, histVars>>

\* The loops of ensurePendings over the copies.
NextPending(c) ==
    /\ Alive
    /\ call[c] = NoCall /\ flush[c] # << >>
    /\ BeginCall(c, Head(flush[c]))
    /\ flush' = [flush EXCEPT ![c] = Tail(@)]
    /\ UNCHANGED <<loopVars, at, tick, pendVars, cacheVars, histVars>>

-----------------------------------------------------------------------------
(* publish and consume after the test, in any goroutine *)

\* The goroutine of a consumer callback publishes the response.
Reply(m) ==
    /\ Alive
    /\ m \notin accepted /\ Subscribed # {}
    /\ accepted' = accepted \cup {m}
    /\ BeginCall(m, m)
    /\ UNCHANGED <<loopVars, connVars, pendVars, cacheVars, out, refused, late, crashed>>

Return(g) == call' = [call EXCEPT ![g] = NoCall]

\* Mutant: everything is appended to one list.
AppendPendingOneList(g) ==
    /\ Alive
    /\ call[g].step = "append"
    /\ pendingPublishes' = Append(pendingPublishes, call[g].item)
    /\ Return(g)
    /\ UNCHANGED <<loopVars, connVars, pendingConsumers, cacheVars, histVars>>

\* r.client was nil.
AppendPending(g) ==
    /\ Alive
    /\ call[g].step = "append"
    /\ LET w == call[g].item
       IN \/ /\ w \in Msgs /\ pendingPublishes' = Append(pendingPublishes, w)
             /\ UNCHANGED pendingConsumers
          \/ /\ w \in Proxies /\ pendingConsumers' = Append(pendingConsumers, w)
             /\ ListIsFree /\ UNCHANGED pendingPublishes
    /\ Return(g)
    /\ UNCHANGED <<loopVars, connVars, cacheVars, histVars>>

\* ensureProducer: a producer is reused, and creating one may fail.
EnsureProducer ==
    /\ producer \/ client
    /\ producer' \in IF producer THEN {TRUE} ELSE BOOLEAN

\* The rest of publish: the message is given up when there is no producer.
Send(g) ==
    /\ Alive
    /\ call[g].step = "use" /\ call[g].item \in Msgs
    /\ EnsureProducer
    /\ out' = [out EXCEPT ![call[g].item] = @ + 1]
    /\ Return(g)
    /\ UNCHANGED <<loopVars, connVars, pendVars, consumers, accepted, refused, late, crashed>>

\* ensureConsumer: a consumer of the topic is reused, and a subscription may fail.
\* It is inserted into r.consumers whether or not Run is walking over it.
Subscribe(g) ==
    /\ Alive
    /\ call[g].step = "use" /\ call[g].item \in Proxies
    /\ LET p == call[g].item
           t == Topic[p]
       IN \/ t \in Taken /\ UNCHANGED <<consumers, refused, late>>
          \/ /\ t \notin Taken /\ client
             /\ \/ /\ consumers' = [consumers EXCEPT ![t] = p] /\ UNCHANGED refused
                   /\ late' = IF run = "closing" THEN late \cup {t} ELSE late
                \/ refused' = refused \cup {p} /\ UNCHANGED <<consumers, late>>
    /\ Return(g)
    /\ UNCHANGED <<loopVars, connVars, pendVars, producer, accepted, out, crashed>>

\* The client went away between the test and CreateProducer or Subscribe.
NilClient(g) ==
    /\ Alive
    /\ call[g].step = "use" /\ ~client
    /\ \/ call[g].item \in Msgs /\ ~producer
       \/ call[g].item \in Proxies /\ Topic[call[g].item] \notin Taken
    /\ crashed' = "nil"
    /\ UNCHANGED <<loopVars, connVars, call, pendVars, cacheVars, accepted, out, refused, late>>

\* The runtime may notice that r.consumers is written during an iteration, and
\* then ends the program.
MapFault(g) ==
    /\ Alive
    /\ call[g].step = "use" /\ call[g].item \in Proxies
    /\ Topic[call[g].item] \notin Taken /\ client /\ run = "closing"
    /\ crashed' = "map"
    /\ UNCHANGED <<loopVars, connVars, call, pendVars, cacheVars, accepted, out, refused, late>>

-----------------------------------------------------------------------------

Instance   == InitPulsarMQ \/ ReplaceResets \/ ReplaceForgetsClient \/ ReplaceSignal
Reopen     == \/ RunReopen \/ RunForgetsConsumers \/ RunClosesProducers \/ RunInit
              \/ \E t \in Topics : RunClosesConsumer(t)
RunStep    == RunHead \/ Reopen \/ RunTick \/ RunClose \/ \E w \in Work : RunReceive(w)
Connector(c) == Connect(c) \/ SetClient(c) \/ TakePending(c) \/ NextPending(c)
Finish(g)  == AppendPending(g) \/ Send(g) \/ Subscribe(g) \/ NilClient(g) \/ MapFault(g)

Next ==
    \/ Instance
    \/ RunStep
    \/ \E c \in Connectors : Connector(c)
    \/ \E m \in Replies : Reply(m)
    \/ \E g \in Goroutines : Finish(g)

\* Every goroutine that can run does, and dialling, which is retried every
\* second, succeeds in the end.  Run may wait at its select for ever.
Fairness ==
    /\ WF_vars(Reopen)
    /\ \A c \in Connectors : WF_vars(Connector(c))
    /\ \A g \in Goroutines : WF_vars(Finish(g))

Spec == Init /\ [][Next]_vars /\ Fairness

-----------------------------------------------------------------------------

\* Type invariant.
TypeOK ==
    /\ run \in {"new", "head", "reopen", "closing", "producers", "init", "select",
               "stopped", "none"}
    /\ due \subseteq Topics /\ walked \subseteq Topics /\ late \subseteq Topics
    /\ connecting \in BOOLEAN /\ client \in BOOLEAN
    /\ at \in [Connectors -> {"unused", "dialing", "connected", "set", "consumers", "publishes"}]
    /\ tick \in [Connectors -> BOOLEAN]
    /\ flush \in [Connectors -> Seq(Work)]
    /\ call \in [Goroutines -> [item : Work \cup {NoItem}, step : {"none", "append", "use"}]]
    /\ pendingConsumers \in Seq(Proxies) /\ pendingPublishes \in Seq(Msgs)
    /\ producer \in BOOLEAN /\ consumers \in [Topics -> Proxies \cup {NoItem}]
    /\ accepted \subseteq Work /\ out \in [Msgs -> Nat] /\ refused \subseteq Proxies
    /\ closing \in {"no", "reset", "closed", "signalled"} /\ crashed \in {"no", "nil", "map"}

\* The instance was replaced, or the program has ended.
Over == closing # "no" \/ ~Alive

\* publish and consume use the client long after they tested it, and connectors
\* overwrite it, but only a replacement by InitPulsarMQ can make them call a
\* method of a nil client.
PanicsOnlyWhenReplaced == crashed = "nil" => closing # "no"

\* Where a message is: its places in a pending list, in the connectors' copies,
\* and the goroutines that have it at hand.
Places(m, s) == {i \in DOMAIN s : s[i] = m}
Copies(m)    == UNION {{c} \X Places(m, flush[c]) : c \in Connectors}
Hands(m)     == {g \in Goroutines : call[g].item = m}

\* A message that publish was called with is in exactly one place, a pending
\* list, a connector's copy, the hands of one goroutine, or sent (or given up
\* for want of a producer) once: two connectors flushing, callbacks and Run
\* neither lose nor repeat one.
OncePerMessage ==
    \A m \in Msgs :
        Cardinality(Places(m, pendingPublishes)) + Cardinality(Copies(m))
        + Cardinality(Hands(m)) + out[m]
        = IF m \in accepted THEN 1 ELSE 0

\* A topic that was asked to be consumed keeps a proxy that is subscribed or on
\* its way to be, through reopened connections, whoever flushes and appends
\* meanwhile, unless a subscription failed, or succeeded while Run was closing
\* the consumers of the last client: r.consumers is replaced after that walk, and
\* with it goes what the walk did not meet.
TopicKeepsConsumer ==
    \A p \in accepted \cap Proxies :
        LET rivals == {q \in Proxies : Topic[q] = Topic[p]}
            holds(s) == \E i \in DOMAIN s : s[i] \in rivals
        IN \/ Topic[p] \in Taken \cup late \/ rivals \cap refused # {}
           \/ holds(pendingConsumers) \/ \E c \in Connectors : holds(flush[c])
           \/ \E g \in Goroutines : call[g].item \in rivals

\* A goroutine is opening a client.
OnItsWay == \E c \in Connectors : at[c] \in {"dialing", "connected"}

\* Run starts further connectors when it meets connecting reset and the client
\* not yet set, and an init that fails leaves connecting set for good; still an
\* instance that runs without a client has a goroutine that opens one, until it
\* is replaced.
ClientOnItsWay ==
    run \notin {"new", "stopped", "none"} /\ ~client /\ ~Over => OnItsWay

\* A goroutine will still look at the pending messages.
WillFlush ==
    \E c \in Connectors :
        at[c] \in {"dialing", "connected", "set", "consumers"} \/ tick[c]

\* Work is made pending "while the client not ready, pending" and ensurePendings
\* is there to "send pending publish messages": a message waits only as long as
\* a connector is going to take it.  The code breaks this: a goroutine that saw
\* no client may append after the last connector has taken the list.
PendingIsTaken == pendingPublishes # << >> => WillFlush \/ Over

\* A message that publish was called with is sent (or given up) unless it was
\* stranded that way, or the instance is replaced: no other interleaving keeps it.
PublishesLeave ==
    \A m \in Msgs : m \in accepted ~> out[m] = 1 \/ (pendingPublishes # << >> /\ ~WillFlush) \/ Over

=============================================================================
