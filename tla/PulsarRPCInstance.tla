------------------------- MODULE PulsarRPCInstance --------------------------
(***************************************************************************)
(* mq/pulsar's getRPCInstance: the instances of one connection share an    *)
(* rpc instance, which the first publish of a query creates.  The creator  *)
(* registers the instance and then waits, for five seconds at most, until  *)
(* the connector goroutine of init has subscribed the consumer of          *)
(* responses and says so on the unbuffered channel Ready.                  *)
(*                                                                         *)
(* The instance has a Run of its own, which starts a second connector when *)
(* it meets connecting reset and the client not yet set, and first makes   *)
(* the consumer that the first connector may have subscribed by then       *)
(* pending again.  Nobody closes an rpc instance, so its client, once set, *)
(* stays.                                                                  *)
(***************************************************************************)
CONSTANTS Askers,       \* goroutines that publish a query each; the instance
                        \* an asker creates bears its name
          NoInstance,   \* not an asker
          DsnMayFail    \* the SSH tunnel may fail to start

\* The connectors that init starts, for getRPCInstance and for Run.  Bound: Run
\* starts one.
Connectors == {"first", "second"}

VARIABLES
    at,             \* at[a]: where the publish of a is
    used,           \* used[a]: the rpc instance getRPCInstance returned
    registered,     \* pulsarInsts[rpcInstanceName]
    connecting,     \* connecting[i]: r.connecting
    client,         \* client[i]: r.client # nil
    run,            \* run[i]: where Run is, "none", "loop", "reopen" or "init"
    connector,      \* connector[i][k]: where the goroutine of init is
    again,          \* again[i][k]: a tick is left in its stopped ticker
    pending,        \* pending[i]: the proxy is in pendingConsumers
    subscriber,     \* subscriber[i]: the connector, or the creator "itself",
                    \* whose consumer is open and in r.consumers
    reading,        \* reading[i]: handleConsumes runs with that consumer
    refused,        \* history: Subscribe failed
    takenDown,      \* history: Run closed the consumer
    gaveUp          \* history: the wait for Ready ended with the ticker

askerVars    == <<at, used, registered, gaveUp>>
clientVars   == <<connecting, client, run>>
consumerVars == <<pending, subscriber, reading, refused, takenDown>>
instanceVars == <<clientVars, connector, again, consumerVars>>
vars == <<askerVars, instanceVars>>

Init ==
    /\ at = [a \in Askers |-> "idle"] /\ used = [a \in Askers |-> NoInstance]
    /\ registered = NoInstance
    /\ connecting = [i \in Askers |-> FALSE] /\ client = [i \in Askers |-> FALSE]
    /\ run = [i \in Askers |-> "none"]
    /\ connector = [i \in Askers |-> [k \in Connectors |-> "none"]]
    /\ again = [i \in Askers |-> [k \in Connectors |-> FALSE]]
    /\ pending = [i \in Askers |-> FALSE] /\ subscriber = [i \in Askers |-> "none"]
    /\ reading = [i \in Askers |-> FALSE]
    /\ refused = {} /\ takenDown = {} /\ gaveUp = {}

-----------------------------------------------------------------------------
(* getRPCInstance, in the goroutine that publishes the query *)

\* The instance is looked up under pulsarInstMutex, which is given back before
\* one is created.
LookUp(a) ==
    /\ at[a] = "idle"
    /\ \/ /\ registered # NoInstance
          /\ used' = [used EXCEPT ![a] = registered]
          /\ at' = [at EXCEPT ![a] = "publish"]
       \/ /\ registered = NoInstance
          /\ at' = [at EXCEPT ![a] = "init"]
          /\ UNCHANGED used
    /\ UNCHANGED <<registered, gaveUp, instanceVars>>

\* rpcInst.init starts the connector, and Run follows; without a DSN there is no
\* rpc instance, and the query goes out without one.
InitInstance(a) ==
    /\ at[a] = "init"
    /\ connecting' = [connecting EXCEPT ![a] = TRUE]
    /\ \/ /\ at' = [at EXCEPT ![a] = "consume"]
          /\ connector' = [connector EXCEPT ![a]["first"] = "dialing"]
          /\ run' = [run EXCEPT ![a] = "loop"]
       \/ /\ DsnMayFail
          /\ at' = [at EXCEPT ![a] = "failed"]
          /\ UNCHANGED <<connector, run>>
    /\ UNCHANGED <<used, registered, gaveUp, client, again, consumerVars>>

\* rpcInst.consume: the test of the client ...
TestClient(a) ==
    /\ at[a] = "consume"
    /\ at' = [at EXCEPT ![a] = IF client[a] THEN "subscribe" ELSE "append"]
    /\ UNCHANGED <<used, registered, gaveUp, instanceVars>>

\* ... and the append to pendingConsumers, ...
AppendPending(a) ==
    /\ at[a] = "append"
    /\ at' = [at EXCEPT ![a] = "register"]
    /\ pending' = [pending EXCEPT ![a] = TRUE]
    /\ UNCHANGED <<used, registered, gaveUp, clientVars, connector, again, subscriber,
                   reading, refused, takenDown>>

\* What Subscribe of the client does to the instance.
Subscribe(i, who) ==
    \/ subscriber' = [subscriber EXCEPT ![i] = who] /\ UNCHANGED refused
    \/ refused' = refused \cup {i} /\ UNCHANGED subscriber

\* ... or ensureConsumer in this goroutine, which sends on Ready, from where
\* only this goroutine would receive: it blocks for ever.
SubscribeItself(a) ==
    /\ at[a] = "subscribe"
    /\ at' = [at EXCEPT ![a] = "blocked"]
    /\ Subscribe(a, "itself")
    /\ UNCHANGED <<used, registered, gaveUp, clientVars, connector, again, pending, reading,
                   takenDown>>

\* The instance is registered, also over one that another asker registered.
Register(a) ==
    /\ at[a] = "register"
    /\ at' = [at EXCEPT ![a] = "wait"]
    /\ registered' = a
    /\ UNCHANGED <<used, gaveUp, instanceVars>>

\* A connector's send on Ready meets the receive of the creator, who does not look
\* at the value; the connector then starts handleConsumes with its consumer, open
\* or closed meanwhile, or returns.
ReceiveReady(a) ==
    /\ at[a] = "wait"
    /\ at' = [at EXCEPT ![a] = "publish"] /\ used' = [used EXCEPT ![a] = a]
    /\ \E k \in Connectors :
           /\ connector[a][k] = "ready"
           /\ connector' = [connector EXCEPT ![a][k] = "idle"]
           /\ reading' = [reading EXCEPT ![a] = subscriber[a] = k]
    /\ UNCHANGED <<registered, gaveUp, clientVars, again, pending, subscriber, refused,
                   takenDown>>

\* Mutant: the ticker is looked at only when the connector is through.
GiveUpLate(a) ==
    /\ at[a] = "wait" /\ \E k \in Connectors : connector[a][k] = "ready"
    /\ at' = [at EXCEPT ![a] = "publish"] /\ used' = [used EXCEPT ![a] = a]
    /\ gaveUp' = gaveUp \cup {a}
    /\ UNCHANGED <<registered, instanceVars>>

\* The five-second ticker.
GiveUp(a) ==
    /\ at[a] = "wait"
    /\ at' = [at EXCEPT ![a] = "publish"] /\ used' = [used EXCEPT ![a] = a]
    /\ gaveUp' = gaveUp \cup {a}
    /\ UNCHANGED <<registered, instanceVars>>

\* ensureRPCMessage and the send of the request.
Publish(a) ==
    /\ at[a] = "publish"
    /\ at' = [at EXCEPT ![a] = "published"]
    /\ UNCHANGED <<used, registered, gaveUp, instanceVars>>

-----------------------------------------------------------------------------
(* The goroutines of the rpc instance *)

\* The test at the head of Run's loop.
RunHead(i) ==
    /\ run[i] = "loop" /\ ~connecting[i] /\ ~client[i]
    /\ connector[i]["second"] = "none"
    /\ run' = [run EXCEPT ![i] = "reopen"]
    /\ UNCHANGED <<askerVars, connecting, client, connector, again, consumerVars>>

\* Mutant: the consumer is closed and its proxy forgotten.
RunTakesDownOnly(i) ==
    /\ run[i] = "reopen" /\ run' = [run EXCEPT ![i] = "init"]
    /\ subscriber' = [subscriber EXCEPT ![i] = "none"]
    /\ reading' = [reading EXCEPT ![i] = FALSE]
    /\ takenDown' = IF subscriber[i] = "none" THEN takenDown ELSE takenDown \cup {i}
    /\ UNCHANGED <<askerVars, connecting, client, connector, again, pending, refused>>

\* Run makes the proxy pending and closes the consumer, if there is one.  Nobody
\* else has this proxy at hand, so that the walk over r.consumers is one step.
RunTakesDown(i) ==
    /\ run[i] = "reopen" /\ run' = [run EXCEPT ![i] = "init"]
    /\ pending' = [pending EXCEPT ![i] = @ \/ subscriber[i] # "none"]
    /\ subscriber' = [subscriber EXCEPT ![i] = "none"]
    /\ reading' = [reading EXCEPT ![i] = FALSE]
    /\ takenDown' = IF subscriber[i] = "none" THEN takenDown ELSE takenDown \cup {i}
    /\ UNCHANGED <<askerVars, connecting, client, connector, again, refused>>

\* Run's init; Run does not look at its result.
RunInit(i) ==
    /\ run[i] = "init" /\ run' = [run EXCEPT ![i] = "loop"]
    /\ connecting' = [connecting EXCEPT ![i] = TRUE]
    /\ \/ connector' = [connector EXCEPT ![i]["second"] = "dialing"]
       \/ DsnMayFail /\ UNCHANGED connector
    /\ UNCHANGED <<askerVars, client, again, consumerVars>>

Goes(i, k, from, to) ==
    connector[i][k] = from /\ connector' = [connector EXCEPT ![i][k] = to]

\* NewClient, retried every second; a tick may be left over.
Connect(i, k) ==
    /\ Goes(i, k, "dialing", "connected")
    /\ connecting' = [connecting EXCEPT ![i] = FALSE]
    /\ \E more \in BOOLEAN : again' = [again EXCEPT ![i][k] = more]
    /\ UNCHANGED <<askerVars, client, run, consumerVars>>

SetClient(i, k) ==
    /\ Goes(i, k, "connected", "take")
    /\ client' = [client EXCEPT ![i] = TRUE]
    /\ UNCHANGED <<askerVars, connecting, run, again, consumerVars>>

\* ensurePendings takes the list.
TakePending(i, k) ==
    /\ Goes(i, k, "take", IF pending[i] THEN "subscribe" ELSE "idle")
    /\ pending' = [pending EXCEPT ![i] = FALSE]
    /\ UNCHANGED <<askerVars, clientVars, again, subscriber, reading, refused, takenDown>>

\* The tick that was left: another NewClient, and all that follows it.
ConnectAgain(i, k) ==
    /\ again[i][k] /\ Goes(i, k, "idle", "connected")
    /\ connecting' = [connecting EXCEPT ![i] = FALSE]
    /\ again' = [again EXCEPT ![i][k] = FALSE]
    /\ UNCHANGED <<askerVars, client, run, consumerVars>>

\* ensureConsumer up to its send on Ready.  Subscribe takes up to 30 seconds.
EnsureConsumer(i, k) ==
    /\ Goes(i, k, "subscribe", "ready")
    /\ Subscribe(i, k)
    /\ UNCHANGED <<askerVars, clientVars, again, pending, reading, takenDown>>

-----------------------------------------------------------------------------

Asking(a) == \/ LookUp(a) \/ InitInstance(a) \/ TestClient(a) \/ AppendPending(a)
             \/ SubscribeItself(a) \/ Register(a) \/ ReceiveReady(a) \/ GiveUp(a)
             \/ Publish(a)

Running(i) == RunHead(i) \/ RunTakesDown(i) \/ RunInit(i)

Connector(i, k) == \/ Connect(i, k) \/ SetClient(i, k) \/ TakePending(i, k)
                   \/ ConnectAgain(i, k) \/ EnsureConsumer(i, k)

Next == \E a \in Askers :
            Asking(a) \/ Running(a) \/ \E k \in Connectors : Connector(a, k)

\* Go runs the goroutines, tickers fire, NewClient and Subscribe return.
Fairness == \A a \in Askers : /\ WF_vars(Asking(a)) /\ WF_vars(Running(a))
                              /\ \A k \in Connectors : WF_vars(Connector(a, k))

Spec == Init /\ [][Next]_vars /\ Fairness

-----------------------------------------------------------------------------

\* Type invariant.
TypeOK ==
    /\ at \in [Askers -> {"idle", "init", "consume", "append", "subscribe", "blocked",
                          "register", "wait", "publish", "published", "failed"}]
    /\ used \in [Askers -> Askers \cup {NoInstance}]
    /\ registered \in Askers \cup {NoInstance}
    /\ connecting \in [Askers -> BOOLEAN] /\ client \in [Askers -> BOOLEAN]
    /\ run \in [Askers -> {"none", "loop", "reopen", "init"}]
    /\ connector \in [Askers -> [Connectors -> {"none", "dialing", "connected", "take",
                                                "subscribe", "ready", "idle"}]]
    /\ again \in [Askers -> [Connectors -> BOOLEAN]]
    /\ pending \in [Askers -> BOOLEAN] /\ reading \in [Askers -> BOOLEAN]
    /\ subscriber \in [Askers -> Connectors \cup {"none", "itself"}]
    /\ refused \subseteq Askers /\ takenDown \subseteq Askers /\ gaveUp \subseteq Askers

\* "waiting for rpc consumer ready, in case producer message sent before
\* subscription": a request goes out only when its response would be delivered.
RequestsAfterSubscription ==
    \A a \in Askers : at[a] \in {"publish", "published"} => subscriber[used[a]] # "none"

\* getRPCInstance returns, whatever becomes of the connector and of other
\* creators, unless it met the client already set and blocked on its own Ready.
CallsReturn ==
    \A a \in Askers : at[a] # "idle" ~> at[a] \in {"published", "failed", "blocked"}

\* A connector's send on Ready that nobody will receive.
StuckOnReady(i) == at[i] # "wait" /\ \E k \in Connectors : connector[i][k] = "ready"

\* The responses to a published query are read from some time on, whatever Run and
\* the connectors do, unless the subscription failed, which nobody repeats, or the
\* creator stopped waiting before the last connector was ready, because of the
\* five seconds or because Run took down the consumer it had heard of: then that
\* connector blocks on Ready before it reads, or nobody takes the pending proxy.
ResponsesAreRead ==
    \A a, i \in Askers :
        at[a] = "published" /\ used[a] = i ~>
            [](\/ reading[i] \/ i \in refused
               \/ i \in gaveUp \cup takenDown /\ (pending[i] \/ StuckOnReady(i)))

=============================================================================
