--------------------------- MODULE PulsarMQProofs ---------------------------
(***************************************************************************)
(* Theorems about PulsarMQ: type correctness, that a nil client is used    *)
(* only by an instance that was replaced, that an instance without a       *)
(* client has a goroutine that opens one, that a message is in one place   *)
(* and handed over once, and that a topic keeps its consumer.              *)
(***************************************************************************)
EXTENDS PulsarMQ, FiniteSetTheorems, SequenceTheorems, TLAPS

\* A goroutine that tested the client may rely on it until the replacement.
UseInv == \A g \in Goroutines : call[g].step = "use" => client \/ closing # "no"

\* While Run is at work and nothing was replaced, a client is there or comes.
WayInv ==
    run \notin {"new", "stopped", "none"} /\ closing = "no" => client \/ OnItsWay

ConnectorPlaces == {"unused", "dialing", "connected", "set", "consumers", "publishes"}
Calls == [item : Work \cup {NoItem}, step : {"none", "append", "use"}]
RunPlaces == {"new", "head", "reopen", "closing", "producers", "init", "select",
                  "stopped", "none"}

-----------------------------------------------------------------------------
(* What the shared parts of the actions do *)

\* init starts at most one goroutine and keeps the others where they are.
LEMMA InitClientFrame ==
    ASSUME TypeOK, InitClient
    PROVE  /\ connecting' = TRUE
           /\ at' \in [Connectors -> ConnectorPlaces]
           /\ \A c \in Connectors : at[c] # "unused" => at'[c] = at[c]
           /\ at' # at => \E c \in Connectors : at'[c] = "dialing"
  BY DEF TypeOK, InitClient, FirstUnused, FormatConnectionDSN, ConnectorPlaces

\* The test of r.client leads to the use of the client only when there is one.
LEMMA BeginCallFrame ==
    ASSUME TypeOK, UseInv, NEW g \in Goroutines, NEW w \in Work, BeginCall(g, w)
    PROVE  /\ call' \in [Goroutines -> Calls]
           /\ \A h \in Goroutines : call'[h].step = "use" => client \/ closing # "no"
  BY DEF TypeOK, UseInv, BeginCall, Calls

\* The end of publish and consume frees the goroutine.
LEMMA ReturnFrame ==
    ASSUME TypeOK, UseInv, NEW g \in Goroutines, Return(g)
    PROVE  /\ call' \in [Goroutines -> Calls]
           /\ \A h \in Goroutines : call'[h].step = "use" => client \/ closing # "no"
  BY DEF TypeOK, UseInv, Return, NoCall, Calls

\* A pending list can be copied to a connector.
LEMMA PendingIsWork ==
    ASSUME TypeOK
    PROVE  pendingConsumers \in Seq(Work) /\ pendingPublishes \in Seq(Work)
  BY DEF TypeOK, Work

-----------------------------------------------------------------------------
(* The invariants hold initially and every step keeps them *)

\* The initial state has the type and no calls.
LEMMA InitInv == Init => TypeOK /\ UseInv /\ WayInv
  <1> SUFFICES ASSUME Init PROVE TypeOK /\ UseInv /\ WayInv
    OBVIOUS
  <1>1. call \in [Goroutines -> Calls] /\ UseInv
    BY DEF Init, Calls, NoCall, UseInv
  <1>2. WayInv
    BY DEF Init, WayInv
  <1>3. flush \in [Connectors -> Seq(Work)] /\ out \in [Msgs -> Nat]
    BY DEF Init
  <1>4. connecting \in BOOLEAN /\ client \in BOOLEAN /\ producer \in BOOLEAN
        /\ crashed \in {"no", "nil", "map"}
    BY DEF Init
  <1>5. at \in [Connectors -> ConnectorPlaces] /\ tick \in [Connectors -> BOOLEAN]
    BY DEF Init, ConnectorPlaces
  <1>6. /\ run \in RunPlaces
        /\ due \subseteq Topics /\ walked \subseteq Topics /\ late \subseteq Topics
        /\ closing \in {"no", "reset", "closed", "signalled"}
        /\ pendingConsumers \in Seq(Proxies) /\ pendingPublishes \in Seq(Msgs)
        /\ consumers \in [Topics -> Proxies \cup {NoItem}]
        /\ accepted \subseteq Work /\ refused \subseteq Proxies
    BY DEF Init, RunPlaces
  <1> QED BY <1>1, <1>2, <1>3, <1>4, <1>5, <1>6 DEF TypeOK, Calls, ConnectorPlaces, RunPlaces

\* Steps of InitPulsarMQ.
LEMMA InstanceStep ==
    ASSUME TypeOK, UseInv, WayInv, Instance
    PROVE  TypeOK' /\ UseInv' /\ WayInv'
  <1> USE DEF connVars, pendVars, cacheVars, histVars
  <1>1. CASE InitPulsarMQ
    <2>1. TypeOK'
      BY <1>1, InitClientFrame DEF InitPulsarMQ, TypeOK, ConnectorPlaces
    <2>2. UseInv'
      BY <1>1 DEF InitPulsarMQ, UseInv
    <2>3. WayInv'
      BY <1>1, InitClientFrame DEF InitPulsarMQ, WayInv, OnItsWay
    <2> QED BY <2>1, <2>2, <2>3
  <1>2. CASE ReplaceResets
    BY <1>2 DEF ReplaceResets, TypeOK, UseInv, WayInv
  <1>4. CASE ReplaceForgetsClient
    BY <1>4 DEF ReplaceForgetsClient, TypeOK, UseInv, WayInv
  <1>3. CASE ReplaceSignal
    BY <1>3 DEF ReplaceSignal, TypeOK, UseInv, WayInv, OnItsWay
  <1> QED BY <1>1, <1>2, <1>3, <1>4 DEF Instance

\* Steps of Run.
LEMMA RunStepInv ==
    ASSUME TypeOK, UseInv, WayInv, RunStep
    PROVE  TypeOK' /\ UseInv' /\ WayInv'
  <1> USE DEF connVars, pendVars, cacheVars, histVars
  <1>1. CASE RunHead
    BY <1>1 DEF RunHead, TypeOK, UseInv, WayInv, OnItsWay
  <1>2. CASE RunReopen
    <2>1. Taken \subseteq Topics
      BY DEF Taken
    <2> QED BY <1>2, <2>1 DEF RunReopen, TypeOK, UseInv, WayInv, OnItsWay
  <1>6. ASSUME NEW t \in Topics, RunClosesConsumer(t)
        PROVE  TypeOK' /\ UseInv' /\ WayInv'
    <2>1. consumers[t] \in Proxies
      BY <1>6 DEF RunClosesConsumer, Taken, TypeOK
    <2>2. pendingConsumers' \in Seq(Proxies)
      BY <1>6, <2>1 DEF RunClosesConsumer, TypeOK
    <2> QED BY <1>6, <2>2 DEF RunClosesConsumer, TypeOK, UseInv, WayInv, OnItsWay
  <1>7. CASE RunForgetsConsumers
    <2>1. consumers' \in [Topics -> Proxies \cup {NoItem}]
      BY <1>7 DEF RunForgetsConsumers
    <2> QED BY <1>7, <2>1 DEF RunForgetsConsumers, TypeOK, UseInv, WayInv, OnItsWay
  <1>8. CASE RunClosesProducers
    BY <1>8 DEF RunClosesProducers, TypeOK, UseInv, WayInv, OnItsWay
  <1>9. CASE RunInit
    <2>1. TypeOK'
      BY <1>9, InitClientFrame DEF RunInit, TypeOK, ConnectorPlaces
    <2>2. UseInv'
      BY <1>9 DEF RunInit, UseInv
    <2>3. OnItsWay => OnItsWay'
      BY <1>9, InitClientFrame DEF RunInit, OnItsWay
    <2>4. WayInv'
      BY <1>9, <2>3 DEF RunInit, WayInv
    <2> QED BY <2>1, <2>2, <2>4
  <1>3. ASSUME NEW w \in Work, RunReceive(w)
        PROVE  TypeOK' /\ UseInv' /\ WayInv'
    <2>1. Run \in Goroutines
      BY DEF Goroutines
    <2>2. /\ call' \in [Goroutines -> Calls]
          /\ \A h \in Goroutines : call'[h].step = "use" => client \/ closing # "no"
      BY <1>3, <2>1, BeginCallFrame DEF RunReceive
    <2>3. TypeOK'
      BY <1>3, <2>2 DEF RunReceive, TypeOK, Calls
    <2>4. UseInv' /\ WayInv'
      BY <1>3, <2>2 DEF RunReceive, UseInv, WayInv, OnItsWay
    <2> QED BY <2>3, <2>4
  <1>4. CASE RunTick
    BY <1>4 DEF RunTick, TypeOK, UseInv, WayInv, OnItsWay
  <1>5. CASE RunClose
    BY <1>5 DEF RunClose, Close, TypeOK, UseInv, WayInv
  <1> QED BY <1>1, <1>2, <1>3, <1>4, <1>5, <1>6, <1>7, <1>8, <1>9 DEF RunStep, Reopen

\* Steps of the goroutines that init starts.
LEMMA ConnectorStep ==
    ASSUME TypeOK, UseInv, WayInv, NEW c \in Connectors, Connector(c)
    PROVE  TypeOK' /\ UseInv' /\ WayInv'
  <1> USE DEF loopVars, pendVars, cacheVars, histVars
  <1>1. CASE Connect(c)
    <2>1. at' \in [Connectors -> ConnectorPlaces] /\ at'[c] = "connected"
      BY <1>1 DEF Connect, TypeOK, ConnectorPlaces
    <2>2. tick' \in [Connectors -> BOOLEAN]
      BY <1>1 DEF Connect, TypeOK
    <2>3. TypeOK'
      BY <1>1, <2>1, <2>2 DEF Connect, TypeOK, ConnectorPlaces
    <2>4. UseInv'
      BY <1>1 DEF Connect, UseInv
    <2>5. WayInv'
      BY <1>1, <2>1 DEF Connect, WayInv, OnItsWay
    <2> QED BY <2>3, <2>4, <2>5
  <1>2. CASE SetClient(c)
    <2>1. TypeOK'
      BY <1>2 DEF SetClient, TypeOK
    <2>2. UseInv' /\ WayInv'
      BY <1>2 DEF SetClient, UseInv, WayInv
    <2> QED BY <2>1, <2>2
  <1>3. CASE TakePending(c)
    <2>1. at' \in [Connectors -> ConnectorPlaces]
      BY <1>3 DEF TakePending, TypeOK, ConnectorPlaces
    <2>2. flush' \in [Connectors -> Seq(Work)]
      BY <1>3, PendingIsWork DEF TakePending, TypeOK
    <2>3. pendingConsumers' \in Seq(Proxies) /\ pendingPublishes' \in Seq(Msgs)
      BY <1>3 DEF TakePending, TypeOK
    <2>4. TypeOK'
      BY <1>3, <2>1, <2>2, <2>3 DEF TakePending, TypeOK, ConnectorPlaces
    <2>5. OnItsWay => OnItsWay'
      <3> SUFFICES ASSUME NEW d \in Connectors, at[d] \in {"dialing", "connected"}
                   PROVE  at'[d] \in {"dialing", "connected"}
        BY DEF OnItsWay
      <3> QED BY <1>3 DEF TakePending, TypeOK
    <2>6. UseInv' /\ WayInv'
      BY <1>3, <2>5 DEF TakePending, UseInv, WayInv
    <2> QED BY <2>4, <2>6
  <1>4. CASE NextPending(c)
    <2>1. Head(flush[c]) \in Work /\ Tail(flush[c]) \in Seq(Work) /\ c \in Goroutines
      BY <1>4 DEF NextPending, TypeOK, Goroutines
    <2>2. /\ call' \in [Goroutines -> Calls]
          /\ \A h \in Goroutines : call'[h].step = "use" => client \/ closing # "no"
      BY <1>4, <2>1, BeginCallFrame DEF NextPending
    <2>3. TypeOK'
      BY <1>4, <2>1, <2>2 DEF NextPending, TypeOK, Calls
    <2>4. UseInv' /\ WayInv'
      BY <1>4, <2>2 DEF NextPending, UseInv, WayInv, OnItsWay
    <2> QED BY <2>3, <2>4
  <1> QED BY <1>1, <1>2, <1>3, <1>4 DEF Connector

\* A callback's response enters publish.
LEMMA ReplyStep ==
    ASSUME TypeOK, UseInv, WayInv, NEW m \in Replies, Reply(m)
    PROVE  TypeOK' /\ UseInv' /\ WayInv'
  <1> USE DEF loopVars, connVars, pendVars, cacheVars
  <1>1. m \in Goroutines /\ m \in Work
    BY WorkAssumption DEF Goroutines, Work
  <1>2. /\ call' \in [Goroutines -> Calls]
        /\ \A h \in Goroutines : call'[h].step = "use" => client \/ closing # "no"
    BY <1>1, BeginCallFrame DEF Reply
  <1>3. TypeOK'
    BY <1>1, <1>2 DEF Reply, TypeOK, Calls
  <1>4. UseInv' /\ WayInv'
    BY <1>2 DEF Reply, UseInv, WayInv, OnItsWay
  <1> QED BY <1>3, <1>4

\* publish and consume after the test.
LEMMA FinishStep ==
    ASSUME TypeOK, UseInv, WayInv, NEW g \in Goroutines, Finish(g)
    PROVE  TypeOK' /\ UseInv' /\ WayInv'
  <1> USE DEF loopVars, connVars, pendVars, cacheVars, histVars
  <1>1. CASE AppendPending(g)
    <2>1. pendingConsumers' \in Seq(Proxies) /\ pendingPublishes' \in Seq(Msgs)
      <3> DEFINE w == call[g].item
      <3>1. CASE w \in Msgs /\ pendingPublishes' = Append(pendingPublishes, w)
                 /\ UNCHANGED pendingConsumers
        BY <3>1 DEF TypeOK
      <3>2. CASE w \in Proxies /\ pendingConsumers' = Append(pendingConsumers, w)
                 /\ UNCHANGED pendingPublishes
        BY <3>2 DEF TypeOK
      <3> QED BY <1>1, <3>1, <3>2 DEF AppendPending
    <2>2. TypeOK'
      BY <1>1, <2>1, ReturnFrame DEF AppendPending, TypeOK, Calls
    <2>3. UseInv' /\ WayInv'
      BY <1>1, ReturnFrame DEF AppendPending, UseInv, WayInv, OnItsWay
    <2> QED BY <2>2, <2>3
  <1>2. CASE Send(g)
    <2>1. producer' \in BOOLEAN
      BY <1>2 DEF Send, EnsureProducer
    <2>2. out' \in [Msgs -> Nat]
      BY <1>2 DEF Send, TypeOK
    <2>3. TypeOK'
      BY <1>2, <2>1, <2>2, ReturnFrame DEF Send, TypeOK, Calls
    <2>4. UseInv' /\ WayInv'
      BY <1>2, ReturnFrame DEF Send, UseInv, WayInv, OnItsWay
    <2> QED BY <2>3, <2>4
  <1>3. CASE Subscribe(g)
    <2>1. /\ consumers' \in [Topics -> Proxies \cup {NoItem}] /\ refused' \subseteq Proxies
          /\ late' \subseteq Topics
      BY <1>3, TopicAssumption DEF Subscribe, TypeOK
    <2>2. TypeOK'
      BY <1>3, <2>1, ReturnFrame DEF Subscribe, TypeOK, Calls
    <2>3. UseInv' /\ WayInv'
      BY <1>3, ReturnFrame DEF Subscribe, UseInv, WayInv, OnItsWay
    <2> QED BY <2>2, <2>3
  <1>4. CASE NilClient(g)
    BY <1>4 DEF NilClient, TypeOK, UseInv, WayInv, OnItsWay
  <1>5. CASE MapFault(g)
    BY <1>5 DEF MapFault, TypeOK, UseInv, WayInv, OnItsWay
  <1> QED BY <1>1, <1>2, <1>3, <1>4, <1>5 DEF Finish

LEMMA NextInv == TypeOK /\ UseInv /\ WayInv /\ [Next]_vars => TypeOK' /\ UseInv' /\ WayInv'
  <1> SUFFICES ASSUME TypeOK, UseInv, WayInv, [Next]_vars
               PROVE  TypeOK' /\ UseInv' /\ WayInv'
    OBVIOUS
  <1>1. CASE Next
    BY <1>1, InstanceStep, RunStepInv, ConnectorStep, ReplyStep, FinishStep DEF Next
  <1>2. CASE UNCHANGED vars
    BY <1>2 DEF vars, loopVars, connVars, pendVars, cacheVars, histVars,
                TypeOK, UseInv, WayInv, OnItsWay
  <1> QED BY <1>1, <1>2

\* Only NilClient ends the program, and UseInv leaves it the replacement.
LEMMA PanicStep ==
    TypeOK /\ UseInv /\ PanicsOnlyWhenReplaced /\ [Next]_vars => PanicsOnlyWhenReplaced'
  <1> SUFFICES ASSUME TypeOK, UseInv, PanicsOnlyWhenReplaced, [Next]_vars
               PROVE  PanicsOnlyWhenReplaced'
    OBVIOUS
  <1> USE DEF loopVars, connVars, pendVars, cacheVars, histVars
  <1>1. ASSUME NEW g \in Goroutines, NilClient(g)
        PROVE  PanicsOnlyWhenReplaced'
    BY <1>1 DEF NilClient, UseInv, PanicsOnlyWhenReplaced
  <1>2. ASSUME NEW g \in Goroutines, AppendPending(g) \/ Send(g) \/ Subscribe(g)
        PROVE  UNCHANGED <<crashed, closing>>
    BY <1>2 DEF AppendPending, Send, Subscribe
  <1>8. ASSUME NEW g \in Goroutines, MapFault(g)
        PROVE  PanicsOnlyWhenReplaced'
    BY <1>8 DEF MapFault, PanicsOnlyWhenReplaced
  <1>3. Instance => crashed' = crashed /\ (closing # "no" => closing' # "no")
    BY DEF Instance, InitPulsarMQ, ReplaceResets, ReplaceForgetsClient, ReplaceSignal
  <1>4. RunStep => UNCHANGED <<crashed, closing>>
    BY DEF RunStep, RunHead, Reopen, RunReopen, RunClosesConsumer, RunForgetsConsumers,
           RunClosesProducers, RunInit, RunTick, RunClose, RunReceive
  <1>5. \A c \in Connectors : Connector(c) => UNCHANGED <<crashed, closing>>
    BY DEF Connector, Connect, SetClient, TakePending, NextPending
  <1>6. \A m \in Replies : Reply(m) => UNCHANGED <<crashed, closing>>
    BY DEF Reply
  <1>7. UNCHANGED vars => UNCHANGED <<crashed, closing>>
    BY DEF vars
  <1> QED BY <1>1, <1>2, <1>3, <1>4, <1>5, <1>6, <1>7, <1>8
          DEF Next, Finish, PanicsOnlyWhenReplaced

-----------------------------------------------------------------------------
(* Who has what at hand *)

\* Run waits without a call, and a callback's goroutine has its own response.
CallInv == /\ run \in {"reopen", "closing", "producers", "init", "select"} => call[Run].item = NoItem
           /\ \A m \in Replies : call[m].item \in {NoItem, m}

\* What the beginning and the end of publish and consume do to the goroutines.
LEMMA BeginHands ==
    ASSUME TypeOK, NEW g \in Goroutines, NEW w, BeginCall(g, w)
    PROVE  /\ call'[g].item = w
           /\ \A h \in Goroutines \ {g} : call'[h].item = call[h].item
  BY DEF TypeOK, BeginCall

LEMMA ReturnHands ==
    ASSUME TypeOK, NEW g \in Goroutines, Return(g)
    PROVE  /\ call'[g].item = NoItem
           /\ \A h \in Goroutines \ {g} : call'[h].item = call[h].item
  BY DEF TypeOK, Return, NoCall

\* Run, the connectors and the callbacks are different goroutines.
LEMMA WhoIsWho == /\ Run \in Goroutines /\ Connectors \subseteq Goroutines /\ Replies \subseteq Goroutines
                  /\ \A c \in Connectors : c # Run /\ c \notin Replies
                  /\ \A m \in Replies : m # Run
  BY RunAssumption DEF Goroutines

\* NoItem is no message and no proxy, and no message is a proxy.
LEMMA WhatIsWhat == /\ NoItem \notin Msgs /\ NoItem \notin Proxies
                    /\ \A m \in Msgs : m \notin Proxies
  BY WorkAssumption DEF Work

LEMMA NextCallInv == TypeOK /\ CallInv /\ [Next]_vars => CallInv'
  <1> SUFFICES ASSUME TypeOK, CallInv, [Next]_vars PROVE CallInv'
    OBVIOUS
  <1> USE DEF loopVars, connVars, pendVars, cacheVars, histVars
  <1>1. CASE Instance
    BY <1>1 DEF Instance, InitPulsarMQ, ReplaceResets, ReplaceForgetsClient, ReplaceSignal,
                CallInv
  <1>2. CASE RunHead \/ Reopen \/ RunTick \/ RunClose
    BY <1>2 DEF RunHead, Reopen, RunReopen, RunClosesConsumer, RunForgetsConsumers,
                RunClosesProducers, RunInit, RunTick, RunClose, CallInv, NoCall
  <1>3. ASSUME NEW w \in Work, RunReceive(w) PROVE CallInv'
    <2>1. \A h \in Goroutines \ {Run} : call'[h].item = call[h].item
      BY <1>3, WhoIsWho, BeginHands DEF RunReceive
    <2> QED BY <1>3, <2>1, WhoIsWho DEF RunReceive, CallInv
  <1>4. ASSUME NEW c \in Connectors, Connector(c) PROVE CallInv'
    <2>1. \A h \in Goroutines \ {c} : call'[h].item = call[h].item
      <3>1. CASE NextPending(c)
        BY <3>1, WhoIsWho, BeginHands DEF NextPending
      <3>2. CASE Connect(c) \/ SetClient(c) \/ TakePending(c)
        BY <3>2 DEF Connect, SetClient, TakePending
      <3> QED BY <1>4, <3>1, <3>2 DEF Connector
    <2>2. run' = run
      BY <1>4 DEF Connector, Connect, SetClient, TakePending, NextPending
    <2> QED BY <2>1, <2>2, WhoIsWho DEF CallInv
  <1>5. ASSUME NEW m \in Replies, Reply(m) PROVE CallInv'
    <2>1. call'[m].item = m /\ \A h \in Goroutines \ {m} : call'[h].item = call[h].item
      BY <1>5, WhoIsWho, BeginHands DEF Reply
    <2>2. run' = run
      BY <1>5 DEF Reply
    <2> QED BY <2>1, <2>2, WhoIsWho DEF CallInv
  <1>6. ASSUME NEW g \in Goroutines, Finish(g) PROVE CallInv'
    <2>1. \A h \in Goroutines : call'[h].item \in {NoItem, call[h].item}
      <3>1. CASE AppendPending(g) \/ Send(g) \/ Subscribe(g)
        BY <3>1, ReturnHands DEF AppendPending, Send, Subscribe
      <3>2. CASE NilClient(g)
        BY <3>2 DEF NilClient
      <3>3. CASE MapFault(g)
        BY <3>3 DEF MapFault
      <3> QED BY <1>6, <3>1, <3>2, <3>3 DEF Finish
    <2>2. run' = run
      BY <1>6 DEF Finish, AppendPending, Send, Subscribe, NilClient, MapFault
    <2> QED BY <2>1, <2>2, WhoIsWho DEF CallInv
  <1>7. CASE UNCHANGED vars
    BY <1>7 DEF vars, CallInv
  <1> QED BY <1>1, <1>2, <1>3, <1>4, <1>5, <1>6, <1>7 DEF Next, RunStep

-----------------------------------------------------------------------------
(* Every message is in one place *)

Single(S) == \E x \in S : S = {x}
NoCopy(m)  == \A c \in Connectors : Places(m, flush[c]) = {}
OneCopy(m) == \E c \in Connectors : /\ Single(Places(m, flush[c]))
                                    /\ \A d \in Connectors \ {c} : Places(m, flush[d]) = {}

\* A message is nowhere, sent, pending, copied, or at hand.
Nowhere(m) == /\ m \notin accepted /\ out[m] = 0
              /\ Places(m, pendingPublishes) = {} /\ NoCopy(m) /\ Hands(m) = {}
IsOut(m)   == /\ m \in accepted /\ out[m] = 1
              /\ Places(m, pendingPublishes) = {} /\ NoCopy(m) /\ Hands(m) = {}
IsPending(m) == /\ m \in accepted /\ out[m] = 0
                /\ Single(Places(m, pendingPublishes)) /\ NoCopy(m) /\ Hands(m) = {}
IsCopied(m)  == /\ m \in accepted /\ out[m] = 0
                /\ Places(m, pendingPublishes) = {} /\ OneCopy(m) /\ Hands(m) = {}
IsAtHand(m)  == /\ m \in accepted /\ out[m] = 0
                /\ Places(m, pendingPublishes) = {} /\ NoCopy(m) /\ Single(Hands(m))

Tracked(m) == Nowhere(m) \/ IsOut(m) \/ IsPending(m) \/ IsCopied(m) \/ IsAtHand(m)

\* OncePerMessage without counting, which is inductive.
OnceInv == \A m \in Msgs : Tracked(m)

USE DEF Tracked, Nowhere, IsOut, IsPending, IsCopied, IsAtHand

\* The places of a message in a sequence that grew at the end or lost its head.
LEMMA PlacesAppend ==
    ASSUME NEW S, NEW s \in Seq(S), NEW e \in S, NEW m
    PROVE  Places(m, Append(s, e)) = IF e = m THEN Places(m, s) \cup {Len(s) + 1}
                                     ELSE Places(m, s)
  <1>1. /\ Len(s) \in Nat /\ DOMAIN s = 1 .. Len(s)
        /\ DOMAIN Append(s, e) = 1 .. Len(s) + 1
        /\ \A i \in 1 .. Len(s) : Append(s, e)[i] = s[i]
        /\ Append(s, e)[Len(s) + 1] = e
    OBVIOUS
  <1>2. \A i : i \in 1 .. Len(s) + 1 <=> i \in 1 .. Len(s) \/ i = Len(s) + 1
    BY <1>1
  <1> QED BY <1>1, <1>2 DEF Places

LEMMA PlacesTail ==
    ASSUME NEW S, NEW s \in Seq(S), s # << >>, NEW m
    PROVE  /\ Head(s) = m => Places(m, s) # {}
           /\ Places(m, s) = {} => Places(m, Tail(s)) = {}
           /\ Single(Places(m, s)) /\ Head(s) = m => Places(m, Tail(s)) = {}
           /\ Single(Places(m, s)) /\ Head(s) # m => Single(Places(m, Tail(s)))
  <1>1. /\ Len(s) \in Nat /\ Len(s) >= 1 /\ DOMAIN s = 1 .. Len(s)
        /\ DOMAIN Tail(s) = 1 .. Len(s) - 1
        /\ \A i \in 1 .. Len(s) - 1 : Tail(s)[i] = s[i + 1]
        /\ Head(s) = s[1]
    BY EmptySeq, LenProperties, HeadTailProperties
  <1>2. /\ \A i \in Places(m, Tail(s)) : i \in 1 .. Len(s) - 1 /\ i + 1 \in Places(m, s)
        /\ \A i \in Places(m, s) : i \in 1 .. Len(s)
        /\ \A i \in Places(m, s) : i # 1 => i - 1 \in Places(m, Tail(s))
        /\ 1 \in Places(m, s) <=> Head(s) = m
    BY <1>1 DEF Places
  <1>3. Single(Places(m, s)) /\ Head(s) = m => Places(m, Tail(s)) = {}
    <2> SUFFICES ASSUME Single(Places(m, s)), Head(s) = m, NEW i \in Places(m, Tail(s)) PROVE FALSE
      OBVIOUS
    <2>1. 1 \in Places(m, s) /\ i + 1 \in Places(m, s) /\ i + 1 # 1
      BY <1>1, <1>2
    <2> QED BY <2>1 DEF Single
  <1>4. ASSUME Single(Places(m, s)), Head(s) # m PROVE Single(Places(m, Tail(s)))
    <2>1. PICK k \in Places(m, s) : Places(m, s) = {k}
      BY <1>4 DEF Single
    <2>2. k # 1 /\ k \in Nat /\ k - 1 \in Places(m, Tail(s))
      BY <1>1, <1>2, <1>4, <2>1
    <2>3. \A i \in Places(m, Tail(s)) : i = k - 1
      BY <1>1, <1>2, <2>1
    <2>4. Places(m, Tail(s)) = {k - 1}
      BY <2>2, <2>3
    <2> QED BY <2>2, <2>4 DEF Single
  <1> QED BY <1>2, <1>3, <1>4

\* A list of proxies holds no message.
LEMMA PlacesOfProxies ==
    ASSUME NEW m \in Msgs
    PROVE  Places(m, << >>) = {} /\ \A s \in Seq(Proxies) : Places(m, s) = {}
  BY WhatIsWhat DEF Places

\* A step that moves no message.
LEMMA NothingMoves ==
    ASSUME OnceInv, NEW m \in Msgs, flush' = flush, pendingPublishes' = pendingPublishes,
           out'[m] = out[m], m \in accepted' <=> m \in accepted,
           Hands(m)' = Hands(m)
    PROVE  Tracked(m)'
  <1>1. Places(m, pendingPublishes') = Places(m, pendingPublishes)
    OBVIOUS
  <1>2. NoCopy(m)' = NoCopy(m) /\ OneCopy(m)' = OneCopy(m)
    BY DEF NoCopy, OneCopy
  <1> QED BY <1>1, <1>2 DEF OnceInv

\* Run receives a message, or a callback publishes its response.
LEMMA AcceptedOnce ==
    ASSUME TypeOK, OnceInv, NEW g \in Goroutines, NEW w \in Work,
           call[g].item = NoItem \/ call[g].item = w, w \notin accepted,
           accepted' = accepted \cup {w}, BeginCall(g, w),
           UNCHANGED <<pendingPublishes, flush, out>>
    PROVE  OnceInv'
  <1> SUFFICES ASSUME NEW m \in Msgs PROVE Tracked(m)'
    BY DEF OnceInv
  <1>1. call'[g].item = w /\ \A h \in Goroutines \ {g} : call'[h].item = call[h].item
    BY BeginHands
  <1>2. CASE m # w
    <2>1. Hands(m)' = Hands(m)
      BY <1>1, <1>2, WhatIsWhat DEF Hands
    <2> QED BY <1>2, <2>1, NothingMoves
  <1>3. CASE m = w
    <2>1. Nowhere(m)
      BY <1>3 DEF OnceInv
    <2>2. Hands(m)' = {g}
      BY <1>1, <1>3, <2>1 DEF Hands
    <2>3. Single(Hands(m)')
      BY <2>2 DEF Single
    <2>4. NoCopy(m)' /\ Places(m, pendingPublishes)' = {} /\ out'[m] = 0 /\ m \in accepted'
      BY <1>3, <2>1 DEF NoCopy
    <2> QED BY <2>3, <2>4
  <1> QED BY <1>2, <1>3

\* A goroutine puts what it had at hand down as pending, or sends it.
LEMMA PutDownOnce ==
    ASSUME TypeOK, OnceInv, NEW g \in Goroutines, Return(g), flush' = flush, accepted' = accepted,
           NEW w \in Work, call[g].item = w,
           \/ /\ w \in Msgs /\ pendingPublishes' = Append(pendingPublishes, w) /\ out' = out
           \/ /\ w \in Msgs /\ pendingPublishes' = pendingPublishes
              /\ out' = [out EXCEPT ![w] = @ + 1]
           \/ w \in Proxies /\ pendingPublishes' = pendingPublishes /\ out' = out
    PROVE  OnceInv'
  <1> SUFFICES ASSUME NEW m \in Msgs PROVE Tracked(m)'
    BY DEF OnceInv
  <1>1. call'[g].item = NoItem /\ \A h \in Goroutines \ {g} : call'[h].item = call[h].item
    BY ReturnHands
  <1>2. Hands(m)' = Hands(m) \ {g}
    BY <1>1, WhatIsWhat DEF Hands
  <1>3. NoCopy(m)' = NoCopy(m) /\ OneCopy(m)' = OneCopy(m)
    BY DEF NoCopy, OneCopy
  <1>4. pendingPublishes \in Seq(Msgs) /\ out \in [Msgs -> Nat]
    BY DEF TypeOK
  <1>5. CASE m # w
    <2>1. Hands(m)' = Hands(m)
      BY <1>2, <1>5 DEF Hands
    <2>2. Places(m, pendingPublishes') = Places(m, pendingPublishes)
      <3>1. CASE w \in Msgs /\ pendingPublishes' = Append(pendingPublishes, w)
        <4>1. Places(m, Append(pendingPublishes, w)) = Places(m, pendingPublishes)
          BY <1>4, <1>5, <3>1, PlacesAppend
        <4> QED BY <3>1, <4>1
      <3>2. CASE pendingPublishes' = pendingPublishes
        BY <3>2
      <3> QED BY <3>1, <3>2
    <2>3. out'[m] = out[m]
      BY <1>4, <1>5
    <2> QED BY <1>3, <2>1, <2>2, <2>3 DEF OnceInv
  <1>6. CASE m = w
    <2>1. g \in Hands(m)
      BY <1>6 DEF Hands
    <2>2. IsAtHand(m)
      BY <2>1 DEF OnceInv
    <2>3. Hands(m)' = {}
      BY <1>2, <2>1, <2>2 DEF Single
    <2>4. CASE pendingPublishes' = Append(pendingPublishes, w) /\ out' = out
      <3>1. Places(m, pendingPublishes') = {Len(pendingPublishes) + 1}
        BY <1>4, <1>6, <2>2, <2>4, PlacesAppend
      <3>2. Single(Places(m, pendingPublishes'))
        BY <3>1 DEF Single
      <3> QED BY <1>3, <2>2, <2>3, <2>4, <3>2
    <2>5. CASE pendingPublishes' = pendingPublishes /\ out' = [out EXCEPT ![w] = @ + 1]
      <3>1. out'[m] = 1
        BY <1>4, <1>6, <2>2, <2>5
      <3> QED BY <1>3, <2>2, <2>3, <2>5, <3>1
    <2> QED BY <1>6, <2>4, <2>5, WhatIsWhat
  <1> QED BY <1>5, <1>6

\* ensurePendings takes a list.
LEMMA TakeOnce ==
    ASSUME TypeOK, OnceInv, NEW c \in Connectors, TakePending(c)
    PROVE  OnceInv'
  <1> SUFFICES ASSUME NEW m \in Msgs PROVE Tracked(m)'
    BY DEF OnceInv
  <1>1. /\ UNCHANGED <<call, accepted, out>> /\ flush[c] = << >>
        /\ flush \in [Connectors -> Seq(Work)]
    BY DEF TypeOK, TakePending, histVars
  <1>2. Hands(m)' = Hands(m) /\ Places(m, flush[c]) = {}
    BY <1>1, PlacesOfProxies DEF Hands
  <1>3. \A d \in Connectors \ {c} : flush'[d] = flush[d]
    BY <1>1 DEF TakePending
  <1>4. CASE /\ flush' = [flush EXCEPT ![c] = pendingConsumers]
             /\ pendingPublishes' = pendingPublishes
    <2>1. Places(m, flush'[c]) = {}
      BY <1>1, <1>4, PlacesOfProxies DEF TypeOK
    <2>2. \A d \in Connectors : Places(m, flush'[d]) = Places(m, flush[d])
      BY <1>2, <1>3, <2>1
    <2>3. NoCopy(m)' = NoCopy(m) /\ OneCopy(m)' = OneCopy(m)
      BY <2>2 DEF NoCopy, OneCopy
    <2> QED BY <1>1, <1>2, <1>4, <2>3 DEF OnceInv
  <1>5. CASE /\ flush' = [flush EXCEPT ![c] = pendingPublishes]
             /\ pendingPublishes' = << >>
    <2>1. Places(m, flush'[c]) = Places(m, pendingPublishes) /\ Places(m, pendingPublishes') = {}
      BY <1>1, <1>5, PlacesOfProxies
    <2>2. CASE IsPending(m)
      <3>1. \A d \in Connectors \ {c} : Places(m, flush'[d]) = {}
        BY <1>3, <2>2 DEF NoCopy
      <3>2. OneCopy(m)'
        BY <2>1, <2>2, <3>1 DEF OneCopy
      <3> QED BY <1>1, <1>2, <2>1, <2>2, <3>2
    <2>3. CASE ~IsPending(m)
      <3>1. Places(m, pendingPublishes) = {}
        BY <2>3 DEF OnceInv
      <3>2. \A d \in Connectors : Places(m, flush'[d]) = Places(m, flush[d])
        BY <1>2, <1>3, <2>1, <3>1
      <3>3. NoCopy(m)' = NoCopy(m) /\ OneCopy(m)' = OneCopy(m)
        BY <3>2 DEF NoCopy, OneCopy
      <3> QED BY <1>1, <1>2, <2>1, <3>1, <3>3 DEF OnceInv
    <2> QED BY <2>2, <2>3
  <1> QED BY <1>4, <1>5 DEF TakePending

\* The loops over the copies.
LEMMA NextPendingOnce ==
    ASSUME TypeOK, OnceInv, NEW c \in Connectors, NextPending(c)
    PROVE  OnceInv'
  <1> SUFFICES ASSUME NEW m \in Msgs PROVE Tracked(m)'
    BY DEF OnceInv
  <1> DEFINE w == Head(flush[c])
  <1>1. /\ UNCHANGED <<pendingPublishes, accepted, out>> /\ flush[c] # << >>
        /\ flush \in [Connectors -> Seq(Work)] /\ flush[c] \in Seq(Work)
        /\ call[c].item = NoItem /\ c \in Goroutines /\ BeginCall(c, w)
        /\ flush' = [flush EXCEPT ![c] = Tail(flush[c])]
    BY WhoIsWho DEF TypeOK, NextPending, pendVars, histVars, NoCall
  <1>2. call'[c].item = w /\ \A h \in Goroutines \ {c} : call'[h].item = call[h].item
    BY <1>1, BeginHands
  <1>3. /\ flush'[c] = Tail(flush[c])
        /\ \A d \in Connectors \ {c} : flush'[d] = flush[d]
    BY <1>1
  <1>4. /\ w = m => Places(m, flush[c]) # {}
        /\ Places(m, flush[c]) = {} => Places(m, flush'[c]) = {}
        /\ Single(Places(m, flush[c])) /\ w = m => Places(m, flush'[c]) = {}
        /\ Single(Places(m, flush[c])) /\ w # m => Single(Places(m, flush'[c]))
    BY <1>1, <1>3, PlacesTail
  <1> HIDE DEF w
  <1>5. CASE w = m
    <2>1. IsCopied(m)
      BY <1>4, <1>5 DEF OnceInv, NoCopy
    <2>2. Single(Places(m, flush[c])) /\ \A d \in Connectors \ {c} : Places(m, flush[d]) = {}
      BY <1>4, <1>5, <2>1 DEF OneCopy
    <2>3. NoCopy(m)'
      BY <1>3, <1>4, <1>5, <2>2 DEF NoCopy
    <2>4. Hands(m)' = {c}
      BY <1>1, <1>2, <1>5, <2>1 DEF Hands
    <2>5. Single(Hands(m)')
      BY <2>4 DEF Single
    <2> QED BY <1>1, <2>1, <2>3, <2>5
  <1>6. CASE w # m
    <2>1. Hands(m)' = Hands(m)
      BY <1>1, <1>2, <1>6, WhatIsWhat DEF Hands
    <2>2. NoCopy(m) => NoCopy(m)'
      BY <1>3, <1>4 DEF NoCopy
    <2>3. ASSUME OneCopy(m) PROVE OneCopy(m)'
      <3>1. PICK e \in Connectors : /\ Single(Places(m, flush[e]))
                                    /\ \A d \in Connectors \ {e} : Places(m, flush[d]) = {}
        BY <2>3 DEF OneCopy
      <3>2. Single(Places(m, flush'[e]))
        BY <1>3, <1>4, <1>6, <3>1
      <3>3. \A d \in Connectors \ {e} : Places(m, flush'[d]) = {}
        BY <1>3, <1>4, <3>1
      <3> QED BY <3>2, <3>3 DEF OneCopy
    <2> QED BY <1>1, <2>1, <2>2, <2>3 DEF OnceInv
  <1> QED BY <1>5, <1>6

LEMMA NextOnceInv == TypeOK /\ CallInv /\ OnceInv /\ [Next]_vars => OnceInv'
  <1> SUFFICES ASSUME TypeOK, CallInv, OnceInv, [Next]_vars PROVE OnceInv'
    OBVIOUS
  <1>1. ASSUME UNCHANGED <<flush, call, pendingPublishes, accepted, out>> PROVE OnceInv'
    <2> SUFFICES ASSUME NEW m \in Msgs PROVE Tracked(m)'
      BY DEF OnceInv
    <2>1. Hands(m)' = Hands(m)
      BY <1>1 DEF Hands
    <2> QED BY <1>1, <2>1, NothingMoves
  <1> USE DEF loopVars, connVars, pendVars, cacheVars, histVars
  <1>2. CASE Instance
    BY <1>1, <1>2 DEF Instance, InitPulsarMQ, ReplaceResets, ReplaceForgetsClient, ReplaceSignal
  <1>3. CASE RunHead \/ Reopen \/ RunTick \/ RunClose
    BY <1>1, <1>3 DEF RunHead, Reopen, RunReopen, RunClosesConsumer, RunForgetsConsumers,
                      RunClosesProducers, RunInit, RunTick, RunClose
  <1>4. ASSUME NEW w \in Work, RunReceive(w) PROVE OnceInv'
    BY <1>4, WhoIsWho, AcceptedOnce DEF RunReceive, CallInv
  <1>5. ASSUME NEW c \in Connectors, Connector(c) PROVE OnceInv'
    <2>1. CASE Connect(c) \/ SetClient(c)
      BY <1>1, <2>1 DEF Connect, SetClient
    <2> QED BY <1>5, <2>1, TakeOnce, NextPendingOnce DEF Connector
  <1>6. ASSUME NEW m \in Replies, Reply(m) PROVE OnceInv'
    <2>1. m \in Work /\ m \in Goroutines /\ call[m].item \in {NoItem, m}
      BY WorkAssumption, WhoIsWho DEF Work, CallInv
    <2> QED BY <1>6, <2>1, AcceptedOnce DEF Reply
  <1>7. ASSUME NEW g \in Goroutines, AppendPending(g) \/ Send(g) \/ Subscribe(g) PROVE OnceInv'
    <2> DEFINE w == call[g].item
    <2>1. w \in Work
      BY <1>7, WhatIsWhat DEF AppendPending, Send, Subscribe, Work
    <2>2. Return(g) /\ UNCHANGED <<flush, accepted>>
      BY <1>7 DEF AppendPending, Send, Subscribe
    <2>3. \/ /\ w \in Msgs /\ pendingPublishes' = Append(pendingPublishes, w) /\ out' = out
          \/ /\ w \in Msgs /\ pendingPublishes' = pendingPublishes
             /\ out' = [out EXCEPT ![w] = @ + 1]
          \/ w \in Proxies /\ pendingPublishes' = pendingPublishes /\ out' = out
      BY <1>7 DEF AppendPending, Send, Subscribe
    <2> QED BY <2>1, <2>2, <2>3, PutDownOnce
  <1>8. ASSUME NEW g \in Goroutines, NilClient(g) \/ MapFault(g) PROVE OnceInv'
    BY <1>1, <1>8 DEF NilClient, MapFault
  <1>9. CASE UNCHANGED vars
    BY <1>1, <1>9 DEF vars
  <1> QED BY <1>2, <1>3, <1>4, <1>5, <1>6, <1>7, <1>8, <1>9 DEF Next, RunStep, Finish

\* Counting the places of a message that is tracked.
LEMMA CountCopies ==
    ASSUME NEW m
    PROVE  /\ NoCopy(m) => Copies(m) = {}
           /\ OneCopy(m) => Single(Copies(m))
  <1>1. NoCopy(m) => Copies(m) = {}
    BY DEF NoCopy, Copies
  <1>2. ASSUME OneCopy(m) PROVE Single(Copies(m))
    <2>1. PICK c \in Connectors : /\ Single(Places(m, flush[c]))
                                  /\ \A d \in Connectors \ {c} : Places(m, flush[d]) = {}
      BY <1>2 DEF OneCopy
    <2>2. PICK i \in Places(m, flush[c]) : Places(m, flush[c]) = {i}
      BY <2>1 DEF Single
    <2>3. Copies(m) = {c} \X {i}
      BY <2>1, <2>2 DEF Copies
    <2>4. Copies(m) = {<<c, i>>}
      BY <2>3
    <2> QED BY <2>4 DEF Single
  <1> QED BY <1>1, <1>2

LEMMA OnceCounts == OnceInv => OncePerMessage
  <1> SUFFICES ASSUME OnceInv, NEW m \in Msgs
               PROVE  Cardinality(Places(m, pendingPublishes)) + Cardinality(Copies(m))
                      + Cardinality(Hands(m)) + out[m] = IF m \in accepted THEN 1 ELSE 0
    BY DEF OncePerMessage
  <1>1. \A S : Single(S) => Cardinality(S) = 1
    BY FS_Singleton DEF Single
  <1>2. Cardinality({}) = 0
    BY FS_EmptySet
  <1>3. NoCopy(m) => Cardinality(Copies(m)) = 0
    BY <1>2, CountCopies
  <1>4. OneCopy(m) => Cardinality(Copies(m)) = 1
    BY <1>1, CountCopies
  <1> QED BY <1>1, <1>2, <1>3, <1>4 DEF OnceInv

-----------------------------------------------------------------------------
(* Every topic keeps a consumer *)

\* A consumer in r.consumers is filed under its own topic.
ConsumersInv == \A t \in Topics : consumers[t] # NoItem => Topic[consumers[t]] = t

\* TopicKeepsConsumer for one proxy.
Rivals(p)   == {q \in Proxies : Topic[q] = Topic[p]}
Holds(s, R) == \E i \in DOMAIN s : s[i] \in R
Kept(p) == \/ Topic[p] \in Taken \cup late \/ Rivals(p) \cap refused # {}
           \/ Holds(pendingConsumers, Rivals(p))
           \/ \E c \in Connectors : Holds(flush[c], Rivals(p))
           \/ \E g \in Goroutines : call[g].item \in Rivals(p)

LEMMA KeptIsTheProperty ==
    TopicKeepsConsumer <=> \A p \in accepted \cap Proxies : Kept(p)
  BY DEF TopicKeepsConsumer, Kept, Rivals, Holds

\* While Run walks over r.consumers, every topic there was met at the beginning or
\* is late, and the proxies of those met are pending: the list is Run's alone.
WalkInv ==
    run = "closing" =>
        /\ Taken \subseteq due \cup late
        /\ \A t \in walked : t \in Taken /\ Holds(pendingConsumers, {consumers[t]})

LEMMA NextConsumersInv == TypeOK /\ ConsumersInv /\ [Next]_vars => ConsumersInv'
  <1> SUFFICES ASSUME TypeOK, ConsumersInv, [Next]_vars PROVE ConsumersInv'
    OBVIOUS
  <1> USE DEF loopVars, connVars, pendVars, cacheVars, histVars
  <1>1. CASE RunForgetsConsumers
    BY <1>1 DEF RunForgetsConsumers, ConsumersInv
  <1>2. ASSUME NEW g \in Goroutines, Subscribe(g) PROVE ConsumersInv'
    <2>1. \/ consumers' = consumers
          \/ consumers' = [consumers EXCEPT ![Topic[call[g].item]] = call[g].item]
      BY <1>2 DEF Subscribe
    <2> QED BY <2>1 DEF TypeOK, ConsumersInv
  <1>3. ASSUME consumers' = consumers PROVE ConsumersInv'
    BY <1>3 DEF ConsumersInv
  <1>4. CASE Instance \/ RunHead \/ RunTick \/ RunClose \/ (\E w \in Work : RunReceive(w))
    BY <1>3, <1>4 DEF Instance, InitPulsarMQ, ReplaceResets, ReplaceForgetsClient, ReplaceSignal,
                      RunHead, RunTick, RunClose, RunReceive
  <1>9. CASE RunReopen \/ RunClosesProducers \/ RunInit \/ \E t \in Topics : RunClosesConsumer(t)
    BY <1>3, <1>9 DEF RunReopen, RunClosesProducers, RunInit, RunClosesConsumer
  <1>5. ASSUME NEW c \in Connectors, Connector(c) PROVE consumers' = consumers
    BY <1>5 DEF Connector, Connect, SetClient, TakePending, NextPending
  <1>6. ASSUME NEW m \in Replies, Reply(m) PROVE consumers' = consumers
    BY <1>6 DEF Reply
  <1>7. ASSUME NEW g \in Goroutines, AppendPending(g) \/ Send(g) \/ NilClient(g) \/ MapFault(g)
        PROVE  consumers' = consumers
    BY <1>7 DEF AppendPending, Send, NilClient, MapFault
  <1>8. CASE UNCHANGED vars
    BY <1>3, <1>8 DEF vars
  <1> QED BY <1>1, <1>2, <1>3, <1>4, <1>5, <1>6, <1>7, <1>8, <1>9
          DEF Next, RunStep, Reopen, Finish

\* A list that grows keeps what it holds.
LEMMA HoldsMore ==
    ASSUME NEW S, NEW s \in Seq(S), NEW e \in S, NEW R
    PROVE  /\ Holds(s, R) => Holds(Append(s, e), R)
           /\ e \in R => Holds(Append(s, e), R)
           /\ ~Holds(<< >>, R)
           /\ s # << >> /\ Holds(s, R) => Head(s) \in R \/ Holds(Tail(s), R)
  <1>1. /\ Len(s) \in Nat /\ DOMAIN s = 1 .. Len(s)
        /\ DOMAIN Append(s, e) = 1 .. Len(s) + 1
        /\ \A i \in 1 .. Len(s) : Append(s, e)[i] = s[i]
        /\ Append(s, e)[Len(s) + 1] = e
    OBVIOUS
  <1>3. Holds(s, R) => Holds(Append(s, e), R)
    BY <1>1 DEF Holds
  <1>4. e \in R => Holds(Append(s, e), R)
    BY <1>1 DEF Holds
  <1>6. ASSUME s # << >>, NEW i \in 1 .. Len(s), s[i] \in R, Head(s) \notin R
        PROVE  Holds(Tail(s), R)
    <2>1. /\ DOMAIN Tail(s) = 1 .. Len(s) - 1 /\ Head(s) = s[1]
          /\ \A j \in 1 .. Len(s) - 1 : Tail(s)[j] = s[j + 1]
      BY <1>6, EmptySeq, LenProperties, HeadTailProperties
    <2>2. i # 1
      BY <1>6, <2>1
    <2>3. i - 1 \in 1 .. Len(s) - 1 /\ Tail(s)[i - 1] = s[(i - 1) + 1] /\ (i - 1) + 1 = i
      BY <1>1, <2>1, <2>2
    <2> QED BY <1>6, <2>1, <2>3 DEF Holds
  <1>7. ~Holds(<< >>, R)
    BY DEF Holds
  <1> QED BY <1>1, <1>3, <1>4, <1>6, <1>7 DEF Holds

\* The walk is never disturbed in what it has done.
LEMMA NextWalkInv == TypeOK /\ WalkInv /\ [Next]_vars => WalkInv'
  <1> SUFFICES ASSUME TypeOK, WalkInv, [Next]_vars PROVE WalkInv'
    OBVIOUS
  <1> USE DEF loopVars, connVars, pendVars, cacheVars, histVars
  <1>1. ASSUME UNCHANGED <<run, due, walked, late, pendingConsumers, consumers>> PROVE WalkInv'
    BY <1>1 DEF WalkInv, Taken
  <1>2. ASSUME run' # "closing" PROVE WalkInv'
    BY <1>2 DEF WalkInv
  <1>3. CASE Instance
    <2>1. CASE InitPulsarMQ
      BY <1>2, <2>1 DEF InitPulsarMQ
    <2> QED BY <1>1, <1>3, <2>1 DEF Instance, ReplaceResets, ReplaceForgetsClient, ReplaceSignal
  <1>4. CASE RunHead \/ RunTick \/ RunClose \/ RunForgetsConsumers \/ RunClosesProducers \/ RunInit
    BY <1>2, <1>4 DEF RunHead, RunTick, RunClose, RunForgetsConsumers, RunClosesProducers, RunInit
  <1>5. CASE RunReopen
    BY <1>5 DEF RunReopen, WalkInv, Taken
  <1>6. ASSUME NEW t \in Topics, RunClosesConsumer(t) PROVE WalkInv'
    <2>1. /\ run = "closing" /\ UNCHANGED <<due, late, consumers>> /\ walked' = walked \cup {t}
          /\ pendingConsumers' = Append(pendingConsumers, consumers[t]) /\ t \in Taken
      BY <1>6 DEF RunClosesConsumer
    <2>2. pendingConsumers \in Seq(Proxies) /\ consumers[t] \in Proxies
      BY <2>1 DEF TypeOK, Taken
    <2>3. Taken' = Taken
      BY <2>1 DEF Taken
    <2>4. ASSUME NEW u \in walked' PROVE u \in Taken' /\ Holds(pendingConsumers', {consumers[u]})
      <3>1. CASE u = t
        <4>1. Holds(Append(pendingConsumers, consumers[t]), {consumers[t]})
          BY <2>2, HoldsMore
        <4> QED BY <2>1, <2>3, <3>1, <4>1
      <3>2. CASE u # t
        <4>1. u \in Taken /\ Holds(pendingConsumers, {consumers[u]})
          BY <2>1, <2>4, <3>2 DEF WalkInv
        <4>2. Holds(Append(pendingConsumers, consumers[t]), {consumers[u]})
          BY <2>2, <4>1, HoldsMore
        <4> QED BY <2>1, <2>3, <4>1, <4>2
      <3> QED BY <3>1, <3>2
    <2>5. Taken' \subseteq due' \cup late'
      BY <2>1, <2>3 DEF WalkInv
    <2> QED BY <2>1, <2>4, <2>5 DEF WalkInv
  <1>7. ASSUME NEW w \in Work, RunReceive(w) PROVE WalkInv'
    BY <1>2, <1>7 DEF RunReceive
  <1>8. ASSUME NEW c \in Connectors, Connector(c) PROVE WalkInv'
    <2>1. CASE TakePending(c) /\ run = "closing"
      BY <1>1, <2>1 DEF TakePending, ListIsFree
    <2>2. CASE TakePending(c) /\ run # "closing"
      BY <1>2, <2>2 DEF TakePending
    <2> QED BY <1>1, <1>8, <2>1, <2>2 DEF Connector, Connect, SetClient, NextPending
  <1>9. ASSUME NEW m \in Replies, Reply(m) PROVE WalkInv'
    BY <1>1, <1>9 DEF Reply
  <1>10. ASSUME NEW g \in Goroutines, Finish(g) PROVE WalkInv'
    <2>1. CASE AppendPending(g) /\ run = "closing"
      BY <1>1, <2>1 DEF AppendPending, ListIsFree
    <2>2. CASE AppendPending(g) /\ run # "closing"
      BY <1>2, <2>2 DEF AppendPending
    <2>3. CASE Subscribe(g)
      <3> DEFINE t == Topic[call[g].item]
      <3>1. UNCHANGED <<run, due, walked, pendingConsumers>> /\ t \in Topics
        BY <2>3, TopicAssumption DEF Subscribe
      <3>2. CASE UNCHANGED <<consumers, late>>
        BY <1>1, <3>1, <3>2
      <3>3. CASE /\ t \notin Taken /\ consumers' = [consumers EXCEPT ![t] = call[g].item]
                 /\ late' = IF run = "closing" THEN late \cup {t} ELSE late
        <4>1. ASSUME run = "closing" PROVE Taken' \subseteq due' \cup late'
          <5>1. Taken' \subseteq Taken \cup {t}
            BY <3>3 DEF Taken, TypeOK
          <5> QED BY <3>1, <3>3, <4>1, <5>1 DEF WalkInv
        <4>2. ASSUME run = "closing", NEW u \in walked'
              PROVE  u \in Taken' /\ Holds(pendingConsumers', {consumers'[u]})
          <5>1. u \in Taken /\ Holds(pendingConsumers, {consumers[u]}) /\ u # t
            BY <3>1, <3>3, <4>2 DEF WalkInv
          <5>2. consumers'[u] = consumers[u] /\ u \in Topics
            BY <3>3, <5>1 DEF Taken, TypeOK
          <5> QED BY <3>1, <5>1, <5>2 DEF Taken
        <4> QED BY <3>1, <4>1, <4>2 DEF WalkInv
      <3> QED BY <2>3, <3>2, <3>3 DEF Subscribe
    <2> QED BY <1>1, <1>10, <2>1, <2>2, <2>3 DEF Finish, Send, NilClient, MapFault
  <1>11. CASE UNCHANGED vars
    BY <1>1, <1>11 DEF vars
  <1> QED BY <1>3, <1>4, <1>5, <1>6, <1>7, <1>8, <1>9, <1>10, <1>11 DEF Next, RunStep, Reopen

\* Reopening keeps a topic: the new map is empty, and what the walk met is pending.
LEMMA ReopenKeeps ==
    ASSUME TypeOK, ConsumersInv, WalkInv, Reopen, NEW p \in Proxies, Kept(p)
    PROVE  Kept(p)'
  <1> USE DEF histVars, cacheVars, pendVars, connVars
  <1>1. CASE RunReopen \/ RunClosesProducers \/ RunInit
    BY <1>1 DEF RunReopen, RunClosesProducers, RunInit, Kept, Rivals, Taken
  <1>2. ASSUME NEW t \in Topics, RunClosesConsumer(t) PROVE Kept(p)'
    <2>1. /\ pendingConsumers' = Append(pendingConsumers, consumers[t])
          /\ UNCHANGED <<flush, call, refused, consumers, late>>
      BY <1>2 DEF RunClosesConsumer
    <2>2. pendingConsumers \in Seq(Proxies) /\ consumers[t] \in Proxies
      BY <1>2 DEF RunClosesConsumer, TypeOK, Taken
    <2>3. Holds(pendingConsumers, Rivals(p)) => Holds(pendingConsumers', Rivals(p))
      BY <2>1, <2>2, HoldsMore
    <2> QED BY <2>1, <2>3 DEF Kept, Rivals, Taken
  <1>3. CASE RunForgetsConsumers
    <2>1. UNCHANGED <<flush, call, refused, late, pendingConsumers>>
      BY <1>3 DEF RunForgetsConsumers
    <2>2. CASE Topic[p] \in Taken \ late
      <3> DEFINE q == consumers[Topic[p]]
      <3>1. Topic[p] \in walked
        BY <1>3, <2>2 DEF RunForgetsConsumers, WalkInv
      <3>2. Holds(pendingConsumers, {q})
        BY <1>3, <3>1 DEF RunForgetsConsumers, WalkInv
      <3>3. q \in Rivals(p)
        BY <2>2 DEF ConsumersInv, Rivals, Taken, TypeOK
      <3>4. Holds(pendingConsumers, Rivals(p))
        BY <3>2, <3>3 DEF Holds
      <3> QED BY <2>1, <3>4 DEF Kept, Rivals
    <2>3. CASE Topic[p] \notin Taken \ late
      BY <2>1, <2>3 DEF Kept, Rivals
    <2> QED BY <2>2, <2>3
  <1> QED BY <1>1, <1>2, <1>3 DEF Reopen

\* Taking a list and taking its head move proxies on.
LEMMA ConnectorKeeps ==
    ASSUME TypeOK, NEW c \in Connectors, Connector(c), NEW p \in Proxies, Kept(p)
    PROVE  Kept(p)'
  <1> USE DEF histVars, cacheVars, pendVars
  <1>1. /\ UNCHANGED <<consumers, refused, late>> /\ c \in Goroutines
        /\ flush \in [Connectors -> Seq(Work)] /\ flush[c] \in Seq(Work)
    BY WhoIsWho DEF Connector, Connect, SetClient, TakePending, NextPending, TypeOK
  <1>2. CASE Connect(c) \/ SetClient(c)
    BY <1>2 DEF Connect, SetClient, Kept, Rivals, Taken
  <1>3. CASE TakePending(c)
    <2>1. call' = call /\ flush[c] = << >> /\ \A d \in Connectors \ {c} : flush'[d] = flush[d]
      BY <1>1, <1>3 DEF TakePending
    <2>2. \A d \in Connectors : Holds(flush[d], Rivals(p)) => Holds(flush'[d], Rivals(p))
      BY <2>1, HoldsMore DEF Holds
    <2>3. Holds(pendingConsumers, Rivals(p)) =>
              Holds(pendingConsumers', Rivals(p)) \/ Holds(flush'[c], Rivals(p))
      BY <1>1, <1>3 DEF TakePending
    <2> QED BY <1>1, <2>1, <2>2, <2>3 DEF Kept, Rivals, Taken
  <1>4. CASE NextPending(c)
    <2>1. /\ pendingConsumers' = pendingConsumers /\ flush[c] # << >>
          /\ flush' = [flush EXCEPT ![c] = Tail(flush[c])]
          /\ call[c].item = NoItem /\ BeginCall(c, Head(flush[c]))
      BY <1>4 DEF NextPending, NoCall
    <2>2. /\ call'[c].item = Head(flush[c])
          /\ \A h \in Goroutines \ {c} : call'[h].item = call[h].item
      BY <1>1, <2>1, BeginHands
    <2>3. \A g \in Goroutines : call[g].item \in Rivals(p) => call'[g].item \in Rivals(p)
      BY <2>1, <2>2, WhatIsWhat DEF Rivals
    <2>4. \A d \in Connectors : Holds(flush[d], Rivals(p)) =>
              Holds(flush'[d], Rivals(p)) \/ call'[c].item \in Rivals(p)
      <3> TAKE d \in Connectors
      <3>1. CASE d = c
        <4>1. Head(flush[c]) \in Work
          BY <1>1, <2>1
        <4>2. Holds(flush[c], Rivals(p)) => Head(flush[c]) \in Rivals(p) \/ Holds(Tail(flush[c]), Rivals(p))
          BY <1>1, <2>1, <4>1, HoldsMore
        <4>3. flush'[c] = Tail(flush[c])
          BY <1>1, <2>1
        <4> QED BY <2>2, <3>1, <4>2, <4>3
      <3>2. CASE d # c
        BY <1>1, <2>1, <3>2
      <3> QED BY <3>1, <3>2
    <2> QED BY <1>1, <2>1, <2>3, <2>4 DEF Kept, Rivals, Taken
  <1> QED BY <1>2, <1>3, <1>4 DEF Connector

\* publish and consume put a proxy down among the pending ones or subscribe it.
LEMMA FinishKeeps ==
    ASSUME TypeOK, NEW g \in Goroutines, Finish(g), NEW p \in Proxies, Kept(p)
    PROVE  Kept(p)'
  <1> USE DEF histVars, cacheVars, pendVars, connVars
  <1>1. CASE NilClient(g) \/ MapFault(g)
    BY <1>1 DEF NilClient, MapFault, Kept, Rivals, Taken
  <1>2. CASE AppendPending(g) \/ Send(g) \/ Subscribe(g)
    <2> DEFINE w == call[g].item
    <2>1. flush' = flush /\ Return(g) /\ pendingConsumers \in Seq(Proxies)
      BY <1>2 DEF AppendPending, Send, Subscribe, TypeOK
    <2>2. \A h \in Goroutines : h # g => call'[h].item = call[h].item
      BY <2>1, ReturnHands
    <2>3. w \in Rivals(p) => Kept(p)'
      <3> SUFFICES ASSUME w \in Rivals(p) PROVE Kept(p)'
        OBVIOUS
      <3>1. w \in Proxies /\ w \notin Msgs /\ Topic[w] = Topic[p] /\ Topic[p] \in Topics
        BY WhatIsWhat, TopicAssumption DEF Rivals
      <3>2. CASE AppendPending(g)
        <4>1. pendingConsumers' = Append(pendingConsumers, w)
          BY <3>1, <3>2 DEF AppendPending
        <4>2. Holds(pendingConsumers', Rivals(p))
          BY <2>1, <3>1, <4>1, HoldsMore
        <4> QED BY <4>2 DEF Kept, Rivals
      <3>3. CASE Subscribe(g)
        <4>1. \/ Topic[p] \in Taken /\ consumers' = consumers
              \/ consumers' = [consumers EXCEPT ![Topic[p]] = w]
              \/ refused' = refused \cup {w}
          BY <3>1, <3>3 DEF Subscribe
        <4>2. consumers'[Topic[p]] # NoItem \/ w \in refused'
          BY <3>1, <4>1, WhatIsWhat DEF TypeOK, Taken
        <4> QED BY <3>1, <4>2 DEF Kept, Rivals, Taken
      <3>4. ~Send(g)
        BY <3>1 DEF Send
      <3> QED BY <1>2, <3>2, <3>3, <3>4
    <2>4. consumers[Topic[p]] # NoItem => consumers'[Topic[p]] # NoItem
      <3>1. consumers' = consumers \/ Subscribe(g)
        BY <1>2 DEF AppendPending, Send
      <3>2. CASE Subscribe(g)
        <4>1. \/ consumers' = consumers
              \/ w \in Proxies /\ consumers' = [consumers EXCEPT ![Topic[w]] = w]
          BY <3>2 DEF Subscribe
        <4> QED BY <4>1, WhatIsWhat, TopicAssumption DEF TypeOK
      <3> QED BY <3>1, <3>2
    <2>5. refused \subseteq refused' /\ late \subseteq late'
      BY <1>2 DEF AppendPending, Send, Subscribe
    <2>6. Holds(pendingConsumers, Rivals(p)) => Holds(pendingConsumers', Rivals(p))
      <3>1. \/ pendingConsumers' = pendingConsumers
            \/ w \in Proxies /\ pendingConsumers' = Append(pendingConsumers, w)
        BY <1>2 DEF AppendPending, Send, Subscribe
      <3>2. CASE pendingConsumers' = pendingConsumers
        BY <3>2
      <3>3. CASE w \in Proxies /\ pendingConsumers' = Append(pendingConsumers, w)
        <4>1. Holds(pendingConsumers, Rivals(p)) => Holds(Append(pendingConsumers, w), Rivals(p))
          BY <2>1, <3>3, HoldsMore
        <4> QED BY <3>3, <4>1
      <3> QED BY <3>1, <3>2, <3>3
    <2> QED BY <2>1, <2>2, <2>3, <2>4, <2>5, <2>6, TopicAssumption DEF Kept, Rivals, Taken
  <1> QED BY <1>1, <1>2 DEF Finish

LEMMA NextKept ==
    TypeOK /\ CallInv /\ ConsumersInv /\ WalkInv /\ TopicKeepsConsumer /\ [Next]_vars
        => TopicKeepsConsumer'
  <1> SUFFICES ASSUME TypeOK, CallInv, ConsumersInv, WalkInv, TopicKeepsConsumer, [Next]_vars,
                      NEW p \in accepted' \cap Proxies
               PROVE  Kept(p)'
    BY KeptIsTheProperty DEF TopicKeepsConsumer, Kept, Rivals, Holds
  <1> USE DEF loopVars, connVars, pendVars, cacheVars, histVars
  <1>1. p \in accepted => Kept(p)
    BY KeptIsTheProperty
  <1>2. ASSUME UNCHANGED <<consumers, refused, late, pendingConsumers, flush, call, accepted>>
        PROVE  Kept(p)'
    BY <1>1, <1>2 DEF Kept, Rivals, Taken
  <1>3. CASE Instance
    BY <1>2, <1>3 DEF Instance, InitPulsarMQ, ReplaceResets, ReplaceForgetsClient, ReplaceSignal
  <1>4. CASE RunHead \/ RunTick \/ RunClose \/ UNCHANGED vars
    BY <1>2, <1>4 DEF RunHead, RunTick, RunClose, vars
  <1>5. CASE Reopen
    <2>1. accepted' = accepted
      BY <1>5 DEF Reopen, RunReopen, RunClosesConsumer, RunForgetsConsumers, RunClosesProducers,
                  RunInit
    <2> QED BY <1>1, <1>5, <2>1, ReopenKeeps
  \* A goroutine that had nothing at hand takes something accepted just now.
  <1>6. ASSUME NEW g \in Goroutines, NEW w \in Work, BeginCall(g, w), accepted' = accepted \cup {w},
               call[g].item \notin Proxies,
               UNCHANGED <<consumers, refused, late, pendingConsumers, flush>>
        PROVE  Kept(p)'
    <2>1. call'[g].item = w /\ \A h \in Goroutines \ {g} : call'[h].item = call[h].item
      BY <1>6, BeginHands
    <2>2. CASE p = w
      <3>1. call'[g].item \in Rivals(p)
        BY <2>1, <2>2 DEF Rivals
      <3> QED BY <3>1 DEF Kept, Rivals
    <2>3. CASE p # w
      <3>1. Kept(p)
        BY <1>1, <1>6, <2>3
      <3>2. \A h \in Goroutines : call[h].item \in Rivals(p) => call'[h].item \in Rivals(p)
        BY <1>6, <2>1 DEF Rivals
      <3> QED BY <1>6, <3>1, <3>2 DEF Kept, Rivals, Taken
    <2> QED BY <2>2, <2>3
  <1>7. ASSUME NEW w \in Work, RunReceive(w) PROVE Kept(p)'
    BY <1>6, <1>7, WhoIsWho, WhatIsWhat DEF RunReceive, CallInv
  <1>8. ASSUME NEW m \in Replies, Reply(m) PROVE Kept(p)'
    <2>1. m \in Work /\ m \in Goroutines /\ call[m].item \notin Proxies
      BY WorkAssumption, WhoIsWho, WhatIsWhat DEF Work, CallInv
    <2> QED BY <1>6, <1>8, <2>1 DEF Reply
  <1>9. ASSUME NEW c \in Connectors, Connector(c) PROVE Kept(p)'
    <2>1. accepted' = accepted
      BY <1>9 DEF Connector, Connect, SetClient, TakePending, NextPending
    <2> QED BY <1>1, <1>9, <2>1, ConnectorKeeps
  <1>10. ASSUME NEW g \in Goroutines, Finish(g) PROVE Kept(p)'
    <2>1. accepted' = accepted
      BY <1>10 DEF Finish, AppendPending, Send, Subscribe, NilClient, MapFault
    <2> QED BY <1>1, <1>10, <2>1, FinishKeeps
  <1> QED BY <1>3, <1>4, <1>5, <1>7, <1>8, <1>9, <1>10 DEF Next, RunStep

-----------------------------------------------------------------------------
(* The theorems *)

\* Type correctness of the connection loop with any number of connectors.
THEOREM TypeCorrect == Spec => []TypeOK
  BY InitInv, NextInv, PTL DEF Spec

\* However publish, consume, callbacks, connectors and Run interleave, a nil
\* client is used only by an instance that InitPulsarMQ has replaced.
THEOREM NoPanic == Spec => []PanicsOnlyWhenReplaced
  <1>1. Init => PanicsOnlyWhenReplaced
    BY DEF Init, PanicsOnlyWhenReplaced
  <1> QED BY <1>1, InitInv, NextInv, PanicStep, PTL DEF Spec

\* An instance that runs without a client always has a goroutine opening one,
\* whatever the order in which connecting and client change.
THEOREM AlwaysConnecting == Spec => []ClientOnItsWay
  <1>1. WayInv => ClientOnItsWay
    BY DEF WayInv, ClientOnItsWay, Over
  <1> QED BY <1>1, InitInv, NextInv, PTL DEF Spec

\* Whatever the order in which connectors flush, callbacks publish and Run
\* reopens the client, every message is in one place or was sent once: none is
\* lost and none repeated, for any number of messages and connectors.
THEOREM NeitherLostNorRepeated == Spec => []OncePerMessage
  <1>1. Init => CallInv /\ OnceInv
    <2> SUFFICES ASSUME Init PROVE CallInv /\ OnceInv
      OBVIOUS
    <2>1. \A g \in Goroutines : call[g].item = NoItem
      BY DEF Init, NoCall
    <2>2. CallInv
      BY <2>1, WhoIsWho DEF CallInv
    <2>3. ASSUME NEW m \in Msgs PROVE Nowhere(m)
      <3>1. Hands(m) = {}
        BY <2>1, WhatIsWhat DEF Hands
      <3>2. Places(m, pendingPublishes) = {} /\ NoCopy(m)
        BY PlacesOfProxies DEF Init, NoCopy
      <3> QED BY <3>1, <3>2 DEF Init
    <2> QED BY <2>2, <2>3 DEF OnceInv
  <1> QED
    BY <1>1, InitInv, NextInv, NextCallInv, NextOnceInv, OnceCounts, PTL DEF Spec

\* Reopening the client forgets no topic: each one that was asked to be consumed
\* is subscribed, or on its way to be, unless the broker refused a subscription or
\* one was made while Run walked over the consumers of the last client.
THEOREM TopicsKept == Spec => []TopicKeepsConsumer
  <1>1. Init => CallInv /\ ConsumersInv /\ WalkInv /\ TopicKeepsConsumer
    BY WhoIsWho DEF Init, CallInv, NoCall, ConsumersInv, WalkInv, TopicKeepsConsumer
  <1> QED
    BY <1>1, InitInv, NextInv, NextCallInv, NextConsumersInv, NextWalkInv, NextKept, PTL DEF Spec

=============================================================================
