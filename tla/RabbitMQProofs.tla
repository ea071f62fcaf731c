-------------------------- MODULE RabbitMQProofs ----------------------------
(***************************************************************************)
(* The Run loop of mq/rabbitmq, for any consumers, messages, channel size, *)
(* exchange type and number of faults: consumers run on the open channel   *)
(* only, nothing is left pending when Run waits with a usable channel,     *)
(* messages leave in the order they were published, the consumer that      *)
(* registered last is kept, a stopped instance has closed its connection.  *)
(***************************************************************************)
EXTENDS RabbitMQ, FiniteSetTheorems, SequenceTheorems, TLAPS

\* What HandlersOnOpenChannel and NothingStranded need to be inductive: Run
\* connects only without a connection; a channel that is open while it connects
\* belongs to an abandoned connection; all consumers are pending while it does;
\* a queue of a fanout exchange is declared for a consumer only; and with a
\* channel Run waits with a declared queue.
LoopInv ==
    /\ run \in {"init", "top"} => conn = "nil"
    /\ run \in {"init", "initDialed", "top", "dialed"} /\ channel = "open" => abandoned
    /\ run \in {"initDialed", "dialed"} => consumers = << >>
    /\ Broadcast /\ named => ToResume # << >>
    /\ run = "select" /\ channel # "nil" /\ ~Broadcast /\ ~dsnFailed /\ ~abandoned => named

IInv == TypeOK /\ HandlersOnOpenChannel /\ NothingStranded /\ LoopInv

USE DEF faultVars, doneVars, replaceVars, linkVars, connVars, Broadcast

-----------------------------------------------------------------------------

\* The number of consumer goroutines is a natural number.
LEMMA HandlersFinite ==
    ASSUME TypeOK
    PROVE  Cardinality(handlers) \in Nat
  <1>1. IsFiniteSet(handlers)
    BY ProxiesAssumption, FS_Subset DEF TypeOK
  <1> QED BY <1>1, FS_CardinalityType

\* The empty sequences of proxies and messages.
LEMMA EmptyQueues == << >> \in Seq(Proxies) /\ << >> \in Seq(Msgs)
  OBVIOUS

\* Appending gives a sequence that is not empty, also behind another one.
LEMMA AppendFacts ==
    ASSUME NEW S, NEW s \in Seq(S), NEW e \in S, NEW t \in Seq(S)
    PROVE  /\ Append(s, e) \in Seq(S) /\ Append(s, e) # << >>
           /\ Append(s, e) \o t # << >>
  <1>1. Append(s, e) \in Seq(S) /\ Len(Append(s, e)) = Len(s) + 1 /\ Len(s) \in Nat
    OBVIOUS
  <1>2. Len(Append(s, e)) # 0
    BY <1>1
  <1>3. Append(s, e) # << >>
    BY <1>1, <1>2, Len(<< >>) = 0
  <1>4. Len(Append(s, e) \o t) = Len(s) + 1 + Len(t) /\ Len(t) \in Nat
    BY <1>1
  <1>5. Len(Append(s, e) \o t) # 0
    BY <1>1, <1>4
  <1> QED BY <1>1, <1>3, <1>5

\* What is resumed is a sequence of proxies.
LEMMA ToResumeType == TypeOK => ToResume \in Seq(Proxies)
  BY DEF TypeOK, ToResume

\* A fault is one of those allowed.
LEMMA FaultType ==
    ASSUME TypeOK, Fault \/ UNCHANGED faultVars
    PROVE  /\ faults' \in 0 .. MaxFaults /\ dsnFailed' = dsnFailed
           /\ exchangeType' = exchangeType
  BY BoundsAssumption DEF TypeOK, Fault

\* The event channels stay what they are, whoever closes or forgets them.
LEMMA EventsType ==
    ASSUME TypeOK
    PROVE  /\ Round => events' \subseteq Events /\ hears' \in {"yes", "thisRound", "no"}
           /\ Deafen => events' \subseteq Events /\ hears' \in {"yes", "thisRound", "no"}
           /\ \A es \in SUBSET Events :
                  Notify(es) => events' \subseteq Events /\ hears' \in {"yes", "thisRound", "no"}
  BY DEF TypeOK, Round, Deafen, Notify

\* close() keeps the shapes of what it writes.
LEMMA CloseType ==
    ASSUME TypeOK, Close
    PROVE  /\ conn' = "nil" /\ channel' = "nil" /\ events' = {} /\ handlers' = {}
           /\ hears' = "no" /\ done' \in Nat /\ adrift' \in Nat
  BY HandlersFinite DEF Close, TypeOK

\* A channel that is overwritten leaves its consumers behind.
LEMMA LeaveType ==
    ASSUME TypeOK, LeaveHandlers
    PROVE  done' \in Nat /\ adrift' \in Nat
  BY HandlersFinite DEF LeaveHandlers, TypeOK

\* ensureQueue keeps the shapes of what it writes.
LEMMA EnsureQueueType ==
    ASSUME TypeOK, NEW pend \in Seq(Proxies), NEW refused \in BOOLEAN,
           EnsureQueue(pend, refused)
    PROVE  /\ named' = TRUE /\ waited' = waited /\ failed' = failed /\ dropped' = dropped
           /\ pendingConsumers' = << >> /\ consumers' \in Seq(Proxies)
           /\ pend # << >> => consumers' # << >>
           /\ handlers' \subseteq Proxies
           /\ pendingPublishes' = << >> /\ sent' \in Seq(Msgs)
  <1>1. CASE pend = << >>
    BY <1>1, EmptyQueues DEF EnsureQueue, TypeOK
  <1>2. CASE pend # << >>
    <2>1. pend[Len(pend)] \in Proxies
      BY <1>2
    <2>2. consumers' = <<pend[Len(pend)]>>
      BY <1>2 DEF EnsureQueue
    <2> QED BY <2>1, <2>2 DEF EnsureQueue, TypeOK
  <1> QED BY <1>1, <1>2

-----------------------------------------------------------------------------
(* Initially *)

LEMMA InitIInv == Init => IInv
  <1> SUFFICES ASSUME Init PROVE IInv
    OBVIOUS
  <1>1. 0 \in 0 .. MaxMsgs /\ 0 \in 0 .. MaxFaults /\ 0 \in Nat
    BY BoundsAssumption
  <1>2. TypeOK
    BY <1>1, EmptyQueues DEF Init, TypeOK, ReplacePlaces
  <1>3. HandlersOnOpenChannel /\ NothingStranded /\ LoopInv
    BY DEF Init, HandlersOnOpenChannel, NothingStranded, LoopInv
  <1> QED BY <1>2, <1>3 DEF IInv

-----------------------------------------------------------------------------
(* The steps *)

\* Handing a message to r.Publish.
LEMMA PublishMQStep ==
    ASSUME IInv, PublishMQ PROVE IInv'
  <1>1. published + 1 \in Msgs
    BY BoundsAssumption DEF IInv, TypeOK, PublishMQ, Msgs
  <1>2. publishCh' \in Seq(Msgs) /\ published' \in 0 .. MaxMsgs
    BY <1>1 DEF IInv, TypeOK, PublishMQ, Msgs
  <1>3. TypeOK'
    BY <1>2 DEF IInv, TypeOK, PublishMQ, consumerVars, msgVars
  <1>4. HandlersOnOpenChannel' /\ NothingStranded' /\ LoopInv'
    BY DEF IInv, PublishMQ, consumerVars, msgVars,
           HandlersOnOpenChannel, NothingStranded, LoopInv, ToResume
  <1> QED BY <1>3, <1>4 DEF IInv

\* The consumers Run collects before it connects.
LEMMA KeepPendingFacts ==
    ASSUME TypeOK, KeepPending
    PROVE  /\ pendingConsumers' \in Seq(Proxies) /\ consumers' = << >>
           /\ pendingConsumers' = ToResume /\ ToResume' = ToResume
  <1>1. ToResume \in Seq(Proxies)
    BY ToResumeType
  <1> QED BY <1>1 DEF KeepPending, ToResume

\* r.Conn is set.
LEMMA DialStep ==
    ASSUME IInv, run \in {"init", "top"}, Dial, run' \in {"initDialed", "dialed"}
    PROVE  IInv'
  <1>1. /\ pendingConsumers' \in Seq(Proxies) /\ consumers' = << >> /\ ToResume' = ToResume
    BY KeepPendingFacts DEF IInv, Dial
  <1>2. /\ conn' = "open" /\ events' = {} /\ hears' = "yes" /\ dialedLate' \in BOOLEAN
        /\ UNCHANGED <<channel, named, handlers, doneVars, closing, abandoned, faultVars,
                       msgVars, clientVars>>
    BY DEF Dial, KeepPending
  <1>3. TypeOK'
    BY <1>1, <1>2, EmptyQueues DEF IInv, TypeOK, msgVars, clientVars
  <1>4. HandlersOnOpenChannel' /\ NothingStranded' /\ LoopInv'
    BY <1>1, <1>2 DEF IInv, HandlersOnOpenChannel, NothingStranded, LoopInv, msgVars
  <1> QED BY <1>3, <1>4 DEF IInv

\* A DSN that cannot be formatted.
LEMMA DsnFailsStep ==
    ASSUME IInv, run \in {"init", "top"}, InitConnDsnFails, run' \in {"dead", "select"}
    PROVE  IInv'
  <1>1. /\ pendingConsumers' \in Seq(Proxies) /\ consumers' = << >> /\ ToResume' = ToResume
    BY KeepPendingFacts DEF IInv, InitConnDsnFails
  <1>2. /\ dsnFailed' = TRUE /\ exchangeType' = exchangeType /\ faults' \in 0 .. MaxFaults
        /\ UNCHANGED <<connVars, handlers, doneVars, replaceVars, msgVars, clientVars>>
    BY BoundsAssumption DEF InitConnDsnFails, KeepPending, IInv, TypeOK
  <1>3. TypeOK'
    BY <1>1, <1>2, EmptyQueues DEF IInv, TypeOK, msgVars, clientVars
  <1>4. HandlersOnOpenChannel' /\ NothingStranded' /\ LoopInv'
    BY <1>1, <1>2 DEF IInv, HandlersOnOpenChannel, NothingStranded, LoopInv, msgVars
  <1> QED BY <1>3, <1>4 DEF IInv

\* The channel is opened, and the queue declared where one is needed.
LEMMA InitConnOkStep ==
    ASSUME IInv, NEW refused \in BOOLEAN, InitConnOk(refused),
           run \in {"initDialed", "dialed"}, run' \in {"top", "select"},
           run' = "top" => conn' = "nil"
    PROVE  IInv'
  <1>1. /\ faults' \in 0 .. MaxFaults /\ dsnFailed' = dsnFailed /\ exchangeType' = exchangeType
        /\ done' \in Nat /\ adrift' \in Nat
    BY FaultType, LeaveType DEF IInv, InitConnOk
  <1>2. /\ channel' = "open" /\ events' = {} /\ hears' = "yes" /\ (conn = "open" \/ abandoned)
        /\ conn \in {"open", "nil"}
        /\ UNCHANGED <<conn, clientVars, replaceVars>>
    BY DEF InitConnOk
  <1>3. CASE SkipsQueue
    <2>1. handlers' = {} /\ UNCHANGED <<named, consumers, pendingConsumers, msgVars>>
      BY <1>3 DEF InitConnOk
    <2>2. TypeOK'
      BY <1>1, <1>2, <2>1, EmptyQueues DEF IInv, TypeOK, clientVars, msgVars
    <2>3. ToResume' = ToResume
      BY <2>1 DEF ToResume
    <2>4. HandlersOnOpenChannel'
      BY <1>2, <2>1 DEF HandlersOnOpenChannel
    <2>5. CASE conn = "nil"
      <3>1. NothingStranded' /\ LoopInv'
        BY <1>1, <1>2, <2>1, <2>3, <2>5 DEF IInv, msgVars, NothingStranded, LoopInv
      <3> QED BY <2>2, <2>4, <3>1 DEF IInv
    <2>6. CASE Broadcast /\ pendingConsumers = << >> /\ conn = "open"
      <3>1. ToResume = << >>
        BY <2>6, EmptyQueues, ConcatEmptySeq DEF IInv, LoopInv, ToResume
      <3>2. ~named /\ run' = "select"
        BY <1>2, <2>6, <3>1 DEF IInv, LoopInv
      <3>3. NothingStranded' /\ LoopInv'
        BY <1>1, <1>2, <2>1, <2>3, <2>6, <3>2 DEF IInv, msgVars, NothingStranded, LoopInv
      <3> QED BY <2>2, <2>4, <3>3 DEF IInv
    <2> QED BY <1>2, <1>3, <2>5, <2>6 DEF SkipsQueue
  <1>4. CASE ~SkipsQueue
    <2>1. EnsureQueue(pendingConsumers, refused)
      BY <1>4 DEF InitConnOk
    <2>2. /\ named' = TRUE /\ waited' = waited /\ failed' = failed /\ dropped' = dropped
          /\ pendingConsumers' = << >> /\ consumers' \in Seq(Proxies)
          /\ pendingConsumers # << >> => consumers' # << >>
          /\ handlers' \subseteq Proxies
          /\ pendingPublishes' = << >> /\ sent' \in Seq(Msgs)
      BY <2>1, EnsureQueueType DEF IInv, TypeOK
    <2>3. TypeOK'
      BY <1>1, <1>2, <2>2, EmptyQueues DEF IInv, TypeOK, clientVars
    <2>4. HandlersOnOpenChannel' /\ NothingStranded'
      BY <1>1, <1>2, <2>2 DEF IInv, HandlersOnOpenChannel, NothingStranded
    <2>5. Broadcast => ToResume' # << >>
      BY <1>4, <2>2 DEF ToResume, SkipsQueue
    <2>6. LoopInv'
      BY <1>1, <1>2, <1>4, <2>2, <2>5 DEF LoopInv, SkipsQueue
    <2> QED BY <2>3, <2>4, <2>6 DEF IInv
  <1> QED BY <1>3, <1>4

\* The steps that end in close() or the like: no connection is left.
LEMMA ClosedStep ==
    ASSUME IInv,
           conn' = "nil", channel' = "nil", events' \subseteq Events,
           hears' \in {"yes", "thisRound", "no"}, handlers' = {},
           done' \in Nat, adrift' \in Nat,
           faults' \in 0 .. MaxFaults, UNCHANGED <<dsnFailed, exchangeType>>,
           named' \in BOOLEAN, named' => named,
           run' \in {"top", "select", "stopped"},
           registered' \in Seq(Proxies), declined' \subseteq Proxies,
           UNCHANGED <<consumers, pendingConsumers, msgVars, publishCh, published, replaceVars>>
    PROVE  IInv'
  <1>1. TypeOK'
    BY DEF IInv, TypeOK, msgVars
  <1>2. HandlersOnOpenChannel' /\ NothingStranded'
    BY DEF IInv, HandlersOnOpenChannel, NothingStranded, msgVars
  <1>3. ToResume' = ToResume
    BY DEF ToResume
  <1>4. LoopInv'
    BY <1>3 DEF IInv, LoopInv
  <1> QED BY <1>1, <1>2, <1>4 DEF IInv

\* The channel or the queue fails.
LEMMA InitConnFailsStep ==
    ASSUME IInv, InitConnChannelFails \/ InitConnQueueFails, run' \in {"top", "select"}
    PROVE  IInv'
  <1>1. /\ conn' = "nil" /\ channel' = "nil" /\ handlers' = {} /\ LeaveHandlers
        /\ UNCHANGED <<named, consumers, pendingConsumers, msgVars, clientVars, replaceVars>>
        /\ Fault \/ UNCHANGED faultVars
    BY DEF InitConnChannelFails, InitConnQueueFails
  <1>2. events' \subseteq Events /\ hears' \in {"yes", "thisRound", "no"}
    BY EventsType DEF IInv, InitConnChannelFails, InitConnQueueFails, Events
  <1>3. done' \in Nat /\ adrift' \in Nat
    BY <1>1, LeaveType DEF IInv
  <1>4. faults' \in 0 .. MaxFaults /\ UNCHANGED <<dsnFailed, exchangeType>>
    BY <1>1, FaultType DEF IInv
  <1>5. /\ (named' \in BOOLEAN) /\ (named' => named)
        /\ registered' \in Seq(Proxies) /\ declined' \subseteq Proxies
        /\ UNCHANGED <<publishCh, published>>
    BY <1>1 DEF IInv, TypeOK, clientVars
  <1> QED BY <1>1, <1>2, <1>3, <1>4, <1>5, ClosedStep

\* A message taken from r.Publish.
LEMMA RunPublishStep ==
    ASSUME IInv, RunPublish PROVE IInv'
  <1> DEFINE pm == Head(publishCh)
  <1>1. pm \in Msgs /\ publishCh' \in Seq(Msgs)
    BY DEF IInv, TypeOK, RunPublish
  <1>2. UNCHANGED <<linkVars, consumerVars, doneVars, faultVars, published, registered,
                    declined, replaceVars>>
    BY DEF RunPublish
  <1>3. run = "select" /\ run' = (IF conn = "nil" THEN "top" ELSE "select")
    BY <1>2 DEF RunPublish, LoopAgain
  <1>4. ToResume' = ToResume
    BY <1>2 DEF ToResume, consumerVars
  <1>5. LoopInv' /\ HandlersOnOpenChannel'
    BY <1>2, <1>3, <1>4 DEF IInv, LoopInv, HandlersOnOpenChannel, consumerVars
  <1>6. events' \subseteq Events /\ hears' \in {"yes", "thisRound", "no"}
    BY EventsType DEF IInv, RunPublish
  <1>7. ASSUME pendingPublishes' \in Seq(Msgs), sent' \in Seq(Msgs),
               waited' \subseteq Msgs, failed' \subseteq Msgs, dropped' \subseteq Msgs
        PROVE  TypeOK'
    BY <1>1, <1>2, <1>3, <1>6, <1>7 DEF IInv, TypeOK, consumerVars
  <1>8. CASE channel = "nil"
    <2>1. /\ pendingPublishes' = Append(pendingPublishes, pm) /\ waited' = waited \cup {pm}
          /\ UNCHANGED <<sent, failed, dropped>>
      BY <1>8 DEF RunPublish
    <2>2. TypeOK'
      BY <1>1, <1>7, <2>1 DEF IInv, TypeOK
    <2>3. NothingStranded'
      BY <1>2, <1>8, <2>1 DEF IInv, NothingStranded
    <2> QED BY <1>5, <2>2, <2>3 DEF IInv
  <1>9. CASE channel # "nil" /\ (named \/ Broadcast)
    <2>1. UNCHANGED <<pendingPublishes, waited, dropped>> /\ ChannelPublish(pm)
      BY <1>9 DEF RunPublish
    <2>2. sent' \in Seq(Msgs) /\ failed' \subseteq Msgs
      <3>1. CASE channel = "open"
        BY <1>1, <2>1, <3>1, AppendFacts DEF IInv, TypeOK, ChannelPublish
      <3>2. CASE channel # "open"
        BY <1>1, <2>1, <3>2 DEF IInv, TypeOK, ChannelPublish
      <3> QED BY <3>1, <3>2
    <2>3. TypeOK'
      BY <1>7, <2>1, <2>2 DEF IInv, TypeOK
    <2>4. NothingStranded'
      BY <1>2, <1>3, <2>1 DEF IInv, NothingStranded, consumerVars
    <2> QED BY <1>5, <2>3, <2>4 DEF IInv
  <1>10. CASE channel # "nil" /\ ~named /\ ~Broadcast
    <2>1. /\ conn = "nil" /\ dropped' = dropped \cup {pm}
          /\ UNCHANGED <<pendingPublishes, waited, sent, failed>>
      BY <1>10 DEF RunPublish
    <2>2. TypeOK'
      BY <1>1, <1>7, <2>1 DEF IInv, TypeOK
    <2>3. dsnFailed \/ abandoned
      BY <1>3, <1>10 DEF IInv, LoopInv
    <2>4. NothingStranded'
      BY <1>2, <2>1, <2>3 DEF NothingStranded
    <2> QED BY <1>5, <2>2, <2>4 DEF IInv
  <1> QED BY <1>8, <1>9, <1>10
\* A consumer taken from r.Consume.
LEMMA RunConsumeStep ==
    ASSUME IInv, NEW cm \in Proxies, RunConsume(cm) PROVE IInv'
  <1>1. registered' \in Seq(Proxies) /\ declined' \subseteq Proxies
    <2>1. Takes(cm) \/ Declines(cm)
      BY DEF RunConsume
    <2> QED BY <2>1, AppendFacts DEF IInv, TypeOK, Takes, Declines
  <1>2. run = "select" /\ run' = (IF conn' = "nil" THEN "top" ELSE "select")
    BY DEF RunConsume, LoopAgain
  <1>3. UNCHANGED <<publishCh, published, replaceVars>>
    BY DEF RunConsume
  <1>4. Round => events' \subseteq Events /\ hears' \in {"yes", "thisRound", "no"}
    BY EventsType DEF IInv
  <1>5. CASE /\ channel = "nil" /\ Round
             /\ pendingConsumers' = Append(pendingConsumers, cm)
             /\ UNCHANGED <<linkVars, consumers, handlers, msgVars, doneVars, faultVars>>
    <2>1. TypeOK'
      BY <1>1, <1>2, <1>3, <1>4, <1>5 DEF IInv, TypeOK, msgVars
    <2>2. ToResume' # << >>
      BY <1>5, AppendFacts DEF IInv, TypeOK, ToResume
    <2>3. HandlersOnOpenChannel' /\ NothingStranded'
      BY <1>2, <1>3, <1>5 DEF IInv, HandlersOnOpenChannel, NothingStranded, msgVars
    <2>4. LoopInv'
      BY <1>2, <1>3, <1>5, <2>2 DEF IInv, LoopInv
    <2> QED BY <2>1, <2>3, <2>4 DEF IInv
  <1>6. CASE channel # "nil" /\ named /\ StartConsumer(cm)
    <2>1. /\ consumers' = <<cm>> /\ Round
          /\ UNCHANGED <<linkVars, pendingConsumers, msgVars, doneVars>>
      BY <1>6 DEF StartConsumer
    <2>2. faults' \in 0 .. MaxFaults /\ UNCHANGED <<dsnFailed, exchangeType>>
      BY <1>6, FaultType DEF IInv, StartConsumer
    <2>3. handlers' \subseteq Proxies /\ (handlers' # {} => channel = "open")
      BY <1>6 DEF IInv, TypeOK, HandlersOnOpenChannel, StartConsumer
    <2>4. TypeOK'
      BY <1>1, <1>2, <1>3, <1>4, <2>1, <2>2, <2>3 DEF IInv, TypeOK, msgVars
    <2>5. ToResume' # << >>
      BY <2>1 DEF IInv, TypeOK, ToResume
    <2>6. HandlersOnOpenChannel' /\ NothingStranded'
      BY <1>2, <1>3, <2>1, <2>2, <2>3
         DEF IInv, HandlersOnOpenChannel, NothingStranded, msgVars
    <2>7. LoopInv'
      BY <1>2, <1>3, <2>1, <2>2, <2>5 DEF IInv, LoopInv, HandlersOnOpenChannel
    <2> QED BY <2>4, <2>6, <2>7 DEF IInv
  <1>7. CASE /\ channel = "open" /\ ~named /\ conn # "nil" /\ Round
             /\ EnsureQueue(Append(pendingConsumers, cm), FALSE)
             /\ UNCHANGED <<conn, channel, doneVars, faultVars>>
    <2> DEFINE pend == Append(pendingConsumers, cm)
    <2>1. pend \in Seq(Proxies) /\ pend # << >>
      BY AppendFacts DEF IInv, TypeOK
    <2>2. /\ named' = TRUE /\ waited' = waited /\ failed' = failed /\ dropped' = dropped
          /\ pendingConsumers' = << >> /\ consumers' \in Seq(Proxies)
          /\ pend # << >> => consumers' # << >>
          /\ handlers' \subseteq Proxies
          /\ pendingPublishes' = << >> /\ sent' \in Seq(Msgs)
      BY <1>7, <2>1, EnsureQueueType DEF IInv
    <2>3. TypeOK'
      BY <1>1, <1>2, <1>3, <1>4, <1>7, <2>2, EmptyQueues DEF IInv, TypeOK
    <2>4. ToResume' # << >>
      BY <2>1, <2>2 DEF ToResume
    <2>5. HandlersOnOpenChannel' /\ NothingStranded'
      BY <1>2, <1>3, <1>7, <2>2 DEF IInv, HandlersOnOpenChannel, NothingStranded
    <2>6. LoopInv'
      BY <1>2, <1>3, <1>7, <2>2, <2>4 DEF IInv, LoopInv
    <2> QED BY <2>3, <2>5, <2>6 DEF IInv
  <1>8. CASE /\ channel # "nil" /\ ~named /\ conn # "nil"
             /\ channel = "open" => Fault
             /\ channel # "open" => UNCHANGED faultVars
             /\ Close
             /\ UNCHANGED <<named, consumers, pendingConsumers, msgVars>>
    <2>1. /\ conn' = "nil" /\ channel' = "nil" /\ events' = {} /\ handlers' = {}
          /\ hears' = "no" /\ done' \in Nat /\ adrift' \in Nat
      BY <1>8, CloseType DEF IInv
    <2>2. faults' \in 0 .. MaxFaults /\ UNCHANGED <<dsnFailed, exchangeType>>
      BY <1>8, FaultType DEF IInv
    <2>3. (named' \in BOOLEAN) /\ (named' => named) /\ run' \in {"top", "select", "stopped"}
      BY <1>2, <1>8 DEF IInv, TypeOK
    <2>4. UNCHANGED <<consumers, pendingConsumers, msgVars, publishCh, published, replaceVars>>
      BY <1>3, <1>8
    <2> QED BY <1>1, <2>1, <2>2, <2>3, <2>4, ClosedStep
  <1>9. CASE /\ channel # "nil" /\ ~named /\ conn = "nil" /\ Round
             /\ UNCHANGED <<linkVars, consumerVars, msgVars, doneVars, faultVars>>
    <2>1. TypeOK'
      BY <1>1, <1>2, <1>3, <1>4, <1>9 DEF IInv, TypeOK, consumerVars, msgVars
    <2>2. ToResume' = ToResume
      BY <1>9 DEF ToResume, consumerVars
    <2>3. HandlersOnOpenChannel' /\ NothingStranded' /\ LoopInv'
      BY <1>2, <1>3, <1>9, <2>2 DEF IInv, HandlersOnOpenChannel, NothingStranded, LoopInv,
         consumerVars, msgVars
    <2> QED BY <2>1, <2>3 DEF IInv
  <1> QED BY <1>5, <1>6, <1>7, <1>8, <1>9 DEF RunConsume

\* The cases of the select that close the connection: Done, an event, Close.
LEMMA RunClosesStep ==
    ASSUME IInv, RunDone \/ (\E e \in Events : RunEvent(e)) \/ RunClose PROVE IInv'
  <1>1. /\ conn' = "nil" /\ channel' = "nil" /\ events' = {} /\ handlers' = {} /\ hears' = "no"
        /\ named' = FALSE /\ run' \in {"top", "select", "stopped"}
    BY DEF RunDone, RunEvent, RunClose, Close, LoopAgain
  <1>2. done' \in Nat /\ adrift' \in Nat
    BY HandlersFinite DEF IInv, TypeOK, RunDone, RunEvent, RunClose, Close
  <1>3. UNCHANGED <<consumers, pendingConsumers, msgVars, clientVars, replaceVars, faultVars>>
    BY DEF RunDone, RunEvent, RunClose
  <1>4. /\ faults' \in 0 .. MaxFaults /\ UNCHANGED <<dsnFailed, exchangeType>>
        /\ registered' \in Seq(Proxies) /\ declined' \subseteq Proxies
        /\ UNCHANGED <<consumers, pendingConsumers, msgVars, publishCh, published, replaceVars>>
    BY <1>3 DEF IInv, TypeOK, clientVars
  <1>5. (named' \in BOOLEAN) /\ (named' => named)
    BY <1>1
  <1> QED BY <1>1, <1>2, <1>4, <1>5, ClosedStep

\* The tick.
LEMMA RunTickStep ==
    ASSUME IInv, RunTick PROVE IInv'
  <1>1. run = "select" /\ run' = (IF conn' = "nil" THEN "top" ELSE "select")
    BY DEF RunTick, LoopAgain
  <1>2. UNCHANGED <<consumers, pendingConsumers, msgVars, clientVars, replaceVars>>
    BY DEF RunTick
  <1>3. ToResume' = ToResume
    BY <1>2 DEF ToResume
  <1>4. Round => events' \subseteq Events /\ hears' \in {"yes", "thisRound", "no"}
    BY EventsType DEF IInv
  <1>5. CASE TickIdles
    <2>1. Round /\ UNCHANGED <<linkVars, handlers, doneVars, faultVars>>
      BY <1>5 DEF TickIdles
    <2>2. TypeOK'
      BY <1>1, <1>2, <1>4, <2>1 DEF IInv, TypeOK, msgVars, clientVars
    <2>3. HandlersOnOpenChannel' /\ NothingStranded' /\ LoopInv'
      BY <1>1, <1>2, <1>3, <2>1 DEF IInv, HandlersOnOpenChannel, NothingStranded, LoopInv,
         msgVars
    <2> QED BY <2>2, <2>3 DEF IInv
  <1>6. CASE TickForgetsClosed
    <2>1. /\ conn = "closed" /\ conn' = "nil" /\ named' = FALSE /\ Round
          /\ UNCHANGED <<channel, handlers, doneVars, faultVars>>
      BY <1>6 DEF TickForgetsClosed
    <2>2. TypeOK'
      BY <1>1, <1>2, <1>4, <2>1 DEF IInv, TypeOK, msgVars, clientVars
    <2>3. HandlersOnOpenChannel' /\ NothingStranded' /\ LoopInv'
      BY <1>1, <1>2, <2>1 DEF IInv, HandlersOnOpenChannel, NothingStranded, LoopInv, msgVars
    <2> QED BY <2>2, <2>3 DEF IInv
  <1>7. CASE TickReconnects
    <2>1. /\ conn' = "nil" /\ channel' = "nil" /\ events' = {} /\ handlers' = {}
          /\ hears' = "no" /\ done' \in Nat /\ adrift' \in Nat
      BY <1>7, CloseType DEF IInv, TickReconnects
    <2>2. faults' \in 0 .. MaxFaults /\ UNCHANGED <<dsnFailed, exchangeType>>
      BY <1>7, FaultType DEF IInv, TypeOK, TickReconnects
    <2>3. /\ run' \in {"top", "select", "stopped"}
          /\ registered' \in Seq(Proxies) /\ declined' \subseteq Proxies
          /\ UNCHANGED <<consumers, pendingConsumers, msgVars, publishCh, published, replaceVars>>
      BY <1>1, <1>2 DEF IInv, TypeOK, clientVars
    <2>4. (named' \in BOOLEAN) /\ (named' => named)
      BY <1>7 DEF IInv, TypeOK, TickReconnects
    <2> QED BY <2>1, <2>2, <2>3, <2>4, ClosedStep
  <1> QED BY <1>5, <1>6, <1>7 DEF RunTick

-----------------------------------------------------------------------------
(* The steps of close() in the goroutine that replaces the instance *)

\* What such a step leaves alone: what is pending, the queue and the faults.
LEMMA ReplaceFacts ==
    ASSUME IInv, Replace
    PROVE  /\ UNCHANGED <<named, consumers, pendingConsumers, msgVars, clientVars, faultVars,
                          dialedLate>>
           /\ closing' \in ReplacePlaces /\ run' \in {run, "panic"}
           /\ events' \subseteq Events /\ hears' \in {"yes", "thisRound", "no"}
           /\ done' \in Nat /\ adrift' \in Nat /\ handlers' \subseteq handlers
           /\ ToResume' = ToResume
  <1>1. Cardinality(handlers) \in Nat
    BY HandlersFinite DEF IInv
  <1>2. /\ UNCHANGED <<named, consumers, pendingConsumers, msgVars, clientVars, faultVars,
                       dialedLate>>
        /\ closing' \in ReplacePlaces
    BY DEF Replace, ReplacePlaces, ReplaceClears, ReplaceClosesChannel, ReplaceForgetsChannel,
       ReplaceTestsConn, ReplaceClosesConn, ReplaceForgetsConn, ReplaceSignals, consumerVars,
       IInv, TypeOK
  <1>3. run' \in {run, "panic"} /\ handlers' \subseteq handlers
    BY DEF Replace, MayPanic, ReplaceClears, ReplaceClosesChannel, ReplaceForgetsChannel,
       ReplaceTestsConn, ReplaceClosesConn, ReplaceForgetsConn, ReplaceSignals, consumerVars
  <1>4. events' \subseteq Events /\ hears' \in {"yes", "thisRound", "no"}
    <2>1. CASE UNCHANGED <<events, hears>>
      BY <2>1 DEF IInv, TypeOK
    <2>2. CASE Deafen \/ \E es \in SUBSET Events : Notify(es)
      BY <2>2, EventsType DEF IInv
    <2>3. {} \in SUBSET Events /\ {"channelClosed"} \in SUBSET Events
          /\ {"connClosed", "channelClosed"} \in SUBSET Events
      BY DEF Events
    <2>4. UNCHANGED <<events, hears>> \/ Deafen \/ \E es \in SUBSET Events : Notify(es)
      BY <2>3 DEF Replace, ReplaceClears, ReplaceClosesChannel, ReplaceForgetsChannel,
         ReplaceTestsConn, ReplaceClosesConn, ReplaceForgetsConn, ReplaceSignals
    <2> QED BY <2>1, <2>2, <2>4
  <1>5. done' \in Nat /\ adrift' \in Nat
    BY <1>1 DEF Replace, ReplaceClears, ReplaceClosesChannel, ReplaceForgetsChannel,
       ReplaceTestsConn, ReplaceClosesConn, ReplaceForgetsConn, ReplaceSignals, LeaveHandlers,
       IInv, TypeOK
  <1> QED BY <1>2, <1>3, <1>4, <1>5 DEF ToResume

\* What such a step does to the connection and the channel: it closes them, or
\* forgets them; a connection forgotten while it is open is abandoned.
LEMMA ReplaceLinks ==
    ASSUME IInv, Replace
    PROVE  /\ conn' \in {conn, "closed", "nil"} /\ (conn' = "closed" => conn # "nil")
           /\ channel' \in {channel, "closed", "nil"}
           /\ channel' = "closed" => channel # "nil"
           /\ abandoned' \in BOOLEAN /\ (abandoned => abandoned')
           /\ handlers' # {} => channel' = "open"
           /\ channel' = "open" => conn' = "open" \/ abandoned'
           /\ conn' # "nil" => conn # "nil"
  <1>1. CASE ReplaceClears \/ ReplaceTestsConn \/ ReplaceSignals
    BY <1>1 DEF ReplaceClears, ReplaceTestsConn, ReplaceSignals, IInv, TypeOK,
       HandlersOnOpenChannel, consumerVars
  <1>2. CASE ReplaceClosesChannel \/ ReplaceForgetsChannel
    BY <1>2 DEF ReplaceClosesChannel, ReplaceForgetsChannel, IInv, TypeOK,
       HandlersOnOpenChannel, consumerVars
  <1>3. CASE ReplaceClosesConn
    BY <1>3 DEF ReplaceClosesConn, IInv, TypeOK, HandlersOnOpenChannel, consumerVars
  <1>4. CASE ReplaceForgetsConn
    BY <1>4 DEF ReplaceForgetsConn, IInv, TypeOK, HandlersOnOpenChannel, consumerVars
  <1> QED BY <1>1, <1>2, <1>3, <1>4 DEF Replace

\* The goroutine that replaces the instance.
LEMMA ReplaceStep ==
    ASSUME IInv, Replace PROVE IInv'
  <1>1. /\ UNCHANGED <<named, consumers, pendingConsumers, msgVars, clientVars, faultVars,
                       dialedLate>>
        /\ closing' \in ReplacePlaces /\ run' \in {run, "panic"}
        /\ events' \subseteq Events /\ hears' \in {"yes", "thisRound", "no"}
        /\ done' \in Nat /\ adrift' \in Nat /\ handlers' \subseteq handlers
        /\ ToResume' = ToResume
    BY ReplaceFacts
  <1>2. /\ conn' \in {conn, "closed", "nil"} /\ (conn' = "closed" => conn # "nil")
        /\ channel' \in {channel, "closed", "nil"}
        /\ channel' = "closed" => channel # "nil"
        /\ abandoned' \in BOOLEAN /\ (abandoned => abandoned')
        /\ handlers' # {} => channel' = "open"
        /\ channel' = "open" => conn' = "open" \/ abandoned'
        /\ conn' # "nil" => conn # "nil"
    BY ReplaceLinks
  <1>3. TypeOK'
    BY <1>1, <1>2 DEF IInv, TypeOK, msgVars, clientVars
  <1>4. HandlersOnOpenChannel'
    BY <1>1, <1>2 DEF IInv, HandlersOnOpenChannel
  <1>5. NothingStranded'
    BY <1>1, <1>2 DEF IInv, NothingStranded, msgVars
  <1>6. channel' = "open" => channel = "open"
    BY <1>2
  <1>7. LoopInv'
    BY <1>1, <1>2, <1>6 DEF IInv, LoopInv, TypeOK
  <1> QED BY <1>3, <1>4, <1>5, <1>7 DEF IInv

-----------------------------------------------------------------------------
(* The broker *)

\* The broker drops the connection.
LEMMA BrokerDropsConnStep ==
    ASSUME IInv, BrokerDropsConn PROVE IInv'
  <1>1. /\ Fault /\ conn = "open" /\ conn' = "closed"
        /\ UNCHANGED <<run, named, consumers, pendingConsumers, msgVars, clientVars, replaceVars>>
    BY DEF BrokerDropsConn
  <1>2. faults' \in 0 .. MaxFaults /\ UNCHANGED <<dsnFailed, exchangeType>>
    BY <1>1, FaultType DEF IInv
  <1>3. /\ done' \in Nat /\ adrift' \in Nat /\ handlers' \subseteq handlers
        /\ channel' \in {"nil", "open", "closed"} /\ (channel' = "nil" <=> channel = "nil")
        /\ (channel' = "open" => channel = "open" /\ run \in {"dialed", "initDialed"})
        /\ (handlers' # {} => channel' = "open")
    BY HandlersFinite
       DEF BrokerDropsConn, DeliveriesEnd, IInv, TypeOK, HandlersOnOpenChannel
  <1>4. events' \subseteq Events /\ hears' \in {"yes", "thisRound", "no"}
    BY EventsType DEF BrokerDropsConn, IInv, Events
  <1>5. TypeOK'
    BY <1>1, <1>2, <1>3, <1>4 DEF IInv, TypeOK, msgVars, clientVars
  <1>6. ToResume' = ToResume /\ run \notin {"init", "top"}
    BY <1>1 DEF ToResume, IInv, LoopInv
  <1>7. HandlersOnOpenChannel' /\ LoopInv'
    BY <1>1, <1>2, <1>3, <1>6 DEF IInv, HandlersOnOpenChannel, LoopInv
  <1>8. NothingStranded'
    BY <1>1, <1>2, <1>3 DEF IInv, NothingStranded, msgVars
  <1> QED BY <1>5, <1>7, <1>8 DEF IInv

\* The broker closes the channel or cancels the consumer, or the deliveries of
\* an earlier channel end.
LEMMA BrokerChannelStep ==
    ASSUME IInv, BrokerClosesChannel \/ BrokerCancelsConsumer \/ AdriftEnd PROVE IInv'
  <1>1. /\ Fault \/ UNCHANGED faultVars
        /\ UNCHANGED <<run, conn, named, consumers, pendingConsumers, msgVars, clientVars,
                       replaceVars>>
    BY DEF BrokerClosesChannel, BrokerCancelsConsumer, AdriftEnd, consumerVars
  <1>2. faults' \in 0 .. MaxFaults /\ UNCHANGED <<dsnFailed, exchangeType>>
    BY <1>1, FaultType DEF IInv
  <1>3. /\ done' \in Nat /\ adrift' \in Nat /\ handlers' \subseteq handlers
        /\ channel' \in {"nil", "open", "closed"} /\ (channel' = "nil" <=> channel = "nil")
        /\ (channel' = "open" => channel = "open") /\ (handlers' # {} => channel' = "open")
    BY HandlersFinite
       DEF BrokerClosesChannel, BrokerCancelsConsumer, AdriftEnd, DeliveriesEnd,
           IInv, TypeOK, HandlersOnOpenChannel, consumerVars
  <1>4. events' \subseteq Events /\ hears' \in {"yes", "thisRound", "no"}
    <2>1. {"channelClosed"} \in SUBSET Events /\ {"channelCancel"} \in SUBSET Events
      BY DEF Events
    <2> QED BY <2>1, EventsType DEF BrokerClosesChannel, BrokerCancelsConsumer, AdriftEnd,
               IInv, TypeOK
  <1>5. TypeOK'
    BY <1>1, <1>2, <1>3, <1>4 DEF IInv, TypeOK, msgVars, clientVars
  <1>6. ToResume' = ToResume
    BY <1>1 DEF ToResume
  <1>7. HandlersOnOpenChannel' /\ LoopInv'
    BY <1>1, <1>2, <1>3, <1>6 DEF IInv, HandlersOnOpenChannel, LoopInv
  <1>8. NothingStranded'
    BY <1>1, <1>2, <1>3 DEF IInv, NothingStranded, msgVars
  <1> QED BY <1>5, <1>7, <1>8 DEF IInv

-----------------------------------------------------------------------------
(* Any step *)

\* Run opening the channel after it dialled.
LEMMA OpenChannelStep ==
    ASSUME IInv, OpenChannel PROVE IInv'
  <1>1. /\ run \in {"initDialed", "dialed"} /\ run' \in {"top", "select"}
        /\ run' = "top" => conn' = "nil"
    BY DEF OpenChannel, LoopAgain
  <1>2. CASE \E refused \in BOOLEAN : InitConnOk(refused)
    BY <1>1, <1>2, InitConnOkStep
  <1>3. CASE InitConnChannelFails \/ InitConnQueueFails
    BY <1>1, <1>3, InitConnFailsStep
  <1> QED BY <1>2, <1>3 DEF OpenChannel

LEMMA NextIInv == IInv /\ [Next]_vars => IInv'
  <1> SUFFICES ASSUME IInv, [Next]_vars PROVE IInv'
    OBVIOUS
  <1>1. CASE PublishMQ
    BY <1>1, PublishMQStep
  <1>2. CASE InitRabbitMQ \/ Reconnect
    BY <1>2, DialStep, DsnFailsStep DEF InitRabbitMQ, Reconnect
  <1>3. CASE OpenChannel
    BY <1>3, OpenChannelStep
  <1>4. CASE RunPublish
    BY <1>4, RunPublishStep
  <1>5. CASE \E cm \in Proxies : RunConsume(cm)
    BY <1>5, RunConsumeStep
  <1>6. CASE RunDone \/ (\E e \in Events : RunEvent(e)) \/ RunClose
    BY <1>6, RunClosesStep
  <1>7. CASE RunTick
    BY <1>7, RunTickStep
  <1>8. CASE Replace
    BY <1>8, ReplaceStep
  <1>9. CASE Broker \/ AdriftEnd
    BY <1>9, BrokerDropsConnStep, BrokerChannelStep DEF Broker
  <1>10. CASE UNCHANGED vars
    BY <1>10 DEF vars, IInv, TypeOK, HandlersOnOpenChannel, NothingStranded, LoopInv, ToResume,
       consumerVars, msgVars, clientVars
  <1> QED
    BY <1>1, <1>2, <1>3, <1>4, <1>5, <1>6, <1>7, <1>8, <1>9, <1>10 DEF Next

-----------------------------------------------------------------------------
(* The order of messages *)

\* The pairs of sequences of messages: each pair of one sequence is in Rel, and
\* so is each pair of a message of one and a message of another; and none of
\* one is above a bound.
InRel(s, Rel) == \A i, j \in 1 .. Len(s) : i < j => <<s[i], s[j]>> \in Rel
Precedes(s, t, Rel) == \A i \in 1 .. Len(s), j \in 1 .. Len(t) : <<s[i], t[j]>> \in Rel
AtMost(s, n) == \A i \in 1 .. Len(s) : s[i] <= n

\* The pairs in ascending order.
Less == {p \in Int \X Int : p[1] < p[2]}

\* A concatenation, piece by piece.
LEMMA ConcatPieces ==
    ASSUME NEW s \in Seq(Int), NEW t \in Seq(Int)
    PROVE  /\ s \o t \in Seq(Int)
           /\ \A k \in 1 .. Len(s \o t) :
                  \/ k \in 1 .. Len(s) /\ (s \o t)[k] = s[k]
                  \/ k - Len(s) \in 1 .. Len(t) /\ (s \o t)[k] = t[k - Len(s)]
           /\ \A k \in 1 .. Len(s) : k \in 1 .. Len(s \o t) /\ (s \o t)[k] = s[k]
           /\ \A k \in 1 .. Len(t) : /\ Len(s) + k \in 1 .. Len(s \o t)
                                     /\ (s \o t)[Len(s) + k] = t[k]
  <1> DEFINE st == s \o t
  <1>1. /\ Len(s) \in Nat /\ Len(t) \in Nat /\ Len(st) = Len(s) + Len(t)
        /\ \A i \in 1 .. Len(s) : st[i] = s[i]
        /\ \A i \in 1 .. Len(t) : st[Len(s) + i] = t[i]
        /\ st \in Seq(Int)
    OBVIOUS
  <1> HIDE DEF st
  <1>2. ASSUME NEW k \in 1 .. Len(st)
        PROVE  \/ k \in 1 .. Len(s) /\ st[k] = s[k]
               \/ k - Len(s) \in 1 .. Len(t) /\ st[k] = t[k - Len(s)]
    <2>1. CASE k <= Len(s)
      <3>1. k \in 1 .. Len(s)
        BY <1>1, <2>1
      <3> QED BY <1>1, <3>1
    <2>2. CASE k > Len(s)
      <3> DEFINE i == k - Len(s)
      <3>1. i \in 1 .. Len(t) /\ k = Len(s) + i
        BY <1>1, <2>2
      <3>2. st[Len(s) + i] = t[i]
        BY <1>1, <3>1
      <3> QED BY <3>1, <3>2
    <2> QED BY <1>1, <2>1, <2>2
  <1>3. /\ \A k \in 1 .. Len(s) : k \in 1 .. Len(st)
        /\ \A k \in 1 .. Len(t) : Len(s) + k \in 1 .. Len(st)
    BY <1>1
  <1> QED BY <1>1, <1>2, <1>3 DEF st

\* The pairs of a concatenation are those of its parts and those across.
LEMMA ConcatInRel ==
    ASSUME NEW s \in Seq(Int), NEW t \in Seq(Int), NEW Rel,
           InRel(s, Rel), InRel(t, Rel), Precedes(s, t, Rel)
    PROVE  InRel(s \o t, Rel)
  <1> DEFINE st == s \o t
  <1>1. /\ st \in Seq(Int)
        /\ \A k \in 1 .. Len(st) :
               \/ k \in 1 .. Len(s) /\ st[k] = s[k]
               \/ k - Len(s) \in 1 .. Len(t) /\ st[k] = t[k - Len(s)]
    BY ConcatPieces
  <1>2. Len(s) \in Nat
    OBVIOUS
  <1> HIDE DEF st
  <1>3. ASSUME NEW i \in 1 .. Len(st), NEW j \in 1 .. Len(st), i < j
        PROVE  <<st[i], st[j]>> \in Rel
    <2>1. CASE i \in 1 .. Len(s) /\ st[i] = s[i] /\ j \in 1 .. Len(s) /\ st[j] = s[j]
      BY <1>3, <2>1 DEF InRel
    <2>2. CASE /\ i \in 1 .. Len(s) /\ st[i] = s[i]
               /\ j - Len(s) \in 1 .. Len(t) /\ st[j] = t[j - Len(s)]
      BY <2>2 DEF Precedes
    <2>3. CASE /\ i - Len(s) \in 1 .. Len(t) /\ st[i] = t[i - Len(s)]
               /\ j - Len(s) \in 1 .. Len(t) /\ st[j] = t[j - Len(s)]
      <3>1. i - Len(s) < j - Len(s)
        BY <1>2, <1>3
      <3> QED BY <2>3, <3>1 DEF InRel
    <2>4. CASE i - Len(s) \in 1 .. Len(t) /\ j \in 1 .. Len(s)
      BY <1>2, <1>3, <2>4
    <2> QED BY <1>1, <2>1, <2>2, <2>3, <2>4
  <1> QED BY <1>3 DEF InRel, st

\* A concatenation precedes what its parts precede, and follows what they follow.
LEMMA ConcatPrecedes ==
    ASSUME NEW s \in Seq(Int), NEW t \in Seq(Int), NEW u \in Seq(Int), NEW Rel
    PROVE  /\ Precedes(s, u, Rel) /\ Precedes(t, u, Rel) => Precedes(s \o t, u, Rel)
           /\ Precedes(u, s, Rel) /\ Precedes(u, t, Rel) => Precedes(u, s \o t, Rel)
  <1> DEFINE st == s \o t
  <1>1. \A k \in 1 .. Len(st) :
               \/ k \in 1 .. Len(s) /\ st[k] = s[k]
               \/ k - Len(s) \in 1 .. Len(t) /\ st[k] = t[k - Len(s)]
    BY ConcatPieces
  <1> HIDE DEF st
  <1>2. Precedes(s, u, Rel) /\ Precedes(t, u, Rel) => Precedes(st, u, Rel)
    BY <1>1 DEF Precedes
  <1>3. Precedes(u, s, Rel) /\ Precedes(u, t, Rel) => Precedes(u, st, Rel)
    BY <1>1 DEF Precedes
  <1> QED BY <1>2, <1>3 DEF st

\* The bound of two sequences is one of their concatenation.
LEMMA ConcatAtMost ==
    ASSUME NEW s \in Seq(Int), NEW t \in Seq(Int), NEW n \in Int,
           AtMost(s, n), AtMost(t, n)
    PROVE  AtMost(s \o t, n)
  <1> DEFINE st == s \o t
  <1>1. \A k \in 1 .. Len(st) :
               \/ k \in 1 .. Len(s) /\ st[k] = s[k]
               \/ k - Len(s) \in 1 .. Len(t) /\ st[k] = t[k - Len(s)]
    BY ConcatPieces
  <1> HIDE DEF st
  <1>2. AtMost(st, n)
    BY <1>1 DEF AtMost
  <1> QED BY <1>2 DEF st

\* The sequences of no and of one message.
LEMMA ShortSequences ==
    ASSUME NEW s \in Seq(Int), NEW m \in Int, NEW n \in Int, NEW Rel
    PROVE  /\ << >> \in Seq(Int) /\ <<m>> \in Seq(Int)
           /\ InRel(<< >>, Rel) /\ Precedes(s, << >>, Rel) /\ Precedes(<< >>, s, Rel)
           /\ AtMost(<< >>, n)
           /\ InRel(<<m>>, Rel) /\ (m <= n => AtMost(<<m>>, n))
  <1>1. InRel(<<m>>, Rel) /\ (m <= n => AtMost(<<m>>, n))
    BY DEF InRel, AtMost
  <1>2. InRel(<< >>, Rel) /\ Precedes(s, << >>, Rel) /\ Precedes(<< >>, s, Rel) /\ AtMost(<< >>, n)
    BY DEF InRel, AtMost, Precedes
  <1> QED BY <1>1, <1>2

\* Smaller relations.
LEMMA RelMonotone ==
    ASSUME NEW s \in Seq(Int), NEW t \in Seq(Int), NEW Rel, NEW Sup, Rel \subseteq Sup
    PROVE  /\ InRel(s, Rel) => InRel(s, Sup)
           /\ Precedes(s, t, Rel) => Precedes(s, t, Sup)
  BY DEF InRel, Precedes

\* The head of a sequence and what follows it.
LEMMA HeadTail ==
    ASSUME NEW s \in Seq(Int), s # << >>
    PROVE  /\ Head(s) \in Int /\ Tail(s) \in Seq(Int) /\ Head(s) = s[1] /\ 1 \in 1 .. Len(s)
           /\ \A k \in 1 .. Len(Tail(s)) : k + 1 \in 1 .. Len(s) /\ Tail(s)[k] = s[k + 1]
  <1>1. /\ Len(s) \in Nat /\ Len(s) # 0 /\ Len(Tail(s)) = Len(s) - 1
        /\ Head(s) = s[1] /\ Tail(s) \in Seq(Int)
    OBVIOUS
  <1>2. ASSUME NEW k \in 1 .. Len(Tail(s))
        PROVE  k + 1 \in 1 .. Len(s) /\ Tail(s)[k] = s[k + 1]
    BY <1>1
  <1>3. 1 \in 1 .. Len(s)
    BY <1>1
  <1> QED BY <1>1, <1>2, <1>3

\* The ascending pairs, and the pairs with one message.
LEMMA LessFacts == \A x, y : <<x, y>> \in Less <=> x \in Int /\ y \in Int /\ x < y
  BY DEF Less

LEMMA OneMessage ==
    ASSUME NEW m \in Int, NEW t \in Seq(Int), NEW Rel
    PROVE  /\ Precedes(<<m>>, t, Rel) <=> \A i \in 1 .. Len(t) : <<m, t[i]>> \in Rel
           /\ Precedes(t, <<m>>, Rel) <=> \A i \in 1 .. Len(t) : <<t[i], m>> \in Rel
  <1>1. Len(<<m>>) = 1 /\ <<m>>[1] = m /\ 1 .. 1 = {1}
    OBVIOUS
  <1> QED BY <1>1 DEF Precedes

\* The pairs InOrder allows when the messages in W have waited: ascending ones
\* and, where it is loose, one that did not wait before one that did.
Order(W, loose) ==
    {p \in Int \X Int : p[1] < p[2] \/ (loose /\ p[1] \notin W /\ p[2] \in W)}

\* The messages of an instance in one line: sent (s), pending (p) and in the
\* channel (c), with n published and those in W having waited.
InLine(s, p, c, n, W, loose) ==
    /\ InRel(s, Order(W, loose)) /\ InRel(p, Less) /\ InRel(c, Less)
    /\ Precedes(s, p, Order(W, loose)) /\ Precedes(s, c, Less) /\ Precedes(p, c, Less)
    /\ AtMost(s, n) /\ AtMost(p, n) /\ AtMost(c, n)
    /\ \A i \in 1 .. Len(p) : p[i] \in W
    /\ \A i \in 1 .. Len(c) : c[i] \notin W
    /\ \A m \in W : m <= n

Loose == Broadcast \/ abandoned
OrderInv == InLine(sent, pendingPublishes, publishCh, published, waited, Loose)

\* Ascending pairs are allowed, and the looser the more pairs are.
LEMMA OrderFacts ==
    ASSUME NEW W, NEW loose, NEW looser, loose => looser
    PROVE  Less \subseteq Order(W, loose) /\ Order(W, loose) \subseteq Order(W, looser)
  BY DEF Less, Order

LEMMA LineLooser ==
    ASSUME NEW s \in Seq(Int), NEW p \in Seq(Int), NEW c \in Seq(Int), NEW n \in Int,
           NEW W \in SUBSET Int, NEW loose, NEW looser, loose => looser, InLine(s, p, c, n, W, loose)
    PROVE  InLine(s, p, c, n, W, looser)
  <1>1. Order(W, loose) \subseteq Order(W, looser)
    BY OrderFacts
  <1>2. InRel(s, Order(W, looser)) /\ Precedes(s, p, Order(W, looser))
    BY <1>1, RelMonotone DEF InLine
  <1> QED BY <1>2 DEF InLine

\* The pending messages are all sent.
LEMMA LineFlush ==
    ASSUME NEW s \in Seq(Int), NEW p \in Seq(Int), NEW c \in Seq(Int), NEW n \in Int,
           NEW W \in SUBSET Int, NEW loose, InLine(s, p, c, n, W, loose)
    PROVE  InLine(s \o p, << >>, c, n, W, loose)
  <1>1. s \o p \in Seq(Int) /\ << >> \in Seq(Int)
    BY ConcatPieces, ShortSequences
  <1>2. InRel(p, Order(W, loose))
    BY OrderFacts, RelMonotone DEF InLine
  <1>3. InRel(s \o p, Order(W, loose))
    BY <1>2, ConcatInRel DEF InLine
  <1>4. Precedes(s \o p, c, Less)
    BY ConcatPrecedes DEF InLine
  <1>5. AtMost(s \o p, n)
    BY ConcatAtMost DEF InLine
  <1>6. /\ InRel(<< >>, Less) /\ Precedes(s \o p, << >>, Order(W, loose))
        /\ Precedes(<< >>, c, Less) /\ AtMost(<< >>, n)
    BY <1>1, ShortSequences
  <1>7. \A i \in 1 .. Len(<< >>) : << >>[i] \in W
    OBVIOUS
  <1> QED BY <1>3, <1>4, <1>5, <1>6, <1>7 DEF InLine

\* A message is published.
LEMMA LinePublish ==
    ASSUME NEW s \in Seq(Int), NEW p \in Seq(Int), NEW c \in Seq(Int), NEW n \in Int,
           NEW W \in SUBSET Int, NEW loose, InLine(s, p, c, n, W, loose)
    PROVE  InLine(s, p, Append(c, n + 1), n + 1, W, loose)
  <1> DEFINE d == c \o <<n + 1>>
  <1>1. Append(c, n + 1) = d /\ n + 1 \in Int /\ n + 1 <= n + 1 /\ <<n + 1>> \in Seq(Int)
    BY AppendIsConcat
  <1>2. ASSUME NEW q \in Seq(Int), AtMost(q, n)
        PROVE  AtMost(q, n + 1) /\ Precedes(q, <<n + 1>>, Less)
    <2>1. \A i \in 1 .. Len(q) : q[i] \in Int
      OBVIOUS
    <2> QED BY <1>2, <2>1 DEF AtMost, Precedes, Less
  <1>3. InRel(d, Less)
    BY <1>1, <1>2, ShortSequences, ConcatInRel DEF InLine
  <1>4. Precedes(s, d, Less) /\ Precedes(p, d, Less)
    BY <1>1, <1>2, ConcatPrecedes DEF InLine
  <1>5. AtMost(s, n + 1) /\ AtMost(p, n + 1) /\ AtMost(d, n + 1)
    BY <1>1, <1>2, ShortSequences, ConcatAtMost DEF InLine
  <1>6. \A m \in W : m <= n + 1 /\ m # n + 1
    BY DEF InLine
  <1>7. \A i \in 1 .. Len(d) : d[i] \notin W
    <2>1. \A i \in 1 .. Len(d) : (i \in 1 .. Len(c) /\ d[i] = c[i]) \/ d[i] = n + 1
      BY <1>1, ConcatPieces
    <2> QED BY <1>6, <2>1 DEF InLine
  <1> QED BY <1>1, <1>3, <1>4, <1>5, <1>6, <1>7 DEF InLine

\* What the first message of the channel is to the others.
LEMMA LineHead ==
    ASSUME NEW s \in Seq(Int), NEW p \in Seq(Int), NEW c \in Seq(Int), NEW n \in Int,
           NEW W \in SUBSET Int, NEW loose, InLine(s, p, c, n, W, loose), c # << >>
    PROVE  /\ Head(c) \in Int /\ Head(c) <= n /\ Head(c) \notin W /\ Tail(c) \in Seq(Int)
           /\ Precedes(s, <<Head(c)>>, Less) /\ Precedes(p, <<Head(c)>>, Less)
           /\ Precedes(<<Head(c)>>, Tail(c), Less)
           /\ InRel(Tail(c), Less) /\ AtMost(Tail(c), n)
           /\ Precedes(s, Tail(c), Less) /\ Precedes(p, Tail(c), Less)
           /\ \A i \in 1 .. Len(Tail(c)) : Tail(c)[i] \notin W
  <1> DEFINE h == Head(c)
             d == Tail(c)
  <1>1. /\ h \in Int /\ d \in Seq(Int) /\ h = c[1] /\ 1 \in 1 .. Len(c)
        /\ \A k \in 1 .. Len(d) : k + 1 \in 1 .. Len(c) /\ d[k] = c[k + 1]
    BY HeadTail
  <1> HIDE DEF h, d
  <1>2. h <= n /\ h \notin W /\ AtMost(d, n) /\ \A i \in 1 .. Len(d) : d[i] \notin W
    BY <1>1 DEF InLine, AtMost
  <1>3. Precedes(s, <<h>>, Less) /\ Precedes(p, <<h>>, Less)
    BY <1>1 DEF InLine, Precedes
  <1>4. Precedes(s, d, Less) /\ Precedes(p, d, Less)
    BY <1>1 DEF InLine, Precedes
  <1>5. Precedes(<<h>>, d, Less)
    <2>1. ASSUME NEW k \in 1 .. Len(d) PROVE <<h, d[k]>> \in Less
      <3>1. 1 < k + 1
        OBVIOUS
      <3> QED BY <1>1, <3>1 DEF InLine, InRel
    <2> QED BY <2>1 DEF Precedes
  <1>6. InRel(d, Less)
    <2>1. ASSUME NEW i \in 1 .. Len(d), NEW j \in 1 .. Len(d), i < j
          PROVE  <<d[i], d[j]>> \in Less
      <3>1. i + 1 < j + 1
        BY <2>1
      <3> QED BY <1>1, <3>1 DEF InLine, InRel
    <2> QED BY <2>1 DEF InRel
  <1> QED BY <1>1, <1>2, <1>3, <1>4, <1>5, <1>6 DEF h, d

\* The first message of the channel leaves it, and is lost.
LEMMA LineDrop ==
    ASSUME NEW s \in Seq(Int), NEW p \in Seq(Int), NEW c \in Seq(Int), NEW n \in Int,
           NEW W \in SUBSET Int, NEW loose, InLine(s, p, c, n, W, loose), c # << >>
    PROVE  InLine(s, p, Tail(c), n, W, loose)
  <1>1. /\ InRel(Tail(c), Less) /\ AtMost(Tail(c), n)
        /\ Precedes(s, Tail(c), Less) /\ Precedes(p, Tail(c), Less)
        /\ \A i \in 1 .. Len(Tail(c)) : Tail(c)[i] \notin W
    BY LineHead
  <1> QED BY <1>1 DEF InLine

\* ... is sent, while nothing is pending or where that may be overtaken.
LEMMA LineSend ==
    ASSUME NEW s \in Seq(Int), NEW p \in Seq(Int), NEW c \in Seq(Int), NEW n \in Int,
           NEW W \in SUBSET Int, NEW loose, InLine(s, p, c, n, W, loose), c # << >>, p = << >> \/ loose
    PROVE  InLine(Append(s, Head(c)), p, Tail(c), n, W, loose)
  <1> DEFINE h == Head(c)
             Rel == Order(W, loose)
  <1>1. /\ h \in Int /\ h <= n /\ h \notin W /\ Tail(c) \in Seq(Int)
        /\ Precedes(s, <<h>>, Less) /\ Precedes(<<h>>, Tail(c), Less)
        /\ InRel(Tail(c), Less) /\ AtMost(Tail(c), n)
        /\ Precedes(s, Tail(c), Less) /\ Precedes(p, Tail(c), Less)
        /\ \A i \in 1 .. Len(Tail(c)) : Tail(c)[i] \notin W
    BY LineHead
  <1>2. Append(s, h) = s \o <<h>> /\ <<h>> \in Seq(Int)
    BY <1>1, AppendIsConcat
  <1>3. Precedes(s, <<h>>, Rel)
    BY <1>1, <1>2, OrderFacts, RelMonotone
  <1> HIDE DEF h
  <1>4. InRel(s \o <<h>>, Rel)
    BY <1>1, <1>2, <1>3, ShortSequences, ConcatInRel DEF InLine
  <1>5. Precedes(<<h>>, p, Rel)
    <2>1. ASSUME loose, NEW i \in 1 .. Len(p) PROVE <<h, p[i]>> \in Rel
      <3>1. p[i] \in W /\ p[i] \in Int
        BY DEF InLine
      <3> QED BY <1>1, <2>1, <3>1 DEF Order
    <2>2. CASE loose
      BY <1>1, <2>1, <2>2, OneMessage
    <2>3. CASE p = << >>
      BY <1>2, <2>3, ShortSequences
    <2> QED BY <2>2, <2>3
  <1>6. Precedes(s \o <<h>>, p, Rel)
    BY <1>2, <1>5, ConcatPrecedes DEF InLine
  <1>7. Precedes(s \o <<h>>, Tail(c), Less)
    BY <1>1, <1>2, ConcatPrecedes
  <1>8. AtMost(s \o <<h>>, n)
    BY <1>1, <1>2, ShortSequences, ConcatAtMost DEF InLine
  <1> QED BY <1>1, <1>2, <1>4, <1>6, <1>7, <1>8 DEF InLine, h

\* ... has to wait.
LEMMA LineWait ==
    ASSUME NEW s \in Seq(Int), NEW p \in Seq(Int), NEW c \in Seq(Int), NEW n \in Int,
           NEW W \in SUBSET Int, NEW loose, InLine(s, p, c, n, W, loose), c # << >>
    PROVE  InLine(s, Append(p, Head(c)), Tail(c), n, W \cup {Head(c)}, loose)
  <1> DEFINE h == Head(c)
             V == W \cup {h}
  <1>1. /\ h \in Int /\ h <= n /\ h \notin W /\ Tail(c) \in Seq(Int)
        /\ Precedes(s, <<h>>, Less) /\ Precedes(p, <<h>>, Less)
        /\ Precedes(<<h>>, Tail(c), Less)
        /\ InRel(Tail(c), Less) /\ AtMost(Tail(c), n)
        /\ Precedes(s, Tail(c), Less) /\ Precedes(p, Tail(c), Less)
        /\ \A i \in 1 .. Len(Tail(c)) : Tail(c)[i] \notin W
    BY LineHead
  <1>2. Append(p, h) = p \o <<h>> /\ <<h>> \in Seq(Int)
    BY <1>1, AppendIsConcat
  <1> HIDE DEF h
  <1>3. \A i \in 1 .. Len(s) : s[i] \in Int /\ s[i] < h
    BY <1>1, OneMessage, LessFacts
  <1>4. \A x, y : <<x, y>> \in Order(W, loose) /\ x # h => <<x, y>> \in Order(V, loose)
    BY DEF Order
  <1>5. \A i \in 1 .. Len(s) : s[i] # h
    BY <1>1, <1>3
  <1>6. InRel(s, Order(V, loose)) /\ Precedes(s, p, Order(V, loose))
    BY <1>4, <1>5 DEF InLine, InRel, Precedes
  <1>7. Precedes(s, <<h>>, Order(V, loose))
    BY <1>1, <1>2, OrderFacts, RelMonotone
  <1>8. Precedes(s, p \o <<h>>, Order(V, loose))
    BY <1>2, <1>6, <1>7, ConcatPrecedes
  <1>9. InRel(p \o <<h>>, Less)
    BY <1>1, <1>2, ShortSequences, ConcatInRel DEF InLine
  <1>10. Precedes(p \o <<h>>, Tail(c), Less)
    BY <1>1, <1>2, ConcatPrecedes
  <1>11. AtMost(p \o <<h>>, n)
    BY <1>1, <1>2, ShortSequences, ConcatAtMost DEF InLine
  <1>12. \A i \in 1 .. Len(p \o <<h>>) : (p \o <<h>>)[i] \in V
    <2>1. \A i \in 1 .. Len(p \o <<h>>) :
              (i \in 1 .. Len(p) /\ (p \o <<h>>)[i] = p[i]) \/ (p \o <<h>>)[i] = h
      BY <1>2, ConcatPieces
    <2> QED BY <2>1 DEF InLine
  <1>13. \A i \in 1 .. Len(Tail(c)) : Tail(c)[i] \notin V
    <2>1. \A i \in 1 .. Len(Tail(c)) : Tail(c)[i] \in Int /\ h < Tail(c)[i]
      BY <1>1, OneMessage, LessFacts
    <2> QED BY <1>1, <2>1
  <1>14. \A m \in V : m <= n
    BY <1>1 DEF InLine
  <1> QED BY <1>1, <1>2, <1>6, <1>8, <1>9, <1>10, <1>11, <1>12, <1>13, <1>14 DEF InLine, h

\* The numbers of the messages.
LEMMA NumbersType ==
    /\ \A s \in Seq(Msgs) : s \in Seq(Int)
    /\ Msgs \subseteq Int /\ 0 .. MaxMsgs \subseteq Int
  <1>1. Msgs \subseteq Int /\ 0 .. MaxMsgs \subseteq Int
    BY BoundsAssumption DEF Msgs
  <1>2. \A s \in Seq(Msgs) : s \in Seq(Int)
    BY <1>1, SeqMonotonic
  <1> QED BY <1>1, <1>2

LEMMA QueuesOfNumbers ==
    ASSUME TypeOK
    PROVE  /\ sent \in Seq(Int) /\ pendingPublishes \in Seq(Int) /\ publishCh \in Seq(Int)
           /\ published \in Int /\ waited \in SUBSET Int
  BY NumbersType DEF TypeOK

\* No step changes the configured exchange type, and a connection once
\* abandoned has been abandoned for good.
LEMMA LooseKept == IInv /\ [Next]_vars => exchangeType' = exchangeType /\ (Loose => Loose')
  <1> SUFFICES ASSUME IInv, [Next]_vars
               PROVE  exchangeType' = exchangeType /\ (abandoned => abandoned')
    BY DEF Loose
  <1>1. CASE InitRabbitMQ \/ Reconnect
    BY <1>1 DEF InitRabbitMQ, Reconnect, Dial, InitConnDsnFails
  <1>2. CASE OpenChannel
    BY <1>2 DEF OpenChannel, InitConnOk, InitConnChannelFails, InitConnQueueFails, Fault
  <1>3. CASE PublishMQ \/ RunPublish \/ (\E cm \in Proxies : RunConsume(cm))
    <2>1. CASE PublishMQ \/ RunPublish
      BY <2>1 DEF PublishMQ, RunPublish
    <2>2. ASSUME NEW cm \in Proxies, RunConsume(cm)
          PROVE  exchangeType' = exchangeType /\ (abandoned => abandoned')
      <3>1. UNCHANGED replaceVars /\ (UNCHANGED faultVars \/ Fault)
        BY <2>2 DEF RunConsume, StartConsumer, IInv, TypeOK
      <3> QED BY <3>1 DEF Fault
    <2> QED BY <1>3, <2>1, <2>2
  <1>4. CASE RunDone \/ (\E e \in Events : RunEvent(e)) \/ RunClose
    BY <1>4 DEF RunDone, RunEvent, RunClose
  <1>5. CASE RunTick
    BY <1>5 DEF RunTick, TickIdles, TickForgetsClosed, TickReconnects, IInv, TypeOK, Fault
  <1>6. CASE Replace
    BY <1>6, ReplaceFacts, ReplaceLinks
  <1>7. CASE Broker \/ AdriftEnd \/ UNCHANGED vars
    BY <1>7 DEF Broker, BrokerDropsConn, BrokerClosesChannel, BrokerCancelsConsumer, AdriftEnd,
       Fault, vars
  <1> QED BY <1>1, <1>2, <1>3, <1>4, <1>5, <1>6, <1>7 DEF Next

LEMMA InitOrderInv == Init => OrderInv
  <1> SUFFICES ASSUME Init PROVE OrderInv
    OBVIOUS
  <1>1. /\ sent = << >> /\ pendingPublishes = << >> /\ publishCh = << >> /\ published = 0
        /\ waited = {}
    BY DEF Init
  <1>2. << >> \in Seq(Int) /\ 0 \in Int
    OBVIOUS
  <1>3. /\ InRel(<< >>, Less) /\ InRel(<< >>, Order({}, Loose))
        /\ Precedes(<< >>, << >>, Less) /\ Precedes(<< >>, << >>, Order({}, Loose))
        /\ AtMost(<< >>, 0)
    BY <1>2, ShortSequences
  <1> QED BY <1>1, <1>3 DEF OrderInv, InLine

\* Taking a message from r.Publish keeps the line.
LEMMA RunPublishLine ==
    ASSUME IInv, OrderInv, RunPublish
    PROVE  InLine(sent', pendingPublishes', publishCh', published', waited', Loose)
  <1> DEFINE pm == Head(publishCh)
  <1>1. /\ run = "select" /\ publishCh # << >> /\ publishCh' = Tail(publishCh)
        /\ published' = published
    BY DEF RunPublish
  <1>2. InLine(sent, pendingPublishes, publishCh, published, waited, Loose)
    BY DEF OrderInv
  <1>3. /\ sent \in Seq(Int) /\ pendingPublishes \in Seq(Int) /\ publishCh \in Seq(Int)
        /\ published \in Int /\ waited \in SUBSET Int
    BY QueuesOfNumbers DEF IInv
  <1>4. CASE channel = "nil"
    <2>1. /\ pendingPublishes' = Append(pendingPublishes, pm) /\ sent' = sent
          /\ waited' = waited \cup {pm}
      BY <1>4 DEF RunPublish
    <2> QED BY <1>1, <1>2, <1>3, <2>1, LineWait
  <1>5. CASE channel = "open" /\ (named \/ Broadcast)
    <2>1. /\ pendingPublishes' = pendingPublishes /\ waited' = waited
          /\ sent' = Append(sent, pm)
      BY <1>5 DEF RunPublish, ChannelPublish
    <2>2. pendingPublishes = << >> \/ Loose
      BY <1>1, <1>5 DEF IInv, HandlersOnOpenChannel, NothingStranded, Loose
    <2> QED BY <1>1, <1>2, <1>3, <2>1, <2>2, LineSend
  <1>6. CASE channel # "nil" /\ ~(channel = "open" /\ (named \/ Broadcast))
    <2>1. UNCHANGED <<pendingPublishes, waited, sent>>
      BY <1>6 DEF RunPublish, ChannelPublish
    <2> QED BY <1>1, <1>2, <1>3, <2>1, LineDrop
  <1> QED BY <1>4, <1>5, <1>6

LEMMA NextOrderInv == IInv /\ OrderInv /\ [Next]_vars => OrderInv'
  <1> SUFFICES ASSUME IInv, OrderInv, [Next]_vars PROVE OrderInv'
    OBVIOUS
  <1> DEFINE Same == UNCHANGED <<sent, pendingPublishes, publishCh, published, waited>>
             Flushed == /\ sent' = sent \o pendingPublishes /\ pendingPublishes' = << >>
                        /\ UNCHANGED <<publishCh, published, waited>>
             Line == InLine(sent', pendingPublishes', publishCh', published', waited', Loose)
  <1>1. InLine(sent, pendingPublishes, publishCh, published, waited, Loose)
    BY DEF OrderInv
  <1>2. /\ sent \in Seq(Int) /\ pendingPublishes \in Seq(Int) /\ publishCh \in Seq(Int)
        /\ published \in Int /\ waited \in SUBSET Int
    BY QueuesOfNumbers DEF IInv
  <1>3. Same => Line
    BY <1>1
  <1>4. Flushed => Line
    BY <1>1, <1>2, LineFlush
  <1>5. PublishMQ => Line
    BY <1>1, <1>2, LinePublish DEF PublishMQ, msgVars
  <1>6. RunPublish => Line
    BY RunPublishLine
  <1>7. InitRabbitMQ \/ Reconnect => Same
    BY DEF InitRabbitMQ, Reconnect, Dial, InitConnDsnFails, KeepPending, msgVars, clientVars
  <1>8. OpenChannel => Same \/ Flushed
    BY DEF OpenChannel, InitConnOk, InitConnChannelFails, InitConnQueueFails, EnsureQueue,
       msgVars, clientVars
  <1>9. (\E cm \in Proxies : RunConsume(cm)) => Same \/ Flushed
    BY DEF RunConsume, StartConsumer, EnsureQueue, msgVars
  <1>10. RunDone \/ (\E e \in Events : RunEvent(e)) \/ RunClose \/ RunTick => Same
    BY DEF RunDone, RunEvent, RunClose, RunTick, msgVars, clientVars
  <1>11. Replace => Same
    BY ReplaceFacts DEF msgVars, clientVars
  <1>12. Broker \/ AdriftEnd \/ UNCHANGED vars => Same
    BY DEF Broker, BrokerDropsConn, BrokerClosesChannel, BrokerCancelsConsumer, AdriftEnd,
       vars, msgVars, clientVars
  <1> HIDE DEF Same, Flushed, Line
  <1>13. Line
    BY <1>3, <1>4, <1>5, <1>6, <1>7, <1>8, <1>9, <1>10, <1>11, <1>12 DEF Next
  <1>14. IInv' /\ (Loose => Loose')
    BY NextIInv, LooseKept
  <1>15. /\ sent' \in Seq(Int) /\ pendingPublishes' \in Seq(Int) /\ publishCh' \in Seq(Int)
         /\ published' \in Int /\ waited' \in SUBSET Int
    BY <1>14, NumbersType DEF IInv, TypeOK
  <1> QED BY <1>13, <1>14, <1>15, LineLooser DEF OrderInv, Line

-----------------------------------------------------------------------------
(* The consumer registered last *)

\* What LatestConsumerKept needs to be inductive: without a replacement a Run
\* that waits without a channel has moved every consumer to the pending ones.
LatestInv ==
    run = "select" /\ channel = "nil" /\ closing = "no" => consumers = << >>

LEMMA NextLatestInv == IInv /\ LatestInv /\ [Next]_vars => LatestInv'
  <1> SUFFICES ASSUME IInv, LatestInv, [Next]_vars,
                      run' = "select", channel' = "nil", closing' = "no"
               PROVE  consumers' = << >>
    BY DEF LatestInv
  <1>1. CASE InitRabbitMQ \/ Reconnect
    BY <1>1 DEF InitRabbitMQ, Reconnect, InitConnDsnFails, KeepPending
  <1>2. CASE OpenChannel
    <2>1. consumers = << >>
      BY <1>2 DEF OpenChannel, IInv, LoopInv
    <2>2. consumers' = consumers
      BY <1>2 DEF OpenChannel, InitConnOk, InitConnChannelFails, InitConnQueueFails
    <2> QED BY <2>1, <2>2
  <1>3. CASE PublishMQ \/ RunPublish \/ AdriftEnd \/ UNCHANGED vars
    BY <1>3 DEF PublishMQ, RunPublish, AdriftEnd, vars, LatestInv, consumerVars
  <1>4. ASSUME NEW cm \in Proxies, RunConsume(cm) PROVE  consumers' = << >>
    <2>1. run = "select" /\ closing = "no" /\ conn' # "nil"
      BY <1>4 DEF RunConsume, LoopAgain
    <2>2. CASE channel = "nil"
      BY <1>4, <2>1, <2>2 DEF RunConsume, LatestInv
    <2>3. CASE channel # "nil"
      BY <1>4, <2>1, <2>3 DEF RunConsume, StartConsumer, Close
    <2> QED BY <2>2, <2>3
  <1>5. CASE RunDone \/ (\E e \in Events : RunEvent(e)) \/ RunClose
    BY <1>5 DEF RunDone, RunEvent, RunClose, Close, LoopAgain
  <1>6. CASE RunTick
    <2>1. conn' # "nil" /\ run = "select" /\ UNCHANGED <<consumers, closing>>
      BY <1>6 DEF RunTick, LoopAgain
    <2>2. channel' = channel
      BY <1>6, <2>1 DEF RunTick, TickIdles, TickForgetsClosed, TickReconnects, Close
    <2> QED BY <2>1, <2>2 DEF LatestInv
  <1>7. CASE Replace
    BY <1>7 DEF Replace, ReplaceClears, ReplaceClosesChannel, ReplaceForgetsChannel,
       ReplaceTestsConn, ReplaceClosesConn, ReplaceForgetsConn, ReplaceSignals
  <1>8. CASE Broker
    <2>1. UNCHANGED <<run, consumers, closing>> /\ channel = "nil"
      BY <1>8 DEF Broker, BrokerDropsConn, BrokerClosesChannel, BrokerCancelsConsumer,
         consumerVars
    <2> QED BY <2>1 DEF LatestInv
  <1> QED
    BY <1>1, <1>2, <1>3, <1>4, <1>5, <1>6, <1>7, <1>8 DEF Next

\* A sequence of consumers whose last one is cm.
EndsIn(s, cm) == s # << >> /\ s[Len(s)] = cm

LEMMA AppendedEnds ==
    ASSUME NEW S, NEW s \in Seq(S), NEW cm \in S
    PROVE  /\ EndsIn(Append(s, cm), cm) /\ EndsIn(<<cm>>, cm)
           /\ Append(s, cm) \o << >> = Append(s, cm) /\ << >> \o <<cm>> = <<cm>>
           /\ EndsIn(s \o <<cm>>, cm)
  <1>1. EndsIn(Append(s, cm), cm) /\ EndsIn(<<cm>>, cm)
    BY AppendProperties DEF EndsIn
  <1>2. Append(s, cm) = s \o <<cm>> /\ Append(s, cm) \in Seq(S) /\ <<cm>> \in Seq(S)
    BY AppendIsConcat, AppendProperties
  <1> QED BY <1>1, <1>2, ConcatEmptySeq

\* What is resumed still ends in the last consumer after ensureQueue resumed it.
LEMMA ResumedEnds ==
    ASSUME TypeOK, NEW pend \in Seq(Proxies), NEW refused \in BOOLEAN, NEW cm,
           EnsureQueue(pend, refused), EndsIn(pend, cm)
    PROVE  EndsIn(ToResume', cm)
  <1>1. pend[Len(pend)] = cm /\ cm \in Proxies
    BY LenProperties, EmptySeq, ElementOfSeq DEF EndsIn
  <1>2. pendingConsumers' = << >> /\ consumers' = <<cm>>
    BY <1>1 DEF EnsureQueue, EndsIn
  <1>3. ToResume' = <<cm>>
    BY <1>1, <1>2, EmptyQueues, AppendedEnds DEF ToResume
  <1> QED BY <1>1, <1>3, EmptyQueues, AppendedEnds

\* An instance that is not being replaced drops or forgets no consumer it was
\* handed: what it would resume still ends in the one registered last.
LEMMA NextLast ==
    ASSUME IInv, LatestInv, LatestConsumerKept, [Next]_vars, closing' = "no",
           registered' # << >>
    PROVE  EndsIn(ToResume', registered'[Len(registered')])
  <1>1. TypeOK /\ pendingConsumers \in Seq(Proxies) /\ consumers \in Seq(Proxies)
        /\ registered \in Seq(Proxies)
    BY DEF IInv, TypeOK
  <1> DEFINE Kept == UNCHANGED <<registered, closing>> /\ ToResume' = ToResume
  <1>2. CASE Kept
    BY <1>2 DEF LatestConsumerKept, EndsIn
  <1>3. CASE InitRabbitMQ \/ Reconnect
    <2>1. KeepPending /\ closing' = closing /\ registered' = registered
      BY <1>3 DEF InitRabbitMQ, Reconnect, Dial, InitConnDsnFails, KeepPending, clientVars
    <2>2. ToResume' = ToResume
      BY <1>1, <2>1, KeepPendingFacts
    <2> QED BY <1>2, <2>1, <2>2
  <1>4. CASE OpenChannel
    <2>1. closing' = closing /\ registered' = registered
      BY <1>4 DEF OpenChannel, InitConnOk, InitConnChannelFails, InitConnQueueFails, clientVars
    <2>2. CASE UNCHANGED <<consumers, pendingConsumers>>
      BY <1>2, <2>1, <2>2 DEF ToResume
    <2>3. ASSUME NEW refused \in BOOLEAN, EnsureQueue(pendingConsumers, refused)
          PROVE  EndsIn(ToResume', registered'[Len(registered')])
      <3>1. consumers = << >>
        BY <1>4 DEF OpenChannel, IInv, LoopInv
      <3>2. ToResume = pendingConsumers
        BY <1>1, <3>1, ConcatEmptySeq DEF ToResume
      <3>3. EndsIn(pendingConsumers, registered[Len(registered)])
        BY <2>1, <3>2 DEF LatestConsumerKept, EndsIn
      <3> QED BY <1>1, <2>1, <2>3, <3>3, ResumedEnds
    <2>4. UNCHANGED <<consumers, pendingConsumers>>
          \/ \E refused \in BOOLEAN : EnsureQueue(pendingConsumers, refused)
      BY <1>4 DEF OpenChannel, InitConnOk, InitConnChannelFails, InitConnQueueFails
    <2> QED BY <2>2, <2>3, <2>4
  <1>5. ASSUME NEW cm \in Proxies, RunConsume(cm)
        PROVE  EndsIn(ToResume', registered'[Len(registered')])
    <2>1. run = "select" /\ closing = "no"
      BY <1>5 DEF RunConsume
    <2>2. Takes(cm) \/ Declines(cm)
      BY <1>5 DEF RunConsume
    <2>3. Takes(cm) => registered'[Len(registered')] = cm
      BY <1>1, AppendedEnds DEF EndsIn, Takes
    <2>4. CASE /\ channel = "nil" /\ Takes(cm)
               /\ pendingConsumers' = Append(pendingConsumers, cm) /\ consumers' = consumers
      <3>1. consumers' = << >>
        BY <2>1, <2>4 DEF LatestInv
      <3>2. ToResume' = Append(pendingConsumers, cm)
        BY <1>1, <2>4, <3>1, AppendedEnds DEF ToResume
      <3> QED BY <1>1, <2>3, <2>4, <3>2, AppendedEnds
    <2>5. CASE Takes(cm) /\ StartConsumer(cm)
      <3>1. consumers' = <<cm>> /\ pendingConsumers' = pendingConsumers
        BY <2>5 DEF StartConsumer
      <3>2. ToResume' = pendingConsumers \o <<cm>>
        BY <3>1 DEF ToResume
      <3> QED BY <1>1, <2>3, <2>5, <3>2, AppendedEnds
    <2>6. CASE Takes(cm) /\ EnsureQueue(Append(pendingConsumers, cm), FALSE)
      <3>1. Append(pendingConsumers, cm) \in Seq(Proxies)
            /\ EndsIn(Append(pendingConsumers, cm), cm)
        BY <1>1, AppendedEnds, AppendFacts
      <3> QED BY <1>1, <2>3, <2>6, <3>1, ResumedEnds
    <2>7. CASE Declines(cm) /\ UNCHANGED <<consumers, pendingConsumers>>
      <3>1. closing' = closing
        BY <1>5 DEF RunConsume
      <3> QED BY <1>2, <2>7, <3>1 DEF ToResume, Declines
    <2> QED BY <1>5, <2>4, <2>5, <2>6, <2>7 DEF RunConsume, consumerVars
  <1>6. CASE PublishMQ \/ RunPublish \/ UNCHANGED vars
    BY <1>2, <1>6 DEF PublishMQ, RunPublish, ToResume, vars, consumerVars, clientVars
  <1>7. CASE RunDone \/ (\E e \in Events : RunEvent(e)) \/ RunClose \/ RunTick
    <2>1. UNCHANGED <<consumers, pendingConsumers, registered, closing>>
      BY <1>7 DEF RunDone, RunEvent, RunClose, RunTick, clientVars
    <2> QED BY <1>2, <2>1 DEF ToResume
  <1>8. CASE Broker \/ AdriftEnd
    <2>1. UNCHANGED <<consumers, pendingConsumers, registered, closing>>
      BY <1>8 DEF Broker, BrokerDropsConn, BrokerClosesChannel, BrokerCancelsConsumer, AdriftEnd,
         consumerVars, clientVars
    <2> QED BY <1>2, <2>1 DEF ToResume
  <1>9. CASE Replace
    BY <1>9 DEF Replace, ReplaceClears, ReplaceClosesChannel, ReplaceForgetsChannel,
       ReplaceTestsConn, ReplaceClosesConn, ReplaceForgetsConn, ReplaceSignals
  <1> QED
    BY <1>3, <1>4, <1>5, <1>6, <1>7, <1>8, <1>9 DEF Next

\* consume turns a consumer away only where the queue is not declared.
LEMMA NextDeclined ==
    ASSUME IInv, LatestConsumerKept, [Next]_vars, declined' # {}
    PROVE  (Broadcast \/ dsnFailed \/ abandoned)'
  <1>1. exchangeType' = exchangeType /\ (Loose => Loose') /\ (dsnFailed => dsnFailed')
    <2>1. dsnFailed => dsnFailed'
      <3>1. CASE InitRabbitMQ \/ Reconnect
        BY <3>1 DEF InitRabbitMQ, Reconnect, Dial, InitConnDsnFails
      <3>2. CASE PublishMQ \/ RunPublish \/ AdriftEnd \/ UNCHANGED vars
        BY <3>2 DEF PublishMQ, RunPublish, AdriftEnd, vars
      <3>3. CASE OpenChannel \/ Broker
        BY <3>3 DEF OpenChannel, InitConnOk, InitConnChannelFails, InitConnQueueFails, Fault,
           Broker, BrokerDropsConn, BrokerClosesChannel, BrokerCancelsConsumer
      <3>4. ASSUME NEW cm \in Proxies, RunConsume(cm) PROVE dsnFailed' = dsnFailed
        <4>1. UNCHANGED faultVars \/ Fault
          BY <3>4 DEF RunConsume, StartConsumer, IInv, TypeOK
        <4> QED BY <4>1 DEF Fault
      <3>5. CASE RunDone \/ (\E e \in Events : RunEvent(e)) \/ RunClose
        BY <3>5 DEF RunDone, RunEvent, RunClose
      <3>6. CASE RunTick
        BY <3>6 DEF RunTick, TickIdles, TickForgetsClosed, TickReconnects, Fault, IInv, TypeOK
      <3>7. CASE Replace
        BY <3>7, ReplaceFacts
      <3> QED BY <3>1, <3>2, <3>3, <3>4, <3>5, <3>6, <3>7 DEF Next
    <2> QED BY <2>1, LooseKept
  <1>2. CASE declined # {}
    BY <1>1, <1>2 DEF LatestConsumerKept, Loose
  <1>3. CASE declined = {}
    <2>1. PICK cm \in Proxies : RunConsume(cm) /\ Declines(cm)
      <3>1. declined' # declined
        BY <1>3
      <3>2. ~(PublishMQ \/ RunPublish \/ AdriftEnd \/ UNCHANGED vars)
        BY <3>1 DEF PublishMQ, RunPublish, AdriftEnd, vars, clientVars
      <3>3. ~(InitRabbitMQ \/ Reconnect \/ OpenChannel)
        BY <3>1 DEF InitRabbitMQ, Reconnect, Dial, InitConnDsnFails, KeepPending, OpenChannel,
           InitConnOk, InitConnChannelFails, InitConnQueueFails, clientVars
      <3>4. ~(RunDone \/ (\E e \in Events : RunEvent(e)) \/ RunClose \/ RunTick)
        BY <3>1 DEF RunDone, RunEvent, RunClose, RunTick, clientVars
      <3>5. ~Replace /\ ~Broker
        BY <3>1, ReplaceFacts DEF Broker, BrokerDropsConn, BrokerClosesChannel,
           BrokerCancelsConsumer, clientVars
      <3>6. \A cm \in Proxies : RunConsume(cm) => Takes(cm) \/ Declines(cm)
        BY DEF RunConsume
      <3> QED BY <3>1, <3>2, <3>3, <3>4, <3>5, <3>6 DEF Next, Takes
    <2>2. run = "select" /\ channel # "nil" /\ ~named
      <3>1. ~Takes(cm)
        BY <2>1, <1>3 DEF Takes, Declines
      <3> QED BY <2>1, <3>1 DEF RunConsume
    <2>3. Broadcast \/ dsnFailed \/ abandoned
      BY <2>2 DEF IInv, LoopInv
    <2> QED BY <1>1, <2>3 DEF Loose
  <1> QED BY <1>2, <1>3

LEMMA NextLatest ==
    IInv /\ LatestInv /\ LatestConsumerKept /\ [Next]_vars => LatestConsumerKept'
  BY NextLast, NextDeclined DEF LatestConsumerKept, EndsIn

-----------------------------------------------------------------------------
(* A stopped instance *)

\* What StoppedIsClosed needs to be inductive: the replacement sets r.Conn to
\* nil while the connection is open, and can still do so after its test, only
\* when Run dialled in between; and Run stops only after the signal, the last
\* step of the replacement.
StoppedInv ==
    /\ abandoned => dialedLate
    /\ closing = "forgetConn" /\ conn = "open" => dialedLate
    /\ run = "stopped" => closing = "signalled"

LEMMA NextStoppedInv == IInv /\ StoppedInv /\ [Next]_vars => StoppedInv'
  <1> SUFFICES ASSUME IInv, StoppedInv, [Next]_vars PROVE StoppedInv'
    OBVIOUS
  <1>1. CASE InitRabbitMQ \/ Reconnect
    <2>1. CASE Dial /\ run' \in {"initDialed", "dialed"}
      <3>1. UNCHANGED <<closing, abandoned>> /\ dialedLate' = (dialedLate \/ closing = "forgetConn")
        BY <2>1 DEF Dial
      <3>2. /\ dialedLate => dialedLate'
            /\ closing = "forgetConn" => dialedLate'
        BY <3>1
      <3> QED BY <2>1, <3>1, <3>2 DEF StoppedInv
    <2>2. CASE InitConnDsnFails /\ run' \in {"dead", "select"}
      BY <2>2 DEF InitConnDsnFails, StoppedInv
    <2> QED BY <1>1, <2>1, <2>2 DEF InitRabbitMQ, Reconnect
  <1>2. CASE OpenChannel
    BY <1>2 DEF OpenChannel, InitConnOk, InitConnChannelFails, InitConnQueueFails, LoopAgain,
       StoppedInv
  <1>3. CASE PublishMQ \/ RunPublish \/ AdriftEnd \/ UNCHANGED vars
    BY <1>3 DEF PublishMQ, RunPublish, AdriftEnd, vars, LoopAgain, StoppedInv
  <1>4. ASSUME NEW cm \in Proxies, RunConsume(cm) PROVE StoppedInv'
    <2>1. UNCHANGED replaceVars /\ conn' \in {conn, "nil"} /\ run' \in {"top", "select"}
      BY <1>4 DEF RunConsume, StartConsumer, Close, LoopAgain
    <2> QED BY <2>1 DEF StoppedInv
  <1>5. CASE RunDone \/ (\E e \in Events : RunEvent(e)) \/ RunClose
    BY <1>5 DEF RunDone, RunEvent, RunClose, Close, LoopAgain, StoppedInv
  <1>6. CASE RunTick
    <2>1. UNCHANGED replaceVars /\ conn' \in {conn, "nil"} /\ run' \in {"top", "select"}
      BY <1>6 DEF RunTick, TickIdles, TickForgetsClosed, TickReconnects, Close, LoopAgain
    <2> QED BY <2>1 DEF StoppedInv
  <1>7. CASE Replace
    BY <1>7 DEF Replace, ReplaceClears, ReplaceClosesChannel, ReplaceForgetsChannel,
       ReplaceTestsConn, ReplaceClosesConn, ReplaceForgetsConn, ReplaceSignals, MayPanic,
       StoppedInv, IInv, TypeOK
  <1>8. CASE Broker
    BY <1>8 DEF Broker, BrokerDropsConn, BrokerClosesChannel, BrokerCancelsConsumer, StoppedInv
  <1> QED BY <1>1, <1>2, <1>3, <1>4, <1>5, <1>6, <1>7, <1>8 DEF Next

LEMMA NextStopped ==
    IInv /\ StoppedInv /\ StoppedIsClosed /\ [Next]_vars => StoppedIsClosed'
  <1> SUFFICES ASSUME IInv, StoppedInv, StoppedIsClosed, StoppedInv', [Next]_vars,
                      run' = "stopped"
               PROVE  conn' = "nil" /\ channel' = "nil"
    BY NextStoppedInv DEF StoppedIsClosed, StoppedInv
  <1>1. CASE InitRabbitMQ \/ Reconnect \/ OpenChannel
    BY <1>1 DEF InitRabbitMQ, Reconnect, OpenChannel, LoopAgain
  <1>2. CASE RunPublish \/ (\E cm \in Proxies : RunConsume(cm)) \/ RunDone
             \/ (\E e \in Events : RunEvent(e)) \/ RunTick
    BY <1>2 DEF RunPublish, RunConsume, RunDone, RunEvent, RunTick, LoopAgain
  <1>3. CASE RunClose
    BY <1>3 DEF RunClose, Close
  <1>4. CASE Broker
    BY <1>4 DEF Broker, BrokerDropsConn, BrokerClosesChannel, BrokerCancelsConsumer,
       StoppedIsClosed
  <1>5. CASE Replace
    BY <1>5 DEF Replace, ReplaceClears, ReplaceClosesChannel, ReplaceForgetsChannel,
       ReplaceTestsConn, ReplaceClosesConn, ReplaceForgetsConn, ReplaceSignals, MayPanic,
       StoppedInv, StoppedIsClosed
  <1>6. CASE PublishMQ \/ AdriftEnd \/ UNCHANGED vars
    BY <1>6 DEF PublishMQ, AdriftEnd, vars, StoppedIsClosed
  <1> QED
    BY <1>1, <1>2, <1>3, <1>4, <1>5, <1>6 DEF Next

-----------------------------------------------------------------------------
(* The theorems *)

\* The inductive invariant holds in every reachable state.
THEOREM Invariance == Spec => []IInv
  BY InitIInv, NextIInv, PTL DEF Spec

\* Every variable of the Run loop keeps its type.
THEOREM TypeCorrect == Spec => []TypeOK
  <1>1. IInv => TypeOK
    BY DEF IInv
  <1> QED BY <1>1, Invariance, PTL

\* Consumers only ever run on an open channel, which belongs to the connection
\* of the instance or to one the replacement abandoned, and Run redials only
\* without a connection.
THEOREM HandlersCorrect == Spec => []HandlersOnOpenChannel
  <1>1. IInv => HandlersOnOpenChannel
    BY DEF IInv
  <1> QED BY <1>1, Invariance, PTL

\* Whatever fails and in whichever order, nothing is left pending while Run
\* waits with a usable channel and a queue, which it always has without a fanout
\* exchange; there publish drops nothing unless a DSN could not be formatted or
\* a connection was abandoned.
THEOREM NeverStranded == Spec => []NothingStranded
  <1>1. IInv => NothingStranded
    BY DEF IInv
  <1> QED BY <1>1, Invariance, PTL

\* Messages leave in the order clients published them and none leaves twice,
\* across every reconnection, channel failure and flush of the pending ones.
\* With a fanout exchange, or once the replacement has abandoned a connection,
\* one that did not have to wait may overtake ones that had to, and nothing else.
THEOREM OrderKept == Spec => []InOrder
  <1>1. IInv /\ OrderInv => InOrder
    <2> SUFFICES ASSUME IInv, OrderInv PROVE InOrder
      OBVIOUS
    <2> DEFINE Rel == Order(waited, Loose)
               all == sent \o pendingPublishes \o publishCh
    <2>1. InLine(sent, pendingPublishes, publishCh, published, waited, Loose)
      BY DEF OrderInv
    <2>2. /\ sent \in Seq(Int) /\ pendingPublishes \in Seq(Int) /\ publishCh \in Seq(Int)
          /\ sent \o pendingPublishes \in Seq(Int)
      BY QueuesOfNumbers, ConcatPieces DEF IInv
    <2>3. /\ InRel(pendingPublishes, Rel) /\ InRel(publishCh, Rel)
          /\ Precedes(sent, publishCh, Rel) /\ Precedes(pendingPublishes, publishCh, Rel)
      BY <2>1, <2>2, OrderFacts, RelMonotone DEF InLine
    <2>4. InRel(sent \o pendingPublishes, Rel) /\ Precedes(sent \o pendingPublishes, publishCh, Rel)
      BY <2>1, <2>2, <2>3, ConcatInRel, ConcatPrecedes DEF InLine
    <2>5. InRel(all, Rel)
      BY <2>2, <2>3, <2>4, ConcatInRel
    <2> HIDE DEF all
    <2>6. \A i, j \in 1 .. Len(all) :
              i < j => \/ all[i] < all[j]
                       \/ Loose /\ all[i] \notin waited /\ all[j] \in waited
      BY <2>5 DEF InRel, Order
    <2> QED BY <2>6 DEF InOrder, Loose, all
  <1> QED
    BY <1>1, InitIInv, NextIInv, InitOrderInv, NextOrderInv, PTL DEF Spec

\* The consumer that consume took last survives every reconnection of an
\* instance that is not being replaced, with any exchange; and consume turns one
\* away only for a fanout exchange, after a DSN could not be formatted, or when
\* the replacement has abandoned a connection.
THEOREM LatestKept == Spec => []LatestConsumerKept
  <1>1. Init => LatestInv /\ LatestConsumerKept
    BY DEF Init, LatestInv, LatestConsumerKept
  <1> QED
    BY <1>1, InitIInv, NextIInv, NextLatestInv, NextLatest, PTL DEF Spec

\* However close() of the replacing goroutine interleaves with Run, the signal
\* ends Run with the channel and every connection given back, and nothing brings
\* them back: a connection is left open only when Run dialled it after close()
\* had looked at r.Conn and before close() set r.Conn to nil.
THEOREM StoppedClosed == Spec => []StoppedIsClosed
  <1>1. Init => StoppedInv /\ StoppedIsClosed
    BY DEF Init, StoppedInv, StoppedIsClosed
  <1> QED
    BY <1>1, InitIInv, NextIInv, NextStoppedInv, NextStopped, PTL DEF Spec

=============================================================================
