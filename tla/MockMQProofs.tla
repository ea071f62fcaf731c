---------------------------- MODULE MockMQProofs ----------------------------
(***************************************************************************)
(* Proofs about MockMQ, for every set of queries, every choice of          *)
(* correlation ids and every number of subscribers: the driver implements  *)
(* QueryRPC's safety part and leaves no goroutine blocked behind a query.  *)
(***************************************************************************)
EXTENDS MockMQ, TLAPS

\* What the proofs need of the constants.
Constants == NoAnswer \notin Queries /\ Corr \in [Queries -> Ids]

LEMMA TailType ==
    ASSUME NEW S, NEW s \in Seq(S), s # << >>
    PROVE  Tail(s) \in Seq(S) /\ Len(s) \in Nat /\ (Len(s) > 1 => Tail(s) # << >>)
OBVIOUS

-----------------------------------------------------------------------------
(* Type correctness *)

\* A query in the loop over subscribers has one to call, and one that is about to
\* delete an entry has found one.
LoopInv ==
    \A q \in Queries :
        /\ client[q] \in {"deliver", "lookup", "delete"} => todo[q] # << >>
        /\ client[q] = "delete" => found[q] \in Queries

ShapeInv == TypeOK /\ LoopInv

LEMMA InitShape == ASSUME Constants, Init PROVE ShapeInv
<1>1. todo \in [Queries -> Seq(Instances)] /\ subscribes \in Seq(Instances)
  BY DEF Init
<1>2. senders \in [Queries -> [Queries -> Nat]]
  BY DEF Init
<1>3. LoopInv
  BY DEF Init, LoopInv
<1> QED
  BY <1>1, <1>2, <1>3 DEF Init, ShapeInv, TypeOK, Places

\* Goto keeps the places in their set and moves only its query.
LEMMA GotoMoves ==
    ASSUME TypeOK, NEW q \in Queries, NEW a, NEW b \in Places, Goto(q, a, b)
    PROVE  /\ client' \in [Queries -> Places] /\ client[q] = a
           /\ \A p \in Queries : client'[p] = IF p = q THEN b ELSE client[p]
BY DEF TypeOK, Goto

\* Going on after a callback.
LEMMA ContinueMoves ==
    ASSUME ShapeInv, NEW q \in Queries, NEW a \in {"deliver", "lookup", "delete"}, Continue(q, a)
    PROVE  /\ client' \in [Queries -> Places] /\ client[q] = a
           /\ todo' \in [Queries -> Seq(Instances)]
           /\ client'[q] \in {"deliver", "waiting"}
           /\ client'[q] = "deliver" => todo'[q] # << >>
           /\ \A p \in Queries \ {q} : client'[p] = client[p] /\ todo'[p] = todo[p]
<1>1. TypeOK /\ todo \in [Queries -> Seq(Instances)] /\ todo[q] \in Seq(Instances)
  BY DEF ShapeInv, TypeOK
<1>2. client[q] = a
  BY DEF Continue, Goto
<1>3. todo[q] # << >>
  BY <1>2 DEF ShapeInv, LoopInv
<1>4. Tail(todo[q]) \in Seq(Instances) /\ (Len(todo[q]) > 1 => Tail(todo[q]) # << >>)
  BY <1>1, <1>3, TailType
<1>5. todo' = [todo EXCEPT ![q] = Tail(todo[q])]
  BY DEF Continue
<1>6. PICK b \in {"deliver", "waiting"} : Goto(q, a, b) /\ (b = "deliver" => Len(todo[q]) > 1)
  BY DEF Continue
<1>7. /\ client' \in [Queries -> Places]
      /\ \A p \in Queries : client'[p] = IF p = q THEN b ELSE client[p]
  BY <1>1, <1>6, GotoMoves DEF Places
<1> QED
  BY <1>1, <1>2, <1>4, <1>5, <1>6, <1>7

\* A step that moves q to b and touches nothing else that LoopInv speaks of.
LEMMA PlainStep ==
    ASSUME ShapeInv, NEW q \in Queries, NEW a, NEW b \in Places \ {"deliver", "lookup", "delete"},
           Goto(q, a, b), UNCHANGED <<todo, found>>
    PROVE  /\ client' \in [Queries -> Places] /\ LoopInv'
BY GotoMoves DEF ShapeInv, LoopInv

LEMMA SendShape ==
    ASSUME Constants, ShapeInv, NEW q \in Queries,
           Prepare(q) \/ Publish(q) \/ Retain(q) \/ TimeOut(q)
    PROVE  ShapeInv'
<1> USE DEF rpcVars, queueVars
<1>1. /\ \E a \in Places, b \in Places \ {"deliver", "lookup", "delete"} : Goto(q, a, b)
      /\ UNCHANGED <<todo, found, answer, senders, subscriber, created, subscribes>>
      /\ waiters' = waiters \/ waiters' = [waiters EXCEPT ![Corr[q]] = q]
      /\ messages' = messages \/ messages' = messages \cup {q}
  BY DEF Prepare, Publish, Retain, TimeOut, Places
<1>2. client' \in [Queries -> Places] /\ LoopInv'
  BY <1>1, PlainStep
<1>3. waiters' \in [Ids -> Queries \cup {NoAnswer}]
  <2>1. waiters \in [Ids -> Queries \cup {NoAnswer}] /\ Corr[q] \in Ids
    BY DEF ShapeInv, TypeOK, Constants
  <2> QED
    BY <1>1, <2>1
<1>4. messages' \subseteq Queries
  BY <1>1 DEF ShapeInv, TypeOK
<1> QED
  BY <1>1, <1>2, <1>3, <1>4 DEF ShapeInv, TypeOK

LEMMA TestShape ==
    ASSUME Constants, ShapeInv, NEW q \in Queries, TestSubscribers(q)
    PROVE  ShapeInv'
<1> USE DEF rpcVars, queueVars
<1>1. PICK b \in {"retain", "deliver"} : Goto(q, "test", b) /\ (b = "deliver" => subscribes # << >>)
  BY DEF TestSubscribers
<1>2. /\ client' \in [Queries -> Places]
      /\ \A p \in Queries : client'[p] = IF p = q THEN b ELSE client[p]
  BY <1>1, GotoMoves DEF ShapeInv, Places
<1>3. /\ todo' \in [Queries -> Seq(Instances)] /\ todo'[q] = subscribes
      /\ \A p \in Queries \ {q} : todo'[p] = todo[p]
  BY DEF TestSubscribers, ShapeInv, TypeOK
<1>4. found' = found
  BY DEF TestSubscribers
<1>5. LoopInv'
  BY <1>1, <1>2, <1>3, <1>4 DEF ShapeInv, LoopInv
<1> QED
  BY <1>2, <1>3, <1>5 DEF TestSubscribers, ShapeInv, TypeOK

\* What DeleteWaiter and its like need: counting one goroutine up or down.
LEMMA SendersType ==
    ASSUME NEW s \in [Queries -> [Queries -> Nat]], NEW p \in Queries, NEW q \in Queries, NEW n \in Nat
    PROVE  [s EXCEPT ![p][q] = n] \in [Queries -> [Queries -> Nat]]
OBVIOUS

LEMMA LoopShape ==
    ASSUME Constants, ShapeInv, NEW q \in Queries,
           Callback(q) \/ LookupWaiter(q) \/ (client[q] = "delete" /\ DeleteWaiter(q))
    PROVE  ShapeInv'
<1> USE DEF rpcVars, queueVars
<1>0. TypeOK /\ Corr[q] \in Ids /\ waiters[Corr[q]] \in Queries \cup {NoAnswer}
  BY DEF ShapeInv, TypeOK, Constants
<1>1. CASE Callback(q)
  <2>1. CASE Goto(q, "deliver", "lookup") /\ UNCHANGED todo
    <3>1. /\ client' \in [Queries -> Places] /\ client[q] = "deliver"
          /\ \A p \in Queries : client'[p] = IF p = q THEN "lookup" ELSE client[p]
      BY <1>0, <2>1, GotoMoves DEF Places
    <3>2. LoopInv'
      BY <1>1, <2>1, <3>1 DEF Callback, ShapeInv, LoopInv
    <3> QED
      BY <1>1, <2>1, <3>1, <3>2 DEF Callback, ShapeInv, TypeOK
  <2>2. CASE Continue(q, "deliver")
    <3>1. /\ client' \in [Queries -> Places] /\ todo' \in [Queries -> Seq(Instances)]
          /\ client'[q] \in {"deliver", "waiting"}
          /\ client'[q] = "deliver" => todo'[q] # << >>
          /\ \A p \in Queries \ {q} : client'[p] = client[p] /\ todo'[p] = todo[p]
      BY <2>2, ContinueMoves
    <3>2. LoopInv'
      BY <1>1, <3>1 DEF Callback, ShapeInv, LoopInv
    <3> QED
      BY <1>1, <3>1, <3>2 DEF Callback, ShapeInv, TypeOK
  <2> QED
    BY <1>1, <2>1, <2>2 DEF Callback
<1>2. CASE LookupWaiter(q)
  <2>1. CASE waiters[Corr[q]] = NoAnswer
    <3>1. /\ client' \in [Queries -> Places] /\ todo' \in [Queries -> Seq(Instances)]
          /\ client'[q] \in {"deliver", "waiting"}
          /\ client'[q] = "deliver" => todo'[q] # << >>
          /\ \A p \in Queries \ {q} : client'[p] = client[p] /\ todo'[p] = todo[p]
      BY <1>2, <2>1, ContinueMoves DEF LookupWaiter
    <3>2. LoopInv'
      BY <1>2, <2>1, <3>1 DEF LookupWaiter, ShapeInv, LoopInv
    <3> QED
      BY <1>2, <2>1, <3>1, <3>2 DEF LookupWaiter, ShapeInv, TypeOK
  <2>2. CASE waiters[Corr[q]] # NoAnswer
    <3>1. /\ Goto(q, "lookup", "delete") /\ UNCHANGED todo
          /\ found' = [found EXCEPT ![q] = waiters[Corr[q]]]
      BY <1>2, <2>2 DEF LookupWaiter
    <3>2. /\ client' \in [Queries -> Places] /\ client[q] = "lookup"
          /\ \A p \in Queries : client'[p] = IF p = q THEN "delete" ELSE client[p]
      BY <1>0, <3>1, GotoMoves DEF Places
    <3>3. /\ found' \in [Queries -> Queries \cup {NoAnswer}] /\ found'[q] \in Queries
          /\ \A p \in Queries \ {q} : found'[p] = found[p]
      BY <1>0, <2>2, <3>1 DEF TypeOK
    <3>4. LoopInv'
      BY <3>1, <3>2, <3>3 DEF ShapeInv, LoopInv
    <3> QED
      BY <1>2, <3>1, <3>2, <3>3, <3>4 DEF LookupWaiter, ShapeInv, TypeOK
  <2> QED
    BY <2>1, <2>2
<1>3. CASE client[q] = "delete" /\ DeleteWaiter(q)
  <2>1. /\ client' \in [Queries -> Places] /\ todo' \in [Queries -> Seq(Instances)]
        /\ client'[q] \in {"deliver", "waiting"}
        /\ client'[q] = "deliver" => todo'[q] # << >>
        /\ \A p \in Queries \ {q} : client'[p] = client[p] /\ todo'[p] = todo[p]
    BY <1>3, ContinueMoves DEF DeleteWaiter
  <2>2. /\ found' \in [Queries -> Queries \cup {NoAnswer}]
        /\ \A p \in Queries \ {q} : found'[p] = found[p]
    BY <1>0, <1>3 DEF DeleteWaiter, TypeOK
  <2>3. LoopInv'
    BY <2>1, <2>2 DEF ShapeInv, LoopInv
  <2>4. senders' \in [Queries -> [Queries -> Nat]]
    <3>1. found[q] \in Queries /\ senders \in [Queries -> [Queries -> Nat]]
      BY <1>0, <1>3 DEF ShapeInv, LoopInv, TypeOK
    <3>2. senders[found[q]][q] + 1 \in Nat
      BY <3>1
    <3>3. senders' = [senders EXCEPT ![found[q]][q] = senders[found[q]][q] + 1]
      BY <1>3 DEF DeleteWaiter
    <3> QED
      BY <3>1, <3>2, <3>3, SendersType
  <2>5. waiters' \in [Ids -> Queries \cup {NoAnswer}]
    BY <1>0, <1>3 DEF DeleteWaiter, TypeOK
  <2> QED
    BY <1>3, <2>1, <2>2, <2>3, <2>4, <2>5 DEF DeleteWaiter, ShapeInv, TypeOK
<1> QED
  BY <1>1, <1>2, <1>3

LEMMA ReceiveShape ==
    ASSUME ShapeInv, NEW p \in Queries, NEW q \in Queries, Receive(p, q)
    PROVE  ShapeInv'
<1> USE DEF queueVars
<1>1. client' \in [Queries -> Places] /\ LoopInv'
  BY PlainStep DEF Receive, Places
<1>2. senders' \in [Queries -> [Queries -> Nat]]
  <2>1. senders \in [Queries -> [Queries -> Nat]] /\ senders[p][q] > 0
    BY DEF ShapeInv, TypeOK, Receive
  <2>2. senders[p][q] - 1 \in Nat
    BY <2>1
  <2>3. senders' = [senders EXCEPT ![p][q] = senders[p][q] - 1]
    BY DEF Receive
  <2> QED
    BY <2>1, <2>2, <2>3, SendersType
<1>3. answer' \in [Queries -> Queries \cup {NoAnswer}]
  BY DEF ShapeInv, TypeOK, Receive
<1> QED
  BY <1>1, <1>2, <1>3 DEF Receive, ShapeInv, TypeOK

LEMMA SubscribeShape ==
    ASSUME ShapeInv, NEW s \in Instances, BeginSubscribe(s) \/ Subscribing(s)
    PROVE  ShapeInv'
<1> USE DEF clientVars, rpcVars, queueVars
<1>1. UNCHANGED <<client, todo, found, answer, waiters, senders, messages>>
  BY DEF BeginSubscribe, Subscribing, TestDuplicate, AppendSubscriber, Replay, Register
<1>2. subscriber' \in [Instances -> {"idle", "test", "append", "replay", "register", "done", "stuck"}]
  BY DEF ShapeInv, TypeOK, BeginSubscribe, Subscribing, TestDuplicate, AppendSubscriber,
         Replay, Register, Step
<1>3. created' \in BOOLEAN
  BY DEF ShapeInv, TypeOK, BeginSubscribe, Subscribing, TestDuplicate, AppendSubscriber,
         Replay, Register
<1>4. subscribes' \in Seq(Instances)
  <2>1. subscribes' = subscribes \/ subscribes' = Append(subscribes, s)
    BY DEF BeginSubscribe, Subscribing, TestDuplicate, AppendSubscriber, Replay, Register
  <2>2. subscribes \in Seq(Instances) /\ Append(subscribes, s) \in Seq(Instances)
    BY DEF ShapeInv, TypeOK
  <2> QED
    BY <2>1, <2>2
<1>5. LoopInv'
  BY <1>1 DEF ShapeInv, LoopInv
<1> QED
  BY <1>1, <1>2, <1>3, <1>4, <1>5 DEF ShapeInv, TypeOK

LEMMA StepShape == ASSUME Constants, ShapeInv, [Next]_vars PROVE ShapeInv'
<1>1. CASE UNCHANGED vars
  BY <1>1 DEF vars, clientVars, rpcVars, queueVars, ShapeInv, TypeOK, LoopInv
<1> QED
  BY <1>1, SendShape, TestShape, LoopShape, ReceiveShape, SubscribeShape DEF Next, Sending

\* The state keeps its shape; in particular publish never takes a subscriber from an
\* empty list.
THEOREM TypeCorrect == ASSUME Constants PROVE Spec => []TypeOK
<1>1. Init => ShapeInv
  BY InitShape
<1>2. ShapeInv /\ [Next]_vars => ShapeInv'
  BY StepShape
<1>3. ShapeInv => TypeOK
  BY DEF ShapeInv
<1> QED
  BY <1>1, <1>2, <1>3, PTL DEF Spec

-----------------------------------------------------------------------------
(* The driver implements QueryRPC *)

\* Entries sit under the id of their query, whoever found an entry has that id,
\* and so has the response a goroutine sends on a query's channel.
IdInv ==
    /\ \A i \in Ids : waiters[i] # NoAnswer => Corr[waiters[i]] = i
    /\ \A q \in Queries : found[q] # NoAnswer => Corr[found[q]] = Corr[q]
    /\ \A p, q \in Queries : senders[p][q] > 0 => Corr[p] = Corr[q]

LEMMA StepIds == ASSUME Constants, ShapeInv, IdInv, [Next]_vars PROVE IdInv'
<1> USE DEF clientVars, rpcVars, queueVars
<1>0. /\ \A q \in Queries : Corr[q] \in Ids /\ q # NoAnswer
      /\ waiters \in [Ids -> Queries \cup {NoAnswer}]
      /\ found \in [Queries -> Queries \cup {NoAnswer}]
      /\ senders \in [Queries -> [Queries -> Nat]]
  BY DEF ShapeInv, TypeOK, Constants
<1>1. ASSUME UNCHANGED <<waiters, found, senders>> PROVE IdInv'
  BY <1>1 DEF IdInv
<1>2. ASSUME NEW q \in Queries, Prepare(q) PROVE IdInv'
  <2>1. \A i \in Ids : waiters'[i] = IF i = Corr[q] THEN q ELSE waiters[i]
    BY <1>0, <1>2 DEF Prepare
  <2> QED
    BY <1>2, <2>1 DEF Prepare, IdInv
<1>3. ASSUME NEW q \in Queries, LookupWaiter(q) PROVE IdInv'
  <2>1. CASE UNCHANGED found
    BY <1>1, <1>3, <2>1 DEF LookupWaiter
  <2>2. CASE found' = [found EXCEPT ![q] = waiters[Corr[q]]] /\ waiters[Corr[q]] # NoAnswer
    <3>1. Corr[waiters[Corr[q]]] = Corr[q]
      BY <1>0, <1>3, <2>2 DEF IdInv
    <3>2. \A p \in Queries : found'[p] = IF p = q THEN waiters[Corr[q]] ELSE found[p]
      BY <1>0, <2>2
    <3> QED
      BY <1>3, <3>1, <3>2 DEF LookupWaiter, IdInv
  <2> QED
    BY <1>3, <2>1, <2>2 DEF LookupWaiter
<1>4. ASSUME NEW q \in Queries, client[q] = "delete", DeleteWaiter(q) PROVE IdInv'
  <2>1. found[q] \in Queries /\ Corr[found[q]] = Corr[q]
    BY <1>0, <1>4 DEF ShapeInv, LoopInv, IdInv
  <2>2. \A i \in Ids : waiters'[i] # NoAnswer => waiters'[i] = waiters[i]
    BY <1>0, <1>4 DEF DeleteWaiter
  <2>3. \A p \in Queries : found'[p] # NoAnswer => found'[p] = found[p]
    BY <1>0, <1>4 DEF DeleteWaiter
  <2>4. \A p, r \in Queries : (p # found[q] \/ r # q) => senders'[p][r] = senders[p][r]
    BY <1>0, <1>4, <2>1 DEF DeleteWaiter
  <2>5. \A p, r \in Queries : senders'[p][r] > 0 => Corr[p] = Corr[r]
    BY <2>1, <2>4 DEF IdInv
  <2>6. \A i \in Ids : waiters'[i] # NoAnswer => Corr[waiters'[i]] = i
    BY <2>2 DEF IdInv
  <2>7. \A p \in Queries : found'[p] # NoAnswer => Corr[found'[p]] = Corr[p]
    BY <2>3 DEF IdInv
  <2> QED
    BY <2>5, <2>6, <2>7 DEF IdInv
<1>5. ASSUME NEW p \in Queries, NEW q \in Queries, Receive(p, q) PROVE IdInv'
  <2>1. \A a, b \in Queries : senders'[a][b] > 0 => senders[a][b] > 0
    BY <1>0, <1>5 DEF Receive
  <2> QED
    BY <1>5, <2>1 DEF Receive, IdInv
<1>6. ASSUME NEW q \in Queries,
             Publish(q) \/ TestSubscribers(q) \/ Retain(q) \/ Callback(q) \/ TimeOut(q)
      PROVE  IdInv'
  BY <1>1, <1>6 DEF Publish, TestSubscribers, Retain, Callback, TimeOut
<1>7. ASSUME NEW s \in Instances, BeginSubscribe(s) \/ Subscribing(s) PROVE IdInv'
  BY <1>1, <1>7 DEF BeginSubscribe, Subscribing, TestDuplicate, AppendSubscriber, Replay, Register
<1>8. CASE UNCHANGED vars
  BY <1>1, <1>8 DEF vars
<1> QED
  BY <1>2, <1>3, <1>4, <1>5, <1>6, <1>7, <1>8 DEF Next, Sending

\* Where the caller of QueryMQ takes the query to be.
Outcome == [q \in Queries |-> IF client[q] \in {"idle", "answered", "timeout"}
                              THEN client[q] ELSE "waiting"]

\* A step of a query that stays asked and unanswered.
LEMMA OutcomeStays ==
    ASSUME NEW q \in Queries, client[q] \notin {"idle", "answered", "timeout"},
           client'[q] \notin {"idle", "answered", "timeout"},
           \A p \in Queries \ {q} : client'[p] = client[p]
    PROVE  Outcome' = Outcome
BY DEF Outcome

LEMMA StepPromise ==
    ASSUME Constants, ShapeInv, IdInv, [Next]_vars
    PROVE  [Promise!Next]_(Promise!vars)
<1> USE DEF clientVars, rpcVars, queueVars
<1>0. TypeOK
  BY DEF ShapeInv
<1>1. ASSUME Outcome' = Outcome, UNCHANGED answer PROVE UNCHANGED Promise!vars
  BY <1>1 DEF Promise!vars, Outcome
<1>2. ASSUME NEW q \in Queries, Prepare(q) PROVE Promise!Next
  <2>1. /\ client[q] = "idle"
        /\ \A p \in Queries : client'[p] = IF p = q THEN "publish" ELSE client[p]
    BY <1>0, <1>2, GotoMoves DEF Prepare, Places
  <2>2. Outcome[q] = "idle" /\ Outcome' = [Outcome EXCEPT ![q] = "waiting"]
    BY <2>1 DEF Outcome
  <2>3. Promise!Ask(q)
    BY <1>2, <2>2 DEF Prepare, Promise!Ask, Outcome
  <2> QED
    BY <2>3 DEF Promise!Next
<1>3. ASSUME NEW q \in Queries, TimeOut(q) PROVE Promise!Next
  <2>1. /\ client[q] = "waiting"
        /\ \A p \in Queries : client'[p] = IF p = q THEN "timeout" ELSE client[p]
    BY <1>0, <1>3, GotoMoves DEF TimeOut, Places
  <2>2. Outcome[q] = "waiting" /\ Outcome' = [Outcome EXCEPT ![q] = "timeout"]
    BY <2>1 DEF Outcome
  <2>3. Promise!TimeOut(q)
    BY <1>3, <2>2 DEF TimeOut, Promise!TimeOut, Outcome
  <2> QED
    BY <2>3 DEF Promise!Next
<1>4. ASSUME NEW p \in Queries, NEW q \in Queries, Receive(p, q) PROVE Promise!Next
  <2>1. /\ client[p] = "waiting"
        /\ \A r \in Queries : client'[r] = IF r = p THEN "answered" ELSE client[r]
    BY <1>0, <1>4, GotoMoves DEF Receive, Places
  <2>2. Outcome[p] = "waiting" /\ Outcome' = [Outcome EXCEPT ![p] = "answered"]
    BY <2>1 DEF Outcome
  <2>3. Corr[q] = Corr[p] /\ answer' = [answer EXCEPT ![p] = q]
    BY <1>4 DEF Receive, IdInv
  <2>4. Promise!Answer(p)
    BY <2>2, <2>3 DEF Promise!Answer, Outcome
  <2> QED
    BY <2>4 DEF Promise!Next
<1>5. ASSUME NEW q \in Queries, Publish(q) \/ TestSubscribers(q) \/ Retain(q)
      PROVE  UNCHANGED Promise!vars
  <2>1. PICK a \in {"publish", "test", "retain"}, b \in {"test", "waiting", "retain", "deliver"} :
            Goto(q, a, b)
    BY <1>5 DEF Publish, TestSubscribers, Retain
  <2>2. /\ client[q] = a /\ client'[q] = b
        /\ \A p \in Queries \ {q} : client'[p] = client[p]
    BY <1>0, <2>1, GotoMoves DEF Places
  <2>3. UNCHANGED answer
    BY <1>5 DEF Publish, TestSubscribers, Retain
  <2> QED
    BY <1>1, <2>2, <2>3, OutcomeStays
<1>6. ASSUME NEW q \in Queries,
             Callback(q) \/ LookupWaiter(q) \/ (client[q] = "delete" /\ DeleteWaiter(q))
      PROVE  UNCHANGED Promise!vars
  <2>1. UNCHANGED answer
    BY <1>6 DEF Callback, LookupWaiter, DeleteWaiter
  <2>2. \/ \E a \in {"deliver", "lookup"}, b \in {"lookup", "delete"} : Goto(q, a, b)
        \/ \E a \in {"deliver", "lookup", "delete"} : Continue(q, a)
    BY <1>6 DEF Callback, LookupWaiter, DeleteWaiter
  <2>3. CASE \E a \in {"deliver", "lookup"}, b \in {"lookup", "delete"} : Goto(q, a, b)
    <3>1. PICK a \in {"deliver", "lookup"}, b \in {"lookup", "delete"} : Goto(q, a, b)
      BY <2>3
    <3>2. /\ client[q] = a /\ client'[q] = b
          /\ \A p \in Queries \ {q} : client'[p] = client[p]
      BY <1>0, <3>1, GotoMoves DEF Places
    <3> QED
      BY <1>1, <2>1, <3>2, OutcomeStays
  <2>4. CASE \E a \in {"deliver", "lookup", "delete"} : Continue(q, a)
    <3>1. PICK a \in {"deliver", "lookup", "delete"} : Continue(q, a)
      BY <2>4
    <3>2. /\ client[q] = a /\ client'[q] \in {"deliver", "waiting"}
          /\ \A p \in Queries \ {q} : client'[p] = client[p]
      BY <3>1, ContinueMoves
    <3> QED
      BY <1>1, <2>1, <3>2, OutcomeStays
  <2> QED
    BY <2>2, <2>3, <2>4
<1>7. ASSUME NEW s \in Instances, BeginSubscribe(s) \/ Subscribing(s) PROVE UNCHANGED Promise!vars
  BY <1>1, <1>7 DEF BeginSubscribe, Subscribing, TestDuplicate, AppendSubscriber, Replay,
                    Register, Outcome
<1>8. CASE UNCHANGED vars
  BY <1>1, <1>8 DEF vars, Outcome
<1> QED
  BY <1>2, <1>3, <1>4, <1>5, <1>6, <1>7, <1>8 DEF Next, Sending

\* Each step of the driver is a step of QueryRPC or leaves the outcomes alone: a
\* query ends at most once, with an answer of its id or a timeout.
THEOREM Refinement == ASSUME Constants PROVE Spec => KeepsPromise
<1>1. Init => Promise!Init
  BY DEF Init, Promise!Init
<1>2. Init => ShapeInv /\ IdInv
  <2>1. ASSUME Init PROVE IdInv
    BY <2>1 DEF Init, IdInv
  <2> QED
    BY <2>1, InitShape
<1>3. ShapeInv /\ IdInv /\ [Next]_vars => ShapeInv' /\ IdInv'
  BY StepShape, StepIds
<1>4. ShapeInv /\ IdInv /\ [Next]_vars => [Promise!Next]_(Promise!vars)
  BY StepPromise
<1> QED
  BY <1>1, <1>2, <1>3, <1>4, PTL DEF Spec, KeepsPromise

\* An answer comes from a goroutine that sends on the query's channel.
LEMMA MatchInductive ==
    ASSUME Constants
    PROVE  /\ Init => ShapeInv /\ IdInv /\ AnswersMatchId
           /\ ShapeInv /\ IdInv /\ AnswersMatchId /\ [Next]_vars
                  => ShapeInv' /\ IdInv' /\ AnswersMatchId'
<1>1. Init => ShapeInv /\ IdInv /\ AnswersMatchId
  <2>1. ASSUME Init PROVE IdInv /\ AnswersMatchId
    BY <2>1 DEF Init, IdInv, AnswersMatchId
  <2> QED
    BY <2>1, InitShape
<1>2. ASSUME ShapeInv, IdInv, AnswersMatchId, [Next]_vars PROVE AnswersMatchId'
  <2>1. ASSUME UNCHANGED answer PROVE AnswersMatchId'
    BY <1>2, <2>1 DEF AnswersMatchId
  <2>2. ASSUME NEW p \in Queries, NEW q \in Queries, Receive(p, q) PROVE AnswersMatchId'
    <3>1. Corr[p] = Corr[q]
      BY <1>2, <2>2 DEF Receive, IdInv
    <3>2. \A r \in Queries : answer'[r] = IF r = p THEN q ELSE answer[r]
      BY <1>2, <2>2 DEF Receive, ShapeInv, TypeOK
    <3> QED
      BY <1>2, <3>1, <3>2 DEF AnswersMatchId
  <2>3. UNCHANGED answer \/ \E p, q \in Queries : Receive(p, q)
    BY <1>2 DEF Next, Sending, Prepare, Publish, TestSubscribers, Retain, Callback, LookupWaiter,
                DeleteWaiter, TimeOut, BeginSubscribe, Subscribing, TestDuplicate,
                AppendSubscriber, Replay, Register, vars, clientVars, rpcVars, queueVars
  <2> QED
    BY <2>1, <2>2, <2>3
<1> QED
  BY <1>1, <1>2, StepShape, StepIds

\* A query returns with a response of its id, whichever subscriber answers first.
THEOREM MatchesId == ASSUME Constants PROVE Spec => []AnswersMatchId
  BY MatchInductive, PTL DEF Spec

-----------------------------------------------------------------------------
(* No goroutine is left blocked behind an answered query *)

\* The way of a query with an id of its own: its entry, which only it can find, and
\* then one goroutine for its channel.
SenderInv ==
    \A p \in Queries : OwnId(p) =>
        /\ senders[p][p] \in {0, 1}
        /\ senders[p][p] = 1 => waiters[Corr[p]] = NoAnswer /\ client[p] \notin {"idle", "answered"}
        /\ client[p] = "delete" => waiters[Corr[p]] = p /\ found[p] = p

FullInv == ShapeInv /\ IdInv /\ SenderInv

\* A step that leaves p's entry and goroutines alone and makes p neither idle nor
\* answered.
LEMMA SenderStays ==
    ASSUME SenderInv, NEW p \in Queries, OwnId(p),
           senders'[p][p] = senders[p][p], waiters'[Corr[p]] = waiters[Corr[p]],
           client'[p] = client[p] \/ client'[p] \notin {"idle", "answered", "delete"},
           client'[p] = "delete" => found'[p] = found[p]
    PROVE  /\ senders'[p][p] \in {0, 1}
           /\ senders'[p][p] = 1 => waiters'[Corr[p]] = NoAnswer /\ client'[p] \notin {"idle", "answered"}
           /\ client'[p] = "delete" => waiters'[Corr[p]] = p /\ found'[p] = p
BY DEF SenderInv

LEMMA StepSenders == ASSUME Constants, FullInv, [Next]_vars PROVE SenderInv'
<1> USE DEF clientVars, rpcVars, queueVars
<1>0. /\ \A q \in Queries : Corr[q] \in Ids /\ q # NoAnswer
      /\ waiters \in [Ids -> Queries \cup {NoAnswer}]
      /\ found \in [Queries -> Queries \cup {NoAnswer}]
      /\ senders \in [Queries -> [Queries -> Nat]]
      /\ TypeOK /\ ShapeInv /\ SenderInv
      /\ \A p \in Queries : OwnId(p)' = OwnId(p)
  BY DEF FullInv, ShapeInv, TypeOK, Constants, OwnId
<1>1. ASSUME UNCHANGED <<waiters, senders>>,
             \A p \in Queries : /\ client'[p] = client[p] \/ client'[p] \notin {"idle", "answered", "delete"}
                                /\ client'[p] = "delete" => found'[p] = found[p]
      PROVE  SenderInv'
  BY <1>0, <1>1, SenderStays DEF SenderInv
<1>2. ASSUME NEW q \in Queries, Prepare(q) PROVE SenderInv'
  <2> SUFFICES ASSUME NEW p \in Queries, OwnId(p)
               PROVE  /\ senders'[p][p] \in {0, 1}
                      /\ senders'[p][p] = 1 => waiters'[Corr[p]] = NoAnswer /\ client'[p] \notin {"idle", "answered"}
                      /\ client'[p] = "delete" => waiters'[Corr[p]] = p /\ found'[p] = p
    BY <1>0 DEF SenderInv
  <2>1. /\ client[q] = "idle"
        /\ \A r \in Queries : client'[r] = IF r = q THEN "publish" ELSE client[r]
    BY <1>0, <1>2, GotoMoves DEF Prepare, Places
  <2>2. UNCHANGED <<senders, found>>
    BY <1>2 DEF Prepare
  <2>3. CASE p = q
    <3>1. senders[p][p] = 0
      BY <1>0, <2>1, <2>3 DEF SenderInv
    <3> QED
      BY <2>1, <2>2, <2>3, <3>1
  <2>4. CASE p # q
    <3>1. Corr[p] # Corr[q]
      BY <2>4 DEF OwnId
    <3>2. waiters'[Corr[p]] = waiters[Corr[p]]
      BY <1>0, <1>2, <3>1 DEF Prepare
    <3> QED
      BY <1>0, <2>1, <2>2, <2>4, <3>2, SenderStays
  <2> QED
    BY <2>3, <2>4
<1>3. ASSUME NEW q \in Queries, Publish(q) \/ TestSubscribers(q) \/ Retain(q) \/ TimeOut(q)
      PROVE  SenderInv'
  <2>1. \E a \in Places, b \in {"test", "waiting", "retain", "deliver", "timeout"} : Goto(q, a, b)
    BY <1>3 DEF Publish, TestSubscribers, Retain, TimeOut, Places
  <2>2. UNCHANGED <<waiters, senders, found>>
    BY <1>3 DEF Publish, TestSubscribers, Retain, TimeOut
  <2>3. PICK a \in Places, b \in {"test", "waiting", "retain", "deliver", "timeout"} : Goto(q, a, b)
    BY <2>1
  <2>4. \A r \in Queries : client'[r] = IF r = q THEN b ELSE client[r]
    BY <1>0, <2>3, GotoMoves DEF Places
  <2> QED
    BY <1>1, <2>2, <2>4
<1>4. ASSUME NEW q \in Queries, Callback(q) PROVE SenderInv'
  <2>1. UNCHANGED <<waiters, senders, found>>
    BY <1>4 DEF Callback
  <2>2. CASE Goto(q, "deliver", "lookup")
    <3>1. \A r \in Queries : client'[r] = IF r = q THEN "lookup" ELSE client[r]
      BY <1>0, <2>2, GotoMoves DEF Places
    <3> QED
      BY <1>1, <2>1, <3>1
  <2>3. CASE Continue(q, "deliver")
    <3>1. /\ client'[q] \in {"deliver", "waiting"}
          /\ \A p \in Queries \ {q} : client'[p] = client[p]
      BY <1>0, <2>3, ContinueMoves
    <3> QED
      BY <1>1, <2>1, <3>1
  <2> QED
    BY <1>4, <2>2, <2>3 DEF Callback
<1>5. ASSUME NEW q \in Queries, LookupWaiter(q) PROVE SenderInv'
  <2>0. UNCHANGED <<waiters, senders>>
    BY <1>5 DEF LookupWaiter
  <2>1. CASE waiters[Corr[q]] = NoAnswer
    <3>1. /\ client'[q] \in {"deliver", "waiting"}
          /\ \A p \in Queries \ {q} : client'[p] = client[p]
      BY <1>0, <1>5, <2>1, ContinueMoves DEF LookupWaiter
    <3>2. UNCHANGED found
      BY <1>5, <2>1 DEF LookupWaiter
    <3> QED
      BY <1>1, <2>0, <3>1, <3>2
  <2>2. CASE waiters[Corr[q]] # NoAnswer
    <3>1. /\ Goto(q, "lookup", "delete")
          /\ found' = [found EXCEPT ![q] = waiters[Corr[q]]]
      BY <1>5, <2>2 DEF LookupWaiter
    <3>2. \A r \in Queries : client'[r] = IF r = q THEN "delete" ELSE client[r]
      BY <1>0, <3>1, GotoMoves DEF Places
    <3>3. \A r \in Queries \ {q} : found'[r] = found[r]
      BY <1>0, <3>1
    <3>4. client[q] = "lookup" /\ found'[q] = waiters[Corr[q]]
      BY <1>0, <3>1 DEF Goto
    <3>5. OwnId(q) => waiters[Corr[q]] = q
      <4>1. waiters[Corr[q]] \in Queries /\ Corr[waiters[Corr[q]]] = Corr[q]
        BY <1>0, <1>5, <2>2 DEF FullInv, IdInv
      <4> QED
        BY <4>1 DEF OwnId
    <3> SUFFICES ASSUME NEW p \in Queries, OwnId(p)
                 PROVE  /\ senders'[p][p] \in {0, 1}
                        /\ senders'[p][p] = 1 => waiters'[Corr[p]] = NoAnswer /\ client'[p] \notin {"idle", "answered"}
                        /\ client'[p] = "delete" => waiters'[Corr[p]] = p /\ found'[p] = p
      BY <1>0 DEF SenderInv
    <3>6. CASE p = q
      BY <1>0, <2>0, <3>2, <3>4, <3>5, <3>6 DEF SenderInv
    <3>7. CASE p # q
      BY <1>0, <2>0, <3>2, <3>3, <3>7, SenderStays
    <3> QED
      BY <3>6, <3>7
  <2> QED
    BY <2>1, <2>2
<1>6. ASSUME NEW q \in Queries, client[q] = "delete", DeleteWaiter(q) PROVE SenderInv'
  <2>1. /\ client'[q] \in {"deliver", "waiting"}
        /\ \A p \in Queries \ {q} : client'[p] = client[p]
    BY <1>0, <1>6, ContinueMoves DEF DeleteWaiter
  <2>2. found[q] \in Queries /\ Corr[found[q]] = Corr[q]
    BY <1>0, <1>6 DEF FullInv, ShapeInv, LoopInv, IdInv
  <2>3. /\ senders' = [senders EXCEPT ![found[q]][q] = @ + 1]
        /\ waiters' = [waiters EXCEPT ![Corr[q]] = NoAnswer]
        /\ found' = [found EXCEPT ![q] = NoAnswer]
    BY <1>6 DEF DeleteWaiter
  <2> SUFFICES ASSUME NEW p \in Queries, OwnId(p)
               PROVE  /\ senders'[p][p] \in {0, 1}
                      /\ senders'[p][p] = 1 => waiters'[Corr[p]] = NoAnswer /\ client'[p] \notin {"idle", "answered"}
                      /\ client'[p] = "delete" => waiters'[Corr[p]] = p /\ found'[p] = p
    BY <1>0 DEF SenderInv
  <2>4. CASE p = q
    <3>1. waiters[Corr[q]] = q /\ found[q] = q
      BY <1>0, <1>6, <2>4 DEF SenderInv
    <3>2. senders[q][q] = 0
      BY <1>0, <2>4, <3>1 DEF SenderInv
    <3>3. senders'[q][q] = 1 /\ waiters'[Corr[q]] = NoAnswer
      BY <1>0, <2>3, <3>1, <3>2
    <3> QED
      BY <2>1, <2>4, <3>3
  <2>5. CASE p # q
    <3>1. Corr[p] # Corr[q]
      BY <2>5 DEF OwnId
    <3>2. waiters'[Corr[p]] = waiters[Corr[p]] /\ found'[p] = found[p]
      BY <1>0, <2>3, <2>5, <3>1
    <3>3. senders'[p][p] = senders[p][p]
      BY <1>0, <2>2, <2>3, <2>5, <3>1
    <3> QED
      BY <1>0, <2>1, <2>5, <3>2, <3>3, SenderStays
  <2> QED
    BY <2>4, <2>5
<1>7. ASSUME NEW r \in Queries, NEW q \in Queries, Receive(r, q) PROVE SenderInv'
  <2>1. /\ client[r] = "waiting"
        /\ \A p \in Queries : client'[p] = IF p = r THEN "answered" ELSE client[p]
    BY <1>0, <1>7, GotoMoves DEF Receive, Places
  <2>2. /\ senders[r][q] > 0 /\ Corr[r] = Corr[q]
        /\ senders' = [senders EXCEPT ![r][q] = @ - 1] /\ UNCHANGED <<waiters, found>>
    BY <1>7 DEF Receive, FullInv, IdInv
  <2> SUFFICES ASSUME NEW p \in Queries, OwnId(p)
               PROVE  /\ senders'[p][p] \in {0, 1}
                      /\ senders'[p][p] = 1 => waiters'[Corr[p]] = NoAnswer /\ client'[p] \notin {"idle", "answered"}
                      /\ client'[p] = "delete" => waiters'[Corr[p]] = p /\ found'[p] = p
    BY <1>0 DEF SenderInv
  <2>3. CASE p = r
    <3>1. q = p
      BY <2>2, <2>3 DEF OwnId
    <3>2. senders[p][p] = 1
      BY <1>0, <2>2, <2>3, <3>1 DEF SenderInv
    <3>3. senders'[p][p] = 0
      BY <1>0, <2>2, <2>3, <3>1, <3>2
    <3> QED
      BY <2>1, <2>3, <3>3
  <2>4. CASE p # r
    <3>1. senders'[p][p] = senders[p][p]
      BY <1>0, <2>2, <2>4
    <3> QED
      BY <1>0, <2>1, <2>2, <2>4, <3>1, SenderStays
  <2> QED
    BY <2>3, <2>4
<1>8. ASSUME NEW s \in Instances, BeginSubscribe(s) \/ Subscribing(s) PROVE SenderInv'
  <2>1. UNCHANGED <<client, found, waiters, senders>>
    BY <1>8 DEF BeginSubscribe, Subscribing, TestDuplicate, AppendSubscriber, Replay, Register
  <2> QED
    BY <1>1, <2>1
<1>9. CASE UNCHANGED vars
  BY <1>1, <1>9 DEF vars
<1> QED
  BY <1>2, <1>3, <1>4, <1>5, <1>6, <1>7, <1>8, <1>9 DEF Next, Sending

\* A query with an id of its own has one goroutine for its channel at most, and none
\* once it is answered, however many subscribers answer and whenever its timer fires.
THEOREM SendersCorrect == ASSUME Constants PROVE Spec => []OneSender
<1>1. Init => FullInv
  <2>1. ASSUME Init PROVE IdInv
    BY <2>1 DEF Init, IdInv
  <2>2. ASSUME Init PROVE SenderInv
    BY <2>2 DEF Init, SenderInv
  <2> QED
    BY <2>1, <2>2, InitShape DEF FullInv
<1>2. FullInv /\ [Next]_vars => FullInv'
  BY StepShape, StepIds, StepSenders DEF FullInv
<1>3. ASSUME FullInv PROVE OneSender
  <2>1. ASSUME NEW p \in Queries, OwnId(p), NEW q \in Queries, senders[p][q] > 0 PROVE q = p
    BY <1>3, <2>1 DEF FullInv, IdInv, OwnId
  <2>2. ASSUME NEW p \in Queries, OwnId(p), senders[p][p] > 0
        PROVE  client[p] # "answered" /\ senders[p][p] = 1
    BY <1>3, <2>2 DEF FullInv, SenderInv
  <2> QED
    BY <2>1, <2>2 DEF OneSender
<1> QED
  BY <1>1, <1>2, <1>3, PTL DEF Spec

=============================================================================
