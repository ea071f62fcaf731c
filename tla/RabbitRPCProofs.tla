--------------------------- MODULE RabbitRPCProofs --------------------------
(***************************************************************************)
(* Proofs about RabbitRPC, for every set of queries and instances, however *)
(* often requests are delivered again.                                     *)
(***************************************************************************)
EXTENDS RabbitRPC, TLAPS

\* What the proofs need of the constants.
Constants == NoAnswer \notin Queries /\ MaxRedelivered \in Nat

\* The element that leaves a sequence was its first one, the others move up.
LEMMA TailOf ==
    ASSUME NEW S, NEW s \in Seq(S), s # << >>
    PROVE  /\ Head(s) \in S /\ Head(s) = s[1] /\ Tail(s) \in Seq(S)
           /\ Len(s) \in Nat /\ Len(s) >= 1 /\ Len(Tail(s)) = Len(s) - 1
           /\ \A k \in 1 .. Len(Tail(s)) : k + 1 \in 1 .. Len(s) /\ Tail(s)[k] = s[k + 1]
OBVIOUS

LEMMA AppendOf ==
    ASSUME NEW S, NEW s \in Seq(S), NEW x \in S
    PROVE  /\ Append(s, x) \in Seq(S) /\ Len(s) \in Nat /\ Len(Append(s, x)) = Len(s) + 1
           /\ Append(s, x)[Len(s) + 1] = x
           /\ \A k \in 1 .. Len(s) : Append(s, x)[k] = s[k]
OBVIOUS

LEMMA CountUp ==
    ASSUME NEW S, NEW f \in [S -> Nat], NEW x \in S
    PROVE  [f EXCEPT ![x] = @ + 1] \in [S -> Nat]
OBVIOUS

-----------------------------------------------------------------------------
(* Type correctness *)

LEMMA InitTypes == ASSUME Constants, Init PROVE TypeOK
<1>1. publishCh \in [Instances -> Seq(Queries)] /\ deliveryQueue \in Seq(Queries)
  BY DEF Init
<1>2. worker \in [at : {"idle", "send", "delete"}, q : Queries \cup {NoAnswer}] /\ worker.at = "idle"
  BY DEF Init, Idle
<1>3. redelivered \in 0 .. MaxRedelivered /\ requests \in [Queries -> Nat]
  BY DEF Init, Constants
<1> QED
  BY <1>1, <1>2, <1>3 DEF Init, TypeOK

LEMMA StepTypes == ASSUME Constants, TypeOK, [Next]_vars PROVE TypeOK'
<1> USE DEF callerVars, rpcVars, netVars
<1>0. /\ publishCh \in [Instances -> Seq(Queries)] /\ deliveryQueue \in Seq(Queries)
      /\ requests \in [Queries -> Nat] /\ MaxRedelivered \in Nat
      /\ redelivered \in 0 .. MaxRedelivered
      /\ \A q \in Queries : Inst[q] \in Instances
  BY DEF TypeOK, Constants, Instances
<1>1. ASSUME NEW q \in Queries, QueryRPC(q) PROVE TypeOK'
  <2>1. publishCh' \in [Instances -> Seq(Queries)]
    BY <1>0, <1>1, AppendOf DEF QueryRPC
  <2>2. client' \in [Queries -> {"idle", "waiting", "answered", "timeout"}]
    BY <1>1 DEF QueryRPC, TypeOK
  <2>3. overlapped' \in BOOLEAN
    BY <1>1 DEF QueryRPC, TypeOK
  <2> QED
    BY <1>1, <2>1, <2>2, <2>3 DEF QueryRPC, TypeOK
<1>2. ASSUME NEW i \in Instances, Publish(i) PROVE TypeOK'
  <2>1. publishCh[i] \in Seq(Queries) /\ publishCh[i] # << >>
    BY <1>0, <1>2 DEF Publish
  <2>2. Head(publishCh[i]) \in Queries /\ Tail(publishCh[i]) \in Seq(Queries)
    BY <2>1, TailOf
  <2>3. publishCh' \in [Instances -> Seq(Queries)]
    BY <1>0, <1>2, <2>2 DEF Publish
  <2>4. requests' \in [Queries -> Nat]
    <3>1. \/ requests' = requests
          \/ requests' = [requests EXCEPT ![Head(publishCh[i])] = @ + 1]
      BY <1>2 DEF Publish
    <3> QED
      BY <1>0, <2>2, <3>1, CountUp
  <2>5. rpcCallbacks' \subseteq Queries
    BY <1>2, <2>2 DEF Publish, TypeOK
  <2> QED
    BY <1>2, <2>3, <2>4, <2>5 DEF Publish, TypeOK
<1>3. ASSUME NEW i \in Instances, PublishFails(i) PROVE TypeOK'
  <2>1. publishCh[i] \in Seq(Queries) /\ publishCh[i] # << >>
    BY <1>0, <1>3 DEF PublishFails
  <2>2. publishCh' \in [Instances -> Seq(Queries)]
    BY <1>0, <1>3, <2>1, TailOf DEF PublishFails
  <2> QED
    BY <1>3, <2>2 DEF PublishFails, TypeOK
<1>4. CASE HandleRPCCallback
  <2>1. Head(deliveryQueue) \in Queries /\ deliveryQueue' \in Seq(Queries)
    BY <1>0, <1>4, TailOf DEF HandleRPCCallback
  <2>2. /\ rpcCallbacks' \subseteq Queries
        /\ worker' \in {worker, [at |-> "send", q |-> Head(deliveryQueue)]}
    BY <1>4 DEF HandleRPCCallback, TypeOK
  <2>3. /\ worker' \in [at : {"idle", "send", "delete"}, q : Queries \cup {NoAnswer}]
        /\ worker'.at # "idle" => worker'.q \in Queries
    BY <2>1, <2>2 DEF TypeOK
  <2> QED
    BY <1>4, <2>1, <2>2, <2>3 DEF HandleRPCCallback, TypeOK
<1>5. ASSUME NEW p \in Queries, Respond(p) PROVE TypeOK'
  <2>1. worker.q \in Queries /\ worker' = [worker EXCEPT !.at = "delete"]
    BY <1>5 DEF Respond, TypeOK
  <2>2. /\ worker' \in [at : {"idle", "send", "delete"}, q : Queries \cup {NoAnswer}]
        /\ worker'.q \in Queries
    BY <2>1 DEF TypeOK
  <2>3. answer' \in [Queries -> Queries \cup {NoAnswer}]
    BY <1>5, <2>1 DEF Respond, TypeOK
  <2>4. client' \in [Queries -> {"idle", "waiting", "answered", "timeout"}]
    BY <1>5 DEF Respond, TypeOK
  <2> QED
    BY <1>5, <2>2, <2>3, <2>4 DEF Respond, TypeOK
<1>6. CASE DeleteCallback
  BY <1>6 DEF DeleteCallback, TypeOK, Idle
<1>7. ASSUME NEW q \in Queries, TimeOut(q) PROVE TypeOK'
  <2>1. client' \in [Queries -> {"idle", "waiting", "answered", "timeout"}]
    BY <1>7 DEF TimeOut, TypeOK
  <2> QED
    BY <1>7, <2>1 DEF TimeOut, TypeOK
<1>8. ASSUME NEW q \in Queries, HandleConsume(q) PROVE TypeOK'
  <2>1. requests' \in [Queries -> Nat]
    BY <1>0, <1>8 DEF HandleConsume
  <2>2. deliveryQueue' \in Seq(Queries)
    <3>1. deliveryQueue' = deliveryQueue \/ deliveryQueue' = Append(deliveryQueue, q)
      BY <1>8 DEF HandleConsume
    <3> QED
      <4>1. deliveryQueue \in Seq(Queries) /\ Append(deliveryQueue, q) \in Seq(Queries)
        BY <1>0, <1>8, AppendOf
      <4> QED
        BY <3>1, <4>1
  <2> QED
    BY <1>8, <2>1, <2>2 DEF HandleConsume, TypeOK
<1>9. ASSUME NEW q \in Queries, Redeliver(q) PROVE TypeOK'
  <2>1. requests' \in [Queries -> Nat] /\ redelivered' \in 0 .. MaxRedelivered
    BY <1>0, <1>9 DEF Redeliver
  <2> QED
    BY <1>9, <2>1 DEF Redeliver, TypeOK
<1>10. CASE UNCHANGED vars
  BY <1>10 DEF vars, TypeOK
<1> QED
  BY <1>1, <1>2, <1>3, <1>4, <1>5, <1>6, <1>7, <1>8, <1>9, <1>10 DEF Next

\* The state keeps its shape; in particular the worker is never without a query
\* while it sends or deletes.
THEOREM TypeCorrect == ASSUME Constants PROVE Spec => []TypeOK
<1>1. Init => TypeOK
  BY InitTypes
<1>2. TypeOK /\ [Next]_vars => TypeOK'
  BY StepTypes
<1> QED
  BY <1>1, <1>2, PTL DEF Spec

-----------------------------------------------------------------------------
(* Responses are handed over once, on the instance of their query *)

\* A query in the Publish channel of its instance is there once and has not been
\* registered yet.
PublishInv ==
    \A i \in Instances : \A k \in 1 .. Len(publishCh[i]) :
        /\ Inst[publishCh[i][k]] = i
        /\ client[publishCh[i][k]] # "idle"
        /\ publishCh[i][k] \notin rpcCallbacks
        /\ \A p \in Queries : answer[p] # publishCh[i][k]
        /\ worker.at # "idle" => worker.q # publishCh[i][k]
        /\ \A l \in 1 .. Len(publishCh[i]) : l # k => publishCh[i][l] # publishCh[i][k]

\* The worker sends a response that is registered; once it was handed over, its
\* entry is gone or is what the worker deletes next.
EntryInv ==
    /\ \A q \in rpcCallbacks : client[q] # "idle"
    /\ worker.at = "send" => worker.q \in rpcCallbacks
    /\ worker.at = "delete" => client[worker.q] # "idle"
    /\ \A p \in Queries : client[p] # "answered" => answer[p] = NoAnswer
    /\ \A p \in Queries : answer[p] # NoAnswer =>
           /\ Inst[answer[p]] = Inst[p]
           /\ client[answer[p]] # "idle"
           /\ answer[p] \in rpcCallbacks => worker.at = "delete" /\ worker.q = answer[p]
    /\ \A p \in Queries : client[p] = "answered" => answer[p] # NoAnswer
    /\ \A p, q \in Queries : answer[p] # NoAnswer /\ answer[p] = answer[q] => p = q

AnswerInv == TypeOK /\ PublishInv /\ EntryInv

\* What the steps have in common that leave the Publish channels, the entries, the
\* answers and the worker alone and make no query idle.
LEMMA QuietStep ==
    ASSUME AnswerInv, UNCHANGED <<publishCh, rpcCallbacks, worker, answer>>,
           \A p \in Queries : /\ client[p] # "idle" => client'[p] # "idle"
                              /\ client'[p] = "answered" <=> client[p] = "answered"
    PROVE  PublishInv' /\ EntryInv'
<1>1. \A i \in Instances : \A k \in 1 .. Len(publishCh[i]) : publishCh[i][k] \in Queries
  BY DEF AnswerInv, TypeOK
<1>2. PublishInv'
  BY <1>1 DEF AnswerInv, PublishInv
<1>3. EntryInv'
  BY DEF AnswerInv, EntryInv, TypeOK
<1> QED
  BY <1>2, <1>3

LEMMA AskKeepsAnswers ==
    ASSUME Constants, AnswerInv, NEW q \in Queries, QueryRPC(q)
    PROVE  PublishInv' /\ EntryInv'
<1>1. /\ publishCh \in [Instances -> Seq(Queries)] /\ Inst[q] \in Instances
      /\ client[q] = "idle" /\ client \in [Queries -> {"idle", "waiting", "answered", "timeout"}]
      /\ client' = [client EXCEPT ![q] = "waiting"]
      /\ publishCh' = [publishCh EXCEPT ![Inst[q]] = Append(@, q)]
      /\ UNCHANGED <<rpcCallbacks, worker, answer>>
  BY DEF AnswerInv, TypeOK, QueryRPC, rpcVars, Instances
<1>2. \A p \in Queries : client'[p] = IF p = q THEN "waiting" ELSE client[p]
  BY <1>1
<1>3. \A i \in Instances : \A k \in 1 .. Len(publishCh[i]) :
          publishCh[i][k] \in Queries /\ publishCh[i][k] # q
  BY <1>1 DEF AnswerInv, PublishInv
<1>4. q \notin rpcCallbacks /\ (worker.at # "idle" => worker.q # q) /\ \A p \in Queries : answer[p] # q
  BY <1>1 DEF AnswerInv, EntryInv, TypeOK, Constants
<1>5. PublishInv'
  <2>0. UNCHANGED <<rpcCallbacks, worker, answer>>
    BY <1>1
  <2> SUFFICES ASSUME NEW i \in Instances, NEW k \in 1 .. Len(publishCh'[i])
               PROVE  /\ Inst[publishCh'[i][k]] = i
                      /\ client'[publishCh'[i][k]] # "idle"
                      /\ publishCh'[i][k] \notin rpcCallbacks
                      /\ \A p \in Queries : answer[p] # publishCh'[i][k]
                      /\ worker.at # "idle" => worker.q # publishCh'[i][k]
                      /\ \A l \in 1 .. Len(publishCh'[i]) : l # k => publishCh'[i][l] # publishCh'[i][k]
    BY <2>0 DEF PublishInv
  <2>1. CASE i # Inst[q]
    <3>1. publishCh'[i] = publishCh[i]
      BY <1>1, <2>1
    <3> QED
      BY <1>2, <1>3, <3>1 DEF AnswerInv, PublishInv
  <2>2. CASE i = Inst[q]
    <3>1. publishCh'[i] = Append(publishCh[i], q) /\ publishCh[i] \in Seq(Queries)
      BY <1>1, <2>2
    <3>2. /\ Len(publishCh[i]) \in Nat /\ Len(publishCh'[i]) = Len(publishCh[i]) + 1
          /\ publishCh'[i][Len(publishCh[i]) + 1] = q
          /\ \A l \in 1 .. Len(publishCh[i]) : publishCh'[i][l] = publishCh[i][l]
      BY <3>1, AppendOf
    <3>3. \A l \in 1 .. Len(publishCh'[i]) : l = Len(publishCh[i]) + 1 \/ l \in 1 .. Len(publishCh[i])
      BY <3>2
    <3>4. CASE k = Len(publishCh[i]) + 1
      BY <1>2, <1>3, <1>4, <2>2, <3>2, <3>3, <3>4
    <3>5. CASE k \in 1 .. Len(publishCh[i])
      <4>1. publishCh'[i][k] = publishCh[i][k] /\ publishCh[i][k] \in Queries /\ publishCh[i][k] # q
        BY <1>3, <3>2, <3>5
      <4>2. \A l \in 1 .. Len(publishCh'[i]) : l # k => publishCh'[i][l] # publishCh'[i][k]
        BY <3>2, <3>3, <3>5, <4>1 DEF AnswerInv, PublishInv
      <4> QED
        BY <1>2, <3>5, <4>1, <4>2 DEF AnswerInv, PublishInv
    <3> QED
      BY <3>3, <3>4, <3>5
  <2> QED
    BY <2>1, <2>2
<1>6. EntryInv'
  <2>1. \A p \in Queries : client'[p] = "answered" <=> client[p] = "answered"
    BY <1>1, <1>2
  <2>2. \A p \in Queries : client[p] # "idle" => client'[p] # "idle"
    BY <1>1, <1>2
  <2> QED
    BY <1>1, <2>1, <2>2 DEF AnswerInv, EntryInv, TypeOK
<1> QED
  BY <1>5, <1>6

\* A query leaves the Publish channel, and is registered or given up.
LEMMA PublishKeepsAnswers ==
    ASSUME Constants, AnswerInv, NEW i \in Instances, publishCh[i] # << >>,
           publishCh' = [publishCh EXCEPT ![i] = Tail(@)],
           rpcCallbacks' = rpcCallbacks \/ rpcCallbacks' = rpcCallbacks \cup {Head(publishCh[i])},
           UNCHANGED <<client, worker, answer>>
    PROVE  PublishInv' /\ EntryInv'
<1> DEFINE h == Head(publishCh[i])
<1>1. publishCh \in [Instances -> Seq(Queries)] /\ publishCh[i] \in Seq(Queries)
  BY DEF AnswerInv, TypeOK
<1>2. /\ h \in Queries /\ h = publishCh[i][1]
      /\ Len(publishCh[i]) \in Nat /\ Len(publishCh[i]) >= 1
      /\ Len(Tail(publishCh[i])) = Len(publishCh[i]) - 1
      /\ \A k \in 1 .. Len(Tail(publishCh[i])) : /\ k + 1 \in 1 .. Len(publishCh[i])
                                                 /\ Tail(publishCh[i])[k] = publishCh[i][k + 1]
  BY <1>1, TailOf
<1>3. /\ Inst[h] = i /\ client[h] # "idle" /\ \A p \in Queries : answer[p] # h
      /\ worker.at # "idle" => worker.q # h
      /\ \A l \in 1 .. Len(publishCh[i]) : l # 1 => publishCh[i][l] # h
  BY <1>2 DEF AnswerInv, PublishInv
<1>4. PublishInv'
  <2> SUFFICES ASSUME NEW j \in Instances, NEW k \in 1 .. Len(publishCh'[j])
               PROVE  /\ Inst[publishCh'[j][k]] = j
                      /\ client[publishCh'[j][k]] # "idle"
                      /\ publishCh'[j][k] \notin rpcCallbacks'
                      /\ \A p \in Queries : answer[p] # publishCh'[j][k]
                      /\ worker.at # "idle" => worker.q # publishCh'[j][k]
                      /\ \A l \in 1 .. Len(publishCh'[j]) : l # k => publishCh'[j][l] # publishCh'[j][k]
    BY DEF PublishInv
  <2>1. CASE j # i
    <3>1. publishCh'[j] = publishCh[j]
      BY <1>1, <2>1
    <3>2. publishCh[j][k] # h
      BY <1>3, <2>1, <3>1 DEF AnswerInv, PublishInv
    <3> QED
      BY <3>1, <3>2 DEF AnswerInv, PublishInv
  <2>2. CASE j = i
    <3>1. publishCh'[j] = Tail(publishCh[i])
      BY <1>1, <2>2
    <3>2. \A l \in 1 .. Len(publishCh'[j]) : /\ l + 1 \in 1 .. Len(publishCh[i]) /\ l + 1 # 1
                                            /\ publishCh'[j][l] = publishCh[i][l + 1]
      <4>1. ASSUME NEW l \in 1 .. Len(Tail(publishCh[i])) PROVE l + 1 # 1
        BY <1>2, <4>1
      <4> QED
        BY <1>2, <3>1, <4>1
    <3>3. publishCh'[j][k] # h
      BY <1>3, <3>2
    <3>4. \A l \in 1 .. Len(publishCh'[j]) : l # k => publishCh'[j][l] # publishCh'[j][k]
      <4>1. ASSUME NEW l \in 1 .. Len(publishCh'[j]), l # k PROVE publishCh'[j][l] # publishCh'[j][k]
        <5>1. l + 1 # k + 1
          BY <1>2, <3>1, <4>1
        <5> QED
          BY <3>2, <4>1, <5>1 DEF AnswerInv, PublishInv
      <4> QED
        BY <4>1
    <3> QED
      BY <2>2, <3>2, <3>3, <3>4 DEF AnswerInv, PublishInv
  <2> QED
    BY <2>1, <2>2
<1>5. EntryInv'
  BY <1>2, <1>3 DEF AnswerInv, EntryInv, TypeOK
<1> QED
  BY <1>4, <1>5

LEMMA CallbackKeepsAnswers ==
    ASSUME Constants, AnswerInv, HandleRPCCallback
    PROVE  PublishInv' /\ EntryInv'
<1> DEFINE h == Head(deliveryQueue)
<1>1. /\ worker.at = "idle" /\ UNCHANGED <<client, answer, publishCh>>
      /\ \/ UNCHANGED worker /\ rpcCallbacks' \subseteq rpcCallbacks
         \/ /\ h \in rpcCallbacks /\ UNCHANGED rpcCallbacks
            /\ worker' = [at |-> "send", q |-> h]
  BY DEF HandleRPCCallback, callerVars
<1>2. CASE UNCHANGED worker /\ rpcCallbacks' \subseteq rpcCallbacks
  <2>1. PublishInv'
    BY <1>1, <1>2 DEF AnswerInv, PublishInv
  <2>2. EntryInv'
    BY <1>1, <1>2 DEF AnswerInv, EntryInv, TypeOK
  <2> QED
    BY <2>1, <2>2
<1>3. CASE h \in rpcCallbacks /\ UNCHANGED rpcCallbacks /\ worker' = [at |-> "send", q |-> h]
  <2>1. worker'.at = "send" /\ worker'.q = h
    BY <1>3
  <2>2. PublishInv'
    BY <1>1, <1>3, <2>1 DEF AnswerInv, PublishInv
  <2>3. EntryInv'
    BY <1>1, <1>3, <2>1 DEF AnswerInv, EntryInv, TypeOK
  <2> QED
    BY <2>2, <2>3
<1> QED
  BY <1>1, <1>2, <1>3

LEMMA RespondKeepsAnswers ==
    ASSUME Constants, AnswerInv, NEW p \in Queries, Respond(p)
    PROVE  PublishInv' /\ EntryInv'
<1>1. /\ worker.at = "send" /\ client[p] = "waiting" /\ Inst[p] = Inst[worker.q]
      /\ worker.q \in Queries /\ worker.q \in rpcCallbacks /\ worker.q # NoAnswer
      /\ client \in [Queries -> {"idle", "waiting", "answered", "timeout"}]
      /\ answer \in [Queries -> Queries \cup {NoAnswer}]
      /\ client' = [client EXCEPT ![p] = "answered"]
      /\ answer' = [answer EXCEPT ![p] = worker.q]
      /\ UNCHANGED <<publishCh, rpcCallbacks>>
  BY DEF AnswerInv, TypeOK, EntryInv, Respond, Waiting, Constants
<1>2. worker'.at = "delete" /\ worker'.q = worker.q
  BY DEF Respond, AnswerInv, TypeOK
<1>3. \A q \in Queries : /\ client'[q] = IF q = p THEN "answered" ELSE client[q]
                         /\ answer'[q] = IF q = p THEN worker.q ELSE answer[q]
  BY <1>1
<1>4. \A q \in Queries : answer[q] # worker.q
  BY <1>1 DEF AnswerInv, EntryInv
<1>5. client[worker.q] # "idle"
  BY <1>1 DEF AnswerInv, EntryInv
<1>6. PublishInv'
  <2>1. \A i \in Instances : \A k \in 1 .. Len(publishCh[i]) : publishCh[i][k] \in Queries
    BY DEF AnswerInv, TypeOK
  <2>2. \A i \in Instances : \A k \in 1 .. Len(publishCh[i]) : publishCh[i][k] # worker.q
    BY <1>1 DEF AnswerInv, PublishInv
  <2> QED
    BY <1>1, <1>2, <1>3, <2>1, <2>2 DEF AnswerInv, PublishInv
<1>7. EntryInv'
  <2>1. \A q \in rpcCallbacks' : client'[q] # "idle"
    BY <1>1, <1>3 DEF AnswerInv, EntryInv, TypeOK
  <2>2. client'[worker'.q] # "idle"
    BY <1>1, <1>2, <1>3, <1>5
  <2>3. \A q \in Queries : /\ client'[q] # "answered" => answer'[q] = NoAnswer
                           /\ client'[q] = "answered" => answer'[q] # NoAnswer
    BY <1>1, <1>3 DEF AnswerInv, EntryInv
  <2>4. ASSUME NEW q \in Queries, answer'[q] # NoAnswer
        PROVE  /\ Inst[answer'[q]] = Inst[q]
               /\ client'[answer'[q]] # "idle"
               /\ answer'[q] \in rpcCallbacks' => worker'.at = "delete" /\ worker'.q = answer'[q]
    <3>1. CASE q = p
      BY <1>1, <1>2, <1>3, <1>5, <3>1
    <3>2. CASE q # p
      <4>1. answer'[q] = answer[q] /\ answer[q] \in Queries
        BY <1>1, <1>3, <2>4, <3>2
      <4> QED
        BY <1>1, <1>3, <2>4, <4>1 DEF AnswerInv, EntryInv
    <3> QED
      BY <3>1, <3>2
  <2>5. ASSUME NEW q \in Queries, NEW r \in Queries, answer'[q] # NoAnswer, answer'[q] = answer'[r]
        PROVE  q = r
    BY <1>3, <1>4, <2>5 DEF AnswerInv, EntryInv
  <2> QED
    BY <1>2, <2>1, <2>2, <2>3, <2>4, <2>5 DEF EntryInv
<1> QED
  BY <1>6, <1>7

LEMMA DeleteKeepsAnswers ==
    ASSUME Constants, AnswerInv, DeleteCallback
    PROVE  PublishInv' /\ EntryInv'
<1>1. /\ worker.at = "delete" /\ worker'.at = "idle"
      /\ rpcCallbacks' = rpcCallbacks \ {worker.q}
      /\ UNCHANGED <<client, answer, publishCh>>
  BY DEF DeleteCallback, Idle, callerVars
<1>2. PublishInv'
  BY <1>1 DEF AnswerInv, PublishInv
<1>3. EntryInv'
  BY <1>1 DEF AnswerInv, EntryInv
<1> QED
  BY <1>2, <1>3

LEMMA StepAnswers == ASSUME Constants, AnswerInv, [Next]_vars PROVE AnswerInv'
<1>1. TypeOK'
  BY StepTypes DEF AnswerInv
<1>2. ASSUME NEW q \in Queries, QueryRPC(q) PROVE AnswerInv'
  BY <1>1, <1>2, AskKeepsAnswers DEF AnswerInv
<1>3. ASSUME NEW i \in Instances, Publish(i) \/ PublishFails(i) PROVE AnswerInv'
  BY <1>1, <1>3, PublishKeepsAnswers DEF AnswerInv, Publish, PublishFails, rpcVars
<1>4. CASE HandleRPCCallback
  BY <1>1, <1>4, CallbackKeepsAnswers DEF AnswerInv
<1>5. ASSUME NEW p \in Queries, Respond(p) PROVE AnswerInv'
  BY <1>1, <1>5, RespondKeepsAnswers DEF AnswerInv
<1>6. CASE DeleteCallback
  BY <1>1, <1>6, DeleteKeepsAnswers DEF AnswerInv
<1>7. ASSUME NEW q \in Queries, TimeOut(q) PROVE AnswerInv'
  <2>1. /\ client[q] = "waiting" /\ client' = [client EXCEPT ![q] = "timeout"]
        /\ UNCHANGED <<publishCh, rpcCallbacks, worker, answer>>
        /\ client \in [Queries -> {"idle", "waiting", "answered", "timeout"}]
    BY <1>7 DEF TimeOut, Waiting, rpcVars, AnswerInv, TypeOK
  <2>2. \A p \in Queries : /\ client[p] # "idle" => client'[p] # "idle"
                           /\ client'[p] = "answered" <=> client[p] = "answered"
    BY <2>1
  <2> QED
    BY <1>1, <2>1, <2>2, QuietStep DEF AnswerInv
<1>8. CASE (\E q \in Queries : HandleConsume(q) \/ Redeliver(q)) \/ UNCHANGED vars
  <2>1. UNCHANGED <<client, publishCh, rpcCallbacks, worker, answer>>
    BY <1>8 DEF HandleConsume, Redeliver, vars, callerVars, rpcVars
  <2> QED
    BY <1>1, <2>1, QuietStep DEF AnswerInv
<1> QED
  BY <1>2, <1>3, <1>4, <1>5, <1>6, <1>7, <1>8 DEF Next

\* The invariant holds initially and is kept, and it says that answers are distinct.
LEMMA AnswerInvInductive ==
    ASSUME Constants
    PROVE  /\ Init => AnswerInv
           /\ AnswerInv /\ [Next]_vars => AnswerInv'
           /\ AnswerInv => AnswersDistinct
<1>1. Init => AnswerInv
  <2>1. ASSUME Init PROVE TypeOK
    BY <2>1, InitTypes
  <2>2. ASSUME Init PROVE PublishInv
    BY <2>2 DEF Init, PublishInv
  <2>3. ASSUME Init PROVE EntryInv
    BY <2>3 DEF Init, EntryInv, Idle
  <2> QED
    BY <2>1, <2>2, <2>3 DEF AnswerInv
<1>2. AnswerInv /\ [Next]_vars => AnswerInv'
  BY StepAnswers
<1>3. AnswerInv => AnswersDistinct
  BY DEF AnswerInv, EntryInv, AnswersDistinct
<1> QED
  BY <1>1, <1>2, <1>3

\* No response is handed to two callers, however often requests are delivered
\* and responses come late, and none crosses to another instance.
THEOREM AnswersCorrect == ASSUME Constants PROVE Spec => []AnswersDistinct
  BY AnswerInvInductive, PTL DEF Spec

=============================================================================
