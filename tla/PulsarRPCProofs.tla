-------------------------- MODULE PulsarRPCProofs ---------------------------
(***************************************************************************)
(* Queries over Pulsar, for every set of queries and every choice of       *)
(* correlation ids: a query returns only responses to its own id, and the  *)
(* queries implement QueryRPC's safety part.                               *)
(***************************************************************************)
EXTENDS PulsarRPC, TLAPS

\* What the proofs need of the constants.
Constants ==
    NoAnswer \notin Queries /\ Corr \in [Queries -> Ids] /\ MaxRedelivered \in Nat

\* Entries of rpcCallbacks sit under their own id, and a goroutine blocked on a
\* caller's channel holds a response with that caller's id.
IdInv ==
    /\ \A i \in Ids : rpcCallbacks[i] # NoAnswer => Corr[rpcCallbacks[i]] = i
    /\ \A p, q \in Queries : senders[p][q] > 0 => Corr[p] = Corr[q]
    /\ AnswersMatchId

\* The safety part of QueryRPC.
ImplementsSafety == Promise!Init /\ [][Promise!Next]_(Promise!vars)

-----------------------------------------------------------------------------

\* The shapes hold initially.
LEMMA InitTypeOK == ASSUME Constants PROVE Init => TypeOK
  BY DEF Constants, Init, TypeOK

\* Counting a message or a goroutine up.
LEMMA CountUp ==
    ASSUME NEW S, NEW f \in [S -> Nat], NEW q \in S
    PROVE  [f EXCEPT ![q] = @ + 1] \in [S -> Nat]
  OBVIOUS

\* Counting one down when there is one.
LEMMA CountDown ==
    ASSUME NEW S, NEW f \in [S -> Nat], NEW q \in S, f[q] > 0
    PROVE  [f EXCEPT ![q] = @ - 1] \in [S -> Nat]
  <1>1. f[q] - 1 \in Nat
    OBVIOUS
  <1> QED BY <1>1

\* Every step of the caller, the rpc instance, the consumer and the network
\* keeps the shapes.
LEMMA NextTypeOK == ASSUME Constants PROVE TypeOK /\ [Next]_vars => TypeOK'
  <1> SUFFICES ASSUME TypeOK, [Next]_vars
               PROVE  TypeOK'
    OBVIOUS
  <1> USE DEF Constants
  <1>1. ASSUME NEW q \in Queries, Run(q)
        PROVE  TypeOK'
    <2>1. CASE Publish(q)
      <3>1. rpcCallbacks' \in [Ids -> Queries \cup {NoAnswer}]
        BY <2>1 DEF Publish, TypeOK, EnsureRPCMessage
      <3>2. requests' \in [Queries -> Nat]
        BY <2>1, CountUp DEF Publish, TypeOK
      <3> QED BY <2>1, <3>1, <3>2 DEF Publish, TypeOK, consumerVars
    <2>2. CASE PublishFails(q)
      BY <2>2 DEF PublishFails, TypeOK, rpcVars, consumerVars, netVars
    <2> QED BY <1>1, <2>1, <2>2 DEF Run
  <1>2. ASSUME NEW q \in Queries, Caller(q)
        PROVE  TypeOK'
    <2>1. CASE QueryRPC(q)
      BY <2>1 DEF QueryRPC, TypeOK, rpcVars, consumerVars, netVars
    <2>2. CASE TimeOut(q)
      BY <2>2 DEF TimeOut, TypeOK, rpcVars, consumerVars, netVars
    <2> QED BY <1>2, <2>1, <2>2 DEF Caller
  <1>3. ASSUME NEW q \in Queries, HandleRPCCallback(q)
        PROVE  TypeOK'
    <2>1. responses' \in [Queries -> Nat]
      BY <1>3, CountDown DEF HandleRPCCallback, TypeOK
    <2>2. rpcCallbacks' = rpcCallbacks /\ deleting' = deleting
      BY <1>3 DEF HandleRPCCallback
    <2>3. senders' \in [Queries -> [Queries -> Nat]]
      <3>1. CASE senders' = senders
        BY <3>1 DEF TypeOK
      <3>2. CASE senders' # senders
        <4> DEFINE c == rpcCallbacks[Corr[q]]
        <4>1. c \in Queries /\ senders' = [senders EXCEPT ![c][q] = @ + 1]
          BY <1>3, <3>2 DEF HandleRPCCallback, TypeOK
        <4> HIDE DEF c
        <4>2. senders' = [senders EXCEPT ![c] = [senders[c] EXCEPT ![q] = @ + 1]]
          BY <4>1 DEF TypeOK
        <4>3. [senders[c] EXCEPT ![q] = @ + 1] \in [Queries -> Nat]
          BY <4>1, CountUp DEF TypeOK
        <4> QED BY <4>1, <4>2, <4>3 DEF TypeOK
      <3> QED BY <3>1, <3>2
    <2> QED BY <1>3, <2>1, <2>2, <2>3 DEF HandleRPCCallback, TypeOK, callerVars, consumerVars
  <1>4. ASSUME NEW q \in Queries, Consumer(q)
        PROVE  TypeOK'
    <2> USE DEF callerVars, rpcVars, netVars
    <2>1. CASE HandleConsume(q)
      <3>1. requests' \in [Queries -> Nat] /\ working' \in [Queries -> Nat]
        BY <2>1, CountUp, CountDown DEF HandleConsume, TypeOK
      <3> QED BY <2>1, <3>1 DEF HandleConsume, TypeOK
    <2>2. CASE Reply(q)
      <3>1. replying' \in [Queries -> Nat] /\ working' \in [Queries -> Nat]
        BY <2>2, CountUp, CountDown DEF Reply, TypeOK
      <3> QED BY <2>2, <3>1 DEF Reply, TypeOK
    <2>3. CASE NoReply(q)
      <3>1. working' \in [Queries -> Nat]
        BY <2>3, CountDown DEF NoReply, TypeOK
      <3> QED BY <2>3, <3>1 DEF NoReply, TypeOK
    <2>4. CASE CallbackReplies(q)
      <3>1. replying' \in [Queries -> Nat] /\ redelivered' \in 0 .. MaxRedelivered
        BY <2>4, CountUp DEF CallbackReplies, TypeOK
      <3> QED BY <2>4, <3>1 DEF CallbackReplies, TypeOK
    <2>5. CASE PublishReply(q)
      <3>1. replying' \in [Queries -> Nat] /\ responses' \in [Queries -> Nat]
        BY <2>5, CountUp, CountDown DEF PublishReply, TypeOK
      <3> QED BY <2>5, <3>1 DEF PublishReply, TypeOK
    <2> QED BY <1>4, <2>1, <2>2, <2>3, <2>4, <2>5 DEF Consumer
  <1>5. ASSUME NEW q \in Queries, Network(q)
        PROVE  TypeOK'
    <2> USE DEF callerVars, rpcVars, consumerVars
    <2>1. CASE LoseRequest(q)
      <3>1. requests' \in [Queries -> Nat]
        BY <2>1, CountDown DEF LoseRequest, TypeOK
      <3> QED BY <2>1, <3>1 DEF LoseRequest, TypeOK
    <2>2. CASE LoseResponse(q)
      <3>1. responses' \in [Queries -> Nat]
        BY <2>2, CountDown DEF LoseResponse, TypeOK
      <3> QED BY <2>2, <3>1 DEF LoseResponse, TypeOK
    <2>3. CASE Redeliver(q)
      <3>1. requests' \in [Queries -> Nat] /\ redelivered' \in 0 .. MaxRedelivered
        BY <2>3, CountUp DEF Redeliver, TypeOK
      <3> QED BY <2>3, <3>1 DEF Redeliver, TypeOK
    <2> QED BY <1>5, <2>1, <2>2, <2>3 DEF Network
  <1>6. ASSUME NEW p \in Queries, NEW q \in Queries, Respond(p, q) \/ SkipSend(p, q)
        PROVE  TypeOK'
    <2>1. /\ deleting' = [deleting EXCEPT ![Corr[q]] = @ + 1]
          /\ senders' = [senders EXCEPT ![p][q] = @ - 1] /\ senders[p][q] > 0
      BY <1>6 DEF Respond, SkipSend
    <2>2. deleting' \in [Ids -> Nat]
      BY <2>1, CountUp DEF TypeOK
    <2>3. senders' \in [Queries -> [Queries -> Nat]]
      <3>1. senders' = [senders EXCEPT ![p] = [senders[p] EXCEPT ![q] = @ - 1]]
        BY <2>1 DEF TypeOK
      <3>2. [senders[p] EXCEPT ![q] = @ - 1] \in [Queries -> Nat]
        BY <2>1, CountDown DEF TypeOK
      <3> QED BY <3>1, <3>2 DEF TypeOK
    <2>4. CASE Respond(p, q)
      BY <2>2, <2>3, <2>4 DEF Respond, TypeOK, consumerVars, netVars
    <2>5. CASE SkipSend(p, q)
      BY <2>2, <2>3, <2>5 DEF SkipSend, TypeOK, callerVars, consumerVars, netVars
    <2> QED BY <1>6, <2>4, <2>5
  <1>7. ASSUME NEW id \in Ids, DeleteCallback(id)
        PROVE  TypeOK'
    <2>1. deleting' \in [Ids -> Nat]
      BY <1>7, CountDown DEF DeleteCallback, TypeOK
    <2> QED BY <1>7, <2>1 DEF DeleteCallback, TypeOK, callerVars, consumerVars, netVars
  <1>8. CASE UNCHANGED vars
    BY <1>8 DEF vars, callerVars, rpcVars, consumerVars, netVars, TypeOK
  <1> QED BY <1>1, <1>2, <1>3, <1>4, <1>5, <1>6, <1>7, <1>8 DEF Next

\* Every step of PulsarMQ's query path keeps the shapes of its state.
THEOREM TypeCorrect == ASSUME Constants PROVE Spec => []TypeOK
  BY InitTypeOK, NextTypeOK, PTL DEF Spec

-----------------------------------------------------------------------------

\* The ids match initially.
LEMMA InitIdInv == ASSUME Constants PROVE Init => IdInv
  BY DEF Init, IdInv, AnswersMatchId

\* No step breaks the match of ids.
LEMMA NextIdInv == ASSUME Constants PROVE TypeOK /\ IdInv /\ [Next]_vars => IdInv'
  <1> SUFFICES ASSUME TypeOK, IdInv, [Next]_vars
               PROVE  IdInv'
    OBVIOUS
  <1> USE DEF Constants
  \* Only ensureRPCMessage and the deletions write rpcCallbacks, ...
  <1>1. ASSUME NEW q \in Queries, Publish(q)
        PROVE  IdInv'
    <2>1. \A i \in Ids : rpcCallbacks'[i] # NoAnswer => Corr[rpcCallbacks'[i]] = i
      BY <1>1 DEF Publish, EnsureRPCMessage, TypeOK, IdInv
    <2> QED BY <1>1, <2>1 DEF Publish, IdInv, AnswersMatchId
  <1>2. ASSUME NEW q \in Queries, PublishFails(q)
        PROVE  IdInv'
    BY <1>2 DEF PublishFails, IdInv, AnswersMatchId, rpcVars
  <1>3. ASSUME NEW q \in Queries, Caller(q)
        PROVE  IdInv'
    BY <1>3 DEF Caller, QueryRPC, TimeOut, TypeOK, IdInv, AnswersMatchId, rpcVars
  \* ... only handleRPCCallback hands a response to a caller's channel, ...
  <1>4. ASSUME NEW q \in Queries, HandleRPCCallback(q)
        PROVE  IdInv'
    <2>1. client' = client /\ answer' = answer
      BY <1>4 DEF HandleRPCCallback, callerVars
    <2>2. \A i \in Ids : rpcCallbacks'[i] # NoAnswer => Corr[rpcCallbacks'[i]] = i
      BY <1>4 DEF HandleRPCCallback, IdInv
    <2>3. \A p, r \in Queries : senders'[p][r] > 0 => Corr[p] = Corr[r]
      <3>1. CASE senders' = senders
        BY <3>1 DEF IdInv
      <3>2. CASE senders' # senders
        <4> DEFINE c == rpcCallbacks[Corr[q]]
        <4>1. c \in Queries /\ senders' = [senders EXCEPT ![c][q] = @ + 1]
          BY <1>4, <3>2 DEF HandleRPCCallback, TypeOK
        <4>2. Corr[c] = Corr[q]
          BY <4>1 DEF IdInv
        <4> HIDE DEF c
        <4>3. \A p, r \in Queries : (p # c \/ r # q) => senders'[p][r] = senders[p][r]
          BY <4>1 DEF TypeOK
        <4> QED BY <4>2, <4>3 DEF IdInv
      <3> QED BY <3>1, <3>2
    <2> QED BY <2>1, <2>2, <2>3 DEF IdInv, AnswersMatchId
  <1>5. ASSUME NEW q \in Queries, Consumer(q) \/ Network(q)
        PROVE  IdInv'
    BY <1>5 DEF Consumer, HandleConsume, Reply, NoReply, CallbackReplies,
                PublishReply, Network, LoseRequest, LoseResponse, Redeliver,
                callerVars, rpcVars, IdInv, AnswersMatchId
  \* ... and only Respond writes an answer.
  <1>6. ASSUME NEW p \in Queries, NEW q \in Queries, Respond(p, q)
        PROVE  IdInv'
    <2>1. Corr[p] = Corr[q]
      BY <1>6 DEF Respond, IdInv
    <2>2. AnswersMatchId'
      BY <1>6, <2>1 DEF Respond, TypeOK, IdInv, AnswersMatchId
    <2>3. \A a, b \in Queries : senders'[a][b] > 0 => Corr[a] = Corr[b]
      BY <1>6, <2>1 DEF Respond, TypeOK, IdInv
    <2> QED BY <1>6, <2>2, <2>3 DEF Respond, IdInv
  <1>7. ASSUME NEW p \in Queries, NEW q \in Queries, SkipSend(p, q)
        PROVE  IdInv'
    <2>1. \A a, b \in Queries : senders'[a][b] > 0 => Corr[a] = Corr[b]
      BY <1>7 DEF SkipSend, TypeOK, IdInv
    <2> QED BY <1>7, <2>1 DEF SkipSend, IdInv, AnswersMatchId, callerVars
  <1>8. ASSUME NEW id \in Ids, DeleteCallback(id)
        PROVE  IdInv'
    BY <1>8 DEF DeleteCallback, TypeOK, IdInv, AnswersMatchId, callerVars
  <1>9. CASE UNCHANGED vars
    BY <1>9 DEF vars, callerVars, rpcVars, IdInv, AnswersMatchId
  <1> QED BY <1>1, <1>2, <1>3, <1>4, <1>5, <1>6, <1>7, <1>8, <1>9 DEF Next, Run

\* The types and the match of ids are inductive, and answers match by them.
LEMMA MatchInductive ==
    ASSUME Constants
    PROVE  /\ Init => TypeOK /\ IdInv
           /\ TypeOK /\ IdInv /\ [Next]_vars => TypeOK' /\ IdInv'
           /\ IdInv => AnswersMatchId
  BY InitTypeOK, NextTypeOK, InitIdInv, NextIdInv DEF IdInv

\* The ids match in every reachable state.
THEOREM IdsMatch == ASSUME Constants PROVE Spec => []IdInv
  BY MatchInductive, PTL DEF Spec

\* QueryRPC returns only responses that carry the id of its own message, for any
\* ids the callers choose.
THEOREM MatchesId == ASSUME Constants PROVE Spec => []AnswersMatchId
  BY MatchInductive, PTL DEF Spec

-----------------------------------------------------------------------------

\* Every step of the query path is a step of QueryRPC or leaves the outcomes
\* alone: a query ends at most once, with an answer of its id or a timeout.
THEOREM Refinement == ASSUME Constants PROVE Spec => ImplementsSafety
  <1>1. Init => Promise!Init
    BY DEF Init, Promise!Init
  <1>2. TypeOK /\ IdInv /\ [Next]_vars => [Promise!Next]_(Promise!vars)
    <2> SUFFICES ASSUME TypeOK, IdInv, [Next]_vars
                 PROVE  [Promise!Next]_(Promise!vars)
      OBVIOUS
    <2> USE DEF Promise!Next, Promise!vars
    <2>1. ASSUME NEW q \in Queries, Run(q)
          PROVE  UNCHANGED Promise!vars
      BY <2>1 DEF Run, Publish, PublishFails
    <2>2. ASSUME NEW q \in Queries, Caller(q)
          PROVE  Promise!Next
      BY <2>2 DEF Caller, QueryRPC, TimeOut, Promise!Ask, Promise!TimeOut
    <2>3. ASSUME NEW q \in Queries, HandleRPCCallback(q) \/ Consumer(q) \/ Network(q)
          PROVE  UNCHANGED Promise!vars
      BY <2>3 DEF HandleRPCCallback, Consumer, HandleConsume, Reply, NoReply,
                  CallbackReplies, PublishReply,
                  Network, LoseRequest, LoseResponse, Redeliver, callerVars
    <2>4. ASSUME NEW p \in Queries, NEW q \in Queries, Respond(p, q)
          PROVE  Promise!Next
      <3>1. Corr[p] = Corr[q]
        BY <2>4 DEF Respond, IdInv
      <3>2. Promise!Answer(p)
        BY <2>4, <3>1 DEF Respond, Promise!Answer
      <3> QED BY <3>2
    <2>5. ASSUME NEW p \in Queries, NEW q \in Queries, SkipSend(p, q)
          PROVE  UNCHANGED Promise!vars
      BY <2>5 DEF SkipSend, callerVars
    <2>6. ASSUME NEW id \in Ids, DeleteCallback(id)
          PROVE  UNCHANGED Promise!vars
      BY <2>6 DEF DeleteCallback, callerVars
    <2>7. CASE UNCHANGED vars
      BY <2>7 DEF vars, callerVars
    <2> QED BY <2>1, <2>2, <2>3, <2>4, <2>5, <2>6, <2>7 DEF Next
  <1> QED BY <1>1, <1>2, TypeCorrect, IdsMatch, PTL DEF Spec, ImplementsSafety

=============================================================================
