--------------------------- MODULE ServicesProofs ---------------------------
(***************************************************************************)
(* Proofs about the components MCServices composes, for every value of     *)
(* their constants: KafkaConsumer; RabbitRPC, RabbitPublishers, PulsarRPC  *)
(* and MockMQ, whose own modules of proofs are instantiated; KafkaRPC;     *)
(* Healthz; AsyncRecordSaver; and the types of PulsarRPCInstance.  The     *)
(* theorems about the composition are those of SafetySpec.                 *)
(***************************************************************************)
EXTENDS MCServices, FiniteSetTheorems, SequenceTheorems, WellFoundedInduction, TLAPS

-----------------------------------------------------------------------------
(* KafkaConsumer *)

\* What the proofs need of the constants.
Constants == /\ MaxMsgs \in Nat \ {0} /\ MaxFaults \in Nat
             /\ NoPartition \notin Partitions

-----------------------------------------------------------------------------
(* Type correctness *)

\* The offset of what ReadMessage returned.
LEMMA ReadOffset ==
    ASSUME Constants, NEW m \in Messages \cup {ZeroMessage}
    PROVE  m.off \in 0 .. MaxMsgs - 1
BY DEF Constants, Messages, ZeroMessage, Message

\* A message of a partition.
LEMMA PartitionMessage ==
    ASSUME NEW p \in Partitions, NEW o \in 0 .. MaxMsgs - 1
    PROVE  Message(p, o) \in Messages
BY DEF Message, Messages

RangesInv == /\ TypeOK
             /\ restarts <= faults

LEMMA InitTypes == ASSUME Constants, Init PROVE RangesInv
<1>1. accepted \in Seq(Messages \cup {ZeroMessage})
  BY DEF Init
<1>2. /\ pos \in [Partitions -> 0 .. MaxMsgs] /\ committed \in [Partitions -> 0 .. MaxMsgs]
      /\ OffsetDict \in -1 .. MaxMsgs - 1
      /\ faults \in 0 .. MaxFaults /\ restarts \in 0 .. MaxFaults /\ restarts <= faults
  BY DEF Constants, Init
<1> QED
  BY <1>1, <1>2 DEF Init, RangesInv, TypeOK

LEMMA AppendType == ASSUME NEW S, NEW s \in Seq(S), NEW x \in S PROVE Append(s, x) \in Seq(S)
OBVIOUS

\* A message that was read passes the test or does not.
LEMMA TestTypes ==
    ASSUME Constants, TypeOK, NEW m \in Messages \cup {ZeroMessage}, OffsetTest(m),
           UNCHANGED <<running, cancel>>
    PROVE  /\ at' \in {"test", "ctx", "read", "callback", "closed"}
           /\ OffsetDict' \in -1 .. MaxMsgs - 1
           /\ cur' \in Messages \cup {ZeroMessage}
           /\ accepted' \in Seq(Messages \cup {ZeroMessage})
           /\ skipped' \subseteq Messages \cup {ZeroMessage}
           /\ afterStop' \in Nat
<1>1. accepted' \in Seq(Messages \cup {ZeroMessage})
  <2>1. accepted' = Append(accepted, m) \/ accepted' = accepted
    BY DEF OffsetTest
  <2>2. accepted \in Seq(Messages \cup {ZeroMessage})
    BY DEF TypeOK
  <2> QED
    BY <2>1, <2>2, AppendType
<1>2. OffsetDict' \in -1 .. MaxMsgs - 1
  BY ReadOffset DEF Constants, TypeOK, OffsetTest
<1>3. at' \in {"test", "ctx", "read", "callback", "closed"}
  BY DEF OffsetTest
<1>4. cur' \in Messages \cup {ZeroMessage} /\ skipped' \subseteq Messages \cup {ZeroMessage}
  BY DEF TypeOK, OffsetTest
<1>5. afterStop' \in Nat
  BY DEF TypeOK, OffsetTest
<1> QED
  BY <1>1, <1>2, <1>3, <1>4, <1>5

LEMMA StepTypes == ASSUME Constants, RangesInv, [Next]_vars PROVE RangesInv'
<1> USE DEF Constants, RangesInv, Fault
<1>1. CASE LoopTest
  BY <1>1 DEF TypeOK, LoopTest, stopVars, groupVars, faultVars
<1>2. CASE NewContext
  BY <1>2 DEF TypeOK, NewContext, stopVars, groupVars, faultVars
<1>3. ASSUME NEW p \in Partitions, ReadMessage(p) PROVE RangesInv'
  <2>1. Message(p, pos[p]) \in Messages
    BY <1>3, PartitionMessage DEF TypeOK, ReadMessage
  <2>2. pos' \in [Partitions -> 0 .. MaxMsgs]
    BY <1>3 DEF TypeOK, ReadMessage
  <2> QED
    BY <1>3, <2>1, <2>2, TestTypes DEF TypeOK, ReadMessage, stopVars, faultVars
<1>4. CASE ReadFails
  <2>1. OffsetTest(ZeroMessage) /\ UNCHANGED <<running, cancel>>
    BY <1>4 DEF ReadFails
  <2>2. faults' \in 0 .. MaxFaults /\ restarts' = restarts /\ restarts <= faults'
    BY <1>4 DEF TypeOK, ReadFails
  <2> QED
    BY <1>4, <2>1, <2>2, TestTypes DEF TypeOK, ReadFails, stopVars, groupVars
<1>5. CASE CallbackReturns
  BY <1>5 DEF TypeOK, CallbackReturns, stopVars, groupVars, faultVars
<1>6. CASE StopClearsFlag
  BY <1>6 DEF TypeOK, StopClearsFlag, groupVars, faultVars
<1>7. CASE StopCancels
  BY <1>7 DEF TypeOK, StopCancels, groupVars, faultVars
<1>8. ASSUME NEW p \in Partitions, OtherMember(p) PROVE RangesInv'
  <2>1. Message(p, committed[p]) \in Messages
    BY <1>8, PartitionMessage DEF TypeOK, OtherMember
  <2>2. committed' \in [Partitions -> 0 .. MaxMsgs]
    BY <1>8 DEF TypeOK, OtherMember
  <2> QED
    BY <1>8, <2>1, <2>2 DEF TypeOK, OtherMember, loopVars, stopVars, faultVars
<1>9. CASE Commit
  <2>1. committed' \in [Partitions -> 0 .. MaxMsgs]
    BY <1>9 DEF TypeOK, Commit
  <2> QED
    BY <1>9, <2>1 DEF TypeOK, Commit, loopVars, stopVars, faultVars
<1>10. CASE Rebalance
  BY <1>10 DEF TypeOK, Rebalance, loopVars, stopVars
<1>11. CASE Restart
  <2>1. accepted' \in Seq(Messages \cup {ZeroMessage})
    BY <1>11 DEF Restart
  <2>2. OffsetDict' \in -1 .. MaxMsgs - 1 /\ afterStop' \in Nat
    BY <1>11 DEF Restart
  <2>3. faults' \in 0 .. MaxFaults /\ restarts' \in 0 .. MaxFaults /\ restarts' <= faults'
    BY <1>11 DEF Restart, TypeOK
  <2>4. dropped' \subseteq Messages \cup {ZeroMessage} /\ skipped' \subseteq Messages
    BY <1>11 DEF Restart, TypeOK
  <2> QED
    BY <1>11, <2>1, <2>2, <2>3, <2>4 DEF TypeOK, Restart
<1>12. CASE UNCHANGED vars
  BY <1>12 DEF TypeOK, vars, loopVars, stopVars, groupVars, faultVars
<1> QED
  BY <1>1, <1>2, <1>3, <1>4, <1>5, <1>6, <1>7, <1>8, <1>9, <1>10, <1>11, <1>12
  DEF Next, Reader

\* Every variable of the consumer keeps to its type; in particular the offset
\* that Receive remembers is one a message can have.
THEOREM TypeCorrect == ASSUME Constants PROVE Spec => []TypeOK
<1>1. Init => RangesInv
  BY InitTypes
<1>2. RangesInv /\ [Next]_vars => RangesInv'
  BY StepTypes
<1>3. RangesInv => TypeOK
  BY DEF RangesInv
<1> QED
  BY <1>1, <1>2, <1>3, PTL DEF Spec

-----------------------------------------------------------------------------
(* One handing over per process, and why messages are skipped *)

\* What the process has taken or skipped.
Seen == {accepted[i] : i \in 1 .. Len(accepted)} \cup skipped

\* OffsetDict is the offset of the last message that was accepted.
LastInv == IF accepted = << >> THEN OffsetDict = -1
           ELSE OffsetDict = accepted[Len(accepted)].off

\* Between the committed offset and what the reader has fetched, and up to any
\* message the process took, nothing of a partition was left out.
FetchInv ==
    \A p \in Partitions :
        /\ p \in assigned => /\ committed[p] <= pos[p]
                             /\ \A o \in committed[p] .. pos[p] - 1 : Message(p, o) \in Seen
        /\ \A i \in 1 .. Len(accepted) : accepted[i].part = p =>
               \A o \in committed[p] .. accepted[i].off : Message(p, o) \in Seen

OffsetInv == RangesInv /\ LastInv /\ HandledOnceByProcess /\ FetchInv /\ SkippedForAReason

\* Appending a message above the last one keeps the order and the last offset.
LEMMA TestKeepsOrder ==
    ASSUME Constants, OffsetInv, NEW m \in Messages \cup {ZeroMessage}, OffsetTest(m)
    PROVE  LastInv' /\ HandledOnceByProcess'
<1> DEFINE R == Messages \cup {ZeroMessage}
<1>1. accepted \in Seq(R) /\ m.off \in Int /\ OffsetDict \in Int
  BY ReadOffset DEF OffsetInv, RangesInv, TypeOK, Constants
<1>2. \A i \in 1 .. Len(accepted) : accepted[i].off \in Int
  BY <1>1, ReadOffset DEF Constants
<1>3. CASE m.off > OffsetDict
  <2>1. accepted' = Append(accepted, m) /\ OffsetDict' = m.off
    BY <1>3 DEF OffsetTest
  <2>2. /\ Len(accepted') = Len(accepted) + 1 /\ accepted'[Len(accepted')] = m
        /\ \A i \in 1 .. Len(accepted) : accepted'[i] = accepted[i]
        /\ Len(accepted) \in Nat
    BY <1>1, <2>1
  <2>3. ASSUME NEW i \in 1 .. Len(accepted) PROVE accepted[i].off <= OffsetDict
    <3>1. accepted # << >> /\ Len(accepted) \in 1 .. Len(accepted)
      BY <1>1
    <3>2. OffsetDict = accepted[Len(accepted)].off
      BY <3>1 DEF OffsetInv, LastInv
    <3>3. i < Len(accepted) => accepted[i].off < accepted[Len(accepted)].off
      BY <3>1 DEF OffsetInv, HandledOnceByProcess
    <3> QED
      BY <1>1, <1>2, <3>1, <3>2, <3>3
  <2>4. LastInv'
    BY <2>1, <2>2 DEF LastInv
  <2>5. ASSUME NEW i \in 1 .. Len(accepted'), NEW j \in 1 .. Len(accepted'), i < j
        PROVE  accepted'[i].off < accepted'[j].off
    <3>1. i \in 1 .. Len(accepted) /\ accepted'[i] = accepted[i]
      BY <2>2, <2>5
    <3>2. CASE j = Len(accepted')
      BY <1>1, <1>2, <1>3, <2>2, <2>3, <3>1, <3>2
    <3>3. CASE j \in 1 .. Len(accepted)
      BY <2>2, <2>5, <3>1, <3>3 DEF OffsetInv, HandledOnceByProcess
    <3> QED
      BY <2>2, <3>2, <3>3
  <2> QED
    BY <2>4, <2>5 DEF HandledOnceByProcess
<1>4. CASE ~(m.off > OffsetDict)
  BY <1>4 DEF OffsetTest, OffsetInv, LastInv, HandledOnceByProcess
<1> QED
  BY <1>3, <1>4

\* The test adds its message, and nothing else, to what was seen.
LEMMA TestSees ==
    ASSUME TypeOK, NEW m \in Messages \cup {ZeroMessage}, OffsetTest(m)
    PROVE  /\ Seen' = Seen \cup {m}
           /\ Len(accepted) \in Nat /\ Len(accepted') \in Nat /\ Len(accepted) <= Len(accepted')
           /\ \A i \in 1 .. Len(accepted) : accepted'[i] = accepted[i]
           /\ \A i \in 1 .. Len(accepted') : i \in 1 .. Len(accepted) \/ accepted'[i] = m
<1>1. accepted \in Seq(Messages \cup {ZeroMessage})
  BY DEF TypeOK
<1>2. CASE m.off > OffsetDict
  <2>1. accepted' = Append(accepted, m) /\ skipped' = skipped
    BY <1>2 DEF OffsetTest
  <2>2. /\ Len(accepted') = Len(accepted) + 1 /\ accepted'[Len(accepted')] = m
        /\ \A i \in 1 .. Len(accepted) : accepted'[i] = accepted[i]
        /\ Len(accepted) \in Nat
    BY <1>1, <2>1
  <2>3. {accepted'[i] : i \in 1 .. Len(accepted')} = {accepted[i] : i \in 1 .. Len(accepted)} \cup {m}
    BY <2>2
  <2> QED
    BY <2>1, <2>2, <2>3 DEF Seen
<1>3. CASE ~(m.off > OffsetDict)
  BY <1>1, <1>3 DEF OffsetTest, Seen
<1> QED
  BY <1>2, <1>3

LEMMA ReadKeepsOffsets ==
    ASSUME Constants, OffsetInv, NEW p \in Partitions, ReadMessage(p)
    PROVE  LastInv' /\ HandledOnceByProcess' /\ FetchInv' /\ SkippedForAReason'
<1> DEFINE m == Message(p, pos[p])
<1>1. /\ TypeOK /\ p \in assigned /\ pos[p] \in 0 .. MaxMsgs - 1 /\ OffsetTest(m)
      /\ pos' = [pos EXCEPT ![p] = @ + 1] /\ UNCHANGED <<committed, assigned>>
      /\ pos \in [Partitions -> 0 .. MaxMsgs] /\ committed \in [Partitions -> 0 .. MaxMsgs]
      /\ MaxMsgs \in Nat \ {0}
  BY DEF OffsetInv, RangesInv, TypeOK, ReadMessage, Constants
<1>2. m \in Messages \cup {ZeroMessage} /\ m.part = p /\ m.off = pos[p]
  BY <1>1, PartitionMessage DEF Message
<1>3. LastInv' /\ HandledOnceByProcess'
  BY <1>1, <1>2, TestKeepsOrder
<1>4. /\ Seen' = Seen \cup {m} /\ Len(accepted) \in Nat /\ Len(accepted') \in Nat
      /\ Len(accepted) <= Len(accepted')
      /\ \A i \in 1 .. Len(accepted) : accepted'[i] = accepted[i]
      /\ \A i \in 1 .. Len(accepted') : i \in 1 .. Len(accepted) \/ accepted'[i] = m
  BY <1>1, <1>2, TestSees
<1>5. FetchInv'
  <2> SUFFICES ASSUME NEW q \in Partitions
               PROVE  /\ q \in assigned =>
                            /\ committed[q] <= pos'[q]
                            /\ \A o \in committed[q] .. pos'[q] - 1 : Message(q, o) \in Seen'
                      /\ \A i \in 1 .. Len(accepted') : accepted'[i].part = q =>
                            \A o \in committed[q] .. accepted'[i].off : Message(q, o) \in Seen'
    BY <1>1 DEF FetchInv
  <2>1. committed[q] \in Nat /\ pos[q] \in Nat
    BY <1>1
  <2>2. /\ q \in assigned => /\ committed[q] <= pos[q]
                             /\ \A o \in committed[q] .. pos[q] - 1 : Message(q, o) \in Seen
        /\ \A i \in 1 .. Len(accepted) : accepted[i].part = q =>
               \A o \in committed[q] .. accepted[i].off : Message(q, o) \in Seen
    BY DEF OffsetInv, FetchInv
  <2>3. pos'[q] = IF q = p THEN pos[q] + 1 ELSE pos[q]
    BY <1>1
  <2>4. ASSUME q \in assigned
        PROVE  /\ committed[q] <= pos'[q]
               /\ \A o \in committed[q] .. pos'[q] - 1 : Message(q, o) \in Seen'
    <3>1. committed[q] <= pos'[q]
      BY <2>1, <2>2, <2>3, <2>4
    <3>2. ASSUME NEW o \in committed[q] .. pos'[q] - 1 PROVE Message(q, o) \in Seen'
      <4>1. o \in committed[q] .. pos[q] - 1 \/ (q = p /\ o = pos[p])
        BY <2>1, <2>3, <3>2
      <4> QED
        BY <1>4, <2>2, <2>4, <4>1
    <3> QED
      BY <3>1, <3>2
  <2>5. ASSUME NEW i \in 1 .. Len(accepted'), accepted'[i].part = q,
               NEW o \in committed[q] .. accepted'[i].off
        PROVE  Message(q, o) \in Seen'
    <3>1. CASE i \in 1 .. Len(accepted)
      BY <1>4, <2>2, <2>5, <3>1
    <3>2. CASE accepted'[i] = m
      <4>1. q = p /\ accepted'[i].off = pos[p]
        BY <1>2, <2>5, <3>2
      <4>2. o \in committed[q] .. pos[q] - 1 \/ o = pos[p]
        BY <2>1, <2>5, <4>1
      <4> QED
        BY <1>1, <1>4, <2>2, <4>1, <4>2
    <3> QED
      BY <1>4, <3>1, <3>2
  <2> QED
    BY <2>4, <2>5
<1>6. SkippedForAReason'
  <2> SUFFICES ASSUME NEW n \in skipped' \ {ZeroMessage}
               PROVE  \E i \in 1 .. Len(accepted') :
                          /\ accepted'[i].off >= n.off
                          /\ accepted'[i] = n \/ accepted'[i].part # n.part
    BY DEF SkippedForAReason, ZeroMessage, Message
  <2>1. ASSUME NEW i \in 1 .. Len(accepted), accepted[i].off >= n.off,
               accepted[i] = n \/ accepted[i].part # n.part
        PROVE  \E j \in 1 .. Len(accepted') :
                          /\ accepted'[j].off >= n.off
                          /\ accepted'[j] = n \/ accepted'[j].part # n.part
    <3>1. i \in 1 .. Len(accepted') /\ accepted'[i] = accepted[i]
      BY <1>4
    <3> QED
      BY <2>1, <3>1
  <2>2. CASE n \in skipped
    BY <2>1, <2>2 DEF OffsetInv, SkippedForAReason
  <2>3. CASE n \notin skipped
    <3>1. n = m /\ ~(m.off > OffsetDict)
      BY <1>1, <2>3 DEF OffsetTest
    <3>2. accepted \in Seq(Messages \cup {ZeroMessage}) /\ OffsetDict \in Int
      BY <1>1 DEF TypeOK
    <3>3. accepted # << >>
      BY <1>1, <1>2, <3>1 DEF OffsetInv, LastInv
    <3>4. Len(accepted) \in 1 .. Len(accepted)
      BY <3>2, <3>3
    <3>5. accepted[Len(accepted)].off = OffsetDict
      BY <3>3 DEF OffsetInv, LastInv
    <3>6. CASE accepted[Len(accepted)].part # p
      BY <1>1, <1>2, <2>1, <3>1, <3>2, <3>4, <3>5, <3>6
    <3>7. CASE accepted[Len(accepted)].part = p
      <4>1. pos[p] \in committed[p] .. accepted[Len(accepted)].off
        BY <1>1, <1>2, <3>1, <3>2, <3>5 DEF OffsetInv, FetchInv
      <4>2. m \in Seen
        BY <3>4, <3>7, <4>1 DEF OffsetInv, FetchInv
      <4>3. PICK i \in 1 .. Len(accepted) : accepted[i] = m
        BY <2>3, <3>1, <4>2 DEF Seen
      <4> QED
        BY <1>1, <1>2, <2>1, <3>1, <4>3
    <3> QED
      BY <3>6, <3>7
  <2> QED
    BY <2>2, <2>3
<1> QED
  BY <1>3, <1>5, <1>6

\* The zero message of a failed read is of no partition.
LEMMA FailKeepsOffsets ==
    ASSUME Constants, OffsetInv, ReadFails
    PROVE  LastInv' /\ HandledOnceByProcess' /\ FetchInv' /\ SkippedForAReason'
<1>1. TypeOK /\ OffsetTest(ZeroMessage) /\ UNCHANGED <<pos, committed, assigned>>
  BY DEF OffsetInv, RangesInv, ReadFails, groupVars
<1>2. ZeroMessage.part \notin Partitions
  BY DEF Constants, ZeroMessage, Message
<1>3. LastInv' /\ HandledOnceByProcess'
  BY <1>1, TestKeepsOrder
<1>4. /\ Seen' = Seen \cup {ZeroMessage} /\ Len(accepted) \in Nat
      /\ Len(accepted') \in Nat /\ Len(accepted) <= Len(accepted')
      /\ \A i \in 1 .. Len(accepted) : accepted'[i] = accepted[i]
      /\ \A i \in 1 .. Len(accepted') : i \in 1 .. Len(accepted) \/ accepted'[i] = ZeroMessage
  BY <1>1, TestSees
<1>5. FetchInv'
  <2> SUFFICES ASSUME NEW q \in Partitions
               PROVE  /\ q \in assigned =>
                            /\ committed[q] <= pos[q]
                            /\ \A o \in committed[q] .. pos[q] - 1 : Message(q, o) \in Seen'
                      /\ \A i \in 1 .. Len(accepted') : accepted'[i].part = q =>
                            \A o \in committed[q] .. accepted'[i].off : Message(q, o) \in Seen'
    BY <1>1 DEF FetchInv
  <2>1. ASSUME NEW i \in 1 .. Len(accepted'), accepted'[i].part = q
        PROVE  i \in 1 .. Len(accepted) /\ accepted'[i] = accepted[i]
    BY <1>2, <1>4, <2>1
  <2> QED
    BY <1>4, <2>1 DEF OffsetInv, FetchInv
<1>6. SkippedForAReason'
  <2> SUFFICES ASSUME NEW n \in skipped' \ {ZeroMessage}
               PROVE  \E i \in 1 .. Len(accepted') :
                          /\ accepted'[i].off >= n.off
                          /\ accepted'[i] = n \/ accepted'[i].part # n.part
    BY DEF SkippedForAReason, ZeroMessage, Message
  <2>1. n \in skipped \ {ZeroMessage}
    BY <1>1 DEF OffsetTest
  <2>2. PICK i \in 1 .. Len(accepted) : /\ accepted[i].off >= n.off
                                        /\ accepted[i] = n \/ accepted[i].part # n.part
    BY <2>1 DEF OffsetInv, SkippedForAReason
  <2>3. i \in 1 .. Len(accepted') /\ accepted'[i] = accepted[i]
    BY <1>4
  <2> QED
    BY <2>2, <2>3
<1> QED
  BY <1>3, <1>5, <1>6

\* What the group does: committed offsets grow, and a reader that goes back goes
\* back to them.
LEMMA GroupKeepsOffsets ==
    ASSUME Constants, OffsetInv, UNCHANGED <<OffsetDict, accepted, skipped>>,
           pos' \in [Partitions -> Nat], committed' \in [Partitions -> Nat],
           \A q \in Partitions : committed[q] <= committed'[q],
           \A q \in Partitions : q \in assigned' =>
               \/ pos'[q] = committed'[q]
               \/ q \in assigned /\ pos'[q] = pos[q] /\ committed'[q] = committed[q]
    PROVE  LastInv' /\ HandledOnceByProcess' /\ FetchInv' /\ SkippedForAReason'
<1>1. LastInv' /\ HandledOnceByProcess' /\ SkippedForAReason'
  BY DEF OffsetInv, LastInv, HandledOnceByProcess, SkippedForAReason, ZeroMessage, Message
<1>2. FetchInv'
  <2> SUFFICES ASSUME NEW q \in Partitions
               PROVE  /\ q \in assigned' =>
                            /\ committed'[q] <= pos'[q]
                            /\ \A o \in committed'[q] .. pos'[q] - 1 : Message(q, o) \in Seen
                      /\ \A i \in 1 .. Len(accepted) : accepted[i].part = q =>
                            \A o \in committed'[q] .. accepted[i].off : Message(q, o) \in Seen
    BY DEF FetchInv, Seen
  <2>1. /\ q \in assigned => /\ committed[q] <= pos[q]
                             /\ \A o \in committed[q] .. pos[q] - 1 : Message(q, o) \in Seen
        /\ \A i \in 1 .. Len(accepted) : accepted[i].part = q =>
               \A o \in committed[q] .. accepted[i].off : Message(q, o) \in Seen
    BY DEF OffsetInv, FetchInv
  <2>2. /\ committed[q] \in Int /\ committed'[q] \in Int /\ pos'[q] \in Int
        /\ committed[q] <= committed'[q]
    BY DEF OffsetInv, RangesInv, TypeOK, Constants
  <2>3. q \in assigned' => /\ committed'[q] <= pos'[q]
                           /\ \A o \in committed'[q] .. pos'[q] - 1 : Message(q, o) \in Seen
    BY <2>1, <2>2
  <2>4. ASSUME NEW i \in 1 .. Len(accepted), accepted[i].part = q,
               NEW o \in committed'[q] .. accepted[i].off
        PROVE  Message(q, o) \in Seen
    <3>1. accepted[i].off \in Int
      BY ReadOffset DEF OffsetInv, RangesInv, TypeOK, Constants
    <3>2. o \in committed[q] .. accepted[i].off
      BY <2>2, <3>1
    <3> QED
      BY <2>1, <2>4, <3>2
  <2> QED
    BY <2>3, <2>4
<1> QED
  BY <1>1, <1>2

LEMMA StepOffsets == ASSUME Constants, OffsetInv, [Next]_vars PROVE OffsetInv'
<1>1. RangesInv'
  BY StepTypes DEF OffsetInv
<1>2. /\ committed \in [Partitions -> 0 .. MaxMsgs] /\ committed' \in [Partitions -> Nat]
      /\ pos \in [Partitions -> 0 .. MaxMsgs] /\ pos' \in [Partitions -> Nat]
      /\ MaxMsgs \in Nat
  BY <1>1 DEF OffsetInv, RangesInv, TypeOK, Constants
<1>3. ASSUME UNCHANGED <<OffsetDict, accepted, skipped, groupVars>> PROVE OffsetInv'
  BY <1>1, <1>2, <1>3, GroupKeepsOffsets DEF OffsetInv, groupVars
<1>4. ASSUME NEW p \in Partitions, ReadMessage(p) PROVE OffsetInv'
  BY <1>1, <1>4, ReadKeepsOffsets DEF OffsetInv
<1>5. CASE ReadFails
  BY <1>1, <1>5, FailKeepsOffsets DEF OffsetInv
<1>6. ASSUME NEW p \in Partitions, OtherMember(p) PROVE OffsetInv'
  <2>1. \A q \in Partitions : committed[q] <= committed'[q] /\ (q # p => committed'[q] = committed[q])
    BY <1>2, <1>6 DEF OtherMember
  <2> QED
    BY <1>1, <1>2, <1>6, <2>1, GroupKeepsOffsets DEF OffsetInv, OtherMember, loopVars
<1>7. CASE Commit
  <2>1. \A q \in Partitions : q \in assigned => committed[q] <= pos[q]
    BY DEF OffsetInv, FetchInv
  <2>2. \A q \in Partitions : /\ committed[q] <= committed'[q]
                              /\ q \in assigned => pos'[q] = committed'[q]
    BY <1>2, <1>7, <2>1 DEF Commit
  <2> QED
    BY <1>1, <1>2, <1>7, <2>2, GroupKeepsOffsets DEF OffsetInv, Commit, loopVars
<1>8. CASE Rebalance
  <2>1. \A q \in Partitions : committed[q] <= committed'[q] /\ pos'[q] = committed'[q]
    BY <1>2, <1>8 DEF Rebalance
  <2> QED
    BY <1>1, <1>2, <1>8, <2>1, GroupKeepsOffsets DEF OffsetInv, Rebalance, loopVars
<1>9. CASE Restart
  <2>1. accepted' = << >> /\ skipped' = {} /\ OffsetDict' = -1 /\ pos' = committed /\ committed' = committed
    BY <1>9 DEF Restart
  <2>2. LastInv' /\ HandledOnceByProcess' /\ SkippedForAReason'
    BY <2>1 DEF LastInv, HandledOnceByProcess, SkippedForAReason
  <2>3. FetchInv'
    BY <1>2, <2>1 DEF FetchInv
  <2> QED
    BY <1>1, <2>2, <2>3 DEF OffsetInv
<1>10. CASE \/ LoopTest \/ NewContext \/ CallbackReturns
            \/ StopClearsFlag \/ StopCancels \/ UNCHANGED vars
  BY <1>3, <1>10 DEF LoopTest, NewContext, CallbackReturns, StopClearsFlag, StopCancels,
                     vars, loopVars
<1> QED
  BY <1>4, <1>5, <1>6, <1>7, <1>8, <1>9, <1>10 DEF Next, Reader

LEMMA InitOffsets == ASSUME Constants, Init PROVE OffsetInv
<1>1. RangesInv
  BY InitTypes
<1>2. LastInv /\ HandledOnceByProcess /\ SkippedForAReason
  BY DEF Init, LastInv, HandledOnceByProcess, SkippedForAReason
<1>3. FetchInv
  BY DEF Init, FetchInv
<1> QED
  BY <1>1, <1>2, <1>3 DEF OffsetInv

\* However often the group sends the reader back, a process hands a message to
\* the callback once.
THEOREM HandledOnce == ASSUME Constants PROVE Spec => []HandledOnceByProcess
<1>1. Init => OffsetInv
  BY InitOffsets
<1>2. OffsetInv /\ [Next]_vars => OffsetInv'
  BY StepOffsets
<1>3. OffsetInv => HandledOnceByProcess
  BY DEF OffsetInv
<1> QED
  BY <1>1, <1>2, <1>3, PTL DEF Spec

\* A message is skipped because it was taken before, or for a message of another
\* partition, or for a failed read.
THEOREM SkippedCorrect == ASSUME Constants PROVE Spec => []SkippedForAReason
<1>1. Init => OffsetInv
  BY InitOffsets
<1>2. OffsetInv /\ [Next]_vars => OffsetInv'
  BY StepOffsets
<1>3. OffsetInv => SkippedForAReason
  BY DEF OffsetInv
<1> QED
  BY <1>1, <1>2, <1>3, PTL DEF Spec

-----------------------------------------------------------------------------
(* StopConsumer *)

\* After StopConsumer the flag stays cleared, and a goroutine that has called back
\* since is no longer past its test.
StopInv ==
    /\ stop # "no" => ~running
    /\ afterStop \in {0, 1}
    /\ afterStop = 1 => stop = "returned" /\ at \in {"callback", "test", "closed"}

LEMMA StepStop == ASSUME StopInv, [Next]_vars PROVE StopInv'
<1>1. ASSUME NEW m, OffsetTest(m), at = "read", UNCHANGED <<running, stop>> PROVE StopInv'
  BY <1>1 DEF StopInv, OffsetTest
<1>2. ASSUME NEW p \in Partitions, ReadMessage(p) PROVE StopInv'
  BY <1>1, <1>2 DEF ReadMessage, stopVars
<1>3. CASE ReadFails
  BY <1>1, <1>3 DEF ReadFails, stopVars
<1>4. CASE LoopTest
  BY <1>4 DEF StopInv, LoopTest, stopVars
<1>5. CASE NewContext
  BY <1>5 DEF StopInv, NewContext, stopVars
<1>6. CASE CallbackReturns
  BY <1>6 DEF StopInv, CallbackReturns, stopVars
<1>7. CASE StopClearsFlag
  BY <1>7 DEF StopInv, StopClearsFlag
<1>8. CASE StopCancels
  BY <1>8 DEF StopInv, StopCancels
<1>9. CASE Restart
  BY <1>9 DEF StopInv, Restart
<1>10. CASE \/ \E p \in Partitions : OtherMember(p)
            \/ Commit \/ Rebalance \/ UNCHANGED vars
  BY <1>10 DEF StopInv, OtherMember, Commit, Rebalance, vars, loopVars, stopVars
<1> QED
  BY <1>2, <1>3, <1>4, <1>5, <1>6, <1>7, <1>8, <1>9, <1>10 DEF Next, Reader

\* StopConsumer is followed by one callback at most.
THEOREM StopCorrect == Spec => []OneCallbackAfterStop
<1>1. Init => StopInv
  BY DEF Init, StopInv
<1>2. StopInv /\ [Next]_vars => StopInv'
  BY StepStop
<1>3. StopInv => OneCallbackAfterStop
  BY DEF StopInv, OneCallbackAfterStop
<1> QED
  BY <1>1, <1>2, <1>3, PTL DEF Spec

-----------------------------------------------------------------------------
(* What a restart loses *)

\* The messages that were fetched or committed and that nobody has handled,
\* skipped or in the callback: what is lost once it is committed.
Unaccounted == {m \in Messages : /\ m.off < committed[m.part] \/ m.off < pos[m.part]
                                 /\ m \notin handled \cup skipped \cup dropped
                                 /\ ~(at = "callback" /\ cur = m)}

\* OneLostPerRestart must hold of what the next commit takes over, too.
LostInv == /\ IsFiniteSet(Unaccounted)
           /\ Cardinality(Unaccounted) <= restarts /\ restarts \in Nat

\* Fewer unaccounted messages and as many restarts keep the bound.
LEMMA FewerLost ==
    ASSUME LostInv, Unaccounted' \subseteq Unaccounted, restarts' = restarts
    PROVE  LostInv'
<1>1. IsFiniteSet(Unaccounted') /\ Cardinality(Unaccounted') <= Cardinality(Unaccounted)
  BY FS_Subset DEF LostInv
<1>2. Cardinality(Unaccounted) \in Nat /\ Cardinality(Unaccounted') \in Nat
  BY <1>1, FS_CardinalityType DEF LostInv
<1> QED
  BY <1>1, <1>2 DEF LostInv

\* A message that was read goes to the callback or is skipped, and what was
\* unaccounted for before was not in the callback then either.
LEMMA TestAccounts ==
    ASSUME at = "read", NEW m, OffsetTest(m), UNCHANGED <<committed, handled, dropped>>,
           \A n \in Messages : n.off < pos'[n.part] => n.off < pos[n.part] \/ n = m
    PROVE  Unaccounted' \subseteq Unaccounted
<1> SUFFICES ASSUME NEW n \in Messages, n \in Unaccounted' PROVE n \in Unaccounted
  BY DEF Unaccounted
<1>1. /\ n.off < committed[n.part] \/ n.off < pos[n.part] \/ n = m
      /\ n \notin handled \cup skipped' \cup dropped /\ ~(at' = "callback" /\ cur' = n)
  BY DEF Unaccounted
<1>2. n # m /\ n \notin skipped
  BY <1>1 DEF OffsetTest
<1> QED
  BY <1>1, <1>2 DEF Unaccounted

LEMMA StepLost == ASSUME Constants, RangesInv, LostInv, [Next]_vars PROVE LostInv'
<1>1. ASSUME NEW p \in Partitions, ReadMessage(p) PROVE LostInv'
  <2>1. /\ at = "read" /\ OffsetTest(Message(p, pos[p]))
        /\ UNCHANGED <<committed, handled, dropped, restarts>>
    BY <1>1 DEF ReadMessage, faultVars
  <2>2. ASSUME NEW n \in Messages, n.off < pos'[n.part]
        PROVE  n.off < pos[n.part] \/ n = Message(p, pos[p])
    <3>1. n.part \in Partitions /\ n.off \in 0 .. MaxMsgs - 1 /\ n = Message(n.part, n.off)
      BY DEF Messages, Message
    <3>2. pos'[n.part] = IF n.part = p THEN pos[p] + 1 ELSE pos[n.part]
      BY <1>1, <3>1 DEF ReadMessage, RangesInv, TypeOK
    <3>3. CASE n.part = p
      <4>1. pos[p] \in Nat /\ n.off \in Nat /\ n.off < pos[p] + 1
        BY <2>2, <3>1, <3>2, <3>3 DEF RangesInv, TypeOK, Constants
      <4>2. n.off < pos[p] \/ n.off = pos[p]
        BY <4>1
      <4> QED
        BY <3>1, <3>3, <4>2
    <3>4. CASE n.part # p
      BY <2>2, <3>2, <3>4
    <3> QED
      BY <3>3, <3>4
  <2>3. Unaccounted' \subseteq Unaccounted
    BY <2>1, <2>2, TestAccounts
  <2> QED
    BY <2>1, <2>3, FewerLost
<1>2. CASE ReadFails
  <2>1. /\ at = "read" /\ OffsetTest(ZeroMessage)
        /\ UNCHANGED <<pos, committed, handled, dropped, restarts>>
    BY <1>2 DEF ReadFails, groupVars
  <2>2. Unaccounted' \subseteq Unaccounted
    BY <2>1, TestAccounts
  <2> QED
    BY <2>1, <2>2, FewerLost
<1>3. CASE LoopTest \/ NewContext \/ CallbackReturns \/ StopClearsFlag \/ StopCancels \/ UNCHANGED vars
  <2>1. Unaccounted' \subseteq Unaccounted
    BY <1>3 DEF LoopTest, NewContext, CallbackReturns, StopClearsFlag, StopCancels,
       Unaccounted, vars, loopVars, groupVars
  <2>2. restarts' = restarts
    BY <1>3 DEF LoopTest, NewContext, CallbackReturns, StopClearsFlag, StopCancels,
       vars, faultVars
  <2> QED
    BY <2>1, <2>2, FewerLost
<1>4. ASSUME NEW p \in Partitions, OtherMember(p) PROVE LostInv'
  <2>1. /\ committed' = [committed EXCEPT ![p] = @ + 1]
        /\ handled' = handled \cup {Message(p, committed[p])}
        /\ UNCHANGED <<at, cur, skipped, pos, dropped, restarts>>
    BY <1>4 DEF OtherMember, loopVars, faultVars
  <2>2. ASSUME NEW n \in Messages, n \in Unaccounted' PROVE n \in Unaccounted
    <3>1. /\ n.part \in Partitions /\ n.off \in 0 .. MaxMsgs - 1 /\ n = Message(n.part, n.off)
          /\ n # Message(p, committed[p])
      BY <2>1, <2>2 DEF Messages, Message, Unaccounted
    <3>2. committed'[n.part] = IF n.part = p THEN committed[p] + 1 ELSE committed[n.part]
      BY <2>1, <3>1 DEF RangesInv, TypeOK
    <3>3. n.off < committed'[n.part] => n.off < committed[n.part]
      BY <3>1, <3>2 DEF RangesInv, TypeOK, Constants
    <3> QED
      BY <2>1, <2>2, <3>3 DEF Unaccounted
  <2>3. Unaccounted' \subseteq Unaccounted
    BY <2>2 DEF Unaccounted
  <2> QED
    BY <2>1, <2>3, FewerLost
<1>5. CASE Commit \/ Rebalance
  <2>1. \A q \in Partitions : committed'[q] \in {committed[q], pos[q]} /\ pos'[q] \in {committed[q], pos[q]}
    BY <1>5 DEF Commit, Rebalance
  <2>2. UNCHANGED <<at, cur, skipped, handled, dropped, restarts>>
    BY <1>5 DEF Commit, Rebalance, loopVars, faultVars
  <2>3. ASSUME NEW n \in Messages, n \in Unaccounted' PROVE n \in Unaccounted
    <3>1. n.part \in Partitions
      BY DEF Messages
    <3> QED
      BY <2>1, <2>2, <2>3, <3>1 DEF Unaccounted
  <2>4. Unaccounted' \subseteq Unaccounted
    BY <2>3 DEF Unaccounted
  <2> QED
    BY <2>2, <2>4, FewerLost
\* The message in the callback is the only one a restart can add.
<1>6. CASE Restart
  <2>1. /\ pos' = committed /\ committed' = committed /\ handled' = handled
        /\ dropped' = dropped \cup skipped /\ restarts' = restarts + 1
    BY <1>6 DEF Restart
  <2>2. Unaccounted' \subseteq Unaccounted \cup {cur}
    BY <2>1 DEF Unaccounted
  <2>3. /\ IsFiniteSet(Unaccounted \cup {cur}) /\ Cardinality(Unaccounted) \in Nat
        /\ Cardinality(Unaccounted \cup {cur}) <= Cardinality(Unaccounted) + 1
    <3>1. IsFiniteSet(Unaccounted)
      BY DEF LostInv
    <3>2. Cardinality(Unaccounted) \in Nat
      BY <3>1, FS_CardinalityType
    <3>3. /\ IsFiniteSet(Unaccounted \cup {cur})
          /\ Cardinality(Unaccounted \cup {cur}) =
                IF cur \in Unaccounted THEN Cardinality(Unaccounted)
                ELSE Cardinality(Unaccounted) + 1
      BY <3>1, FS_AddElement
    <3> QED
      BY <3>2, <3>3
  <2>4. /\ IsFiniteSet(Unaccounted')
        /\ Cardinality(Unaccounted') <= Cardinality(Unaccounted \cup {cur})
    BY <2>2, <2>3, FS_Subset
  <2>5. Cardinality(Unaccounted') \in Nat /\ Cardinality(Unaccounted \cup {cur}) \in Nat
    BY <2>3, <2>4, FS_CardinalityType
  <2> QED
    BY <2>1, <2>3, <2>4, <2>5 DEF LostInv
<1> QED
  BY <1>1, <1>2, <1>3, <1>4, <1>5, <1>6 DEF Next, Reader

\* A process that dies between a commit and the end of a callback loses the
\* message it was handling, and never another one.
THEOREM RestartLosesOne == ASSUME Constants PROVE Spec => []OneLostPerRestart
<1>1. Init => RangesInv /\ LostInv
  <2> SUFFICES ASSUME Init PROVE RangesInv /\ LostInv
    OBVIOUS
  <2>1. Unaccounted = {}
    BY DEF Init, Unaccounted, Messages
  <2>2. restarts = 0
    BY DEF Init
  <2> QED
    BY <2>1, <2>2, FS_EmptySet, InitTypes DEF LostInv
<1>2. RangesInv /\ LostInv /\ [Next]_vars => RangesInv' /\ LostInv'
  BY StepTypes, StepLost
<1>3. LostInv => OneLostPerRestart
  <2> SUFFICES ASSUME LostInv PROVE Cardinality(Lost) <= restarts
    BY DEF OneLostPerRestart
  <2>1. Lost \subseteq Unaccounted
    BY DEF Lost, Unaccounted
  <2>2. IsFiniteSet(Lost) /\ Cardinality(Lost) <= Cardinality(Unaccounted)
    BY <2>1, FS_Subset DEF LostInv
  <2>3. Cardinality(Lost) \in Nat /\ Cardinality(Unaccounted) \in Nat
    BY <2>2, FS_CardinalityType DEF LostInv
  <2> QED
    BY <2>2, <2>3 DEF LostInv
<1> QED
  BY <1>1, <1>2, <1>3, PTL DEF Spec

-----------------------------------------------------------------------------
(* The composition.  Each part runs its component: the theorems of the components'
   own modules hold of the composition, which is what the run checks. *)

RabbitP == INSTANCE RabbitRPCProofs WITH
               Queries <- Calls,
               Inst <- [q \in Calls |-> IF q \in {q1, q2} THEN 1 ELSE 2],
               PublishChannelSize <- 1, MaxRedelivered <- 1,
               client <- asker, answer <- response, worker <- handler,
               requests <- deliveries

PublishersP == INSTANCE RabbitPublishersProofs WITH
                   MaxFaults <- PublisherFaults, channel <- amqpChannel,
                   pending <- unpublished, seen <- copied, flush <- flushes,
                   accepted <- published, raced <- overwritten, crashed <- panicked,
                   faults <- drops

PulsarP == INSTANCE PulsarRPCProofs WITH
               Queries <- Calls, Ids <- {RpcId(q) : q \in Calls},
               Corr <- [q \in Calls |-> RpcId(q)], MaxRedelivered <- 1,
               client <- query, answer <- reply, disabled <- closed,
               received <- unsent, rpcCallbacks <- entries, senders <- blocked,
               requests <- asked, responses <- answered, redelivered <- repeated

MockP == INSTANCE MockMQProofs WITH
             Queries <- Calls, Ids <- {RpcId(q) : q \in Calls},
             Corr <- [q \in Calls |-> RpcId(q)], Instances <- Subscribers

\* A step of the composition is a step of one part and leaves the others alone.
LEMMA PartSteps ==
    ASSUME [AllNext]_allVars
    PROVE  /\ Rabbit!Next \/ UNCHANGED rabbitVars
           /\ Publishers!Next \/ UNCHANGED publisherVars
           /\ Pulsar!Next \/ UNCHANGED pulsarVars
           /\ Mock!Next \/ UNCHANGED mockVars
           /\ Kafka!Next \/ UNCHANGED kafkaVars
           /\ Health!Next \/ UNCHANGED healthzVars
           /\ RpcInstance!Next \/ UNCHANGED instanceVars
           /\ Saver!Next \/ UNCHANGED saverVars
           /\ Next \/ UNCHANGED vars
<1>1. CASE AllNext
  BY <1>1 DEF AllNext, PartNext
<1>2. CASE UNCHANGED allVars
  BY <1>2 DEF allVars
<1> QED BY <1>1, <1>2

\* The two instances of a component, the one that runs and the one with the proofs,
\* are the same.
LEMMA RabbitSame ==
    /\ Rabbit!Init <=> RabbitP!Init
    /\ Rabbit!Next <=> RabbitP!Next
    /\ UNCHANGED rabbitVars <=> UNCHANGED RabbitP!vars
    /\ Rabbit!AnswersDistinct <=> RabbitP!AnswersDistinct
  BY DEF rabbitVars, Rabbit!callerVars, Rabbit!rpcVars, Rabbit!netVars,
         Rabbit!Instances, Rabbit!Waiting, Rabbit!Idle, Rabbit!Init, Rabbit!QueryRPC,
         Rabbit!Publish, Rabbit!PublishFails, Rabbit!HandleRPCCallback, Rabbit!Respond,
         Rabbit!DeleteCallback, Rabbit!TimeOut, Rabbit!HandleConsume, Rabbit!Redeliver,
         Rabbit!Next, Rabbit!AnswersDistinct, RabbitP!callerVars, RabbitP!rpcVars,
         RabbitP!netVars, RabbitP!vars, RabbitP!Instances, RabbitP!Waiting,
         RabbitP!Idle, RabbitP!Init, RabbitP!QueryRPC, RabbitP!Publish,
         RabbitP!PublishFails, RabbitP!HandleRPCCallback, RabbitP!Respond,
         RabbitP!DeleteCallback, RabbitP!TimeOut, RabbitP!HandleConsume,
         RabbitP!Redeliver, RabbitP!Next, RabbitP!AnswersDistinct

LEMMA PublishersSame ==
    /\ Publishers!Init <=> PublishersP!Init
    /\ Publishers!Next <=> PublishersP!Next
    /\ UNCHANGED publisherVars <=> UNCHANGED PublishersP!vars
    /\ Publishers!KeptUnlessRaced <=> PublishersP!KeptUnlessRaced
  BY DEF publisherVars, Publishers!Msgs, Publishers!Goroutines, Publishers!Frames,
         Publishers!linkVars, Publishers!frameVars, Publishers!flushVars,
         Publishers!histVars, Publishers!Init, Publishers!Close, Publishers!Idle,
         Publishers!Call, Publishers!Return, Publishers!Goto, Publishers!RunReceives,
         Publishers!WorkerResponds, Publishers!TestChannel, Publishers!ReadPending,
         Publishers!Changed, Publishers!WritePending, Publishers!CheckQueue, Publishers!EnsureQueue,
         Publishers!UseChannel, Publishers!ReadList, Publishers!ResetList,
         Publishers!FlushNext, Publishers!RunEvent, Publishers!RunReconnects,
         Publishers!RunCloses, Publishers!RunTick, Publishers!RunDials,
         Publishers!RunOpensChannel, Publishers!RunEnsuresQueue, Publishers!RunFlushed,
         Publishers!BrokerDrops, Publishers!Publishing, Publishers!Flushing,
         Publishers!Connecting, Publishers!Next, Publishers!List, Publishers!Outside,
         Publishers!Places, Publishers!IsAt, Publishers!Where,
         Publishers!KeptUnlessRaced, PublishersP!Msgs, PublishersP!Goroutines,
         PublishersP!Frames, PublishersP!linkVars, PublishersP!frameVars,
         PublishersP!flushVars, PublishersP!histVars, PublishersP!vars,
         PublishersP!Init, PublishersP!Close, PublishersP!Idle, PublishersP!Call,
         PublishersP!Return, PublishersP!Goto, PublishersP!RunReceives,
         PublishersP!WorkerResponds, PublishersP!TestChannel, PublishersP!ReadPending,
         PublishersP!Changed, PublishersP!WritePending, PublishersP!CheckQueue, PublishersP!EnsureQueue,
         PublishersP!UseChannel, PublishersP!ReadList, PublishersP!ResetList,
         PublishersP!FlushNext, PublishersP!RunEvent, PublishersP!RunReconnects,
         PublishersP!RunCloses, PublishersP!RunTick, PublishersP!RunDials,
         PublishersP!RunOpensChannel, PublishersP!RunEnsuresQueue,
         PublishersP!RunFlushed, PublishersP!BrokerDrops, PublishersP!Publishing,
         PublishersP!Flushing, PublishersP!Connecting, PublishersP!Next,
         PublishersP!List, PublishersP!Outside, PublishersP!Places, PublishersP!IsAt,
         PublishersP!Where, PublishersP!KeptUnlessRaced

LEMMA PulsarSame ==
    /\ Pulsar!Init <=> PulsarP!Init
    /\ Pulsar!Next <=> PulsarP!Next
    /\ UNCHANGED pulsarVars <=> UNCHANGED PulsarP!vars
    /\ Pulsar!AnswersMatchId <=> PulsarP!AnswersMatchId
  BY DEF pulsarVars, Pulsar!callerVars, Pulsar!rpcVars, Pulsar!consumerVars,
         Pulsar!netVars, Pulsar!Init, Pulsar!QueryRPC, Pulsar!EnsureRPCMessage,
         Pulsar!Publish, Pulsar!PublishFails, Pulsar!SkipSend, Pulsar!HandleRPCCallback,
         Pulsar!Respond, Pulsar!DeleteCallback, Pulsar!TimeOut, Pulsar!HandleConsume,
         Pulsar!Reply, Pulsar!NoReply, Pulsar!CallbackReplies, Pulsar!PublishReply,
         Pulsar!LoseRequest, Pulsar!LoseResponse, Pulsar!Redeliver, Pulsar!Caller,
         Pulsar!Run, Pulsar!Consumer, Pulsar!Network, Pulsar!Next,
         Pulsar!AnswersMatchId, PulsarP!callerVars, PulsarP!rpcVars,
         PulsarP!consumerVars, PulsarP!netVars, PulsarP!vars, PulsarP!Init,
         PulsarP!QueryRPC, PulsarP!EnsureRPCMessage, PulsarP!Publish,
         PulsarP!PublishFails, PulsarP!SkipSend, PulsarP!HandleRPCCallback,
         PulsarP!Respond, PulsarP!DeleteCallback, PulsarP!TimeOut,
         PulsarP!HandleConsume, PulsarP!Reply, PulsarP!NoReply, PulsarP!CallbackReplies,
         PulsarP!PublishReply, PulsarP!LoseRequest, PulsarP!LoseResponse,
         PulsarP!Redeliver, PulsarP!Caller, PulsarP!Run, PulsarP!Consumer,
         PulsarP!Network, PulsarP!Next, PulsarP!AnswersMatchId

LEMMA MockSame ==
    /\ Mock!Init <=> MockP!Init
    /\ Mock!Next <=> MockP!Next
    /\ UNCHANGED mockVars <=> UNCHANGED MockP!vars
    /\ Mock!AnswersMatchId <=> MockP!AnswersMatchId
  BY DEF mockVars, Mock!clientVars, Mock!rpcVars, Mock!queueVars, Mock!Init, Mock!Goto,
         Mock!Locked, Mock!Prepare, Mock!Publish, Mock!TestSubscribers, Mock!Retain,
         Mock!Continue, Mock!Callback, Mock!LookupWaiter, Mock!DeleteWaiter,
         Mock!Receive, Mock!TimeOut, Mock!Step, Mock!BeginSubscribe, Mock!TestDuplicate,
         Mock!AppendSubscriber, Mock!Replay, Mock!Register, Mock!Sending,
         Mock!Subscribing, Mock!Next, Mock!AnswersMatchId, MockP!clientVars,
         MockP!rpcVars, MockP!queueVars, MockP!vars, MockP!Init, MockP!Goto,
         MockP!Locked, MockP!Prepare, MockP!Publish, MockP!TestSubscribers,
         MockP!Retain, MockP!Continue, MockP!Callback, MockP!LookupWaiter,
         MockP!DeleteWaiter, MockP!Receive, MockP!TimeOut, MockP!Step,
         MockP!BeginSubscribe, MockP!TestDuplicate, MockP!AppendSubscriber,
         MockP!Replay, MockP!Register, MockP!Sending, MockP!Subscribing, MockP!Next,
         MockP!AnswersMatchId

\* rabbitmq.go: no response is handed to two callers or across instances.
THEOREM RabbitAnswers == ASSUME NoAnswer \notin Calls PROVE SafetySpec => []AnswersDistinct
<1>1. RabbitP!Constants
  BY DEF RabbitP!Constants
<1>2. AllInit => RabbitP!Init
  BY RabbitSame DEF AllInit
<1>3. [AllNext]_allVars => [RabbitP!Next]_(RabbitP!vars)
  BY PartSteps, RabbitSame
<1>4. RabbitP!AnswersDistinct => AnswersDistinct
  BY RabbitSame DEF AnswersDistinct
<1> QED
  BY <1>1, <1>2, <1>3, <1>4, RabbitP!AnswerInvInductive, PTL DEF SafetySpec

\* rabbitmq.go: a race for pendingPublishes loses or repeats only the messages that
\* were written over.
THEOREM PublishersKeepMessages ==
    ASSUME NoMsg \notin Queued \cup Responses, PublisherFaults \in Nat
    PROVE  SafetySpec => []KeptUnlessRaced
<1>1. PublishersP!Constants
  BY DEF PublishersP!Constants, PublishersP!Msgs
<1>2. AllInit => PublishersP!Init
  BY PublishersSame DEF AllInit
<1>3. [AllNext]_allVars => [PublishersP!Next]_(PublishersP!vars)
  BY PartSteps, PublishersSame
<1>4. PublishersP!KeptUnlessRaced => KeptUnlessRaced
  BY PublishersSame DEF KeptUnlessRaced
<1> QED
  BY <1>1, <1>2, <1>3, <1>4, PublishersP!InvInductive, PTL DEF SafetySpec

-----------------------------------------------------------------------------
(* KafkaRPC: answers match ids while nobody raced for the pool *)

KafkaConstants == NoQuery \notin KafkaQueries /\ KafkaFaults \in Nat

KafkaIds == {KafkaId(q) : q \in KafkaQueries} \cup {NoId}
Callers  == {"idle", "obtain", "register", "waiting", "recycle", "done"}

KafkaTypes ==
    /\ callers \in [KafkaQueries -> Callers] /\ chan \in [KafkaQueries -> Nat]
    /\ received \in [KafkaQueries -> Kafka!Packets]
    /\ pool \in Seq(Nat) /\ seen \in [KafkaQueries -> Seq(Nat)] /\ made \in Nat
    /\ waiting \in [KafkaIds -> Nat]
    /\ reader \in [{"private", "service"} -> [at : {"idle", "found", "send"}, chan : Nat,
                                              packet : Kafka!Packets]]

\* Callers with a channel of their own, and callers in the middle of an operation
\* of the pool.
Holding  == {q \in KafkaQueries : callers[q] \in {"register", "waiting", "recycle"}}
Touching == {q \in KafkaQueries : callers[q] \in {"obtain", "recycle"}}

\* The free channels differ, and the caller that is taking or returning one has
\* read the pool as it is.
PoolInv ==
    /\ \A p, q \in Touching : p = q
    /\ \A q \in Touching : seen[q] = pool
    /\ \A q \in KafkaQueries :
           callers[q] = "obtain" => pool # << >> /\ chan[q] = pool[Len(pool)]
    /\ \A i \in 1 .. Len(pool) : pool[i] \in 1 .. made
    /\ \A i, j \in 1 .. Len(pool) : pool[i] = pool[j] => i = j

\* No channel is held twice, or held and free.
HoldInv ==
    /\ \A q \in Holding : chan[q] \in 1 .. made /\ \A i \in 1 .. Len(pool) : pool[i] # chan[q]
    /\ \A p, q \in Holding : chan[p] = chan[q] => p = q

\* q waits on channel ch for a response of id i.
WaitsOn(q, ch, i) == callers[q] = "waiting" /\ chan[q] = ch /\ KafkaId(q) = i

\* An entry leads to a caller of its id, and so does a reader that found one; when
\* it sends, no entry leads to that caller's channel any more.
LookupInv ==
    /\ \A i \in KafkaIds :
           waiting[i] # 0 => \E q \in KafkaQueries : WaitsOn(q, waiting[i], i)
    /\ reader["service"].at = "idle"
    /\ reader["private"].at # "idle" =>
           LET r == reader["private"]
           IN /\ \E q \in KafkaQueries : WaitsOn(q, r.chan, Kafka!IdOf(r.packet))
              /\ r.packet = Kafka!ZeroPacket
                 \/ \E p \in KafkaQueries : r.packet = Kafka!Packet("response", p)
              /\ r.at = "send" => \A i \in KafkaIds : waiting[i] # r.chan

SoundInv == ~raced /\ ~subscribed => PoolInv /\ HoldInv /\ LookupInv /\ Kafka!AnswersMatchId
KafkaInv == KafkaTypes /\ SoundInv

\* What obtainChannel stores: all channels but the last.
LEMMA AllButLast ==
    ASSUME NEW S, NEW s \in Seq(S)
    PROVE  /\ SubSeq(s, 1, Len(s) - 1) \in Seq(S)
           /\ s # << >> => /\ Len(s) >= 1 /\ Len(SubSeq(s, 1, Len(s) - 1)) = Len(s) - 1
                           /\ \A i \in 1 .. Len(s) - 1 : SubSeq(s, 1, Len(s) - 1)[i] = s[i]
<1>1. Len(s) \in Nat /\ (s # << >> => Len(s) >= 1)
  BY EmptySeq, LenProperties
<1>2. \A i \in 1 .. Len(s) - 1 : s[i] \in S
  BY <1>1, ElementOfSeq
<1>3. Len(s) - 1 \in Int /\ 1 \in Int
  BY <1>1
<1>4. /\ SubSeq(s, 1, Len(s) - 1) \in Seq(S)
      /\ Len(SubSeq(s, 1, Len(s) - 1)) = IF 1 <= Len(s) - 1 THEN Len(s) - 1 - 1 + 1 ELSE 0
      /\ \A i \in 1 .. (Len(s) - 1 - 1 + 1) : SubSeq(s, 1, Len(s) - 1)[i] = s[1 + i - 1]
  BY <1>2, <1>3, SubSeqProperties
<1>5. ASSUME s # << >>, NEW i \in 1 .. Len(s) - 1 PROVE SubSeq(s, 1, Len(s) - 1)[i] = s[i]
  <2>1. i \in 1 .. (Len(s) - 1 - 1 + 1) /\ 1 + i - 1 = i
    BY <1>1
  <2> QED BY <1>4, <2>1
<1>6. ASSUME s # << >> PROVE Len(SubSeq(s, 1, Len(s) - 1)) = Len(s) - 1
  <2> DEFINE n == Len(s)
  <2>1. Len(SubSeq(s, 1, n - 1)) = IF 1 <= n - 1 THEN n - 1 - 1 + 1 ELSE 0
    BY <1>4
  <2>2. n \in Nat /\ n >= 1
    BY <1>1, <1>6
  <2> HIDE DEF n
  <2>3. Len(SubSeq(s, 1, n - 1)) = n - 1
    BY <2>1, <2>2
  <2> QED BY <2>3 DEF n
<1> QED BY <1>1, <1>4, <1>5, <1>6

\* What recycleChannel stores: one channel more.
LEMMA OneMore ==
    ASSUME NEW s \in Seq(Nat), NEW n \in Nat
    PROVE  /\ Append(s, n) \in Seq(Nat) /\ Len(Append(s, n)) = Len(s) + 1 /\ Len(s) \in Nat
           /\ Append(s, n)[Len(s) + 1] = n
           /\ \A i \in 1 .. Len(s) : Append(s, n)[i] = s[i]
  BY AppendProperties

\* The packets a reader may hand on.
LEMMA PacketKinds ==
    /\ \A q \in KafkaQueries : /\ Kafka!Packet("response", q) \in Kafka!Packets
                               /\ Kafka!Packet("request", q) \in Kafka!Packets
    /\ Kafka!ZeroPacket \in Kafka!Packets /\ Kafka!NoPacket \in Kafka!Packets
  BY DEF Kafka!Packet, Kafka!Packets, Kafka!ZeroPacket, Kafka!NoPacket

\* The id a packet carries.
LEMMA IdOfPacket ==
    ASSUME KafkaConstants
    PROVE  /\ \A m \in Kafka!Packets : Kafka!IdOf(m) \in KafkaIds
           /\ \A q \in KafkaQueries : Kafka!IdOf(Kafka!Packet("response", q)) = KafkaId(q)
           /\ Kafka!IdOf(Kafka!ZeroPacket) = NoId
  BY DEF KafkaConstants, Kafka!IdOf, Kafka!Packet, Kafka!Packets, Kafka!ZeroPacket,
         Kafka!NoPacket, KafkaIds

\* The invariant holds of the empty pool.
LEMMA KafkaInit == ASSUME KafkaConstants, Kafka!Init PROVE KafkaInv
<1> USE DEF Kafka!Init, Kafka!Idle, Kafka!NoChannel, Kafka!Topics
<1>1. KafkaTypes
  BY PacketKinds DEF KafkaTypes, Callers, KafkaIds
<1>2. PoolInv /\ HoldInv
  BY DEF PoolInv, HoldInv, Touching, Holding
<1>3. LookupInv /\ Kafka!AnswersMatchId
  BY DEF LookupInv, KafkaIds, Kafka!AnswersMatchId
<1> QED BY <1>1, <1>2, <1>3 DEF KafkaInv, SoundInv

\* Type correctness, action by action.
LEMMA KafkaTypesStep ==
    ASSUME KafkaConstants, KafkaTypes, Kafka!Next \/ UNCHANGED kafkaVars PROVE KafkaTypes'
<1> USE DEF Kafka!Goto, Kafka!clientVars, Kafka!poolVars, Kafka!netVars, Kafka!StorePool,
            Kafka!NoChannel, Kafka!Topics, Callers
<1>1. ASSUME NEW q \in KafkaQueries, Kafka!ObtainChannel(q) PROVE KafkaTypes'
  <2>1. CASE pool = << >>
    <3>1. /\ made' = made + 1 /\ chan' = [chan EXCEPT ![q] = made + 1]
          /\ callers' = [callers EXCEPT ![q] = "register"]
          /\ UNCHANGED <<received, pool, seen, waiting, reader>>
      BY <1>1, <2>1 DEF Kafka!ObtainChannel
    <3>2. made' \in Nat /\ chan' \in [KafkaQueries -> Nat]
      BY <3>1 DEF KafkaTypes
    <3>3. callers' \in [KafkaQueries -> Callers]
      BY <3>1 DEF KafkaTypes
    <3> QED BY <3>1, <3>2, <3>3 DEF KafkaTypes
  <2>2. CASE pool # << >>
    <3>1. pool[Len(pool)] \in Nat
      BY <2>2, EmptySeq, ElementOfSeq DEF KafkaTypes
    <3> QED BY <1>1, <2>2, <3>1 DEF Kafka!ObtainChannel, Kafka!ReadPool, KafkaTypes
  <2> QED BY <2>1, <2>2
<1>2. ASSUME NEW q \in KafkaQueries, Kafka!ObtainStores(q) PROVE KafkaTypes'
  <2>1. SubSeq(seen[q], 1, Len(seen[q]) - 1) \in Seq(Nat)
    BY AllButLast DEF KafkaTypes
  <2> QED BY <1>2, <2>1 DEF Kafka!ObtainStores, KafkaTypes
<1>3. ASSUME NEW q \in KafkaQueries, Kafka!Register(q) PROVE KafkaTypes'
  BY <1>3 DEF Kafka!Register, KafkaTypes
<1>4. ASSUME NEW q \in KafkaQueries, Kafka!RecycleStores(q) PROVE KafkaTypes'
  <2>1. Append(seen[q], chan[q]) \in Seq(Nat)
    BY OneMore DEF KafkaTypes
  <2> QED BY <1>4, <2>1 DEF Kafka!RecycleStores, KafkaTypes
<1>5. ASSUME NEW topic \in Kafka!Topics, NEW m \in Kafka!Packets, Kafka!OnMessage(topic, m),
             UNCHANGED <<callers, chan, received, pool, seen, made, waiting>>
      PROVE  KafkaTypes'
  <2>1. waiting[Kafka!IdOf(m)] \in Nat
    BY IdOfPacket DEF KafkaTypes
  <2> QED BY <1>5, <2>1 DEF Kafka!OnMessage, KafkaTypes
<1>6. ASSUME NEW q \in KafkaQueries, Kafka!ReadResponse(q) \/ Kafka!ReadRequest(q)
      PROVE  KafkaTypes'
  BY <1>5, <1>6, PacketKinds DEF Kafka!ReadResponse, Kafka!ReadRequest
<1>7. ASSUME NEW topic \in Kafka!Topics, Kafka!ReadZero(topic) PROVE KafkaTypes'
  BY <1>5, <1>7, PacketKinds DEF Kafka!ReadZero
<1>8. ASSUME NEW topic \in Kafka!Topics, Kafka!DeleteEntry(topic) PROVE KafkaTypes'
  BY <1>8 DEF Kafka!DeleteEntry, KafkaTypes
<1>9. ASSUME NEW topic \in Kafka!Topics, NEW q \in KafkaQueries, Kafka!Respond(topic, q)
      PROVE  KafkaTypes'
  BY <1>9, PacketKinds DEF Kafka!Respond, Kafka!ReadPool, Kafka!Idle, KafkaTypes
<1>10. ASSUME UNCHANGED <<callers, chan, received, pool, seen, made, waiting, reader>>
       PROVE  KafkaTypes'
  BY <1>10 DEF KafkaTypes
<1>11. ASSUME NEW q \in KafkaQueries, Kafka!Broker(q) PROVE KafkaTypes'
  BY <1>10, <1>11 DEF Kafka!Broker, Kafka!Answer, Kafka!AnswerAgain, Kafka!LoseResponse
<1>12. CASE UNCHANGED kafkaVars
  BY <1>10, <1>12 DEF kafkaVars
<1> QED
  BY <1>1, <1>2, <1>3, <1>4, <1>6, <1>7, <1>8, <1>9, <1>11, <1>12 DEF Kafka!Next, Kafka!Send

\* What a caller's step leaves alone keeps its part of the invariant.
LEMMA LookupKept ==
    ASSUME KafkaTypes, LookupInv, NEW q \in KafkaQueries, UNCHANGED <<waiting, reader>>,
           callers[q] # "waiting",
           \A x \in KafkaQueries \ {q} : callers'[x] = callers[x] /\ chan'[x] = chan[x]
    PROVE  LookupInv'
<1>1. \A ch, i : \A x \in KafkaQueries : WaitsOn(x, ch, i) => WaitsOn(x, ch, i)'
  BY DEF WaitsOn, KafkaId
<1> QED BY <1>1 DEF LookupInv

\* Callers that are alone in the pool keep their channels apart.
LEMMA KafkaCallerSteps ==
    ASSUME KafkaConstants, KafkaTypes, PoolInv, HoldInv, LookupInv, NEW q \in KafkaQueries,
           ~raced, ~raced', Kafka!Send(q)
    PROVE  PoolInv' /\ HoldInv' /\ LookupInv'
<1> USE DEF Kafka!Goto, KafkaTypes
<1>1. CASE Kafka!ObtainChannel(q) /\ pool = << >>
  <2>1. /\ callers[q] = "idle" /\ made' = made + 1
        /\ chan' = [chan EXCEPT ![q] = made + 1]
        /\ callers' = [callers EXCEPT ![q] = "register"]
        /\ UNCHANGED <<pool, seen, waiting, reader>>
    BY <1>1 DEF Kafka!ObtainChannel
  <2>2. Touching' = Touching /\ Holding' = Holding \cup {q} /\ q \notin Touching
    BY <2>1 DEF Touching, Holding
  <2>3. Len(pool) = 0 /\ Touching = {p \in Touching : callers[p] = "recycle"}
    BY <1>1, EmptySeq DEF PoolInv, Touching
  <2>4. PoolInv'
    BY <1>1, <2>1, <2>2, <2>3 DEF PoolInv, Touching
  <2>5. HoldInv'
    BY <2>1, <2>2, <2>3 DEF HoldInv, Holding
  <2> QED BY <2>1, <2>4, <2>5, LookupKept
<1>2. CASE Kafka!ObtainChannel(q) /\ pool # << >>
  <2>1. /\ callers[q] = "idle"
        /\ chan' = [chan EXCEPT ![q] = pool[Len(pool)]]
        /\ callers' = [callers EXCEPT ![q] = "obtain"]
        /\ seen' = [seen EXCEPT ![q] = pool]
        /\ Touching = {}
        /\ UNCHANGED <<pool, made, waiting, reader>>
    BY <1>2 DEF Kafka!ObtainChannel, Kafka!ReadPool, Touching
  <2>2. Touching' = {q} /\ Holding' = Holding /\ q \notin Holding
    BY <2>1 DEF Touching, Holding
  <2>3. PoolInv'
    BY <1>2, <2>1, <2>2 DEF PoolInv, Touching
  <2>4. HoldInv'
    BY <2>1, <2>2 DEF HoldInv, Holding
  <2> QED BY <2>1, <2>3, <2>4, LookupKept
<1>3. CASE Kafka!ObtainStores(q)
  <2>1. /\ callers[q] = "obtain" /\ q \in Touching
        /\ callers' = [callers EXCEPT ![q] = "register"]
        /\ pool' = SubSeq(pool, 1, Len(pool) - 1)
        /\ seen' = [seen EXCEPT ![q] = << >>]
        /\ UNCHANGED <<chan, made, waiting, reader>>
    BY <1>3 DEF Kafka!ObtainStores, Kafka!StorePool, Touching, PoolInv
  <2>2. Touching = {q} /\ Touching' = {} /\ Holding' = Holding \cup {q} /\ q \notin Holding
    BY <2>1 DEF Touching, Holding, PoolInv
  <2>3. pool # << >> /\ chan[q] = pool[Len(pool)]
    BY <2>1 DEF PoolInv
  <2>4. /\ Len(pool) \in Nat /\ Len(pool) >= 1 /\ Len(pool') = Len(pool) - 1
        /\ \A i \in 1 .. Len(pool) - 1 : pool'[i] = pool[i]
    BY <2>1, <2>3, AllButLast, LenProperties
  <2>5. PoolInv'
    <3>1. \A i \in 1 .. Len(pool') : i \in 1 .. Len(pool) /\ pool'[i] = pool[i]
      BY <2>4
    <3>2. \A i \in 1 .. Len(pool') : pool'[i] \in 1 .. made'
      BY <2>1, <3>1 DEF PoolInv
    <3>3. \A i, j \in 1 .. Len(pool') : pool'[i] = pool'[j] => i = j
      BY <3>1 DEF PoolInv
    <3>4. \A p \in KafkaQueries : callers'[p] # "obtain"
      BY <2>2 DEF Touching
    <3> QED BY <2>2, <3>2, <3>3, <3>4 DEF PoolInv
  <2>6. chan[q] \in 1 .. made /\ \A i \in 1 .. Len(pool) - 1 : pool[i] # chan[q]
    BY <2>3, <2>4 DEF PoolInv
  <2>7. HoldInv'
    <3>1. \A i \in 1 .. Len(pool') : /\ i \in 1 .. Len(pool) /\ pool'[i] = pool[i]
                                    /\ pool'[i] # chan[q]
      BY <2>4, <2>6
    <3>2. \A x \in Holding : chan[x] # chan[q]
      BY <2>3, <2>4 DEF HoldInv
    <3>3. ASSUME NEW x \in Holding'
          PROVE  chan'[x] \in 1 .. made' /\ \A i \in 1 .. Len(pool') : pool'[i] # chan'[x]
      BY <2>1, <2>2, <2>6, <3>1 DEF HoldInv
    <3>4. \A x, y \in Holding' : chan'[x] = chan'[y] => x = y
      BY <2>1, <2>2, <3>2 DEF HoldInv
    <3> QED BY <3>3, <3>4 DEF HoldInv
  <2> QED BY <2>1, <2>5, <2>7, LookupKept
<1>4. CASE Kafka!Register(q)
  <2>1. /\ callers[q] = "register" /\ callers' = [callers EXCEPT ![q] = "waiting"]
        /\ waiting' = [waiting EXCEPT ![KafkaId(q)] = chan[q]]
        /\ KafkaId(q) \in KafkaIds
        /\ UNCHANGED <<chan, pool, seen, made, reader>>
    BY <1>4 DEF Kafka!Register, Kafka!poolVars, KafkaIds
  <2>2. Touching' = Touching /\ Holding' = Holding /\ q \in Holding
    BY <2>1 DEF Touching, Holding
  <2>3. PoolInv'
    BY <2>1, <2>2 DEF PoolInv, Touching
  <2>4. HoldInv'
    BY <2>1, <2>2 DEF HoldInv
  <2>5. WaitsOn(q, chan[q], KafkaId(q))'
        /\ \A ch, i : \A x \in KafkaQueries : WaitsOn(x, ch, i) => WaitsOn(x, ch, i)' /\ x # q
    BY <2>1 DEF WaitsOn, KafkaId
  <2>6. ASSUME NEW i \in KafkaIds, waiting'[i] # 0
        PROVE  \E x \in KafkaQueries : WaitsOn(x, waiting[i], i)'
    <3>1. CASE i = KafkaId(q)
      <4>1. waiting'[i] = chan[q] /\ chan' = chan
        BY <2>1, <3>1
      <4> QED BY <2>1, <4>1, <3>1 DEF WaitsOn, KafkaId
    <3>2. CASE i # KafkaId(q)
      BY <2>1, <2>5, <2>6, <3>2 DEF LookupInv, WaitsOn, KafkaId
    <3> QED BY <3>1, <3>2
  <2>7. ASSUME reader["private"].at = "send"
        PROVE  \A i \in KafkaIds : waiting'[i] # reader["private"].chan
    <3>1. PICK x \in KafkaQueries :
              WaitsOn(x, reader["private"].chan, Kafka!IdOf(reader["private"].packet))
      BY <2>7 DEF LookupInv
    <3>2. x \in Holding /\ x # q /\ chan[x] = reader["private"].chan
      BY <2>1, <3>1 DEF WaitsOn, Holding
    <3>3. chan[q] # reader["private"].chan
      BY <2>2, <3>2 DEF HoldInv
    <3> QED BY <2>1, <2>7, <3>3 DEF LookupInv
  <2>8. LookupInv'
    BY <2>1, <2>5, <2>6, <2>7 DEF LookupInv
  <2> QED BY <2>3, <2>4, <2>8
<1>5. CASE Kafka!RecycleStores(q)
  <2>1. /\ callers[q] = "recycle" /\ q \in Touching /\ q \in Holding
        /\ callers' = [callers EXCEPT ![q] = "done"]
        /\ pool' = Append(pool, chan[q])
        /\ seen' = [seen EXCEPT ![q] = << >>]
        /\ UNCHANGED <<chan, made, waiting, reader>>
    BY <1>5 DEF Kafka!RecycleStores, Kafka!StorePool, Touching, Holding, PoolInv
  <2>2. Touching = {q} /\ Touching' = {} /\ Holding' = Holding \ {q}
    BY <2>1 DEF Touching, Holding, PoolInv
  <2>3. /\ Len(pool) \in Nat /\ Len(pool') = Len(pool) + 1
        /\ \A i \in 1 .. Len(pool) : pool'[i] = pool[i]
        /\ pool'[Len(pool) + 1] = chan[q]
    BY <2>1, OneMore
  <2>4. chan[q] \in 1 .. made /\ \A i \in 1 .. Len(pool) : pool[i] # chan[q]
    BY <2>1 DEF HoldInv
  <2>5. PoolInv'
    <3>1. \A i \in 1 .. Len(pool') : pool'[i] \in 1 .. made'
      BY <2>1, <2>3, <2>4 DEF PoolInv
    <3>2. ASSUME NEW i \in 1 .. Len(pool'), NEW j \in 1 .. Len(pool'), pool'[i] = pool'[j]
          PROVE  i = j
      <4>1. (i \in 1 .. Len(pool) \/ i = Len(pool) + 1)
            /\ (j \in 1 .. Len(pool) \/ j = Len(pool) + 1)
        BY <2>3
      <4> QED BY <2>3, <2>4, <3>2, <4>1 DEF PoolInv
    <3> QED BY <2>1, <2>2, <3>1, <3>2 DEF PoolInv, Touching
  <2>6. HoldInv'
    <3>1. \A x \in Holding' : x \in Holding /\ chan[x] # chan[q]
      BY <2>1, <2>2 DEF HoldInv
    <3> QED BY <2>1, <2>2, <2>3, <3>1 DEF HoldInv
  <2> QED BY <2>1, <2>5, <2>6, LookupKept
<1> QED BY <1>1, <1>2, <1>3, <1>4, <1>5 DEF Kafka!Send

\* A reader finds an entry of the id of what it has read.
LEMMA KafkaReads ==
    ASSUME KafkaConstants, KafkaTypes, PoolInv, HoldInv, LookupInv, NEW m \in Kafka!Packets,
           m = Kafka!ZeroPacket \/ \E p \in KafkaQueries : m = Kafka!Packet("response", p),
           Kafka!OnMessage("private", m),
           UNCHANGED <<callers, chan, pool, seen, made, waiting>>
    PROVE  PoolInv' /\ HoldInv' /\ LookupInv'
<1>1. PoolInv' /\ HoldInv'
  BY DEF PoolInv, HoldInv, Touching, Holding
<1>2. \A ch, i : \A x \in KafkaQueries : WaitsOn(x, ch, i) => WaitsOn(x, ch, i)'
  BY DEF WaitsOn, KafkaId
<1>3. Kafka!IdOf(m) \in KafkaIds
  BY IdOfPacket
<1>4. CASE waiting[Kafka!IdOf(m)] = 0
  <2>1. UNCHANGED reader
    BY <1>4 DEF Kafka!OnMessage, Kafka!NoChannel
  <2> QED BY <1>1, <1>2, <2>1 DEF LookupInv
<1>5. CASE waiting[Kafka!IdOf(m)] # 0
  <2>1. reader' = [reader EXCEPT !["private"] =
                       [at |-> "found", chan |-> waiting[Kafka!IdOf(m)], packet |-> m]]
    BY <1>5 DEF Kafka!OnMessage, Kafka!NoChannel
  <2>2. /\ reader'["service"].at = "idle"
        /\ reader'["private"].at = "found"
        /\ reader'["private"].chan = waiting[Kafka!IdOf(m)]
        /\ reader'["private"].packet = m
    BY <2>1 DEF KafkaTypes, LookupInv
  <2>3. \E x \in KafkaQueries : WaitsOn(x, waiting[Kafka!IdOf(m)], Kafka!IdOf(m))
    BY <1>3, <1>5 DEF LookupInv
  <2> QED BY <1>1, <1>2, <2>2, <2>3 DEF LookupInv
<1> QED BY <1>4, <1>5

\* The entry that is deleted is the only one that leads to the reader's channel.
LEMMA KafkaDeletes ==
    ASSUME KafkaConstants, KafkaTypes, PoolInv, HoldInv, LookupInv,
           NEW topic \in Kafka!Topics, Kafka!DeleteEntry(topic)
    PROVE  PoolInv' /\ HoldInv' /\ LookupInv'
<1> DEFINE r  == reader["private"]
           id == Kafka!IdOf(r.packet)
<1>1. topic = "private" /\ r.at = "found"
  BY DEF Kafka!DeleteEntry, Kafka!Topics, LookupInv
<1>2. /\ reader' = [reader EXCEPT !["private"].at = "send"]
      /\ waiting' = [waiting EXCEPT ![id] = 0]
      /\ UNCHANGED <<callers, chan, pool, seen, made>>
  BY <1>1 DEF Kafka!DeleteEntry, Kafka!clientVars, Kafka!poolVars, Kafka!NoChannel
<1>3. PoolInv' /\ HoldInv'
  BY <1>2 DEF PoolInv, HoldInv, Touching, Holding
<1>4. id \in KafkaIds
  BY IdOfPacket DEF KafkaTypes
<1>5. PICK x \in KafkaQueries : WaitsOn(x, r.chan, id)
  BY <1>1 DEF LookupInv
<1>6. x \in Holding /\ r.chan \in 1 .. made /\ made \in Nat
  BY <1>5 DEF WaitsOn, Holding, HoldInv, KafkaTypes
<1>7. ASSUME NEW i \in KafkaIds PROVE waiting'[i] # r.chan
  <2>1. CASE i = id
    BY <1>2, <1>4, <1>6, <2>1 DEF KafkaTypes
  <2>2. CASE i # id /\ waiting[i] = r.chan
    <3>1. PICK y \in KafkaQueries : WaitsOn(y, r.chan, i)
      BY <1>6, <2>2 DEF LookupInv
    <3>2. y = x
      BY <1>5, <1>6, <3>1 DEF WaitsOn, Holding, HoldInv
    <3> QED BY <1>5, <2>2, <3>1, <3>2 DEF WaitsOn
  <2> QED BY <1>2, <2>1, <2>2 DEF KafkaTypes
<1>8. \A ch, i : \A y \in KafkaQueries : WaitsOn(y, ch, i) => WaitsOn(y, ch, i)'
  BY <1>2 DEF WaitsOn, KafkaId
<1>9. \A i \in KafkaIds : waiting'[i] # 0 => waiting'[i] = waiting[i]
  BY <1>2 DEF KafkaTypes
<1>10. /\ reader'["service"].at = "idle" /\ reader'["private"].at = "send"
       /\ reader'["private"].chan = r.chan /\ reader'["private"].packet = r.packet
  BY <1>2 DEF KafkaTypes, LookupInv
<1>11. LookupInv'
  <2>1. \A i \in KafkaIds :
            waiting'[i] # 0 => \E y \in KafkaQueries : WaitsOn(y, waiting[i], i)'
    BY <1>2, <1>9 DEF LookupInv, WaitsOn, KafkaId
  <2>2. \E y \in KafkaQueries : WaitsOn(y, r.chan, id)'
    BY <1>2, <1>5, <1>10 DEF WaitsOn, KafkaId
  <2>3. r.packet = Kafka!ZeroPacket
        \/ \E p \in KafkaQueries : r.packet = Kafka!Packet("response", p)
    BY <1>1 DEF LookupInv
  <2> QED BY <1>5, <1>7, <1>8, <1>10, <2>1, <2>3 DEF LookupInv
<1> QED BY <1>3, <1>11

\* The caller that receives is the one that waits with the id of the response.
LEMMA KafkaResponds ==
    ASSUME KafkaConstants, KafkaTypes, PoolInv, HoldInv, LookupInv, Kafka!AnswersMatchId,
           NEW topic \in Kafka!Topics, NEW q \in KafkaQueries, Kafka!Respond(topic, q),
           ~raced, ~subscribed, ~raced'
    PROVE  PoolInv' /\ HoldInv' /\ LookupInv' /\ Kafka!AnswersMatchId'
<1> DEFINE r == reader["private"]
<1>1. topic = "private" /\ r.at = "send"
  BY DEF Kafka!Respond, Kafka!Topics, LookupInv
<1>2. /\ callers[q] = "waiting" /\ chan[q] = r.chan
      /\ callers' = [callers EXCEPT ![q] = "recycle"]
      /\ received' = [received EXCEPT ![q] = r.packet]
      /\ seen' = [seen EXCEPT ![q] = pool]
      /\ Touching = {}
      /\ reader' = [reader EXCEPT !["private"] = Kafka!Idle]
      /\ UNCHANGED <<chan, pool, made, waiting, subscribed>>
  BY <1>1 DEF Kafka!Respond, Kafka!Goto, Kafka!ReadPool, Touching
<1>3. Touching' = {q} /\ Holding' = Holding /\ q \in Holding
  BY <1>2 DEF Touching, Holding, KafkaTypes
<1>4. PoolInv'
  BY <1>2, <1>3 DEF PoolInv, Touching, KafkaTypes
<1>5. HoldInv'
  BY <1>2, <1>3 DEF HoldInv
<1>6. WaitsOn(q, r.chan, Kafka!IdOf(r.packet))
  <2>1. PICK x \in KafkaQueries : WaitsOn(x, r.chan, Kafka!IdOf(r.packet))
    BY <1>1 DEF LookupInv
  <2>2. x = q
    BY <1>2, <1>3, <2>1 DEF WaitsOn, Holding, HoldInv
  <2> QED BY <2>1, <2>2
<1>7. LookupInv'
  <2>1. ASSUME NEW i \in KafkaIds, waiting[i] # 0
        PROVE  \E y \in KafkaQueries : WaitsOn(y, waiting[i], i)'
    <3>1. PICK y \in KafkaQueries : WaitsOn(y, waiting[i], i)
      BY <2>1 DEF LookupInv
    <3>2. y # q
      BY <1>1, <1>2, <3>1 DEF WaitsOn, LookupInv
    <3> QED BY <1>2, <3>1, <3>2 DEF WaitsOn, KafkaId, KafkaTypes
  <2>2. reader'["service"].at = "idle" /\ reader'["private"].at = "idle"
    BY <1>2 DEF Kafka!Idle, LookupInv, KafkaTypes
  <2> QED BY <1>2, <2>1, <2>2 DEF LookupInv
<1>8. KafkaId(q) # NoId => r.packet.kind = "response" /\ r.packet.query \in KafkaQueries
                           /\ KafkaId(r.packet.query) = KafkaId(q)
  <2>1. KafkaId(q) = Kafka!IdOf(r.packet)
    BY <1>6 DEF WaitsOn
  <2>2. CASE r.packet = Kafka!ZeroPacket
    BY <2>1, <2>2, IdOfPacket
  <2>3. ASSUME NEW p \in KafkaQueries, r.packet = Kafka!Packet("response", p)
        PROVE  r.packet.kind = "response" /\ r.packet.query = p /\ KafkaId(p) = KafkaId(q)
    BY <2>1, <2>3, IdOfPacket DEF Kafka!Packet
  <2> QED BY <1>1, <2>2, <2>3 DEF LookupInv
<1>9. Kafka!AnswersMatchId'
  BY <1>2, <1>8 DEF Kafka!AnswersMatchId, KafkaId, KafkaTypes
<1> QED BY <1>4, <1>5, <1>7, <1>9

\* KafkaInv is inductive: once raced or subscribed, it asks for types only.
LEMMA KafkaStep ==
    ASSUME KafkaConstants, KafkaInv, Kafka!Next \/ UNCHANGED kafkaVars PROVE KafkaInv'
<1>1. KafkaTypes /\ KafkaTypes'
  BY KafkaTypesStep DEF KafkaInv
<1>2. SUFFICES ASSUME ~raced', ~subscribed'
               PROVE  PoolInv' /\ HoldInv' /\ LookupInv' /\ Kafka!AnswersMatchId'
  BY <1>1 DEF KafkaInv, SoundInv
<1>3. ~raced /\ ~subscribed /\ UNCHANGED subscribed
  <2>1. UNCHANGED subscribed
    BY DEF kafkaVars, Kafka!Next, Kafka!Send, Kafka!Broker, Kafka!ObtainChannel,
           Kafka!ObtainStores, Kafka!Register, Kafka!RecycleStores, Kafka!ReadResponse,
           Kafka!ReadRequest, Kafka!ReadZero, Kafka!DeleteEntry, Kafka!Respond, Kafka!Answer,
           Kafka!AnswerAgain, Kafka!LoseResponse
  <2>2. ASSUME NEW q \in KafkaQueries, Kafka!Send(q) PROVE raced => raced'
    BY <2>2 DEF Kafka!Send, Kafka!ObtainChannel, Kafka!ObtainStores, Kafka!Register,
           Kafka!RecycleStores, Kafka!StorePool, Kafka!ReadPool, Kafka!poolVars
  <2>3. ASSUME NEW topic \in Kafka!Topics, NEW q \in KafkaQueries, Kafka!Respond(topic, q)
        PROVE  raced => raced'
    BY <2>3 DEF Kafka!Respond, Kafka!ReadPool
  <2>4. ASSUME NEW q \in KafkaQueries,
               Kafka!ReadResponse(q) \/ Kafka!ReadRequest(q) \/ Kafka!Broker(q)
        PROVE  raced => raced'
    BY <2>4 DEF Kafka!ReadResponse, Kafka!ReadRequest, Kafka!Broker, Kafka!Answer,
           Kafka!AnswerAgain, Kafka!LoseResponse, Kafka!poolVars
  <2>5. ASSUME NEW topic \in Kafka!Topics, Kafka!ReadZero(topic) \/ Kafka!DeleteEntry(topic)
        PROVE  raced => raced'
    BY <2>5 DEF Kafka!ReadZero, Kafka!DeleteEntry, Kafka!poolVars
  <2>6. CASE UNCHANGED kafkaVars
    BY <1>2, <2>6 DEF kafkaVars
  <2> QED BY <1>2, <2>1, <2>2, <2>3, <2>4, <2>5, <2>6 DEF Kafka!Next
<1>4. PoolInv /\ HoldInv /\ LookupInv /\ Kafka!AnswersMatchId
  BY <1>3 DEF KafkaInv, SoundInv
<1>5. ASSUME UNCHANGED received PROVE Kafka!AnswersMatchId'
  BY <1>2, <1>3, <1>4, <1>5 DEF Kafka!AnswersMatchId, KafkaId
<1>6. ASSUME NEW q \in KafkaQueries, Kafka!Send(q)
      PROVE  PoolInv' /\ HoldInv' /\ LookupInv' /\ UNCHANGED received
  <2>1. UNCHANGED received
    BY <1>6 DEF Kafka!Send, Kafka!ObtainChannel, Kafka!ObtainStores, Kafka!Register,
           Kafka!RecycleStores
  <2> QED BY <1>1, <1>2, <1>3, <1>4, <1>6, <2>1, KafkaCallerSteps
<1>7. ASSUME NEW q \in KafkaQueries, Kafka!ReadResponse(q)
      PROVE  PoolInv' /\ HoldInv' /\ LookupInv' /\ UNCHANGED received
  <2>1. /\ Kafka!OnMessage("private", Kafka!Packet("response", q))
        /\ UNCHANGED <<callers, chan, received, pool, seen, made, waiting>>
    BY <1>7 DEF Kafka!ReadResponse, Kafka!clientVars, Kafka!poolVars
  <2> QED BY <1>1, <1>4, <2>1, KafkaReads, PacketKinds
<1>8. ASSUME NEW topic \in Kafka!Topics, Kafka!ReadZero(topic)
      PROVE  PoolInv' /\ HoldInv' /\ LookupInv' /\ UNCHANGED received
  <2>1. /\ Kafka!OnMessage("private", Kafka!ZeroPacket)
        /\ UNCHANGED <<callers, chan, received, pool, seen, made, waiting>>
    BY <1>3, <1>8 DEF Kafka!ReadZero, Kafka!Topics, Kafka!clientVars, Kafka!poolVars
  <2> QED BY <1>1, <1>4, <2>1, KafkaReads, PacketKinds
<1>9. ASSUME NEW topic \in Kafka!Topics, Kafka!DeleteEntry(topic)
      PROVE  PoolInv' /\ HoldInv' /\ LookupInv' /\ UNCHANGED received
  <2>1. UNCHANGED received
    BY <1>9 DEF Kafka!DeleteEntry, Kafka!clientVars
  <2> QED BY <1>1, <1>4, <1>9, <2>1, KafkaDeletes
<1>10. ASSUME UNCHANGED <<callers, chan, received, pool, seen, made, waiting, reader>>
       PROVE  PoolInv' /\ HoldInv' /\ LookupInv'
  BY <1>4, <1>10 DEF PoolInv, HoldInv, LookupInv, Touching, Holding, WaitsOn, KafkaId
<1>11. ASSUME NEW q \in KafkaQueries, Kafka!Broker(q)
       PROVE  PoolInv' /\ HoldInv' /\ LookupInv' /\ UNCHANGED received
  <2>1. UNCHANGED <<callers, chan, received, pool, seen, made, waiting, reader>>
    BY <1>11 DEF Kafka!Broker, Kafka!Answer, Kafka!AnswerAgain, Kafka!LoseResponse,
           Kafka!clientVars, Kafka!poolVars
  <2> QED BY <1>10, <2>1
<1>12. ASSUME NEW topic \in Kafka!Topics, NEW q \in KafkaQueries, Kafka!Respond(topic, q)
       PROVE  PoolInv' /\ HoldInv' /\ LookupInv' /\ Kafka!AnswersMatchId'
  BY <1>1, <1>2, <1>3, <1>4, <1>12, KafkaResponds
<1>13. CASE UNCHANGED kafkaVars
  BY <1>5, <1>10, <1>13 DEF kafkaVars
<1>14. \A q \in KafkaQueries : ~Kafka!ReadRequest(q)
  BY <1>3 DEF Kafka!ReadRequest
<1>15. CASE Kafka!Next
  BY <1>5, <1>6, <1>7, <1>8, <1>9, <1>11, <1>12, <1>14, <1>15 DEF Kafka!Next
<1> QED BY <1>13, <1>15

\* kafkaWorker.go, pulsar.go, mqmock.go: a query returns with a response of its
\* own id, with Kafka as long as nobody raced for the pool of channels.
THEOREM QueriesMatchIds ==
    ASSUME KafkaConstants, NoAnswer \notin Calls
    PROVE  SafetySpec => []AnswersMatchId
<1>1. PulsarP!Constants /\ MockP!Constants
  BY DEF PulsarP!Constants, MockP!Constants
<1>2. AllInit => PulsarP!Init /\ MockP!Init /\ KafkaInv
  BY PulsarSame, MockSame, KafkaInit DEF AllInit
<1>3. [AllNext]_allVars => [PulsarP!Next]_(PulsarP!vars) /\ [MockP!Next]_(MockP!vars)
  BY PartSteps, PulsarSame, MockSame
<1>4. KafkaInv /\ [AllNext]_allVars => KafkaInv'
  BY PartSteps, KafkaStep
<1>5. KafkaInv => Kafka!AnswersMatchId
  BY DEF KafkaInv, SoundInv, Kafka!AnswersMatchId
<1>6. PulsarP!AnswersMatchId /\ MockP!AnswersMatchId /\ Kafka!AnswersMatchId => AnswersMatchId
  BY PulsarSame, MockSame DEF AnswersMatchId
<1> QED
  BY <1>1, <1>2, <1>3, <1>4, <1>5, <1>6, PulsarP!MatchInductive, MockP!MatchInductive, PTL
     DEF SafetySpec

-----------------------------------------------------------------------------
(* KafkaRPC: its types; as many channels as callers suffice *)

\* Every channel there is was made, a caller that is past obtainChannel's first step
\* has one, and no more channels were made than callers have begun.
Beginners == {q \in KafkaQueries : callers[q] = "idle"}
KafkaMade ==
    /\ chan \in [KafkaQueries -> 0 .. made]
    /\ \A q \in KafkaQueries : callers[q] # "idle" => chan[q] # 0
    /\ pool \in Seq(1 .. made) /\ seen \in [KafkaQueries -> Seq(1 .. made)]
    /\ waiting \in [KafkaIds -> 0 .. made]
    /\ \A topic \in Kafka!Topics : reader[topic].chan \in 0 .. made
    /\ made + Cardinality(Beginners) <= Cardinality(KafkaQueries)
KafkaCounts ==
    /\ requests \in [KafkaQueries -> Nat] /\ responses \in [KafkaQueries -> Nat]
    /\ lost \subseteq KafkaQueries /\ losses \in 0 .. KafkaFaults
KafkaFlags == subscribed \in BOOLEAN /\ raced \in BOOLEAN
KafkaTyped == KafkaTypes /\ KafkaMade /\ KafkaCounts /\ KafkaFlags

\* A caller that leaves "idle" is one beginner less.
LEMMA Beginning ==
    ASSUME IsFiniteSet(KafkaQueries), KafkaTypes, NEW q \in KafkaQueries, NEW to,
           callers' = [callers EXCEPT ![q] = to], to # "idle"
    PROVE  /\ Beginners' = Beginners \ {q}
           /\ Cardinality(Beginners) \in Nat /\ Cardinality(Beginners') \in Nat
           /\ Cardinality(Beginners') <= Cardinality(Beginners)
           /\ callers[q] = "idle" => Cardinality(Beginners') = Cardinality(Beginners) - 1
<1>1. Beginners' = Beginners \ {q}
  BY DEF Beginners, KafkaTypes
<1>2. IsFiniteSet(Beginners) /\ (callers[q] = "idle" => q \in Beginners)
  BY FS_Subset DEF Beginners
<1>3. /\ IsFiniteSet(Beginners \ {q})
      /\ Cardinality(Beginners \ {q}) =
             IF q \in Beginners THEN Cardinality(Beginners) - 1 ELSE Cardinality(Beginners)
  BY <1>2, FS_RemoveElement
<1>4. Cardinality(Beginners) \in Nat /\ Cardinality(Beginners \ {q}) \in Nat
  BY <1>2, <1>3, FS_CardinalityType
<1> QED BY <1>1, <1>2, <1>3, <1>4

\* The groups of the type invariant hold at first.
LEMMA KafkaTypedInit ==
    ASSUME KafkaConstants, IsFiniteSet(KafkaQueries), Kafka!Init PROVE KafkaTyped
<1> USE DEF Kafka!Init, Kafka!Idle, Kafka!NoChannel, Kafka!Topics
<1>1. KafkaTypes
  BY KafkaInit DEF KafkaInv
<1>2. KafkaCounts /\ KafkaFlags
  <2>1. KafkaCounts
    BY DEF KafkaCounts, KafkaConstants
  <2> QED BY <2>1 DEF KafkaFlags
<1>3. Cardinality(Beginners) = Cardinality(KafkaQueries) /\ Cardinality(KafkaQueries) \in Nat
  <2>1. Beginners = KafkaQueries
    BY DEF Beginners
  <2> QED BY <2>1, FS_CardinalityType
<1>4. KafkaMade
  BY <1>3 DEF KafkaMade, KafkaIds
<1> QED BY <1>1, <1>2, <1>4 DEF KafkaTyped

\* What does not make or move a channel.
LEMMA KafkaMadeKept ==
    ASSUME IsFiniteSet(KafkaQueries), KafkaTypes, KafkaMade, NEW q \in KafkaQueries, NEW to,
           callers' = [callers EXCEPT ![q] = to] \/ UNCHANGED callers,
           to # "idle", callers[q] # "idle" \/ chan'[q] # 0,
           UNCHANGED made, chan' \in [KafkaQueries -> 0 .. made],
           \A p \in KafkaQueries : p = q \/ chan'[p] = chan[p],
           chan[q] # 0 => chan'[q] # 0,
           pool' \in Seq(1 .. made), seen' \in [KafkaQueries -> Seq(1 .. made)],
           waiting' \in [KafkaIds -> 0 .. made],
           \A topic \in Kafka!Topics : reader'[topic].chan \in 0 .. made
    PROVE  KafkaMade'
<1>1. \A p \in KafkaQueries : callers'[p] # "idle" => chan'[p] # 0
  BY DEF KafkaMade, KafkaTypes
<1>2. made + Cardinality(Beginners') <= Cardinality(KafkaQueries)
  <2>1. CASE callers' = [callers EXCEPT ![q] = to]
    <3>1. /\ Cardinality(Beginners) \in Nat /\ Cardinality(Beginners') \in Nat
          /\ Cardinality(Beginners') <= Cardinality(Beginners)
      BY <2>1, Beginning
    <3>2. Cardinality(KafkaQueries) \in Nat /\ made \in Nat
      BY FS_CardinalityType DEF KafkaTypes
    <3> QED BY <3>1, <3>2 DEF KafkaMade
  <2>2. CASE UNCHANGED callers
    BY <2>2 DEF KafkaMade, Beginners
  <2> QED BY <2>1, <2>2
<1> QED BY <1>1, <1>2 DEF KafkaMade

\* What the broker keeps and loses.
LEMMA KafkaCountsStep ==
    ASSUME KafkaConstants, KafkaTypes, KafkaCounts, Kafka!Next \/ UNCHANGED kafkaVars
    PROVE  KafkaCounts'
<1> USE DEF Kafka!Goto, Kafka!clientVars, Kafka!poolVars, Kafka!netVars, Kafka!StorePool,
            Kafka!Fault, KafkaCounts, KafkaConstants
<1>1. ASSUME NEW q \in KafkaQueries, Kafka!Send(q) PROVE KafkaCounts'
  <2>1. \/ UNCHANGED <<requests, responses, lost, losses>>
        \/ /\ requests' = [requests EXCEPT ![q] = @ + 1]
           /\ UNCHANGED <<responses, lost, losses>>
        \/ /\ losses < KafkaFaults /\ losses' = losses + 1 /\ lost' = lost \cup {q}
           /\ UNCHANGED <<requests, responses>>
    BY <1>1 DEF Kafka!Send, Kafka!ObtainChannel, Kafka!ObtainStores, Kafka!Register,
                Kafka!RecycleStores
  <2> QED BY <2>1
<1>2. ASSUME NEW q \in KafkaQueries, Kafka!ReadResponse(q) \/ Kafka!ReadRequest(q)
      PROVE  KafkaCounts'
  BY <1>2 DEF Kafka!ReadResponse, Kafka!ReadRequest
<1>3. ASSUME NEW q \in KafkaQueries, Kafka!Broker(q) PROVE KafkaCounts'
  BY <1>3 DEF Kafka!Broker, Kafka!Answer, Kafka!AnswerAgain, Kafka!LoseResponse
<1>4. ASSUME NEW topic \in Kafka!Topics, NEW q \in KafkaQueries,
             Kafka!ReadZero(topic) \/ Kafka!DeleteEntry(topic) \/ Kafka!Respond(topic, q)
      PROVE  KafkaCounts'
  BY <1>4 DEF Kafka!ReadZero, Kafka!DeleteEntry, Kafka!Respond, Kafka!ReadPool
<1>5. ASSUME NEW topic \in Kafka!Topics, Kafka!ReadZero(topic) \/ Kafka!DeleteEntry(topic)
      PROVE  KafkaCounts'
  BY <1>5 DEF Kafka!ReadZero, Kafka!DeleteEntry
<1>6. CASE UNCHANGED kafkaVars
  BY <1>6 DEF kafkaVars
<1> QED BY <1>1, <1>2, <1>3, <1>4, <1>5, <1>6 DEF Kafka!Next

\* The ghosts stay truth values.
LEMMA KafkaFlagsStep ==
    ASSUME KafkaFlags, Kafka!Next \/ UNCHANGED kafkaVars PROVE KafkaFlags'
<1>1. UNCHANGED subscribed
  BY DEF kafkaVars, Kafka!Next, Kafka!Send, Kafka!Broker, Kafka!ObtainChannel,
         Kafka!ObtainStores, Kafka!Register, Kafka!RecycleStores, Kafka!ReadResponse,
         Kafka!ReadRequest, Kafka!ReadZero, Kafka!DeleteEntry, Kafka!Respond, Kafka!Answer,
         Kafka!AnswerAgain, Kafka!LoseResponse
<1>2. \/ UNCHANGED raced
      \/ raced' = (raced \/ \E p \in KafkaQueries : callers[p] \in {"obtain", "recycle"})
  BY DEF kafkaVars, Kafka!poolVars, Kafka!StorePool, Kafka!ReadPool,
         Kafka!Next, Kafka!Send, Kafka!Broker, Kafka!ObtainChannel,
         Kafka!ObtainStores, Kafka!Register, Kafka!RecycleStores, Kafka!ReadResponse,
         Kafka!ReadRequest, Kafka!ReadZero, Kafka!DeleteEntry, Kafka!Respond, Kafka!Answer,
         Kafka!AnswerAgain, Kafka!LoseResponse
<1>3. raced' \in BOOLEAN
  BY <1>2, Zenon DEF KafkaFlags
<1> QED BY <1>1, <1>3 DEF KafkaFlags

\* A sequence over a set is one over any larger set.
LEMMA SeqWider ==
    ASSUME NEW S, NEW T, S \subseteq T, NEW s \in Seq(S) PROVE s \in Seq(T)
<1>1. PICK n \in Nat : s \in [1 .. n -> S]
  BY SeqDef
<1>2. s \in [1 .. n -> T]
  BY <1>1
<1> QED BY <1>2, SeqDef

\* KafkaMade is inductive, action by action.
LEMMA KafkaMadeStep ==
    ASSUME KafkaConstants, IsFiniteSet(KafkaQueries), KafkaTypes, KafkaMade,
           Kafka!Next \/ UNCHANGED kafkaVars
    PROVE  KafkaMade'
<1> USE DEF Kafka!Goto, Kafka!clientVars, Kafka!poolVars, Kafka!netVars, Kafka!StorePool,
            Kafka!NoChannel, Kafka!Topics
<1>1. /\ made \in Nat /\ chan \in [KafkaQueries -> 0 .. made]
      /\ pool \in Seq(1 .. made) /\ seen \in [KafkaQueries -> Seq(1 .. made)]
      /\ waiting \in [KafkaIds -> 0 .. made]
      /\ \A topic \in Kafka!Topics : reader[topic].chan \in 0 .. made
      /\ \A q \in KafkaQueries : callers[q] # "idle" => chan[q] # 0
      /\ callers \in [KafkaQueries -> Callers]
  BY DEF KafkaTypes, KafkaMade
<1>2. \A q \in KafkaQueries : KafkaId(q) \in KafkaIds
  BY DEF KafkaIds
<1>3. ASSUME NEW q \in KafkaQueries, Kafka!ObtainChannel(q), pool = << >> PROVE KafkaMade'
  <2>1. /\ made' = made + 1 /\ chan' = [chan EXCEPT ![q] = made + 1] /\ callers[q] = "idle"
        /\ callers' = [callers EXCEPT ![q] = "register"]
        /\ UNCHANGED <<received, pool, seen, waiting, reader>>
    BY <1>3 DEF Kafka!ObtainChannel
  <2>2. made' \in Nat /\ \A k \in 0 .. made : k \in 0 .. made'
    BY <1>1, <2>1
  <2>3. /\ chan' \in [KafkaQueries -> 0 .. made'] /\ waiting' \in [KafkaIds -> 0 .. made']
        /\ \A topic \in Kafka!Topics : reader'[topic].chan \in 0 .. made'
    BY <1>1, <2>1, <2>2
  <2>4. \A p \in KafkaQueries : callers'[p] # "idle" => chan'[p] # 0
    BY <1>1, <2>1
  <2>5. pool' \in Seq(1 .. made') /\ seen' \in [KafkaQueries -> Seq(1 .. made')]
    <3>1. \A s \in Seq(1 .. made) : s \in Seq(1 .. made')
      <4>1. 1 .. made \subseteq 1 .. made'
        BY <1>1, <2>1
      <4> QED BY <4>1, SeqWider
    <3> QED BY <1>1, <2>1, <3>1
  <2>6. made' + Cardinality(Beginners') <= Cardinality(KafkaQueries)
    <3>1. /\ Cardinality(Beginners) \in Nat
          /\ Cardinality(Beginners') = Cardinality(Beginners) - 1
      BY <2>1, Beginning
    <3>2. Cardinality(KafkaQueries) \in Nat
      BY FS_CardinalityType
    <3> QED BY <1>1, <2>1, <3>1, <3>2 DEF KafkaMade
  <2> QED BY <2>3, <2>4, <2>5, <2>6 DEF KafkaMade
<1>4. ASSUME NEW q \in KafkaQueries, Kafka!ObtainChannel(q), pool # << >> PROVE KafkaMade'
  <2>1. pool[Len(pool)] \in 1 .. made
    BY <1>1, <1>4, EmptySeq, ElementOfSeq
  <2>2. /\ chan' = [chan EXCEPT ![q] = pool[Len(pool)]]
        /\ seen' = [seen EXCEPT ![q] = pool]
        /\ callers' = [callers EXCEPT ![q] = "obtain"]
        /\ UNCHANGED <<made, pool, waiting, reader>>
    BY <1>4 DEF Kafka!ObtainChannel, Kafka!ReadPool
  <2>3. chan' \in [KafkaQueries -> 0 .. made] /\ chan'[q] # 0
    BY <1>1, <2>1, <2>2
  <2>4. \A p \in KafkaQueries : p = q \/ chan'[p] = chan[p]
    BY <1>1, <2>2
  <2> QED BY <1>1, <2>2, <2>3, <2>4, KafkaMadeKept
<1>5. ASSUME NEW q \in KafkaQueries, Kafka!ObtainStores(q) PROVE KafkaMade'
  <2>1. SubSeq(seen[q], 1, Len(seen[q]) - 1) \in Seq(1 .. made)
    BY <1>1, AllButLast
  <2>2. /\ pool' \in Seq(1 .. made) /\ seen' = [seen EXCEPT ![q] = << >>]
        /\ callers' = [callers EXCEPT ![q] = "register"] /\ callers[q] = "obtain"
        /\ UNCHANGED <<chan, made, waiting, reader>>
    BY <1>5, <2>1 DEF Kafka!ObtainStores
  <2>3. seen' \in [KafkaQueries -> Seq(1 .. made)]
    BY <1>1, <2>2
  <2> QED BY <1>1, <2>2, <2>3, KafkaMadeKept
<1>6. ASSUME NEW q \in KafkaQueries, Kafka!Register(q) PROVE KafkaMade'
  <2>1. /\ waiting' = [waiting EXCEPT ![KafkaId(q)] = chan[q]]
        /\ callers' = [callers EXCEPT ![q] = "waiting"] /\ callers[q] = "register"
        /\ UNCHANGED <<chan, made, pool, seen, reader>>
    BY <1>6 DEF Kafka!Register
  <2>2. waiting' \in [KafkaIds -> 0 .. made]
    BY <1>1, <1>2, <2>1
  <2> QED BY <1>1, <2>1, <2>2, KafkaMadeKept
<1>7. ASSUME NEW q \in KafkaQueries, Kafka!RecycleStores(q) PROVE KafkaMade'
  <2>1. Append(seen[q], chan[q]) \in Seq(1 .. made)
    <3>1. chan[q] \in 1 .. made /\ seen[q] \in Seq(1 .. made)
      BY <1>1, <1>7 DEF Kafka!RecycleStores
    <3> QED BY <3>1, AppendProperties
  <2>2. /\ pool' \in Seq(1 .. made) /\ seen' = [seen EXCEPT ![q] = << >>]
        /\ callers' = [callers EXCEPT ![q] = "done"] /\ callers[q] = "recycle"
        /\ UNCHANGED <<chan, made, waiting, reader>>
    BY <1>7, <2>1 DEF Kafka!RecycleStores
  <2>3. seen' \in [KafkaQueries -> Seq(1 .. made)]
    BY <1>1, <2>2
  <2> QED BY <1>1, <2>2, <2>3, KafkaMadeKept
<1>8. ASSUME UNCHANGED <<callers, chan, pool, seen, made, waiting>>,
             \A topic \in Kafka!Topics : reader'[topic].chan \in 0 .. made
      PROVE  KafkaMade'
  BY <1>1, <1>8 DEF KafkaMade, Beginners
<1>9. ASSUME NEW topic \in Kafka!Topics, NEW m \in Kafka!Packets, Kafka!OnMessage(topic, m),
             UNCHANGED <<callers, chan, pool, seen, made, waiting>>
      PROVE  KafkaMade'
  <2>1. waiting[Kafka!IdOf(m)] \in 0 .. made
    BY <1>1, IdOfPacket
  <2> QED BY <1>1, <1>8, <1>9, <2>1 DEF Kafka!OnMessage, KafkaTypes
<1>10. ASSUME NEW q \in KafkaQueries, Kafka!ReadResponse(q) \/ Kafka!ReadRequest(q)
       PROVE  KafkaMade'
  BY <1>9, <1>10, PacketKinds DEF Kafka!ReadResponse, Kafka!ReadRequest
<1>11. ASSUME NEW topic \in Kafka!Topics, Kafka!ReadZero(topic) PROVE KafkaMade'
  BY <1>9, <1>11, PacketKinds DEF Kafka!ReadZero
<1>12. ASSUME NEW topic \in Kafka!Topics, Kafka!DeleteEntry(topic) PROVE KafkaMade'
  <2>1. /\ waiting' = [waiting EXCEPT ![Kafka!IdOf(reader[topic].packet)] = 0]
        /\ reader' = [reader EXCEPT ![topic].at = "send"]
        /\ UNCHANGED <<callers, chan, made, pool, seen>>
    BY <1>12 DEF Kafka!DeleteEntry
  <2>2. waiting' \in [KafkaIds -> 0 .. made]
    <3>1. 0 \in 0 .. made
      BY <1>1
    <3> QED BY <1>1, <2>1, <3>1
  <2>3. \A other \in Kafka!Topics : reader'[other].chan \in 0 .. made
    BY <1>1, <2>1 DEF KafkaTypes
  <2> QED BY <1>1, <2>1, <2>2, <2>3 DEF KafkaMade, Beginners
<1>13. ASSUME NEW topic \in Kafka!Topics, NEW q \in KafkaQueries, Kafka!Respond(topic, q)
       PROVE  KafkaMade'
  <2>1. /\ callers' = [callers EXCEPT ![q] = "recycle"] /\ callers[q] = "waiting"
        /\ seen' = [seen EXCEPT ![q] = pool]
        /\ reader' = [reader EXCEPT ![topic] = Kafka!Idle]
        /\ UNCHANGED <<chan, made, pool, waiting>>
    BY <1>13 DEF Kafka!Respond, Kafka!ReadPool
  <2>2. \A other \in Kafka!Topics : reader'[other].chan \in 0 .. made
    BY <1>1, <2>1 DEF KafkaTypes, Kafka!Idle
  <2> QED BY <1>1, <2>1, <2>2, KafkaMadeKept
<1>14. ASSUME NEW q \in KafkaQueries, Kafka!Broker(q) PROVE KafkaMade'
  BY <1>1, <1>8, <1>14 DEF Kafka!Broker, Kafka!Answer, Kafka!AnswerAgain, Kafka!LoseResponse
<1>15. CASE UNCHANGED kafkaVars
  BY <1>1, <1>8, <1>15 DEF kafkaVars
<1> QED
  BY <1>3, <1>4, <1>5, <1>6, <1>7, <1>10, <1>11, <1>12, <1>13, <1>14, <1>15
     DEF Kafka!Next, Kafka!Send

\* The groups imply the type invariant: the channels suffice.
LEMMA KafkaTypeOK ==
    ASSUME KafkaConstants, IsFiniteSet(KafkaQueries), KafkaTyped PROVE Kafka!TypeOK
<1> DEFINE N == Cardinality(KafkaQueries)
<1>2. N \in Nat /\ made \in Nat /\ made <= N
  <2>1. N \in Nat
    BY FS_CardinalityType
  <2>2. Cardinality(Beginners) \in Nat
    BY FS_Subset, FS_CardinalityType DEF Beginners
  <2> HIDE DEF N
  <2>3. made \in Nat /\ made + Cardinality(Beginners) <= N
    BY DEF KafkaTyped, KafkaTypes, KafkaMade, N
  <2> QED BY <2>1, <2>2, <2>3
<1> HIDE DEF N
<1>3. /\ \A k \in 0 .. made : k \in 1 .. N \cup {Kafka!NoChannel}
      /\ \A k \in 1 .. made : k \in 1 .. N
  BY <1>2 DEF Kafka!NoChannel
<1>4. \A s \in Seq(1 .. made) : s \in Seq(1 .. N)
  <2>1. 1 .. made \subseteq 1 .. N
    BY <1>3
  <2> QED BY <2>1, SeqWider
<1>5. /\ chan \in [KafkaQueries -> 1 .. N \cup {Kafka!NoChannel}]
      /\ waiting \in [KafkaIds -> 1 .. N \cup {Kafka!NoChannel}]
      /\ made \in 1 .. N \cup {Kafka!NoChannel}
  <2>1. made \in 0 .. made
    BY <1>2
  <2> QED BY <1>3, <2>1 DEF KafkaTyped, KafkaMade
<1>6. pool \in Seq(1 .. N) /\ seen \in [KafkaQueries -> Seq(1 .. N)]
  BY <1>4 DEF KafkaTyped, KafkaMade
<1>7. reader \in [Kafka!Topics -> [at : {"idle", "found", "send"},
                                  chan : 1 .. N \cup {Kafka!NoChannel},
                                  packet : Kafka!Packets]]
  BY <1>3 DEF KafkaTyped, KafkaTypes, KafkaMade, Kafka!Topics
<1> QED
  BY <1>5, <1>6, <1>7 DEF KafkaTyped, KafkaTypes, KafkaCounts, KafkaFlags, Kafka!TypeOK,
     Kafka!Places, Callers, KafkaIds, N

-----------------------------------------------------------------------------
(* Healthz: no answer comes too early, no message makes two requests successful *)

\* The names of categories, data bases and cachers differ in their prefixes
\* (initHealthzMQConsumer, checkDbConnections, checkCacherConnection).
HealthConstants ==
    /\ NoHandler \notin Requests /\ IsFiniteSet(Requests)
    /\ NoCategory \notin [cat : HealthQueues, sec : 1 .. HealthSeconds]
    /\ HealthQueues \cap DataBases = {}
    /\ HealthSeconds \in Nat \ {0} /\ HealthFaults \in Nat

\* TypeOK by the groups of variables that change together.
PlaceTypes ==
    /\ place \in [Requests -> {"idle", "check", "register", "head", "body", "select",
                               "clear", "clearing", "gone", "excused"}]
    /\ todos \in [Requests -> SUBSET HealthQueues]
    /\ current \in [Requests -> Health!Keys \cup {NoCategory}]
    /\ \A h \in Requests : current[h] # NoCategory <=> place[h] \in {"register", "clearing"}

LoopTypes ==
    /\ parts \in [Requests -> SUBSET Health!Names]
    /\ clears \in [Requests -> SUBSET HealthQueues]
    /\ still \in [Requests -> BOOLEAN] /\ timer \in [Requests -> {"armed", "quit"}]
    /\ results \in [Requests -> [Health!Names -> {"unset", "sent"} \cup Health!Statuses]]

SharedTypes ==
    /\ categories \in [Requests -> [HealthQueues -> 0 .. HealthSeconds]]
    /\ pushes \in [Requests -> SUBSET [name : Health!Names, status : Health!Statuses]]
    /\ cache \in [HealthQueues -> [Health!Seconds -> Requests \cup {NoHandler}]]

RunTypes ==
    /\ channel \in [HealthQueues -> Seq(Health!Messages)]
    /\ pending \in [HealthQueues -> Seq(Health!Messages)]
    /\ flush \in [HealthQueues -> Seq(Health!Messages)]
    /\ delivered \in [HealthQueues -> Seq(Health!Messages)]
    /\ \A c \in HealthQueues : Len(channel[c]) <= 1
    /\ status \in [HealthQueues -> [to : Requests \cup {NoHandler}, ok : BOOLEAN]]
    /\ link \in [HealthQueues -> {"up", "broken", "nil"}]

WorkTypes ==
    /\ worker \in [HealthQueues -> [at : {"evict", "remove"}, sec : Health!Seconds,
                                     ev : Requests] \cup {Health!IdleWorker}]
    /\ consumed \in [HealthQueues -> [Health!Seconds -> Nat]]

ClockTypes ==
    /\ pings \subseteq DataBases /\ now \in Health!Seconds
    /\ failures \in 0 .. HealthFaults
    /\ route \in [HealthQueues -> Health!Routes] /\ enabling \in Health!Seconds

HealthTypes ==
    PlaceTypes /\ LoopTypes /\ SharedTypes /\ RunTypes /\ WorkTypes /\ ClockTypes

\* The groups are all of the type invariant.
LEMMA HealthTypeOK == Health!TypeOK <=> HealthTypes
  BY DEF Health!TypeOK, HealthTypes, PlaceTypes, LoopTypes, SharedTypes, RunTypes,
         WorkTypes, ClockTypes


\* What the operations on the queues, the pushes and the results keep.
LEMMA Queueing ==
    ASSUME NEW f \in [HealthQueues -> Seq(Health!Messages)], NEW c \in HealthQueues
    PROVE  /\ Len(f[c]) \in Nat
           /\ \A m \in Health!Messages :
                  /\ [f EXCEPT ![c] = Append(@, m)] \in [HealthQueues -> Seq(Health!Messages)]
                  /\ Len(Append(f[c], m)) = Len(f[c]) + 1
           /\ f[c] # << >> =>
                  /\ Head(f[c]) \in Health!Messages
                  /\ [f EXCEPT ![c] = Tail(@)] \in [HealthQueues -> Seq(Health!Messages)]
                  /\ Len(Tail(f[c])) = Len(f[c]) - 1
<1>1. f[c] \in Seq(Health!Messages)
  OBVIOUS
<1> HIDE DEF Health!Messages
<1>2. \A m \in Health!Messages : /\ Append(f[c], m) \in Seq(Health!Messages)
                                 /\ Len(Append(f[c], m)) = Len(f[c]) + 1
  BY <1>1
<1>3. f[c] # << >> => /\ Head(f[c]) \in Health!Messages /\ Tail(f[c]) \in Seq(Health!Messages)
                      /\ Len(Tail(f[c])) = Len(f[c]) - 1
  BY <1>1, HeadTailProperties
<1> QED BY <1>1, <1>2, <1>3

\* One push more.
LEMMA Widened ==
    ASSUME NEW A, NEW S, NEW f \in [A -> SUBSET S], NEW a \in A, NEW x \in S
    PROVE  [f EXCEPT ![a] = @ \cup {x}] \in [A -> SUBSET S]
  OBVIOUS

\* Results of categories and pings are of the type of the pushes.
LEMMA HealthResults ==
    \A n \in HealthQueues \cup DataBases, st \in {"none", "success", "failed", "timeout"} :
        Health!Result(n, st) \in [name : Health!Names, status : Health!Statuses]
  BY DEF Health!Result, Health!Names, Health!Statuses

\* What a message that Run publishes leaves.
LEMMA Published ==
    ASSUME RunTypes, NEW c \in HealthQueues, NEW m \in Health!Messages, Health!Publish(c, m)
    PROVE  /\ status' \in [HealthQueues -> [to : Requests \cup {NoHandler}, ok : BOOLEAN]]
           /\ delivered' \in [HealthQueues -> Seq(Health!Messages)]
<1>1. m.to \in Requests
  BY DEF Health!Messages
<1>2. status' \in [HealthQueues -> [to : Requests \cup {NoHandler}, ok : BOOLEAN]]
  BY <1>1 DEF Health!Publish, RunTypes
<1>3. delivered' \in [HealthQueues -> Seq(Health!Messages)]
  BY Queueing DEF Health!Publish, RunTypes
<1> QED BY <1>2, <1>3

\* What Remove leaves.
LEMMA KeyRemoved ==
    ASSUME SharedTypes, NEW h \in Requests, NEW c \in HealthQueues, NEW s \in Health!Seconds,
           NEW st \in {"success", "timeout"}, Health!RemoveKey(h, c, s, st), HealthConstants
    PROVE  SharedTypes'
<1>1. /\ cache' = [cache EXCEPT ![c][s] = NoHandler]
      /\ categories' = [categories EXCEPT ![h][c] = 0]
      /\ pushes' = [pushes EXCEPT ![h] = @ \cup {Health!Result(c, st)}]
  BY DEF Health!RemoveKey
<1>2. cache' \in [HealthQueues -> [Health!Seconds -> Requests \cup {NoHandler}]]
  BY <1>1 DEF SharedTypes
<1>3. 0 \in 0 .. HealthSeconds
  BY DEF HealthConstants
<1>4. categories' \in [Requests -> [HealthQueues -> 0 .. HealthSeconds]]
  BY <1>1, <1>3 DEF SharedTypes
<1>5. Health!Result(c, st) \in [name : Health!Names, status : Health!Statuses]
  BY HealthResults
<1>6. pushes' \in [Requests -> SUBSET [name : Health!Names, status : Health!Statuses]]
  BY <1>1, <1>5, Widened DEF SharedTypes
<1> QED BY <1>2, <1>4, <1>6 DEF SharedTypes

\* Type correctness, action by action.
LEMMA HealthTypesStep ==
    ASSUME HealthConstants, HealthTypes, Health!Next PROVE HealthTypes'
<1> USE DEF Health!Goto, Health!handlerVars, Health!runVars, Health!workVars,
            Health!sharedVars, Health!clockVars, HealthTypes
<1>1. ASSUME NEW h \in Requests, Health!Request(h) PROVE HealthTypes'
  <2>1. PlaceTypes'
    BY <1>1 DEF Health!Request, PlaceTypes
  <2>2. LoopTypes' /\ SharedTypes' /\ RunTypes' /\ WorkTypes' /\ ClockTypes'
    BY <1>1 DEF Health!Request, LoopTypes, SharedTypes, RunTypes, WorkTypes, ClockTypes
  <2> QED BY <2>1, <2>2 DEF HealthTypes
<1>2. ASSUME NEW h \in Requests, NEW c \in HealthQueues, Health!CheckMQMessage(h, c)
      PROVE  HealthTypes'
  <2>1. PlaceTypes'
    <3>1. [cat |-> c, sec |-> now] \in Health!Keys /\ [cat |-> c, sec |-> now] # NoCategory
      BY DEF ClockTypes, Health!Keys, Health!Seconds, HealthConstants
    <3>2. todos' \in [Requests -> SUBSET HealthQueues]
      BY <1>2 DEF Health!CheckMQMessage, PlaceTypes
    <3>3. CASE UNCHANGED <<place, current>>
      BY <3>2, <3>3 DEF PlaceTypes
    <3>4. CASE current' = [current EXCEPT ![h] = [cat |-> c, sec |-> now]]
               /\ place' = [place EXCEPT ![h] = "register"]
      BY <3>1, <3>2, <3>4 DEF PlaceTypes
    <3> QED BY <1>2, <3>3, <3>4 DEF Health!CheckMQMessage
  <2>2. SharedTypes'
    <3>1. PICK st \in {"failed", "none"} :
              pushes' = [pushes EXCEPT ![h] = @ \cup {Health!Result(c, st)}]
          /\ UNCHANGED <<categories, cache>>
      BY <1>2 DEF Health!CheckMQMessage
    <3>2. Health!Result(c, st) \in [name : Health!Names, status : Health!Statuses]
      BY HealthResults
    <3> QED BY <3>1, <3>2 DEF SharedTypes
  <2>3. RunTypes'
    <3>1. UNCHANGED <<pending, flush, status, link, delivered>>
      BY <1>2 DEF Health!CheckMQMessage
    <3>2. CASE UNCHANGED channel
      BY <3>1, <3>2 DEF RunTypes
    <3>3. CASE channel' = [channel EXCEPT ![c] = Append(@, Health!Message(h, now))]
               /\ Len(channel[c]) < 1
      <4>1. Health!Message(h, now) \in Health!Messages
        BY DEF ClockTypes, Health!Message, Health!Messages
      <4>2. channel' \in [HealthQueues -> Seq(Health!Messages)]
        BY <3>3, <4>1, Queueing DEF RunTypes
      <4>3. Len(Append(channel[c], Health!Message(h, now))) <= 1
        BY <3>3, <4>1, Queueing DEF RunTypes
      <4>4. \A d \in HealthQueues : Len(channel'[d]) <= 1
        BY <3>3, <4>3 DEF RunTypes
      <4> QED BY <3>1, <4>2, <4>4 DEF RunTypes
    <3> QED BY <1>2, <3>2, <3>3 DEF Health!CheckMQMessage
  <2>4. LoopTypes' /\ WorkTypes' /\ ClockTypes'
    BY <1>2 DEF Health!CheckMQMessage, LoopTypes, WorkTypes, ClockTypes
  <2> QED BY <2>1, <2>2, <2>3, <2>4 DEF HealthTypes
<1>3. ASSUME NEW h \in Requests, Health!Register(h) PROVE HealthTypes'
  <2>1. PlaceTypes'
    BY <1>3 DEF Health!Register, PlaceTypes
  <2>2. SharedTypes'
    <3>1. current[h] \in Health!Keys
      BY <1>3 DEF Health!Register, PlaceTypes
    <3>2. /\ current[h].cat \in HealthQueues /\ current[h].sec \in Health!Seconds
          /\ current[h].sec \in 0 .. HealthSeconds
      BY <3>1 DEF Health!Keys, Health!Seconds
    <3>3. /\ categories' = [categories EXCEPT ![h][current[h].cat] = current[h].sec]
          /\ cache' = [cache EXCEPT ![current[h].cat][current[h].sec] = h]
          /\ pushes' = pushes
      BY <1>3 DEF Health!Register
    <3>4. categories' \in [Requests -> [HealthQueues -> 0 .. HealthSeconds]]
      BY <3>2, <3>3 DEF SharedTypes
    <3>5. cache' \in [HealthQueues -> [Health!Seconds -> Requests \cup {NoHandler}]]
      BY <3>2, <3>3 DEF SharedTypes
    <3> QED BY <3>3, <3>4, <3>5 DEF SharedTypes
  <2>3. LoopTypes' /\ RunTypes' /\ WorkTypes' /\ ClockTypes'
    BY <1>3 DEF Health!Register, LoopTypes, RunTypes, WorkTypes, ClockTypes
  <2> QED BY <2>1, <2>2, <2>3 DEF HealthTypes
<1>4. ASSUME NEW h \in Requests, Health!StartChecks(h) PROVE HealthTypes'
  <2>1. PlaceTypes'
    BY <1>4 DEF Health!StartChecks, PlaceTypes
  <2>2. LoopTypes'
    <3>1. PICK listed \in SUBSET Health!Names :
              /\ parts' = [parts EXCEPT ![h] = listed]
              /\ still' = [still EXCEPT ![h] = listed # {}]
              /\ UNCHANGED <<clears, timer, results>>
      BY <1>4 DEF Health!StartChecks, Health!Names, ClockTypes
    <3> QED BY <3>1 DEF LoopTypes
  <2>3. SharedTypes'
    <3>1. PICK good \in SUBSET pings :
              pushes' = [pushes EXCEPT ![h] =
                             @ \cup {Health!Result(p, "success") : p \in good}
                               \cup {Health!Result(p, "failed") : p \in pings \ good}]
      BY <1>4 DEF Health!StartChecks
    <3>2. {Health!Result(p, "success") : p \in good}
          \cup {Health!Result(p, "failed") : p \in pings \ good}
              \subseteq [name : Health!Names, status : Health!Statuses]
      BY HealthResults DEF ClockTypes
    <3> QED BY <1>4, <3>1, <3>2 DEF Health!StartChecks, SharedTypes
  <2>4. RunTypes' /\ WorkTypes' /\ ClockTypes'
    BY <1>4 DEF Health!StartChecks, RunTypes, WorkTypes, ClockTypes
  <2> QED BY <2>1, <2>2, <2>3, <2>4 DEF HealthTypes
<1>5. ASSUME NEW h \in Requests, Health!LoopHead(h) PROVE HealthTypes'
  <2>1. PlaceTypes'
    BY <1>5 DEF Health!LoopHead, PlaceTypes
  <2>2. LoopTypes' /\ SharedTypes' /\ RunTypes' /\ WorkTypes' /\ ClockTypes'
    BY <1>5 DEF Health!LoopHead, LoopTypes, SharedTypes, RunTypes, WorkTypes, ClockTypes
  <2> QED BY <2>1, <2>2 DEF HealthTypes
<1>6. ASSUME NEW h \in Requests, Health!LoopBody(h) PROVE HealthTypes'
  <2>1. PlaceTypes'
    BY <1>6 DEF Health!LoopBody, PlaceTypes
  <2>2. LoopTypes'
    BY <1>6 DEF Health!LoopBody, LoopTypes
  <2>3. SharedTypes' /\ RunTypes' /\ WorkTypes' /\ ClockTypes'
    BY <1>6 DEF Health!LoopBody, SharedTypes, RunTypes, WorkTypes, ClockTypes
  <2> QED BY <2>1, <2>2, <2>3 DEF HealthTypes
<1>7. ASSUME NEW h \in Requests, Health!SelectTimer(h) PROVE HealthTypes'
  <2>1. PlaceTypes'
    BY <1>7 DEF Health!SelectTimer, PlaceTypes
  <2>2. LoopTypes'
    BY <1>7 DEF Health!SelectTimer, LoopTypes
  <2>3. SharedTypes' /\ RunTypes' /\ WorkTypes' /\ ClockTypes'
    BY <1>7 DEF Health!SelectTimer, SharedTypes, RunTypes, WorkTypes, ClockTypes
  <2> QED BY <2>1, <2>2, <2>3 DEF HealthTypes
<1>8. ASSUME NEW h \in Requests, Health!SelectQuit(h) PROVE HealthTypes'
  <2>1. PlaceTypes'
    BY <1>8 DEF Health!SelectQuit, PlaceTypes
  <2>2. LoopTypes'
    BY <1>8 DEF Health!SelectQuit, LoopTypes
  <2>3. SharedTypes' /\ RunTypes' /\ WorkTypes' /\ ClockTypes'
    BY <1>8 DEF Health!SelectQuit, SharedTypes, RunTypes, WorkTypes, ClockTypes
  <2> QED BY <2>1, <2>2, <2>3 DEF HealthTypes
<1>9. ASSUME NEW h \in Requests, NEW r \in pushes[h], Health!SelectTrigger(h, r)
      PROVE  HealthTypes'
  <2>1. PlaceTypes'
    BY <1>9 DEF Health!SelectTrigger, PlaceTypes
  <2>2. LoopTypes'
    <3>1. r.name \in Health!Names /\ r.status \in Health!Statuses
      BY <1>9 DEF Health!SelectTrigger, SharedTypes
    <3>2. results' = [results EXCEPT ![h][r.name] = r.status]
          /\ UNCHANGED <<clears, timer>>
      BY <1>9 DEF Health!SelectTrigger
    <3>3. results' \in [Requests -> [Health!Names -> {"unset",
    "sent"} \cup Health!Statuses]]
      BY <3>1, <3>2 DEF LoopTypes
    <3>4. parts' \in [Requests -> SUBSET Health!Names] /\ still' \in [Requests -> BOOLEAN]
      <4>1. CASE r.status = "none"
        BY <1>9, <4>1 DEF Health!SelectTrigger, LoopTypes
      <4>2. CASE r.status # "none"
        <5>1. parts' = [parts EXCEPT ![h] = @ \ {r.name}]
              /\ still' = [still EXCEPT ![h] = parts[h] \ {r.name} # {}]
          BY <1>9, <4>2 DEF Health!SelectTrigger
        <5>2. parts' \in [Requests -> SUBSET Health!Names]
          BY <5>1 DEF LoopTypes
        <5>3. still' \in [Requests -> BOOLEAN]
          BY <5>1 DEF LoopTypes
        <5> QED BY <5>2, <5>3
      <4> QED BY <4>1, <4>2
    <3> QED BY <3>2, <3>3, <3>4 DEF LoopTypes
  <2>3. SharedTypes'
    BY <1>9 DEF Health!SelectTrigger, SharedTypes
  <2>4. RunTypes' /\ WorkTypes' /\ ClockTypes'
    BY <1>9 DEF Health!SelectTrigger, RunTypes, WorkTypes, ClockTypes
  <2> QED BY <2>1, <2>2, <2>3, <2>4 DEF HealthTypes
<1>10. ASSUME NEW h \in Requests, NEW c \in HealthQueues, Health!SelectEvent(h, c)
       PROVE  HealthTypes'
  <2>1. PlaceTypes'
    BY <1>10 DEF Health!SelectEvent, PlaceTypes
  <2>2. LoopTypes'
    <3>1. results' = results \/ results' = [results EXCEPT ![h][c] = "sent"]
      BY <1>10 DEF Health!SelectEvent
    <3>2. c \in Health!Names
      BY DEF Health!Names
    <3>3. results' \in [Requests -> [Health!Names -> {"unset",
    "sent"} \cup Health!Statuses]]
      <4>1. CASE results' = results
        BY <4>1 DEF LoopTypes
      <4>2. CASE results' = [results EXCEPT ![h][c] = "sent"]
        BY <3>2, <4>2 DEF LoopTypes
      <4> QED BY <3>1, <4>1, <4>2
    <3> QED BY <1>10, <3>3 DEF Health!SelectEvent, LoopTypes
  <2>3. SharedTypes'
    <3>1. /\ pushes' = pushes \/ pushes' = [pushes EXCEPT ![h] =
                                               @ \cup {Health!Result(c, "failed")}]
          /\ UNCHANGED <<categories, cache>>
      BY <1>10 DEF Health!SelectEvent
    <3>2. Health!Result(c, "failed") \in [name : Health!Names, status : Health!Statuses]
      BY HealthResults
    <3>3. CASE pushes' = [pushes EXCEPT ![h] = @ \cup {Health!Result(c, "failed")}]
      BY <3>1, <3>2, <3>3, Widened DEF SharedTypes
    <3> QED BY <3>1, <3>3 DEF SharedTypes
  <2>4. RunTypes'
    <3>1. status' = [status EXCEPT ![c] = Health!NoStatus]
          /\ UNCHANGED <<channel, pending, flush, link, delivered>>
      BY <1>10 DEF Health!SelectEvent
    <3>2. Health!NoStatus \in [to : Requests \cup {NoHandler}, ok : BOOLEAN]
      BY DEF Health!NoStatus
    <3> QED BY <3>1, <3>2 DEF RunTypes
  <2>5. WorkTypes' /\ ClockTypes'
    BY <1>10 DEF Health!SelectEvent, WorkTypes, ClockTypes
  <2> QED BY <2>1, <2>2, <2>3, <2>4, <2>5 DEF HealthTypes
<1>11. ASSUME NEW h \in Requests, NEW c \in HealthQueues, Health!ClearCheck(h, c)
       PROVE  HealthTypes'
  <2>1. PlaceTypes'
    <3>1. CASE categories[h][c] = 0
      BY <1>11, <3>1 DEF Health!ClearCheck, PlaceTypes
    <3>2. CASE categories[h][c] # 0
      <4>1. categories[h][c] \in Health!Seconds
        BY <3>2 DEF SharedTypes, Health!Seconds, HealthConstants
      <4>2. [cat |-> c, sec |-> categories[h][c]] \in Health!Keys
            /\ [cat |-> c, sec |-> categories[h][c]] # NoCategory
        BY <4>1 DEF Health!Keys, Health!Seconds, HealthConstants
      <4> QED BY <1>11, <3>2, <4>2 DEF Health!ClearCheck, PlaceTypes
    <3> QED BY <3>1, <3>2
  <2>2. LoopTypes'
    BY <1>11 DEF Health!ClearCheck, LoopTypes
  <2>3. SharedTypes' /\ RunTypes' /\ WorkTypes' /\ ClockTypes'
    BY <1>11 DEF Health!ClearCheck, SharedTypes, RunTypes, WorkTypes, ClockTypes
  <2> QED BY <2>1, <2>2, <2>3 DEF HealthTypes
<1>12. ASSUME NEW h \in Requests, Health!ClearDelete(h) PROVE HealthTypes'
  <2>1. PlaceTypes'
    BY <1>12 DEF Health!ClearDelete, PlaceTypes
  <2>2. SharedTypes'
    <3>1. current[h] \in Health!Keys
      BY <1>12 DEF Health!ClearDelete, PlaceTypes
    <3>2. current[h].cat \in HealthQueues /\ current[h].sec \in Health!Seconds
      BY <3>1 DEF Health!Keys
    <3> QED BY <1>12, <3>2, KeyRemoved DEF Health!ClearDelete
  <2>3. LoopTypes' /\ RunTypes' /\ WorkTypes' /\ ClockTypes'
    BY <1>12 DEF Health!ClearDelete, LoopTypes, RunTypes, WorkTypes, ClockTypes
  <2> QED BY <2>1, <2>2, <2>3 DEF HealthTypes
<1>13. ASSUME NEW h \in Requests, Health!ClearDone(h) PROVE HealthTypes'
  <2>1. PlaceTypes'
    BY <1>13 DEF Health!ClearDone, PlaceTypes
  <2>2. LoopTypes'
    BY <1>13 DEF Health!ClearDone, LoopTypes
  <2>3. SharedTypes' /\ RunTypes' /\ WorkTypes' /\ ClockTypes'
    BY <1>13 DEF Health!ClearDone, SharedTypes, RunTypes, WorkTypes, ClockTypes
  <2> QED BY <2>1, <2>2, <2>3 DEF HealthTypes
<1>14. ASSUME NEW c \in HealthQueues, Health!Lookup(c) PROVE HealthTypes'
  <2>1. RunTypes'
    <3>1. delivered' = [delivered EXCEPT ![c] = Tail(@)] /\ delivered[c] # << >>
          /\ UNCHANGED <<channel, pending, flush, status, link>>
      BY <1>14 DEF Health!Lookup
    <3> QED BY <3>1, Queueing DEF RunTypes
  <2>2. WorkTypes'
    <3> DEFINE s == Head(delivered[c]).sec
    <3>1. s \in Health!Seconds
      <4>1. Head(delivered[c]) \in Health!Messages
        BY <1>14, Queueing DEF Health!Lookup, RunTypes
      <4> QED BY <4>1 DEF Health!Messages
    <3>2. /\ consumed' = [consumed EXCEPT ![c][s] = @ + 1]
          /\ worker' = [worker EXCEPT ![c] =
                            IF cache[c][s] = NoHandler THEN Health!IdleWorker
                            ELSE [at |-> "evict", sec |-> s, ev |-> cache[c][s]]]
      BY <1>14 DEF Health!Lookup
    <3>3. consumed' \in [HealthQueues -> [Health!Seconds -> Nat]]
      <4>1. consumed[c][s] + 1 \in Nat
        BY <3>1 DEF WorkTypes
      <4> QED BY <3>1, <3>2, <4>1 DEF WorkTypes
    <3>4. cache[c][s] \in Requests \cup {NoHandler}
      BY <3>1 DEF SharedTypes
    <3> QED BY <3>1, <3>2, <3>3, <3>4 DEF WorkTypes
  <2>3. PlaceTypes' /\ LoopTypes' /\ SharedTypes' /\ ClockTypes'
    BY <1>14 DEF Health!Lookup, PlaceTypes, LoopTypes, SharedTypes, ClockTypes
  <2> QED BY <2>1, <2>2, <2>3 DEF HealthTypes
<1>15. ASSUME NEW c \in HealthQueues, Health!Evict(c) PROVE HealthTypes'
  <2>1. SharedTypes'
    BY <1>15 DEF Health!Evict, SharedTypes
  <2>2. WorkTypes'
    <3>1. worker[c] \in [at : {"evict", "remove"}, sec : Health!Seconds, ev : Requests]
      BY <1>15 DEF Health!Evict, Health!IdleWorker, WorkTypes
    <3>2. [worker[c] EXCEPT !.at = "remove"]
              \in [at : {"evict", "remove"}, sec : Health!Seconds, ev : Requests]
      BY <3>1
    <3> QED BY <1>15, <3>2 DEF Health!Evict, WorkTypes
  <2>3. PlaceTypes' /\ LoopTypes' /\ RunTypes' /\ ClockTypes'
    BY <1>15 DEF Health!Evict, PlaceTypes, LoopTypes, RunTypes, ClockTypes
  <2> QED BY <2>1, <2>2, <2>3 DEF HealthTypes
<1>16. ASSUME NEW c \in HealthQueues, Health!WorkerRemove(c) PROVE HealthTypes'
  <2>1. SharedTypes'
    <3>1. worker[c] \in [at : {"evict", "remove"}, sec : Health!Seconds, ev : Requests]
      BY <1>16 DEF Health!WorkerRemove, Health!IdleWorker, WorkTypes
    <3> QED BY <1>16, <3>1, KeyRemoved DEF Health!WorkerRemove
  <2>2. WorkTypes'
    BY <1>16 DEF Health!WorkerRemove, WorkTypes
  <2>3. PlaceTypes' /\ LoopTypes' /\ RunTypes' /\ ClockTypes'
    BY <1>16 DEF Health!WorkerRemove, PlaceTypes, LoopTypes, RunTypes, ClockTypes
  <2> QED BY <2>1, <2>2, <2>3 DEF HealthTypes
<1>17. ASSUME NEW c \in HealthQueues, Health!RunPublish(c) PROVE HealthTypes'
  <2>1. RunTypes'
    <3>1. /\ channel[c] # << >> /\ channel' = [channel EXCEPT ![c] = Tail(@)]
          /\ \/ pending' = [pending EXCEPT ![c] = Append(@, Head(channel[c]))]
                /\ UNCHANGED <<status, delivered>>
             \/ Health!Publish(c, Head(channel[c])) /\ UNCHANGED pending
          /\ UNCHANGED <<flush, link>>
      BY <1>17 DEF Health!RunPublish
    <3>2. Head(channel[c]) \in Health!Messages
      BY <3>1, Queueing DEF RunTypes
    <3>3. /\ pending' \in [HealthQueues -> Seq(Health!Messages)]
          /\ status' \in [HealthQueues -> [to : Requests \cup {NoHandler}, ok : BOOLEAN]]
          /\ delivered' \in [HealthQueues -> Seq(Health!Messages)]
      <4>1. CASE Health!Publish(c, Head(channel[c])) /\ UNCHANGED pending
        BY <3>2, <4>1, Published DEF RunTypes
      <4>2. CASE pending' = [pending EXCEPT ![c] = Append(@, Head(channel[c]))]
                 /\ UNCHANGED <<status, delivered>>
        <5>1. pending' \in [HealthQueues -> Seq(Health!Messages)]
          BY <3>2, <4>2, Queueing DEF RunTypes
        <5> QED BY <4>2, <5>1 DEF RunTypes
      <4> QED BY <3>1, <4>1, <4>2
    <3>4. /\ channel' \in [HealthQueues -> Seq(Health!Messages)]
          /\ Len(Tail(channel[c])) <= 1
      BY <3>1, Queueing DEF RunTypes
    <3>5. \A d \in HealthQueues : Len(channel'[d]) <= 1
      BY <3>1, <3>4 DEF RunTypes
    <3> QED BY <3>1, <3>3, <3>4, <3>5 DEF RunTypes
  <2>2. PlaceTypes' /\ LoopTypes' /\ SharedTypes' /\ WorkTypes' /\ ClockTypes'
    BY <1>17 DEF Health!RunPublish, PlaceTypes, LoopTypes, SharedTypes, WorkTypes,
                 ClockTypes
  <2> QED BY <2>1, <2>2 DEF HealthTypes
<1>18. ASSUME NEW c \in HealthQueues, Health!FlushOne(c) PROVE HealthTypes'
  <2>1. RunTypes'
    <3>1. /\ flush[c] # << >> /\ flush' = [flush EXCEPT ![c] = Tail(@)]
          /\ Health!Publish(c, Head(flush[c])) /\ UNCHANGED <<channel, pending, link>>
      BY <1>18 DEF Health!FlushOne
    <3>2. Head(flush[c]) \in Health!Messages
          /\ flush' \in [HealthQueues -> Seq(Health!Messages)]
      BY <3>1, Queueing DEF RunTypes
    <3> QED BY <3>1, <3>2, Published DEF RunTypes
  <2>2. PlaceTypes' /\ LoopTypes' /\ SharedTypes' /\ WorkTypes' /\ ClockTypes'
    BY <1>18 DEF Health!FlushOne, PlaceTypes, LoopTypes, SharedTypes, WorkTypes, ClockTypes
  <2> QED BY <2>1, <2>2 DEF HealthTypes
<1>19. ASSUME NEW c \in HealthQueues, Health!RunNotices(c) PROVE HealthTypes'
  <2>1. RunTypes'
    BY <1>19 DEF Health!RunNotices, RunTypes
  <2>2. PlaceTypes' /\ LoopTypes' /\ SharedTypes' /\ WorkTypes' /\ ClockTypes'
    BY <1>19 DEF Health!RunNotices, PlaceTypes, LoopTypes, SharedTypes, WorkTypes,
                 ClockTypes
  <2> QED BY <2>1, <2>2 DEF HealthTypes
<1>20. ASSUME NEW c \in HealthQueues, Health!RunReconnects(c) PROVE HealthTypes'
  <2>1. RunTypes'
    BY <1>20 DEF Health!RunReconnects, RunTypes
  <2>2. PlaceTypes' /\ LoopTypes' /\ SharedTypes' /\ WorkTypes' /\ ClockTypes'
    BY <1>20 DEF Health!RunReconnects, PlaceTypes, LoopTypes, SharedTypes, WorkTypes,
                 ClockTypes
  <2> QED BY <2>1, <2>2 DEF HealthTypes
<1>21. ASSUME NEW c \in HealthQueues, Health!LinkBreaks(c) PROVE HealthTypes'
  <2>1. RunTypes'
    <3>1. << >> \in Seq(Health!Messages)
      OBVIOUS
    <3>2. delivered' \in [HealthQueues -> Seq(Health!Messages)]
      BY <1>21, <3>1 DEF Health!LinkBreaks, RunTypes
    <3> QED BY <1>21, <3>2 DEF Health!LinkBreaks, RunTypes
  <2>2. ClockTypes'
    BY <1>21 DEF Health!LinkBreaks, ClockTypes, HealthConstants
  <2>3. PlaceTypes' /\ LoopTypes' /\ SharedTypes' /\ WorkTypes'
    BY <1>21 DEF Health!LinkBreaks, PlaceTypes, LoopTypes, SharedTypes, WorkTypes
  <2> QED BY <2>1, <2>2, <2>3 DEF HealthTypes
<1>22. ASSUME Health!Clock PROVE HealthTypes'
  <2>1. ClockTypes'
    BY <1>22 DEF Health!Clock, ClockTypes, HealthConstants, Health!Seconds
  <2>2. PlaceTypes' /\ LoopTypes' /\ SharedTypes' /\ RunTypes' /\ WorkTypes'
    BY <1>22 DEF Health!Clock, PlaceTypes, LoopTypes, SharedTypes, RunTypes, WorkTypes
  <2> QED BY <2>1, <2>2 DEF HealthTypes
<1> QED
  BY <1>1, <1>2, <1>3, <1>4, <1>5, <1>6, <1>7, <1>8, <1>9, <1>10, <1>11, <1>12, <1>13,
     <1>14, <1>15, <1>16, <1>17, <1>18, <1>19, <1>20, <1>21, <1>22
     DEF Health!Next, Health!Handler, Health!Worker, Health!Run

\* The checks of a request have been started.
Asked(h) == place[h] \notin {"idle", "excused", "check", "register"}

\* Only after the timer the handler clears what is left.
TimerInv == \A h \in Requests : place[h] \in {"clear", "clearing"} => timer[h] = "quit"

\* The message of a category has still to be sent, is being registered, is waited
\* for, or came back; without a route there is none.
HeardInv ==
    /\ \A c \in HealthQueues :
           worker[c].at # "idle" => consumed[c][worker[c].sec] > 0
    /\ \A h \in Requests, c \in HealthQueues : timer[h] = "armed" =>
           \/ c \in todos[h]
           \/ place[h] = "register" /\ current[h].cat = c
           \/ categories[h][c] # 0
           \/ route[c] = "missing"
           \/ \E s \in Health!Seconds : consumed[c][s] > 0
    /\ \A h \in Requests : Asked(h) => todos[h] = {}

\* A ping is listed in checkParts until its result was taken; the loop ends before
\* the timer only when nothing is listed and no category is waited for.
PartsInv ==
    \A h \in Requests :
        /\ \A r \in pushes[h] : r.name \in pings => r.status \in {"success", "failed"}
        /\ Asked(h) => \A p \in pings :
               p \in parts[h] \/ results[h][p] \in {"success", "failed"}
        /\ Asked(h) /\ timer[h] = "armed" /\ ~still[h] => parts[h] = {}
        /\ place[h] = "gone" /\ timer[h] = "armed" =>
               parts[h] = {} /\ \A c \in HealthQueues : categories[h][c] = 0

Successful(c) == {h \in Requests : Health!Reported(h, c, "success")}
Busy(c)       == IF worker[c].at = "idle" THEN 0 ELSE 1

\* The message the worker has in hand has made no request successful yet.
CountInv ==
    \A c \in HealthQueues :
        /\ IsFiniteSet(Health!Back(c))
        /\ Cardinality(Successful(c)) + Busy(c) <= Cardinality(Health!Back(c))

HealthInv == HealthTypes /\ TimerInv /\ HeardInv /\ PartsInv /\ CountInv

\* The invariant holds when the first request comes.
LEMMA HealthInit == ASSUME HealthConstants, Health!Init PROVE HealthInv
<1> USE DEF Health!Init
<1>1. HealthTypes
  <2>1. PlaceTypes /\ LoopTypes /\ SharedTypes
    BY DEF PlaceTypes, LoopTypes, SharedTypes, HealthConstants
  <2>2. << >> \in Seq(Health!Messages) /\ Len(<< >>) = 0
    OBVIOUS
  <2>3. RunTypes
    BY <2>2 DEF RunTypes, Health!NoStatus
  <2>4. WorkTypes /\ ClockTypes
    BY DEF WorkTypes, ClockTypes, Health!Seconds, Health!Routes, HealthConstants
  <2> QED BY <2>1, <2>3, <2>4 DEF HealthTypes
<1>2. TimerInv /\ HeardInv /\ PartsInv
  BY DEF TimerInv, HeardInv, PartsInv, Asked, Health!IdleWorker
<1>3. ASSUME NEW c \in HealthQueues
      PROVE  /\ IsFiniteSet(Health!Back(c))
             /\ Cardinality(Successful(c)) + Busy(c) <= Cardinality(Health!Back(c))
  <2>1. Health!Back(c) = {}
    <3>1. \A s \in Health!Seconds : {s} \X (1 .. consumed[c][s]) = {}
      OBVIOUS
    <3> QED BY <3>1 DEF Health!Back
  <2>2. Successful(c) = {} /\ Busy(c) = 0
    BY DEF Successful, Busy, Health!Reported, Health!IdleWorker, Health!Names
  <2> QED BY <2>1, <2>2, FS_EmptySet
<1> QED BY <1>1, <1>2, <1>3 DEF HealthInv, CountInv

\* Run, the broker and the clock touch nothing the invariant speaks of.
LEMMA HealthFrame ==
    ASSUME \/ \E c \in HealthQueues : Health!Run(c) \/ Health!LinkBreaks(c)
           \/ Health!Clock \/ UNCHANGED healthzVars
    PROVE  UNCHANGED <<place, todos, current, parts, still, timer, clears, results, worker,
                       consumed, categories, cache, pushes, pings, route>>
  BY DEF Health!Run, Health!RunPublish, Health!FlushOne, Health!RunNotices,
         Health!RunReconnects, Health!LinkBreaks, Health!Clock, healthzVars,
         Health!handlerVars, Health!workVars, Health!sharedVars, Health!clockVars

\* What Remove changes, category by category.
LEMMA RemoveEffect ==
    ASSUME HealthTypes, NEW h \in Requests, NEW c \in HealthQueues, NEW s, NEW st,
           Health!RemoveKey(h, c, s, st)
    PROVE  /\ \A g \in Requests, d \in HealthQueues :
                  categories'[g][d] = IF g = h /\ d = c THEN 0 ELSE categories[g][d]
           /\ \A g \in Requests : pushes'[g] =
                  IF g = h THEN pushes[g] \cup {Health!Result(c, st)} ELSE pushes[g]
  BY DEF Health!RemoveKey, HealthTypes, SharedTypes

\* Who holds a key: the request that registers or removes it, and the worker.
LEMMA KeysHeld ==
    ASSUME HealthTypes
    PROVE  /\ \A h \in Requests : place[h] \in {"register", "clearing"} =>
                  current[h].cat \in HealthQueues /\ current[h].sec \in Health!Seconds
           /\ \A c \in HealthQueues : worker[c].at # "idle" =>
                  worker[c].sec \in Health!Seconds /\ worker[c].ev \in Requests
<1>1. \A h \in Requests : place[h] \in {"register",
"clearing"} => current[h] \in Health!Keys
  BY DEF HealthTypes, PlaceTypes
<1>2. \A c \in HealthQueues : worker[c].at # "idle" =>
          worker[c] \in [at : {"evict", "remove"}, sec : Health!Seconds, ev : Requests]
  BY DEF HealthTypes, WorkTypes, Health!IdleWorker
<1> QED BY <1>1, <1>2 DEF Health!Keys

\* The consumer is handed one message more.
LEMMA LookupEffect ==
    ASSUME HealthTypes, NEW c \in HealthQueues, Health!Lookup(c)
    PROVE  \E s \in Health!Seconds :
               /\ worker[c].at = "idle"
               /\ consumed' = [consumed EXCEPT ![c][s] = consumed[c][s] + 1]
               /\ consumed[c][s] \in Nat
               /\ worker' = [worker EXCEPT ![c] =
                                 IF cache[c][s] = NoHandler THEN Health!IdleWorker
                                 ELSE [at |-> "evict", sec |-> s, ev |-> cache[c][s]]]
<1> DEFINE s == Head(delivered[c]).sec
<1>1. Head(delivered[c]) \in Health!Messages
  BY Queueing DEF Health!Lookup, HealthTypes, RunTypes
<1>2. s \in Health!Seconds
  BY <1>1 DEF Health!Messages
<1>3. /\ worker[c].at = "idle"
      /\ consumed' = [consumed EXCEPT ![c][s] = consumed[c][s] + 1]
      /\ worker' = [worker EXCEPT ![c] =
                        IF cache[c][s] = NoHandler THEN Health!IdleWorker
                        ELSE [at |-> "evict", sec |-> s, ev |-> cache[c][s]]]
  BY DEF Health!Lookup
<1>4. consumed[c][s] \in Nat
  BY <1>2 DEF HealthTypes, WorkTypes
<1> QED BY <1>2, <1>3, <1>4

\* The worker is done with its message, or goes on with it.
LEMMA EvictEffect ==
    ASSUME HealthTypes, NEW c \in HealthQueues, Health!Evict(c)
    PROVE  /\ worker[c].at # "idle"
           /\ \A d \in HealthQueues : worker'[d].at # "idle" =>
                  worker[d].at # "idle" /\ worker'[d].sec = worker[d].sec
<1>1. worker[c] \in [at : {"evict", "remove"}, sec : Health!Seconds, ev : Requests]
  BY DEF Health!Evict, HealthTypes, WorkTypes, Health!IdleWorker
<1>2. worker' = [worker EXCEPT ![c] = [worker[c] EXCEPT !.at = "remove"]]
      \/ worker' = [worker EXCEPT ![c] = Health!IdleWorker]
  BY DEF Health!Evict
<1>3. [worker[c] EXCEPT !.at = "remove"].sec = worker[c].sec
  BY <1>1
<1> QED BY <1>1, <1>2, <1>3 DEF HealthTypes, WorkTypes, Health!IdleWorker

\* The timer is over before Clear begins, and is not started again.
LEMMA TimerStep ==
    ASSUME HealthConstants, HealthTypes, TimerInv, Health!Next \/ UNCHANGED healthzVars
    PROVE  TimerInv'
<1> USE DEF Health!Goto, Health!handlerVars, Health!runVars, Health!workVars,
            Health!sharedVars, Health!clockVars, Asked
<1>1. ASSUME NEW h \in Requests, Health!Request(h) PROVE TimerInv'
  BY <1>1 DEF Health!Request, TimerInv, HealthTypes, PlaceTypes, LoopTypes
<1>2. ASSUME NEW h \in Requests, NEW c \in HealthQueues, Health!CheckMQMessage(h, c)
      PROVE  TimerInv'
  BY <1>2 DEF Health!CheckMQMessage, TimerInv, HealthTypes, PlaceTypes, LoopTypes
<1>3. ASSUME NEW h \in Requests, Health!Register(h) PROVE TimerInv'
  BY <1>3 DEF Health!Register, TimerInv, HealthTypes, PlaceTypes, LoopTypes
<1>4. ASSUME NEW h \in Requests, Health!StartChecks(h) PROVE TimerInv'
  BY <1>4 DEF Health!StartChecks, TimerInv, HealthTypes, PlaceTypes, LoopTypes
<1>5. ASSUME NEW h \in Requests, Health!LoopHead(h) PROVE TimerInv'
  BY <1>5 DEF Health!LoopHead, TimerInv, HealthTypes, PlaceTypes, LoopTypes
<1>6. ASSUME NEW h \in Requests, Health!LoopBody(h) PROVE TimerInv'
  BY <1>6 DEF Health!LoopBody, TimerInv, HealthTypes, PlaceTypes, LoopTypes
<1>7. ASSUME NEW h \in Requests, Health!SelectTimer(h) PROVE TimerInv'
  BY <1>7 DEF Health!SelectTimer, TimerInv, HealthTypes, PlaceTypes, LoopTypes
<1>8. ASSUME NEW h \in Requests, Health!SelectQuit(h) PROVE TimerInv'
  BY <1>8 DEF Health!SelectQuit, TimerInv, HealthTypes, PlaceTypes, LoopTypes
<1>9. ASSUME NEW h \in Requests, NEW r \in pushes[h], Health!SelectTrigger(h, r)
      PROVE  TimerInv'
  BY <1>9 DEF Health!SelectTrigger, TimerInv, HealthTypes, PlaceTypes, LoopTypes
<1>10. ASSUME NEW h \in Requests, NEW c \in HealthQueues, Health!SelectEvent(h, c)
       PROVE  TimerInv'
  BY <1>10 DEF Health!SelectEvent, TimerInv, HealthTypes, PlaceTypes, LoopTypes
<1>11. ASSUME NEW h \in Requests, NEW c \in HealthQueues, Health!ClearCheck(h, c)
       PROVE  TimerInv'
  BY <1>11 DEF Health!ClearCheck, TimerInv, HealthTypes, PlaceTypes, LoopTypes
<1>12. ASSUME NEW h \in Requests, Health!ClearDelete(h) PROVE TimerInv'
  BY <1>12 DEF Health!ClearDelete, TimerInv, HealthTypes, PlaceTypes, LoopTypes
<1>13. ASSUME NEW h \in Requests, Health!ClearDone(h) PROVE TimerInv'
  BY <1>13 DEF Health!ClearDone, TimerInv, HealthTypes, PlaceTypes, LoopTypes
<1>14. ASSUME NEW c \in HealthQueues, Health!Lookup(c) PROVE TimerInv'
  BY <1>14 DEF Health!Lookup, TimerInv, HealthTypes, PlaceTypes, LoopTypes
<1>15. ASSUME NEW c \in HealthQueues, Health!Evict(c) PROVE TimerInv'
  BY <1>15 DEF Health!Evict, TimerInv, HealthTypes, PlaceTypes, LoopTypes
<1>16. ASSUME NEW c \in HealthQueues, Health!WorkerRemove(c) PROVE TimerInv'
  BY <1>16 DEF Health!WorkerRemove, TimerInv, HealthTypes, PlaceTypes, LoopTypes
<1>17. CASE UNCHANGED <<place, todos, current, parts, still, timer, clears, results, worker,
                consumed, categories, cache, pushes, pings, route>>
  BY <1>17 DEF TimerInv, HealthTypes, PlaceTypes, LoopTypes
<1> QED
  BY <1>1, <1>2, <1>3, <1>4, <1>5, <1>6, <1>7, <1>8, <1>9, <1>10, <1>11, <1>12, <1>13,
     <1>14, <1>15, <1>16, <1>17, HealthFrame DEF Health!Next, Health!Handler, Health!Worker

\* A category is forgotten before the timer only for a message that came back.
LEMMA HeardStep ==
    ASSUME HealthConstants, HealthTypes, TimerInv, HeardInv, Health!Next \/ UNCHANGED healthzVars
    PROVE  HeardInv'
<1> USE DEF Health!Goto, Health!handlerVars, Health!runVars, Health!workVars,
            Health!sharedVars, Health!clockVars, Asked
<1>1. ASSUME NEW h \in Requests, Health!Request(h) PROVE HeardInv'
  BY <1>1 DEF Health!Request, HeardInv, HealthTypes, PlaceTypes, LoopTypes, SharedTypes,
              WorkTypes
<1>2. ASSUME NEW h \in Requests, NEW c \in HealthQueues, Health!CheckMQMessage(h, c)
      PROVE  HeardInv'
  BY <1>2 DEF Health!CheckMQMessage, HeardInv, HealthTypes, PlaceTypes, LoopTypes,
              SharedTypes, WorkTypes
<1>3. ASSUME NEW h \in Requests, Health!Register(h) PROVE HeardInv'
  <2>1. /\ categories' = [categories EXCEPT ![h][current[h].cat] = current[h].sec]
        /\ place[h] = "register" /\ place' = [place EXCEPT ![h] = "check"]
        /\ current' = [current EXCEPT ![h] = NoCategory]
        /\ UNCHANGED <<todos, timer, worker, consumed, route>>
    BY <1>3 DEF Health!Register
  <2>2. current[h].cat \in HealthQueues /\ current[h].sec # 0
    BY <2>1, KeysHeld DEF Health!Seconds
  <2>3. \A g \in Requests, d \in HealthQueues :
            categories[g][d] # 0 \/ (g = h /\ d = current[h].cat) => categories'[g][d] # 0
    BY <2>1, <2>2 DEF HealthTypes, SharedTypes
  <2> QED BY <2>1, <2>3 DEF HeardInv, HealthTypes, PlaceTypes
<1>4. ASSUME NEW h \in Requests, Health!StartChecks(h) PROVE HeardInv'
  BY <1>4 DEF Health!StartChecks, HeardInv, HealthTypes, PlaceTypes, LoopTypes,
              SharedTypes, WorkTypes
<1>5. ASSUME NEW h \in Requests, Health!LoopHead(h) PROVE HeardInv'
  BY <1>5 DEF Health!LoopHead, HeardInv, HealthTypes, PlaceTypes, LoopTypes, SharedTypes,
              WorkTypes
<1>6. ASSUME NEW h \in Requests, Health!LoopBody(h) PROVE HeardInv'
  BY <1>6 DEF Health!LoopBody, HeardInv, HealthTypes, PlaceTypes, LoopTypes, SharedTypes,
              WorkTypes
<1>7. ASSUME NEW h \in Requests, Health!SelectTimer(h) PROVE HeardInv'
  BY <1>7 DEF Health!SelectTimer, HeardInv, HealthTypes, PlaceTypes, LoopTypes,
              SharedTypes, WorkTypes
<1>8. ASSUME NEW h \in Requests, Health!SelectQuit(h) PROVE HeardInv'
  BY <1>8 DEF Health!SelectQuit, HeardInv, HealthTypes, PlaceTypes, LoopTypes,
              SharedTypes, WorkTypes
<1>9. ASSUME NEW h \in Requests, NEW r \in pushes[h], Health!SelectTrigger(h, r)
      PROVE  HeardInv'
  BY <1>9 DEF Health!SelectTrigger, HeardInv, HealthTypes, PlaceTypes, LoopTypes,
              SharedTypes, WorkTypes
<1>10. ASSUME NEW h \in Requests, NEW c \in HealthQueues, Health!SelectEvent(h, c)
       PROVE  HeardInv'
  BY <1>10 DEF Health!SelectEvent, HeardInv, HealthTypes, PlaceTypes, LoopTypes,
               SharedTypes, WorkTypes
<1>11. ASSUME NEW h \in Requests, NEW c \in HealthQueues, Health!ClearCheck(h, c)
       PROVE  HeardInv'
  <2>1. /\ place[h] = "clear" /\ place'[h] \in {"clear", "clearing"} /\ timer[h] = "quit"
        /\ \A g \in Requests \ {h} : place'[g] = place[g] /\ current'[g] = current[g]
        /\ UNCHANGED <<todos, timer, worker, consumed, categories, route>>
    BY <1>11 DEF Health!ClearCheck, TimerInv, HealthTypes, PlaceTypes
  <2> QED BY <2>1 DEF HeardInv
<1>12. ASSUME NEW h \in Requests, Health!ClearDelete(h) PROVE HeardInv'
  <2>1. /\ place[h] = "clearing" /\ timer[h] = "quit" /\ place' = [place EXCEPT ![h] = "clear"]
        /\ current' = [current EXCEPT ![h] = NoCategory]
        /\ Health!RemoveKey(h, current[h].cat, current[h].sec, "timeout")
        /\ UNCHANGED <<todos, timer, worker, consumed, route>>
    BY <1>12 DEF Health!ClearDelete, TimerInv
  <2>2. \A g \in Requests, d \in HealthQueues :
            g # h => categories'[g][d] = categories[g][d]
    BY <2>1, KeysHeld, RemoveEffect
  <2> QED BY <2>1, <2>2 DEF HeardInv, HealthTypes, PlaceTypes
<1>13. ASSUME NEW h \in Requests, Health!ClearDone(h) PROVE HeardInv'
  BY <1>13 DEF Health!ClearDone, HeardInv, HealthTypes, PlaceTypes, LoopTypes,
               SharedTypes, WorkTypes
<1>14. ASSUME NEW c \in HealthQueues, Health!Lookup(c) PROVE HeardInv'
  <2>1. PICK s \in Health!Seconds :
            /\ consumed' = [consumed EXCEPT ![c][s] = consumed[c][s] + 1]
            /\ consumed[c][s] \in Nat
            /\ worker' = [worker EXCEPT ![c] =
                              IF cache[c][s] = NoHandler THEN Health!IdleWorker
                              ELSE [at |-> "evict", sec |-> s, ev |-> cache[c][s]]]
    BY <1>14, LookupEffect
  <2>2. UNCHANGED <<place, todos, current, timer, categories, route>>
    BY <1>14 DEF Health!Lookup
  <2>3. /\ consumed'[c][s] > 0
        /\ \A d \in HealthQueues, x \in Health!Seconds :
               consumed[d][x] > 0 => consumed'[d][x] > 0
    BY <2>1 DEF HealthTypes, WorkTypes
  <2>4. ASSUME NEW d \in HealthQueues, worker'[d].at # "idle"
        PROVE  consumed'[d][worker'[d].sec] > 0
    <3>1. CASE d = c
      BY <2>1, <2>3, <2>4, <3>1 DEF HealthTypes, WorkTypes, Health!IdleWorker
    <3>2. CASE d # c
      <4>1. worker'[d] = worker[d]
        BY <2>1, <3>2 DEF HealthTypes, WorkTypes
      <4> QED BY <2>3, <2>4, <4>1, KeysHeld DEF HeardInv
    <3> QED BY <3>1, <3>2
  <2> QED BY <2>2, <2>3, <2>4 DEF HeardInv
<1>15. ASSUME NEW c \in HealthQueues, Health!Evict(c) PROVE HeardInv'
  BY <1>15, EvictEffect DEF Health!Evict, HeardInv
<1>16. ASSUME NEW c \in HealthQueues, Health!WorkerRemove(c) PROVE HeardInv'
  <2>1. /\ worker[c].at # "idle" /\ worker' = [worker EXCEPT ![c] = Health!IdleWorker]
        /\ Health!RemoveKey(worker[c].ev, c, worker[c].sec, "success")
        /\ UNCHANGED <<place, todos, current, timer, consumed, route>>
    BY <1>16 DEF Health!WorkerRemove
  <2>2. consumed[c][worker[c].sec] > 0 /\ worker[c].sec \in Health!Seconds
    BY <2>1, KeysHeld DEF HeardInv
  <2>3. \A g \in Requests, d \in HealthQueues :
            d # c => categories'[g][d] = categories[g][d]
    BY <2>1, KeysHeld, RemoveEffect
  <2>4. \A d \in HealthQueues : worker'[d].at # "idle" => worker'[d] = worker[d]
    BY <2>1 DEF HealthTypes, WorkTypes, Health!IdleWorker
  <2> QED BY <2>1, <2>2, <2>3, <2>4 DEF HeardInv
<1>17. CASE UNCHANGED <<place, todos, current, parts, still, timer, clears, results, worker,
                consumed, categories, cache, pushes, pings, route>>
  BY <1>17 DEF HeardInv, HealthTypes, PlaceTypes, LoopTypes, SharedTypes, WorkTypes
<1> QED
  BY <1>1, <1>2, <1>3, <1>4, <1>5, <1>6, <1>7, <1>8, <1>9, <1>10, <1>11, <1>12, <1>13,
     <1>14, <1>15, <1>16, <1>17, HealthFrame DEF Health!Next, Health!Handler, Health!Worker

\* A ping leaves checkParts with its result, and no other way.
LEMMA PartsStep ==
    ASSUME HealthConstants, HealthTypes, TimerInv, PartsInv, Health!Next \/ UNCHANGED healthzVars
    PROVE  PartsInv'
<1> USE DEF Health!Goto, Health!handlerVars, Health!runVars, Health!workVars,
            Health!sharedVars, Health!clockVars, Asked
<1>1. ASSUME NEW h \in Requests, Health!Request(h) PROVE PartsInv'
  BY <1>1 DEF Health!Request, PartsInv, HealthTypes, PlaceTypes, LoopTypes, SharedTypes
<1>2. ASSUME NEW h \in Requests, NEW c \in HealthQueues, Health!CheckMQMessage(h, c)
      PROVE  PartsInv'
  <2>1. PICK st \in {"failed", "none"} :
            pushes' = [pushes EXCEPT ![h] = @ \cup {Health!Result(c, st)}]
    BY <1>2 DEF Health!CheckMQMessage
  <2>2. /\ place[h] = "check"
        /\ place' = place \/ place' = [place EXCEPT ![h] = "register"]
        /\ UNCHANGED <<parts, still, timer, results, categories, pings>>
    BY <1>2 DEF Health!CheckMQMessage
  <2>3. \A g \in Requests : \A r \in pushes'[g] : r \in pushes[g] \/ r.name \notin pings
    BY <2>1 DEF HealthTypes, SharedTypes, ClockTypes, HealthConstants, Health!Result
  <2> QED BY <2>2, <2>3 DEF PartsInv, HealthTypes, PlaceTypes
<1>3. ASSUME NEW h \in Requests, Health!Register(h) PROVE PartsInv'
  BY <1>3 DEF Health!Register, PartsInv, HealthTypes, PlaceTypes, LoopTypes, SharedTypes
<1>4. ASSUME NEW h \in Requests, Health!StartChecks(h) PROVE PartsInv'
  <2>1. PICK good \in SUBSET pings :
            pushes' = [pushes EXCEPT ![h] =
                           @ \cup {Health!Result(p, "success") : p \in good}
                             \cup {Health!Result(p, "failed") : p \in pings \ good}]
    BY <1>4 DEF Health!StartChecks
  <2>2. PICK expected \in SUBSET HealthQueues :
            /\ parts' = [parts EXCEPT ![h] = pings \cup expected]
            /\ still' = [still EXCEPT ![h] = pings \cup expected # {}]
    BY <1>4 DEF Health!StartChecks
  <2>3. /\ place' = [place EXCEPT ![h] = "head"]
        /\ UNCHANGED <<timer, results, categories, pings>>
    BY <1>4 DEF Health!StartChecks
  <2>4. \A g \in Requests : \A r \in pushes'[g] :
            r \in pushes[g] \/ r.status \in {"success", "failed"}
    BY <2>1 DEF HealthTypes, SharedTypes, Health!Result
  <2>5. parts'[h] = pings \cup expected /\ still'[h] = (parts'[h] # {}) /\ place'[h] = "head"
    BY <2>2, <2>3 DEF HealthTypes, PlaceTypes, LoopTypes
  <2>6. \A g \in Requests \ {h} :
            place'[g] = place[g] /\ parts'[g] = parts[g] /\ still'[g] = still[g]
    BY <2>2, <2>3 DEF HealthTypes, PlaceTypes, LoopTypes
  <2>7. (still'[h] => parts'[h] # {}) /\ (~still'[h] => parts'[h] = {}) /\ pings' \subseteq parts'[h]
    BY <2>3, <2>5
  <2>8. \A g \in Requests : \A r \in pushes'[g] :
            r.name \in pings' => r.status \in {"success", "failed"}
    BY <2>3, <2>4 DEF PartsInv
  <2>9. ASSUME NEW g \in Requests \ {h}
        PROVE  /\ Asked(g)' => \A p \in pings' :
                      p \in parts'[g] \/ results'[g][p] \in {"success", "failed"}
               /\ Asked(g)' /\ timer'[g] = "armed" /\ ~still'[g] => parts'[g] = {}
               /\ place'[g] = "gone" /\ timer'[g] = "armed" =>
                      parts'[g] = {} /\ \A c \in HealthQueues : categories'[g][c] = 0
    BY <2>3, <2>6 DEF PartsInv
  <2> QED BY <2>5, <2>7, <2>8, <2>9 DEF PartsInv
<1>5. ASSUME NEW h \in Requests, Health!LoopHead(h) PROVE PartsInv'
  BY <1>5 DEF Health!LoopHead, Health!NotEmpty, PartsInv, HealthTypes, PlaceTypes, LoopTypes
<1>6. ASSUME NEW h \in Requests, Health!LoopBody(h) PROVE PartsInv'
  BY <1>6 DEF Health!LoopBody, PartsInv, HealthTypes, PlaceTypes, LoopTypes, SharedTypes
<1>7. ASSUME NEW h \in Requests, Health!SelectTimer(h) PROVE PartsInv'
  BY <1>7 DEF Health!SelectTimer, PartsInv, HealthTypes, PlaceTypes, LoopTypes, SharedTypes
<1>8. ASSUME NEW h \in Requests, Health!SelectQuit(h) PROVE PartsInv'
  BY <1>8 DEF Health!SelectQuit, PartsInv, HealthTypes, PlaceTypes, LoopTypes, SharedTypes
<1>9. ASSUME NEW h \in Requests, NEW r \in pushes[h], Health!SelectTrigger(h, r)
      PROVE  PartsInv'
  BY <1>9 DEF Health!SelectTrigger, PartsInv, HealthTypes, PlaceTypes, LoopTypes,
              SharedTypes
<1>10. ASSUME NEW h \in Requests, NEW c \in HealthQueues, Health!SelectEvent(h, c)
       PROVE  PartsInv'
  <2>1. /\ place[h] = "select" /\ place' = [place EXCEPT ![h] = "head"]
        /\ results' = results \/ results' = [results EXCEPT ![h][c] = "sent"]
        /\ pushes' = pushes
           \/ pushes' = [pushes EXCEPT ![h] = @ \cup {Health!Result(c, "failed")}]
        /\ UNCHANGED <<parts, still, timer, categories, pings>>
    BY <1>10 DEF Health!SelectEvent
  <2>2. \A p \in pings : p # c /\ p \in Health!Names
    BY DEF HealthTypes, ClockTypes, HealthConstants, Health!Names
  <2>3. \A g \in Requests, p \in pings : results'[g][p] = results[g][p]
    BY <2>1, <2>2 DEF HealthTypes, LoopTypes
  <2>4. \A g \in Requests : \A r \in pushes'[g] : r \in pushes[g] \/ r.status = "failed"
    BY <2>1 DEF HealthTypes, SharedTypes, Health!Result
  <2> QED BY <2>1, <2>3, <2>4 DEF PartsInv, HealthTypes, PlaceTypes
<1>11. ASSUME NEW h \in Requests, NEW c \in HealthQueues, Health!ClearCheck(h, c)
       PROVE  PartsInv'
  BY <1>11 DEF Health!ClearCheck, PartsInv, HealthTypes, PlaceTypes, LoopTypes, SharedTypes
<1>12. ASSUME NEW h \in Requests, Health!ClearDelete(h) PROVE PartsInv'
  <2>1. /\ place[h] = "clearing" /\ place' = [place EXCEPT ![h] = "clear"]
        /\ Health!RemoveKey(h, current[h].cat, current[h].sec, "timeout")
        /\ UNCHANGED <<parts, still, timer, results, pings>>
    BY <1>12 DEF Health!ClearDelete
  <2>2. current[h].cat \in HealthQueues /\ current[h].cat \notin pings
    BY <2>1, KeysHeld DEF HealthTypes, ClockTypes, HealthConstants
  <2>3. \A g \in Requests,
  d \in HealthQueues : categories[g][d] = 0 => categories'[g][d] = 0
    BY <2>1, <2>2, RemoveEffect
  <2>4. \A g \in Requests : \A r \in pushes'[g] : r \in pushes[g] \/ r.name \notin pings
    <3>1. Health!Result(current[h].cat, "timeout").name = current[h].cat
      BY DEF Health!Result
    <3>2. \A g \in Requests : pushes'[g] =
              IF g = h THEN pushes[g] \cup {Health!Result(current[h].cat, "timeout")} ELSE pushes[g]
      BY <2>1, <2>2, RemoveEffect
    <3> QED BY <2>2, <3>1, <3>2
  <2> QED BY <2>1, <2>3, <2>4 DEF PartsInv, HealthTypes, PlaceTypes
<1>13. ASSUME NEW h \in Requests, Health!ClearDone(h) PROVE PartsInv'
  BY <1>13 DEF Health!ClearDone, TimerInv, PartsInv, HealthTypes, PlaceTypes, LoopTypes
<1>14. ASSUME NEW c \in HealthQueues, Health!Lookup(c) PROVE PartsInv'
  BY <1>14 DEF Health!Lookup, PartsInv, HealthTypes, PlaceTypes, LoopTypes, SharedTypes
<1>15. ASSUME NEW c \in HealthQueues, Health!Evict(c) PROVE PartsInv'
  BY <1>15 DEF Health!Evict, PartsInv, HealthTypes, PlaceTypes, LoopTypes, SharedTypes
<1>16. ASSUME NEW c \in HealthQueues, Health!WorkerRemove(c) PROVE PartsInv'
  <2>1. /\ worker[c].ev \in Requests
        /\ Health!RemoveKey(worker[c].ev, c, worker[c].sec, "success")
        /\ UNCHANGED <<place, parts, still, timer, results, pings>>
    BY <1>16, KeysHeld DEF Health!WorkerRemove
  <2>2. \A g \in Requests,
  d \in HealthQueues : categories[g][d] = 0 => categories'[g][d] = 0
    BY <2>1, RemoveEffect
  <2>3. \A g \in Requests : \A r \in pushes'[g] : r \in pushes[g] \/ r.status = "success"
    <3>1. Health!Result(c, "success").status = "success"
      BY DEF Health!Result
    <3>2. \A g \in Requests : pushes'[g] =
              IF g = worker[c].ev THEN pushes[g] \cup {Health!Result(c, "success")} ELSE pushes[g]
      BY <2>1 DEF Health!RemoveKey, HealthTypes, SharedTypes
    <3> QED BY <3>1, <3>2
  <2> QED BY <2>1, <2>2, <2>3 DEF PartsInv
<1>17. CASE UNCHANGED <<place, todos, current, parts, still, timer, clears, results, worker,
                consumed, categories, cache, pushes, pings, route>>
  BY <1>17 DEF PartsInv, HealthTypes, PlaceTypes, LoopTypes, SharedTypes
<1> QED
  BY <1>1, <1>2, <1>3, <1>4, <1>5, <1>6, <1>7, <1>8, <1>9, <1>10, <1>11, <1>12, <1>13,
     <1>14, <1>15, <1>16, <1>17, HealthFrame DEF Health!Next, Health!Handler, Health!Worker

\* Nothing new is successful, and no worker has taken a message.
LEMMA CountKept ==
    ASSUME HealthConstants, CountInv, UNCHANGED consumed,
           \A c \in HealthQueues : Successful(c)' \subseteq Successful(c),
           \A c \in HealthQueues : worker'[c].at # "idle" => worker[c].at # "idle"
    PROVE  CountInv'
<1>1. SUFFICES ASSUME NEW c \in HealthQueues
               PROVE  /\ IsFiniteSet(Health!Back(c))'
                      /\ (Cardinality(Successful(c)) + Busy(c) <= Cardinality(Health!Back(c)))'
  BY DEF CountInv
<1>2. Health!Back(c)' = Health!Back(c)
  BY DEF Health!Back, Health!Seconds
<1>3. IsFiniteSet(Successful(c))
  BY FS_Subset DEF HealthConstants, Successful
<1>4. Cardinality(Successful(c)') <= Cardinality(Successful(c))
      /\ Cardinality(Successful(c)') \in Nat /\ Cardinality(Successful(c)) \in Nat
  BY <1>3, FS_Subset, FS_CardinalityType
<1>5. Busy(c) \in Nat /\ Busy(c)' \in Nat /\ Busy(c)' <= Busy(c)
  BY DEF Busy
<1>6. IsFiniteSet(Health!Back(c)) /\ Cardinality(Health!Back(c)) \in Nat
      /\ Cardinality(Successful(c)) + Busy(c) <= Cardinality(Health!Back(c))
  BY FS_CardinalityType DEF CountInv
<1> QED BY <1>2, <1>4, <1>5, <1>6

\* A message that comes back is one more, and the worker has it in hand.
LEMMA LookupCounts ==
    ASSUME HealthConstants, HealthTypes, CountInv, NEW c \in HealthQueues, Health!Lookup(c)
    PROVE  CountInv'
<1>1. PICK s \in Health!Seconds :
          /\ worker[c].at = "idle"
          /\ consumed' = [consumed EXCEPT ![c][s] = consumed[c][s] + 1]
          /\ consumed[c][s] \in Nat
          /\ worker' = [worker EXCEPT ![c] =
                            IF cache[c][s] = NoHandler THEN Health!IdleWorker
                            ELSE [at |-> "evict", sec |-> s, ev |-> cache[c][s]]]
  BY LookupEffect
<1>2. \A d \in HealthQueues : Successful(d)' = Successful(d) /\ IsFiniteSet(Successful(d))
  BY FS_Subset
     DEF Health!Lookup, Health!handlerVars, Health!sharedVars, Successful, Health!Reported,
         HealthConstants, Health!Result
<1>3. ASSUME NEW d \in HealthQueues, d # c
      PROVE  Health!Back(d)' = Health!Back(d) /\ Busy(d)' = Busy(d)
  BY <1>1, <1>3 DEF Health!Back, Health!Seconds, Busy, HealthTypes, WorkTypes
<1> DEFINE n == consumed[c][s] + 1
<1>4. Health!Back(c)' = Health!Back(c) \cup {<<s, n>>} /\ <<s, n>> \notin Health!Back(c)
  <2>1. consumed'[c][s] = n /\ \A x \in Health!Seconds \ {s} : consumed'[c][x] = consumed[c][x]
    BY <1>1 DEF HealthTypes, WorkTypes
  <2>2. 1 .. n = (1 .. consumed[c][s]) \cup {n} /\ n \notin 1 .. consumed[c][s]
    BY <1>1
  <2>3. {s} \X (1 .. n) = ({s} \X (1 .. consumed[c][s])) \cup {<<s, n>>}
    BY <2>2
  <2>4. Health!Back(c)' = UNION {{x} \X (1 .. consumed'[c][x]) : x \in Health!Seconds}
    BY DEF Health!Back, Health!Seconds
  <2>5. \A x \in Health!Back(c)' : x \in Health!Back(c) \cup {<<s, n>>}
    BY <2>1, <2>3, <2>4 DEF Health!Back
  <2>6. \A x \in Health!Back(c) : x \in Health!Back(c)'
    BY <2>1, <2>3, <2>4 DEF Health!Back
  <2>7. <<s, n>> \in Health!Back(c)'
    BY <2>1, <2>3, <2>4
  <2>8. <<s, n>> \notin Health!Back(c)
    BY <2>2 DEF Health!Back
  <2> QED BY <2>5, <2>6, <2>7, <2>8
<1>5. Busy(c) = 0 /\ Busy(c)' \in {0, 1}
  BY <1>1 DEF Busy
<1>6. \A d \in HealthQueues :
          IsFiniteSet(Health!Back(d)) /\ Cardinality(Health!Back(d)) \in Nat
          /\ Cardinality(Successful(d)) + Busy(d) <= Cardinality(Health!Back(d))
  BY FS_CardinalityType DEF CountInv
<1>7. IsFiniteSet(Health!Back(c)')
      /\ Cardinality(Health!Back(c)') = Cardinality(Health!Back(c)) + 1
  BY <1>4, <1>6, FS_AddElement
<1>8. Cardinality(Successful(c)) \in Nat
  BY <1>2, FS_CardinalityType
<1>9. (Cardinality(Successful(c)) + Busy(c) <= Cardinality(Health!Back(c)))'
  BY <1>2, <1>5, <1>6, <1>7, <1>8
<1>10. ASSUME NEW d \in HealthQueues
       PROVE  /\ IsFiniteSet(Health!Back(d))'
              /\ (Cardinality(Successful(d)) + Busy(d) <= Cardinality(Health!Back(d)))'
  <2>1. CASE d = c
    BY <1>7, <1>9, <2>1
  <2>2. CASE d # c
    BY <1>2, <1>3, <1>6, <2>2
  <2> QED BY <2>1, <2>2
<1> QED BY <1>10 DEF CountInv

\* The worker makes one request successful, and has the message in hand no more.
LEMMA RemoveCounts ==
    ASSUME HealthConstants, HealthTypes, CountInv, NEW c \in HealthQueues,
           Health!WorkerRemove(c)
    PROVE  CountInv'
<1> DEFINE h == worker[c].ev
<1>1. /\ worker[c].at # "idle" /\ h \in Requests
      /\ Health!RemoveKey(h, c, worker[c].sec, "success")
      /\ worker' = [worker EXCEPT ![c] = Health!IdleWorker]
      /\ UNCHANGED <<results, consumed>>
  BY KeysHeld DEF Health!WorkerRemove, Health!handlerVars
<1>2. pushes' = [pushes EXCEPT ![h] = @ \cup {Health!Result(c, "success")}]
  BY <1>1 DEF Health!RemoveKey
<1>3. \A d \in HealthQueues : Health!Back(d)' = Health!Back(d)
  BY <1>1 DEF Health!Back, Health!Seconds
<1>4. /\ Successful(c)' \subseteq Successful(c) \cup {h}
      /\ \A d \in HealthQueues \ {c} : Successful(d)' \subseteq Successful(d)
  <2>1. \A d \in HealthQueues \ {c} :
            Health!Result(d, "success") # Health!Result(c, "success")
    BY DEF Health!Result
  <2>2. \A d \in HealthQueues, g \in Requests : Health!Result(d,
  "success") \in pushes'[g] =>
            Health!Result(d, "success") \in pushes[g] \/ (g = h /\ d = c)
    BY <1>1, <1>2, <2>1 DEF HealthTypes, SharedTypes
  <2>3. \A d \in HealthQueues : Health!Result(d, "success")' = Health!Result(d, "success")
    BY DEF Health!Result
  <2> QED BY <1>1, <2>2, <2>3 DEF Successful, Health!Reported
<1>5. Busy(c) = 1 /\ Busy(c)' = 0 /\ \A d \in HealthQueues \ {c} : Busy(d)' = Busy(d)
  BY <1>1 DEF Busy, HealthTypes, WorkTypes, Health!IdleWorker
<1>6. \A d \in HealthQueues :
          /\ IsFiniteSet(Health!Back(d)) /\ Cardinality(Health!Back(d)) \in Nat
          /\ Cardinality(Successful(d)) + Busy(d) <= Cardinality(Health!Back(d))
          /\ IsFiniteSet(Successful(d)) /\ Cardinality(Successful(d)) \in Nat /\ Busy(d) \in Nat
  <2>1. \A d \in HealthQueues : IsFiniteSet(Successful(d))
    BY FS_Subset DEF HealthConstants, Successful
  <2> QED BY <2>1, FS_CardinalityType DEF CountInv, Busy
<1>7. ASSUME NEW d \in HealthQueues
      PROVE  (Cardinality(Successful(d)) + Busy(d) <= Cardinality(Health!Back(d)))'
  <2>1. CASE d = c
    <3>1. IsFiniteSet(Successful(c) \cup {h})
          /\ Cardinality(Successful(c) \cup {h}) =
                IF h \in Successful(c) THEN Cardinality(Successful(c))
                ELSE Cardinality(Successful(c)) + 1
      BY <1>6, FS_AddElement
    <3>2. IsFiniteSet(Successful(c)')
          /\ Cardinality(Successful(c)') <= Cardinality(Successful(c) \cup {h})
      BY <1>4, <3>1, FS_Subset
    <3>3. Cardinality(Successful(c)') \in Nat
      BY <3>2, FS_CardinalityType
    <3> QED BY <1>3, <1>5, <1>6, <2>1, <3>1, <3>2, <3>3
  <2>2. CASE d # c
    <3>1. IsFiniteSet(Successful(d)')
          /\ Cardinality(Successful(d)') <= Cardinality(Successful(d))
      BY <1>4, <1>6, <2>2, FS_Subset
    <3>2. Cardinality(Successful(d)') \in Nat
      BY <3>1, FS_CardinalityType
    <3> QED BY <1>3, <1>5, <1>6, <2>2, <3>1, <3>2
  <2> QED BY <2>1, <2>2
<1> QED BY <1>3, <1>6, <1>7 DEF CountInv

\* No step makes more requests successful than messages came back.
LEMMA CountStep ==
    ASSUME HealthConstants, HealthTypes, CountInv, Health!Next \/ UNCHANGED healthzVars
    PROVE  CountInv'
<1> USE DEF Health!handlerVars, Health!workVars, Health!sharedVars
<1>1. ASSUME UNCHANGED <<results, worker, consumed>>,
             \A h \in Requests, c \in HealthQueues :
                 Health!Result(c, "success") \in pushes'[h]
                     => Health!Result(c, "success") \in pushes[h]
      PROVE  CountInv'
  <2>1. \A c \in HealthQueues : Successful(c)' \subseteq Successful(c)
    <3>1. \A c : Health!Result(c, "success")' = Health!Result(c, "success")
      BY DEF Health!Result
    <3> QED BY <1>1, <3>1 DEF Successful, Health!Reported
  <2> QED BY <1>1, <2>1, CountKept
<1>2. CASE UNCHANGED <<results, worker, consumed, pushes>>
  BY <1>1, <1>2
<1>3. ASSUME NEW h \in Requests, NEW c \in HealthQueues, Health!CheckMQMessage(h, c)
      PROVE  CountInv'
  <2>1. PICK st \in {"failed", "none"} :
            /\ pushes' = [pushes EXCEPT ![h] = @ \cup {Health!Result(c, st)}]
            /\ UNCHANGED <<results, worker, consumed>>
    BY <1>3 DEF Health!CheckMQMessage
  <2>2. \A d \in HealthQueues : Health!Result(d, "success") # Health!Result(c, st)
    BY DEF Health!Result
  <2> QED BY <1>1, <2>1, <2>2 DEF HealthTypes, SharedTypes
<1>4. ASSUME NEW h \in Requests, Health!StartChecks(h) PROVE CountInv'
  <2>1. PICK good \in SUBSET pings :
            pushes' = [pushes EXCEPT ![h] =
                           @ \cup {Health!Result(p, "success") : p \in good}
                             \cup {Health!Result(p, "failed") : p \in pings \ good}]
    BY <1>4 DEF Health!StartChecks
  <2>2. UNCHANGED <<results, worker, consumed>>
    BY <1>4 DEF Health!StartChecks
  <2>3. \A d \in HealthQueues, p \in pings :
            /\ Health!Result(d, "success") # Health!Result(p, "success")
            /\ Health!Result(d, "success") # Health!Result(p, "failed")
    BY DEF Health!Result, HealthTypes, ClockTypes, HealthConstants
  <2> QED BY <1>1, <2>1, <2>2, <2>3 DEF HealthTypes, SharedTypes
<1>5. ASSUME NEW h \in Requests, NEW r \in pushes[h], Health!SelectTrigger(h, r)
      PROVE  CountInv'
  <2>1. /\ pushes' = [pushes EXCEPT ![h] = @ \ {r}]
        /\ results' = [results EXCEPT ![h][r.name] = r.status]
        /\ UNCHANGED <<worker, consumed>>
    BY <1>5 DEF Health!SelectTrigger
  <2>2. r \in [name : Health!Names, status : Health!Statuses]
    BY DEF HealthTypes, SharedTypes
  <2>3. \A c \in HealthQueues : Successful(c)' \subseteq Successful(c)
    <3>1. ASSUME NEW c \in HealthQueues, NEW g \in Requests, results'[g][c] = "success"
          PROVE  results[g][c] = "success" \/ Health!Result(c, "success") \in pushes[g]
      <4>1. c \in Health!Names
        BY DEF Health!Names
      <4>2. results'[g][c] = results[g][c] \/ (g = h /\ r.name = c /\ r.status = "success")
        BY <2>1, <2>2, <3>1, <4>1 DEF HealthTypes, LoopTypes
      <4>3. r.name = c /\ r.status = "success" => r = Health!Result(c, "success")
        BY <2>2 DEF Health!Result
      <4> QED BY <3>1, <4>2, <4>3
    <3>2. \A c \in HealthQueues, g \in Requests :
              Health!Result(c, "success") \in pushes'[g] => Health!Result(c,
              "success") \in pushes[g]
      BY <2>1 DEF HealthTypes, SharedTypes
    <3>3. \A c : Health!Result(c, "success")' = Health!Result(c, "success")
      BY DEF Health!Result
    <3> QED BY <3>1, <3>2, <3>3 DEF Successful, Health!Reported
  <2> QED BY <2>1, <2>3, CountKept
<1>6. ASSUME NEW h \in Requests, NEW c \in HealthQueues, Health!SelectEvent(h, c)
      PROVE  CountInv'
  <2>1. /\ results' = results \/ results' = [results EXCEPT ![h][c] = "sent"]
        /\ pushes' = pushes
           \/ pushes' = [pushes EXCEPT ![h] = @ \cup {Health!Result(c, "failed")}]
        /\ UNCHANGED <<worker, consumed>>
    BY <1>6 DEF Health!SelectEvent
  <2>2. \A d \in HealthQueues : Successful(d)' \subseteq Successful(d)
    <3>1. \A d \in HealthQueues, g \in Requests :
              results'[g][d] = "success" => results[g][d] = "success"
      BY <2>1 DEF HealthTypes, LoopTypes, Health!Names
    <3>2. \A d \in HealthQueues : Health!Result(d, "success") # Health!Result(c, "failed")
      BY DEF Health!Result
    <3>3. \A d \in HealthQueues, g \in Requests :
              Health!Result(d, "success") \in pushes'[g] => Health!Result(d,
              "success") \in pushes[g]
      BY <2>1, <3>2 DEF HealthTypes, SharedTypes
    <3>4. \A d : Health!Result(d, "success")' = Health!Result(d, "success")
      BY DEF Health!Result
    <3> QED BY <3>1, <3>3, <3>4 DEF Successful, Health!Reported
  <2> QED BY <2>1, <2>2, CountKept
<1>7. ASSUME NEW h \in Requests, Health!ClearDelete(h) PROVE CountInv'
  <2> DEFINE x == Health!Result(current[h].cat, "timeout")
  <2>1. \A d \in HealthQueues : Health!Result(d, "success") # x
    BY DEF Health!Result
  <2>2. pushes' = [pushes EXCEPT ![h] = @ \cup {x}] /\ UNCHANGED <<results, worker,
  consumed>>
    BY <1>7 DEF Health!ClearDelete, Health!RemoveKey
  <2> HIDE DEF x
  <2> QED BY <1>1, <2>1, <2>2 DEF HealthTypes, SharedTypes
<1>8. ASSUME NEW c \in HealthQueues, Health!Evict(c) PROVE CountInv'
  <2>1. UNCHANGED <<results, pushes, consumed>>
    BY <1>8 DEF Health!Evict
  <2>2. \A d \in HealthQueues : Successful(d)' \subseteq Successful(d)
    BY <2>1 DEF Successful, Health!Reported, Health!Result
  <2> QED BY <1>8, <2>1, <2>2, EvictEffect, CountKept
<1>9. ASSUME NEW h \in Requests,
             \/ Health!Request(h) \/ Health!Register(h) \/ Health!LoopHead(h)
             \/ Health!LoopBody(h) \/ Health!SelectTimer(h) \/ Health!SelectQuit(h)
             \/ \E c \in HealthQueues : Health!ClearCheck(h, c)
             \/ Health!ClearDone(h)
      PROVE  CountInv'
  BY <1>2, <1>9
     DEF Health!Request, Health!Register, Health!LoopHead, Health!LoopBody,
         Health!SelectTimer, Health!SelectQuit, Health!ClearCheck, Health!ClearDone
<1>10. CASE UNCHANGED <<place, todos, current, parts, still, timer, clears, results, worker,
                        consumed, categories, cache, pushes, pings, route>>
  BY <1>2, <1>10
<1> QED
  BY <1>3, <1>4, <1>5, <1>6, <1>7, <1>8, <1>9, <1>10, LookupCounts, RemoveCounts,
     HealthFrame
     DEF Health!Next, Health!Handler, Health!Worker

\* HealthInv is inductive.
LEMMA HealthInductive ==
    ASSUME HealthConstants
    PROVE  /\ Health!Init => HealthInv
           /\ HealthInv /\ (Health!Next \/ UNCHANGED healthzVars) => HealthInv'
<1>1. ASSUME HealthTypes, UNCHANGED healthzVars PROVE HealthTypes'
  BY <1>1 DEF HealthTypes, PlaceTypes, LoopTypes, SharedTypes, RunTypes, WorkTypes,
              ClockTypes,
         healthzVars, Health!Routes, Health!Keys, Health!Names, Health!Statuses, Health!Seconds,
         Health!Messages, Health!IdleWorker
<1> QED
  BY <1>1, HealthInit, HealthTypesStep, TimerStep, HeardStep, PartsStep, CountStep
     DEF HealthInv

\* Type correctness of Healthz, whatever part runs.
THEOREM HealthTyped == ASSUME HealthConstants PROVE SafetySpec => []Health!TypeOK
<1>1. AllInit => HealthInv
  BY HealthInductive DEF AllInit
<1>2. HealthInv /\ [AllNext]_allVars => HealthInv'
  BY PartSteps, HealthInductive
<1>3. HealthInv => Health!TypeOK
  BY HealthTypeOK DEF HealthInv
<1> QED BY <1>1, <1>2, <1>3, PTL DEF SafetySpec

\* healthz.go: an answer before the timeout has heard of every check.
THEOREM NoAnswerTooEarly == ASSUME HealthConstants PROVE SafetySpec => []NoEarlyAnswer
<1>1. AllInit => HealthInv
  BY HealthInductive DEF AllInit
<1>2. HealthInv /\ [AllNext]_allVars => HealthInv'
  BY PartSteps, HealthInductive
<1>3. ASSUME HealthInv PROVE NoEarlyAnswer
  <2>1. SUFFICES ASSUME NEW h \in Requests, place[h] = "gone", timer[h] = "armed"
                 PROVE  /\ \A p \in pings : results[h][p] \in {"success", "failed"}
                        /\ \A c \in HealthQueues :
                               route[c] # "missing" => Health!Back(c) # {}
    BY DEF NoEarlyAnswer, Health!NoEarlyAnswer
  <2>2. Asked(h) /\ todos[h] = {} /\ parts[h] = {} /\ \A c \in HealthQueues : categories[h][c] = 0
    BY <1>3, <2>1 DEF HealthInv, HeardInv, PartsInv, Asked
  <2>3. \A p \in pings : results[h][p] \in {"success", "failed"}
    BY <1>3, <2>2 DEF HealthInv, PartsInv
  <2>4. ASSUME NEW c \in HealthQueues, route[c] # "missing" PROVE Health!Back(c) # {}
    <3>1. PICK s \in Health!Seconds : consumed[c][s] > 0
      BY <1>3, <2>1, <2>2, <2>4 DEF HealthInv, HeardInv
    <3>2. consumed[c][s] \in Nat
      BY <1>3 DEF HealthInv, HealthTypes, WorkTypes
    <3>3. <<s, 1>> \in {s} \X (1 .. consumed[c][s])
      BY <3>1, <3>2
    <3> QED BY <3>3 DEF Health!Back
  <2> QED BY <2>3, <2>4
<1> QED BY <1>1, <1>2, <1>3, PTL DEF SafetySpec

\* The operator FiniteSets defines, whichever module it is reached through.
LEMMA SameCardinality == \A S : Health!Cardinality(S) = Cardinality(S)
  BY DEF Health!Cardinality, Cardinality

\* healthz.go: a message that comes back makes one request successful at most,
\* however many asked within its second.
THEOREM OneSuccessEach == ASSUME HealthConstants PROVE SafetySpec => []OneSuccessPerMessage
<1>1. AllInit => HealthInv
  BY HealthInductive DEF AllInit
<1>2. HealthInv /\ [AllNext]_allVars => HealthInv'
  BY PartSteps, HealthInductive
<1>3. ASSUME HealthInv, NEW c \in HealthQueues
      PROVE  Cardinality(Successful(c)) <= Cardinality(Health!Back(c))
  <2>1. IsFiniteSet(Health!Back(c)) /\ Cardinality(Successful(c)) + Busy(c) <= Cardinality(Health!Back(c))
    BY <1>3 DEF HealthInv, CountInv
  <2>2. Busy(c) \in Nat
    BY DEF Busy
  <2>3. IsFiniteSet(Successful(c))
    BY FS_Subset DEF HealthConstants, Successful
  <2>4. Cardinality(Successful(c)) \in Nat /\ Cardinality(Health!Back(c)) \in Nat
    BY <2>1, <2>3, FS_CardinalityType
  <2> QED BY <2>1, <2>2, <2>4
<1>4. ASSUME HealthInv PROVE OneSuccessPerMessage
  <2>1. \A c \in HealthQueues : Cardinality({h \in Requests : Health!Reported(h, c, "success")})
                                    <= Cardinality(Health!Back(c))
    BY <1>3, <1>4 DEF Successful
  <2> QED BY <2>1, SameCardinality DEF OneSuccessPerMessage, Health!OneSuccessPerMessage
<1> QED BY <1>1, <1>2, <1>4, PTL DEF SafetySpec

-----------------------------------------------------------------------------
(* AsyncRecordSaver: a record is in one place *)

\* A set of naturals has a smallest element.
LEMMA SmallestNumber ==
    ASSUME NEW S \in SUBSET Nat, S # {}
    PROVE  \E n \in S : \A m \in S : n <= m
<1>1. PICK n \in S : \A m \in S : ~(<<m, n>> \in OpToRel(<, Nat))
  BY NatLessThanWellFounded, WFMin
<1>2. ASSUME NEW m \in S PROVE n <= m
  <2>1. m \in Nat /\ n \in Nat
    OBVIOUS
  <2>2. ~(m < n)
    BY <1>1, <2>1 DEF OpToRel
  <2> QED BY <2>1, <2>2
<1> QED BY <1>2


\* What the proofs need of the constants: insert groups are not empty.
SaverConstants == GroupSize \in Nat \ {0}

\* The rows that were taken out are in groups one after the other, none of which
\* is larger than GroupSize.
Distinct(rows) == \A i, j \in 1 .. Len(rows) : rows[i] = rows[j] => i = j
InGroups(x, gs) == \E a \in 1 .. Len(gs) : \E b \in 1 .. Len(gs[a]) : gs[a][b] = x
Grouped(gs) ==
    /\ gs \in Seq(Seq(Records))
    /\ \A a \in 1 .. Len(gs) : Len(gs[a]) <= GroupSize
    /\ \A a, c \in 1 .. Len(gs) : \A b \in 1 .. Len(gs[a]), d \in 1 .. Len(gs[c]) :
           gs[a][b] = gs[c][d] => a = c /\ b = d
Covers(gs, rows, k) ==
    /\ Grouped(gs)
    /\ \A a \in 1 .. Len(gs) : \A b \in 1 .. Len(gs[a]) : \E j \in 1 .. k : gs[a][b] = rows[j]
    /\ \A j \in 1 .. k : InGroups(rows[j], gs)

\* A function on 1 .. l is a sequence of length l.
LEMMA FunctionSeq ==
    ASSUME NEW S, NEW l \in Nat, NEW s \in [1 .. l -> S]
    PROVE  s \in Seq(S) /\ Len(s) = l
<1>1. s \in Seq(S)
  BY SeqDef
<1>2. Len(s) \in Nat /\ DOMAIN s = 1 .. Len(s) /\ DOMAIN s = 1 .. l
  BY <1>1, LenProperties
<1> QED BY <1>1, <1>2

\* What Append adds.
LEMMA Appended ==
    ASSUME NEW S, NEW s \in Seq(S), NEW e \in S
    PROVE  /\ Append(s, e) \in Seq(S) /\ Len(s) \in Nat /\ Len(Append(s, e)) = Len(s) + 1
           /\ \A i \in 1 .. Len(s) : Append(s, e)[i] = s[i] /\ s[i] \in S
           /\ Append(s, e)[Len(s) + 1] = e
  BY AppendProperties, LenProperties, ElementOfSeq

\* The next rows in a further group.
LEMMA GroupAdded ==
    ASSUME SaverConstants, NEW rows \in Seq(Records), Distinct(rows),
           NEW k \in Nat, NEW gs, Covers(gs, rows, k), NEW g \in Seq(Records),
           Len(g) <= GroupSize, k + Len(g) <= Len(rows),
           \A j \in 1 .. Len(g) : g[j] = rows[k + j]
    PROVE  Covers(Append(gs, g), rows, k + Len(g))
<1> DEFINE n  == Len(gs)
           gs1 == Append(gs, g)
<1>1. /\ gs1 \in Seq(Seq(Records)) /\ n \in Nat /\ Len(gs1) = n + 1
      /\ \A a \in 1 .. n : gs1[a] = gs[a] /\ gs[a] \in Seq(Records)
      /\ gs1[n + 1] = g
  BY Appended DEF Covers, Grouped
<1>2. Len(g) \in Nat /\ Len(rows) \in Nat /\ \A a \in 1 .. n : Len(gs[a]) \in Nat
  BY <1>1, LenProperties
<1> HIDE DEF gs1, n
<1>3. /\ \A a \in 1 .. n : Len(gs[a]) <= GroupSize
      /\ \A a, c \in 1 .. n : \A b \in 1 .. Len(gs[a]), d \in 1 .. Len(gs[c]) :
             gs[a][b] = gs[c][d] => a = c /\ b = d
      /\ \A a \in 1 .. n : \A b \in 1 .. Len(gs[a]) : \E j \in 1 .. k : gs[a][b] = rows[j]
      /\ \A j \in 1 .. k : \E a \in 1 .. n : \E b \in 1 .. Len(gs[a]) : gs[a][b] = rows[j]
  BY DEF Covers, Grouped, InGroups, n
<1>4. \A a \in 1 .. n + 1 : a \in 1 .. n \/ a = n + 1
  BY <1>1
<1>5. \A a \in 1 .. n : a \in 1 .. n + 1 /\ n + 1 \in 1 .. n + 1
  BY <1>1
<1>6. \A a \in 1 .. n + 1 : Len(gs1[a]) <= GroupSize
  BY <1>1, <1>3, <1>4
<1>7. ASSUME NEW a \in 1 .. n + 1, NEW c \in 1 .. n + 1, NEW b \in 1 .. Len(gs1[a]),
             NEW d \in 1 .. Len(gs1[c]), gs1[a][b] = gs1[c][d]
      PROVE  a = c /\ b = d
  <2>1. CASE a \in 1 .. n /\ c \in 1 .. n
    <3>1. /\ gs1[a] = gs[a] /\ gs1[c] = gs[c] /\ gs[a][b] = gs[c][d]
          /\ b \in 1 .. Len(gs[a]) /\ d \in 1 .. Len(gs[c])
      BY <1>1, <1>7, <2>1
    <3> QED BY <1>3, <2>1, <3>1
  <2>2. ASSUME NEW u \in 1 .. n, NEW v \in 1 .. Len(gs[u]), NEW w \in 1 .. Len(g),
               gs[u][v] = g[w]
        PROVE  FALSE
    <3>1. PICK j \in 1 .. k : gs[u][v] = rows[j]
      BY <1>3
    <3>2. j \in 1 .. Len(rows) /\ k + w \in 1 .. Len(rows) /\ j # k + w
      <4>1. w \in Nat /\ w >= 1 /\ w <= Len(g) /\ j \in Nat /\ j >= 1 /\ j <= k
        BY <1>2
      <4> QED BY <1>2, <4>1
    <3>3. g[w] = rows[k + w]
      OBVIOUS
    <3> QED BY <2>2, <3>1, <3>2, <3>3 DEF Distinct
  <2>3. CASE a = n + 1 /\ c = n + 1
    <3>1. /\ rows[k + b] = rows[k + d] /\ k + b \in 1 .. Len(rows) /\ k + d \in 1 .. Len(rows)
          /\ b \in Nat /\ d \in Nat
      BY <1>1, <1>2, <1>7, <2>3
    <3>2. k + b = k + d
      BY <3>1 DEF Distinct
    <3> QED BY <2>3, <3>1, <3>2
  <2>4. CASE a \in 1 .. n /\ c = n + 1
    <3>1. gs[a][b] = g[d] /\ b \in 1 .. Len(gs[a]) /\ d \in 1 .. Len(g)
      BY <1>1, <1>7, <2>4
    <3> QED BY <2>2, <2>4, <3>1
  <2>5. CASE a = n + 1 /\ c \in 1 .. n
    <3>1. gs[c][d] = g[b] /\ d \in 1 .. Len(gs[c]) /\ b \in 1 .. Len(g)
      BY <1>1, <1>7, <2>5
    <3> QED BY <2>2, <2>5, <3>1
  <2> QED BY <1>4, <2>1, <2>3, <2>4, <2>5
<1>8. ASSUME NEW a \in 1 .. n + 1, NEW b \in 1 .. Len(gs1[a])
      PROVE  \E j \in 1 .. k + Len(g) : gs1[a][b] = rows[j]
  <2>1. CASE a \in 1 .. n
    <3>1. gs1[a] = gs[a] /\ b \in 1 .. Len(gs[a])
      BY <1>1, <2>1
    <3>2. PICK j \in 1 .. k : gs[a][b] = rows[j]
      BY <1>3, <2>1, <3>1
    <3>3. j \in 1 .. k + Len(g)
      BY <1>2
    <3> QED BY <3>1, <3>2, <3>3
  <2>2. CASE a = n + 1
    <3>1. b \in 1 .. Len(g) /\ gs1[a][b] = rows[k + b] /\ k + b \in 1 .. k + Len(g)
      BY <1>1, <1>2, <2>2
    <3> QED BY <3>1
  <2> QED BY <1>4, <2>1, <2>2
<1>9. ASSUME NEW j \in 1 .. k + Len(g) PROVE InGroups(rows[j], gs1)
  <2>1. CASE j \in 1 .. k
    <3>1. PICK a \in 1 .. n : \E b \in 1 .. Len(gs[a]) : gs[a][b] = rows[j]
      BY <1>3, <2>1
    <3> QED BY <1>1, <1>5, <3>1 DEF InGroups
  <2>2. CASE j \notin 1 .. k
    <3>1. j - k \in 1 .. Len(g) /\ g[j - k] = rows[k + (j - k)] /\ k + (j - k) = j
      BY <1>2, <2>2
    <3>2. gs1[n + 1][j - k] = rows[j] /\ j - k \in 1 .. Len(gs1[n + 1])
      BY <1>1, <3>1
    <3>3. n + 1 \in 1 .. Len(gs1)
      BY <1>1
    <3> QED BY <3>2, <3>3 DEF InGroups
  <2> QED BY <2>1, <2>2
<1>10. Grouped(gs1)
  BY <1>1, <1>6, <1>7 DEF Grouped
<1>11. \A a \in 1 .. Len(gs1) : \A b \in 1 .. Len(gs1[a]) :
           \E j \in 1 .. k + Len(g) : gs1[a][b] = rows[j]
  BY <1>1, <1>8
<1> QED BY <1>9, <1>10, <1>11 DEF Covers, gs1


\* persistLogs' loop: how it starts, the group after a full one, and what a round
\* makes of p.
Start(rows) == [full |-> << >>, off |-> 0,
                cur |-> Saver!NewGroup(Saver!Smaller(Len(rows), GroupSize))]
NextGroup(rows, p) ==
    [full |-> Append(p.full, p.cur), off |-> p.off + Len(p.cur),
     cur |-> Saver!NewGroup(Saver!Smaller(Len(rows) - (p.off + Len(p.cur)), GroupSize))]
Put(rows, q, i) == [q EXCEPT !.cur[i - q.off] = rows[i]]
Round(rows, p, i) ==
    Put(rows, IF i - 1 - p.off >= GroupSize THEN NextGroup(rows, p) ELSE p, i)
IsLoop(rows, h, n) ==
    h = [i \in 0 .. n |-> IF i = 0 THEN Start(rows) ELSE Round(rows, h[i - 1], i)]

\* After i rounds the first off rows are in full groups, the others in cur, which
\* has room for what is left, GroupSize at most.
RoundInv(rows, p, i) ==
    /\ p = [full |-> p.full, off |-> p.off, cur |-> p.cur]
    /\ p.off \in Nat /\ p.off <= i /\ i - p.off <= GroupSize
    /\ p.cur \in [1 .. Saver!Smaller(Len(rows) - p.off, GroupSize) -> Records \cup {NoRecord}]
    /\ \A j \in 1 .. i - p.off : p.cur[j] = rows[p.off + j]
    /\ Covers(p.full, rows, p.off)

\* The invariant of the loop holds before the first round,
LEMMA Started ==
    ASSUME SaverConstants, NEW rows \in Seq(Records) PROVE RoundInv(rows, Start(rows), 0)
<1> DEFINE p == Start(rows)
<1>1. p = [full |-> << >>, off |-> 0, cur |-> [j \in 1 .. Saver!Smaller(Len(rows), GroupSize) |-> NoRecord]]
  BY DEF Start, Saver!NewGroup
<1>2. Len(rows) - 0 = Len(rows) /\ 0 \in Nat /\ 0 - 0 <= GroupSize
  BY LenProperties DEF SaverConstants
<1>3. Covers(<< >>, rows, 0)
  BY DEF Covers, Grouped
<1> HIDE DEF p
<1>4. p.full = << >> /\ p.off = 0
      /\ p.cur \in [1 .. Saver!Smaller(Len(rows), GroupSize) -> Records \cup {NoRecord}]
  BY <1>1
<1>5. p = [full |-> p.full, off |-> p.off, cur |-> p.cur]
  BY <1>1
<1> QED
  BY <1>2, <1>3, <1>4, <1>5 DEF RoundInv, p

\* is kept where cur has room for the row,
LEMMA RowPut ==
    ASSUME SaverConstants, NEW rows \in Seq(Records), NEW i \in 1 .. Len(rows), NEW q,
           RoundInv(rows, q, i - 1), i - 1 - q.off < GroupSize
    PROVE  RoundInv(rows, Put(rows, q, i), i)
<1> DEFINE p == Put(rows, q, i)
           l == Saver!Smaller(Len(rows) - q.off, GroupSize)
<1>1. /\ q = [full |-> q.full, off |-> q.off, cur |-> q.cur]
      /\ q.off \in Nat /\ q.off <= i - 1 /\ q.cur \in [1 .. l -> Records \cup {NoRecord}]
      /\ \A j \in 1 .. i - 1 - q.off : q.cur[j] = rows[q.off + j]
      /\ Covers(q.full, rows, q.off)
  BY DEF RoundInv
<1>2. Len(rows) \in Nat /\ i \in Nat /\ i <= Len(rows) /\ GroupSize \in Nat /\ rows[i] \in Records
  BY LenProperties, ElementOfSeq DEF SaverConstants
<1>3. i - q.off \in 1 .. l /\ l \in Nat /\ i - q.off <= GroupSize
  BY <1>1, <1>2 DEF Saver!Smaller
<1> HIDE DEF l
<1>4. p = [full |-> q.full, off |-> q.off, cur |-> [q.cur EXCEPT ![i - q.off] = rows[i]]]
  BY <1>1 DEF Put
<1> HIDE DEF p
<1>5. /\ p.full = q.full /\ p.off = q.off /\ p.cur = [q.cur EXCEPT ![i - q.off] = rows[i]]
      /\ p = [full |-> p.full, off |-> p.off, cur |-> p.cur]
  BY <1>4
<1>6. p.cur \in [1 .. l -> Records \cup {NoRecord}]
  BY <1>1, <1>2, <1>3, <1>5
<1>7. ASSUME NEW j \in 1 .. i - q.off PROVE p.cur[j] = rows[q.off + j]
  <2>1. j \in 1 .. l /\ (j = i - q.off \/ j \in 1 .. i - 1 - q.off)
    BY <1>1, <1>2, <1>3
  <2>2. CASE j = i - q.off
    <3>1. p.cur[j] = rows[i] /\ q.off + j = i
      BY <1>1, <1>2, <1>3, <1>5, <2>1, <2>2
    <3> QED BY <3>1
  <2>3. CASE j # i - q.off
    <3>1. p.cur[j] = q.cur[j] /\ j \in 1 .. i - 1 - q.off
      BY <1>1, <1>5, <2>1, <2>3
    <3> QED BY <1>1, <3>1
  <2> QED BY <2>2, <2>3
<1> QED
  BY <1>1, <1>2, <1>3, <1>5, <1>6, <1>7 DEF RoundInv, p, l

\* and by every round.
LEMMA RoundKeeps ==
    ASSUME SaverConstants, NEW rows \in Seq(Records), Distinct(rows),
           NEW i \in 1 .. Len(rows), NEW p, RoundInv(rows, p, i - 1)
    PROVE  RoundInv(rows, Round(rows, p, i), i)
<1> DEFINE l == Saver!Smaller(Len(rows) - p.off, GroupSize)
<1>1. /\ p.off \in Nat /\ p.off <= i - 1 /\ i - 1 - p.off <= GroupSize
      /\ p.cur \in [1 .. l -> Records \cup {NoRecord}]
      /\ \A j \in 1 .. i - 1 - p.off : p.cur[j] = rows[p.off + j]
      /\ Covers(p.full, rows, p.off)
  BY DEF RoundInv
<1>2. Len(rows) \in Nat /\ i \in Nat /\ i <= Len(rows) /\ GroupSize \in Nat \ {0}
  BY LenProperties DEF SaverConstants
<1>3. CASE i - 1 - p.off < GroupSize
  <2>1. ~(i - 1 - p.off >= GroupSize)
    BY <1>1, <1>2, <1>3
  <2>2. Round(rows, p, i) = Put(rows, p, i)
    BY <2>1 DEF Round
  <2> QED BY <1>3, <2>2, RowPut
<1>4. CASE i - 1 - p.off = GroupSize
  <2>1. l = GroupSize
    BY <1>1, <1>2, <1>4 DEF Saver!Smaller
  <2>2. p.cur \in [1 .. GroupSize -> Records]
    <3>1. \A j \in 1 .. GroupSize : p.cur[j] = rows[p.off + j] /\ p.off + j \in 1 .. Len(rows)
      BY <1>1, <1>2, <1>4
    <3>2. \A j \in 1 .. GroupSize : p.cur[j] \in Records
      BY <3>1, ElementOfSeq
    <3> QED BY <1>1, <2>1, <3>2
  <2>3. p.cur \in Seq(Records) /\ Len(p.cur) = GroupSize
    BY <1>2, <2>2, FunctionSeq
  <2>4. Covers(Append(p.full, p.cur), rows, p.off + GroupSize) /\ p.off + GroupSize = i - 1
    <3>1. p.off + GroupSize = i - 1 /\ p.off + GroupSize <= Len(rows) /\ GroupSize <= GroupSize
      BY <1>1, <1>2, <1>4
    <3>2. \A j \in 1 .. Len(p.cur) : p.cur[j] = rows[p.off + j]
      BY <1>1, <1>4, <2>3
    <3>3. Covers(Append(p.full, p.cur), rows, p.off + Len(p.cur))
      BY <1>1, <2>3, <3>1, <3>2, GroupAdded
    <3> QED BY <2>3, <3>1, <3>3
  <2> DEFINE m == Saver!Smaller(Len(rows) - (i - 1), GroupSize)
             q == [full |-> Append(p.full, p.cur), off |-> i - 1,
                   cur |-> [j \in 1 .. m |-> NoRecord]]
  <2>5. Round(rows, p, i) = Put(rows, q, i)
    <3>1. i - 1 - p.off >= GroupSize
      BY <1>2, <1>4
    <3>2. NextGroup(rows, p) = q
      BY <2>3, <2>4 DEF NextGroup, Saver!NewGroup
    <3> HIDE DEF q
    <3> QED BY <3>1, <3>2 DEF Round
  <2>6. RoundInv(rows, q, i - 1) /\ q.off = i - 1
    <3>1. q.full = Append(p.full, p.cur) /\ q.off = i - 1
          /\ q.cur \in [1 .. m -> Records \cup {NoRecord}]
          /\ q = [full |-> q.full, off |-> q.off, cur |-> q.cur]
      OBVIOUS
    <3> HIDE DEF q
    <3> QED BY <1>2, <2>4, <3>1 DEF RoundInv
  <2>7. i - 1 - q.off < GroupSize
    BY <1>2, <2>6
  <2> HIDE DEF q
  <2> QED BY <2>5, <2>6, <2>7, RowPut
<1> QED BY <1>1, <1>2, <1>3, <1>4

\* Split is what the loop leaves after as many rounds as there are rows.
LEMMA SplitUnfold ==
    ASSUME NEW rows
    PROVE  LET g == CHOOSE h : IsLoop(rows, h, Len(rows))
           IN Saver!Split(rows) = Append(g[Len(rows)].full, g[Len(rows)].cur)
  BY DEF Saver!Split, IsLoop, Start, Round, NextGroup, Put


\* The loop of n rounds determines a value for each of them.
LEMMA LoopExists ==
    ASSUME NEW rows, NEW k \in Nat PROVE \E h : IsLoop(rows, h, k)
<1> DEFINE Bad == {n \in Nat : ~ \E h : IsLoop(rows, h, n)}
<1>1. SUFFICES ASSUME k \in Bad PROVE FALSE
  OBVIOUS
<1>2. Bad \in SUBSET Nat /\ Bad # {}
  BY <1>1
<1>3. PICK n \in Bad : \A m \in Bad : n <= m
  <2> HIDE DEF Bad
  <2> QED BY <1>2, SmallestNumber
<1>4. n \in Nat /\ ~ \E h : IsLoop(rows, h, n)
  OBVIOUS
<1>5. n # 0
  <2>1. [i \in 0 .. 0 |-> Start(rows)] =
            [i \in 0 .. 0 |-> IF i = 0 THEN Start(rows)
                              ELSE Round(rows, [j \in 0 .. 0 |-> Start(rows)][i - 1], i)]
    OBVIOUS
  <2>2. IsLoop(rows, [i \in 0 .. 0 |-> Start(rows)], 0)
    BY <2>1 DEF IsLoop
  <2> QED BY <1>4, <2>2
<1>6. n - 1 \in Nat /\ ~(n <= n - 1)
  BY <1>4, <1>5
<1>7. PICK h : IsLoop(rows, h, n - 1)
  BY <1>3, <1>6
<1> DEFINE g == [i \in 0 .. n |-> IF i = 0 THEN Start(rows) ELSE Round(rows, h[i - 1], i)]
<1>8. \A i \in 0 .. n - 1 : g[i] = h[i]
  <2>1. \A i \in 0 .. n - 1 : h[i] = IF i = 0 THEN Start(rows) ELSE Round(rows, h[i - 1], i)
    BY <1>7 DEF IsLoop
  <2>2. \A i \in 0 .. n - 1 : i \in 0 .. n
    BY <1>4
  <2> QED BY <2>1, <2>2
<1>9. \A i \in 0 .. n : i = 0 \/ g[i - 1] = h[i - 1]
  <2>1. \A i \in 0 .. n : i = 0 \/ i - 1 \in 0 .. n - 1
    BY <1>4
  <2> HIDE DEF g
  <2> QED BY <1>8, <2>1
<1>10. g = [i \in 0 .. n |-> IF i = 0 THEN Start(rows) ELSE Round(rows, g[i - 1], i)]
  <2> DEFINE f == [i \in 0 .. n |-> IF i = 0 THEN Start(rows) ELSE Round(rows, g[i - 1], i)]
  <2>1. \A i \in 0 .. n : g[i] = f[i]
    <3>1. \A i \in 0 .. n : g[i] = IF i = 0 THEN Start(rows) ELSE Round(rows, h[i - 1], i)
      OBVIOUS
    <3> HIDE DEF g
    <3>2. \A i \in 0 .. n : f[i] = IF i = 0 THEN Start(rows) ELSE Round(rows, g[i - 1], i)
      OBVIOUS
    <3> HIDE DEF f
    <3> QED BY <1>9, <3>1, <3>2
  <2>2. g \in [0 .. n -> {g[i] : i \in 0 .. n}] /\ f \in [0 .. n -> {f[i] : i \in 0 .. n}]
    OBVIOUS
  <2>3. DOMAIN g = 0 .. n /\ DOMAIN f = 0 .. n
    OBVIOUS
  <2>4. g = [i \in 0 .. n |-> g[i]] /\ f = [i \in 0 .. n |-> f[i]]
    OBVIOUS
  <2>5. [i \in 0 .. n |-> g[i]] = [i \in 0 .. n |-> f[i]]
    <3> HIDE DEF g, f
    <3> QED BY <2>1
  <2>6. g = f
    <3> HIDE DEF g, f
    <3> QED BY <2>4, <2>5
  <2> QED BY <2>6
<1> HIDE DEF g
<1> QED BY <1>4, <1>10 DEF IsLoop

\* persistLogs groups the rows it took, each once.
LEMMA SplitCovers ==
    ASSUME SaverConstants, NEW rows \in Seq(Records), Distinct(rows)
    PROVE  Covers(Saver!Split(rows), rows, Len(rows))
<1> DEFINE N == Len(rows)
           g == CHOOSE h : IsLoop(rows, h, N)
<1>1. N \in Nat
  BY LenProperties
<1>2. IsLoop(rows, g, N)
  <2> HIDE DEF N
  <2>1. \E h : IsLoop(rows, h, N)
    BY <1>1, LoopExists
  <2> QED BY <2>1
<1>3. Saver!Split(rows) = Append(g[N].full, g[N].cur)
  BY SplitUnfold
<1> HIDE DEF g, N
<1>4. /\ \A i \in 0 .. N : g[i] = IF i = 0 THEN Start(rows) ELSE Round(rows, g[i - 1], i)
  BY <1>2 DEF IsLoop
<1> DEFINE Bad == {i \in 0 .. N : ~RoundInv(rows, g[i], i)}
<1>5. Bad = {}
  <2>1. SUFFICES ASSUME Bad # {} PROVE FALSE
    OBVIOUS
  <2>2. Bad \in SUBSET Nat
    BY <1>1
  <2>3. PICK i \in Bad : \A j \in Bad : i <= j
    <3> HIDE DEF Bad
    <3> QED BY <2>1, <2>2, SmallestNumber
  <2>4. i \in 0 .. N /\ ~RoundInv(rows, g[i], i)
    OBVIOUS
  <2>5. i # 0
    <3>1. g[0] = Start(rows)
      BY <1>1, <1>4
    <3> QED BY <2>4, <3>1, Started
  <2>6. i - 1 \in 0 .. N /\ ~(i <= i - 1) /\ i \in 1 .. N
    BY <1>1, <2>4, <2>5
  <2>7. RoundInv(rows, g[i - 1], i - 1)
    BY <2>3, <2>6
  <2>8. g[i] = Round(rows, g[i - 1], i)
    BY <1>4, <2>4, <2>5
  <2> QED BY <2>4, <2>6, <2>7, <2>8, RoundKeeps DEF N
<1>6. RoundInv(rows, g[N], N)
  BY <1>1, <1>5
<1> DEFINE p == g[N]
           l == Saver!Smaller(N - p.off, GroupSize)
<1>7. /\ p.off \in Nat /\ p.off <= N /\ N - p.off <= GroupSize
      /\ p.cur \in [1 .. l -> Records \cup {NoRecord}]
      /\ \A j \in 1 .. N - p.off : p.cur[j] = rows[p.off + j]
      /\ Covers(p.full, rows, p.off)
  BY <1>6 DEF RoundInv, N
<1> HIDE DEF p
<1>8. l = N - p.off /\ l \in Nat
  BY <1>1, <1>7 DEF Saver!Smaller, SaverConstants
<1> HIDE DEF l
<1>9. p.cur \in [1 .. l -> Records]
  <2>1. \A j \in 1 .. l : p.cur[j] = rows[p.off + j] /\ p.off + j \in 1 .. N
    BY <1>1, <1>7, <1>8
  <2>2. \A j \in 1 .. l : p.cur[j] \in Records
    BY <2>1, ElementOfSeq DEF N
  <2> QED BY <1>7, <2>2
<1>10. p.cur \in Seq(Records) /\ Len(p.cur) = l
  BY <1>8, <1>9, FunctionSeq
<1>11. p.off + Len(p.cur) = N /\ Len(p.cur) <= GroupSize /\ N <= N
       /\ \A j \in 1 .. Len(p.cur) : p.cur[j] = rows[p.off + j]
  BY <1>1, <1>7, <1>8, <1>10
<1>12. Covers(Append(p.full, p.cur), rows, p.off + Len(p.cur))
  BY <1>7, <1>10, <1>11, GroupAdded DEF N
<1> QED BY <1>3, <1>11, <1>12 DEF N, p


InSeq(x, s) == \E i \in 1 .. Len(s) : s[i] = x

\* A row appended to a list that did not hold it.
LEMMA SeqAppended ==
    ASSUME NEW s \in Seq(Records), NEW e \in Records, Distinct(s), ~InSeq(e, s)
    PROVE  /\ Append(s, e) \in Seq(Records) /\ Distinct(Append(s, e))
           /\ \A x : InSeq(x, Append(s, e)) <=> InSeq(x, s) \/ x = e
<1> DEFINE u == Append(s, e)
<1>1. /\ u \in Seq(Records) /\ Len(s) \in Nat /\ Len(u) = Len(s) + 1
      /\ \A i \in 1 .. Len(s) : u[i] = s[i]
      /\ u[Len(s) + 1] = e
  BY Appended
<1> HIDE DEF u
<1>2. \A i \in 1 .. Len(s) + 1 : i \in 1 .. Len(s) \/ i = Len(s) + 1
  BY <1>1
<1>3. /\ \A i \in 1 .. Len(s) : i \in 1 .. Len(u)
      /\ Len(s) + 1 \in 1 .. Len(u)
  BY <1>1
<1>4. \A x : InSeq(x, u) <=> InSeq(x, s) \/ x = e
  BY <1>1, <1>2, <1>3 DEF InSeq
<1>5. Distinct(u)
  BY <1>1, <1>2 DEF Distinct, InSeq
<1> QED BY <1>1, <1>4, <1>5 DEF u

\* Two lists that share no row, joined.
LEMMA SeqJoined ==
    ASSUME NEW s \in Seq(Records), NEW g \in Seq(Records), Distinct(s), Distinct(g),
           \A x : ~(InSeq(x, s) /\ InSeq(x, g))
    PROVE  /\ s \o g \in Seq(Records) /\ Distinct(s \o g)
           /\ \A x : InSeq(x, s \o g) <=> InSeq(x, s) \/ InSeq(x, g)
<1> DEFINE u == s \o g
           m == Len(s)
           n == Len(g)
<1>1. /\ u \in Seq(Records) /\ m \in Nat /\ n \in Nat /\ Len(u) = m + n
      /\ \A i \in 1 .. m + n : u[i] = IF i <= m THEN s[i] ELSE g[i - m]
  BY ConcatProperties, LenProperties
<1> HIDE DEF u, m, n
<1>2. \A i \in 1 .. m + n : \/ i \in 1 .. m /\ u[i] = s[i]
                            \/ i - m \in 1 .. n /\ u[i] = g[i - m] /\ i = m + (i - m)
  BY <1>1
<1>3. \A i \in 1 .. m : i \in 1 .. m + n /\ u[i] = s[i]
  BY <1>1
<1>4. \A j \in 1 .. n : m + j \in 1 .. m + n /\ u[m + j] = g[j]
  <2>1. \A j \in 1 .. n : m + j \in 1 .. m + n /\ ~(m + j <= m) /\ m + j - m = j
    BY <1>1
  <2> QED BY <1>1, <2>1
<1>5. \A x : InSeq(x, u) <=> InSeq(x, s) \/ InSeq(x, g)
  <2>1. ASSUME NEW x, InSeq(x, u) PROVE InSeq(x, s) \/ InSeq(x, g)
    <3>1. PICK i \in 1 .. m + n : u[i] = x
      BY <1>1, <2>1 DEF InSeq
    <3> QED BY <1>2, <3>1 DEF InSeq, m, n
  <2>2. ASSUME NEW x, InSeq(x, s) PROVE InSeq(x, u)
    BY <1>1, <1>3, <2>2 DEF InSeq, m
  <2>3. ASSUME NEW x, InSeq(x, g) PROVE InSeq(x, u)
    <3>1. PICK j \in 1 .. n : g[j] = x
      BY <2>3 DEF InSeq, n
    <3>2. m + j \in 1 .. Len(u) /\ u[m + j] = x
      BY <1>1, <1>4, <3>1
    <3> QED BY <3>2 DEF InSeq
  <2> QED BY <2>1, <2>2, <2>3
<1>6. ASSUME NEW i \in 1 .. m + n, NEW j \in 1 .. m + n, u[i] = u[j] PROVE i = j
  <2>1. CASE i \in 1 .. m /\ u[i] = s[i] /\ j \in 1 .. m /\ u[j] = s[j]
    BY <1>6, <2>1 DEF Distinct, m
  <2>2. CASE /\ i - m \in 1 .. n /\ u[i] = g[i - m] /\ i = m + (i - m)
             /\ j - m \in 1 .. n /\ u[j] = g[j - m] /\ j = m + (j - m)
    <3>1. i - m = j - m
      BY <1>6, <2>2 DEF Distinct, n
    <3> QED BY <2>2, <3>1
  <2>3. CASE i \in 1 .. m /\ u[i] = s[i] /\ j - m \in 1 .. n /\ u[j] = g[j - m]
    BY <1>6, <2>3 DEF InSeq, m, n
  <2>4. CASE i - m \in 1 .. n /\ u[i] = g[i - m] /\ j \in 1 .. m /\ u[j] = s[j]
    BY <1>6, <2>4 DEF InSeq, m, n
  <2> QED BY <1>2, <2>1, <2>2, <2>3, <2>4
<1>7. Distinct(u)
  BY <1>1, <1>6 DEF Distinct
<1> QED BY <1>1, <1>5, <1>7 DEF u

\* The first group and the others share no row.
LEMMA FirstGroup ==
    ASSUME NEW gs, Grouped(gs), gs # << >>
    PROVE  /\ Head(gs) \in Seq(Records) /\ Distinct(Head(gs))
           /\ Grouped(Tail(gs)) /\ (Len(gs) = 1 <=> Tail(gs) = << >>)
           /\ \A x : InGroups(x, gs) <=> InSeq(x, Head(gs)) \/ InGroups(x, Tail(gs))
           /\ \A x : ~(InSeq(x, Head(gs)) /\ InGroups(x, Tail(gs)))
<1> DEFINE u == Tail(gs)
           g == Head(gs)
           n == Len(gs)
<1>1. /\ gs \in Seq(Seq(Records)) /\ n \in Nat /\ n >= 1
  BY EmptySeq, LenProperties DEF Grouped
<1>2. /\ g = gs[1] /\ g \in Seq(Records) /\ u \in Seq(Seq(Records)) /\ Len(u) = n - 1
      /\ \A a \in 1 .. n - 1 : u[a] = gs[a + 1]
  BY <1>1, HeadTailProperties
<1> HIDE DEF u, g, n
<1>3. n = 1 <=> u = << >>
  <2>1. u # << >> => Len(u) \in Nat \ {0}
    BY <1>2, EmptySeq
  <2>2. Len(<< >>) = 0
    OBVIOUS
  <2> QED BY <1>1, <1>2, <2>1, <2>2
<1>4. /\ \A a \in 1 .. n : Len(gs[a]) <= GroupSize
      /\ \A a, c \in 1 .. n : \A b \in 1 .. Len(gs[a]), d \in 1 .. Len(gs[c]) :
             gs[a][b] = gs[c][d] => a = c /\ b = d
  BY DEF Grouped, n
<1>5. /\ 1 \in 1 .. n
      /\ \A a \in 1 .. n - 1 : a + 1 \in 1 .. n /\ a + 1 # 1 /\ a \in Nat /\ u[a] = gs[a + 1]
      /\ \A a \in 1 .. n : a = 1 \/ (a - 1 \in 1 .. n - 1 /\ gs[a] = u[a - 1])
  <2>1. /\ 1 \in 1 .. n
        /\ \A a \in 1 .. n - 1 : a + 1 \in 1 .. n /\ a + 1 # 1 /\ a \in Nat
        /\ \A a \in 1 .. n : a = 1 \/ (a - 1 \in 1 .. n - 1 /\ a = a - 1 + 1)
    BY <1>1
  <2> QED BY <1>2, <2>1
<1>6. Distinct(g)
  BY <1>2, <1>4, <1>5 DEF Distinct
<1>7. Grouped(u)
  <2>1. \A a \in 1 .. n - 1 : Len(u[a]) <= GroupSize
    BY <1>4, <1>5
  <2>2. ASSUME NEW a \in 1 .. n - 1, NEW c \in 1 .. n - 1, NEW b \in 1 .. Len(u[a]),
               NEW d \in 1 .. Len(u[c]), u[a][b] = u[c][d]
        PROVE  a = c /\ b = d
    <3>1. a + 1 = c + 1 /\ b = d
      BY <1>4, <1>5, <2>2
    <3> QED BY <1>5, <3>1
  <2> QED BY <1>2, <2>1, <2>2 DEF Grouped
<1>8. \A x : InGroups(x, gs) <=> InSeq(x, g) \/ InGroups(x, u)
  <2>1. ASSUME NEW x, InGroups(x, gs) PROVE InSeq(x, g) \/ InGroups(x, u)
    <3>1. PICK a \in 1 .. n : \E b \in 1 .. Len(gs[a]) : gs[a][b] = x
      BY <2>1 DEF InGroups, n
    <3>2. CASE a = 1
      BY <1>2, <3>1, <3>2 DEF InSeq
    <3>3. CASE a - 1 \in 1 .. n - 1 /\ gs[a] = u[a - 1]
      BY <1>2, <3>1, <3>3 DEF InGroups
    <3> QED BY <1>5, <3>2, <3>3
  <2>2. ASSUME NEW x, InSeq(x, g) PROVE InGroups(x, gs)
    BY <1>2, <1>5, <2>2 DEF InSeq, InGroups, n
  <2>3. ASSUME NEW x, InGroups(x, u) PROVE InGroups(x, gs)
    <3>1. PICK a \in 1 .. n - 1 : \E b \in 1 .. Len(u[a]) : u[a][b] = x
      BY <1>2, <2>3 DEF InGroups
    <3> QED BY <1>5, <3>1 DEF InGroups, n
  <2> QED BY <2>1, <2>2, <2>3
<1>9. ASSUME NEW x, InSeq(x, g), InGroups(x, u) PROVE FALSE
  <2>1. PICK i \in 1 .. Len(g) : g[i] = x
    BY <1>9 DEF InSeq
  <2>2. PICK a \in 1 .. n - 1 : \E b \in 1 .. Len(u[a]) : u[a][b] = x
    BY <1>2, <1>9 DEF InGroups
  <2>3. PICK b \in 1 .. Len(u[a]) : u[a][b] = x
    BY <2>2
  <2>4. gs[1][i] = gs[a + 1][b] /\ i \in 1 .. Len(gs[1]) /\ b \in 1 .. Len(gs[a + 1])
    BY <1>2, <1>5, <2>1, <2>3
  <2> QED BY <1>4, <1>5, <2>4
<1> QED BY <1>2, <1>3, <1>6, <1>7, <1>8, <1>9 DEF u, g, n


\* A loop has groups exactly while it inserts; it is Push that starts one.
GroupsInv ==
    \A r \in Records : /\ Grouped(groups[r])
                       /\ loop[r] = "insert" <=> groups[r] # << >>
                       /\ push[r] # "done" => loop[r] = "none"

Held(x, r) == InGroups(x, groups[r])

\* A record that was pushed is in one place only.
PlacesInv ==
    /\ Distinct(logs) /\ Distinct(db)
    /\ \A x \in Records :
           /\ ~(InSeq(x, logs) /\ InSeq(x, db))
           /\ x \in failed => ~InSeq(x, logs) /\ ~InSeq(x, db)
           /\ \A r \in Records : Held(x, r) =>
                  ~InSeq(x, logs) /\ ~InSeq(x, db) /\ x \notin failed
           /\ \A r, s \in Records : Held(x, r) /\ Held(x, s) => r = s
           /\ push[x] # "idle" <=> \/ InSeq(x, logs) \/ InSeq(x, db) \/ x \in failed
                                   \/ \E r \in Records : Held(x, r)

SaverInv == Saver!TypeOK /\ GroupsInv /\ PlacesInv

\* An empty list holds nothing.
LEMMA NothingHeld == /\ \A x : ~InSeq(x, << >>) /\ ~InGroups(x, << >>)
                     /\ Distinct(<< >>) /\ Grouped(<< >>)
  BY DEF InSeq, InGroups, Distinct, Grouped

\* SaverInv holds of the empty saver,
LEMMA SaverInit == ASSUME SaverConstants, Saver!Init PROVE SaverInv
<1> USE DEF Saver!Init
<1>1. Saver!TypeOK
  BY DEF Saver!TypeOK
<1>2. GroupsInv
  BY NothingHeld DEF GroupsInv
<1>3. PlacesInv
  BY NothingHeld DEF PlacesInv, Held
<1> QED BY <1>1, <1>2, <1>3 DEF SaverInv

\* What only moves a goroutine leaves the records where they are.
LEMMA PlacesStay ==
    ASSUME SaverInv, UNCHANGED <<logs, groups, db, failed>>,
           \A r \in Records : push'[r] = "idle" <=> push[r] = "idle",
           \A r \in Records : loop'[r] = "insert" <=> loop[r] = "insert",
           \A r \in Records : push'[r] # "done" => loop'[r] = "none"
    PROVE  GroupsInv' /\ PlacesInv'
<1>1. GroupsInv'
  BY DEF SaverInv, GroupsInv
<1>2. \A x : /\ InSeq(x, logs)' <=> InSeq(x, logs)
             /\ InSeq(x, db)' <=> InSeq(x, db)
             /\ \A r : Held(x, r)' <=> Held(x, r)
  BY DEF InSeq, Held, InGroups
<1>3. Distinct(logs)' /\ Distinct(db)'
  BY DEF SaverInv, PlacesInv, Distinct
<1>4. PlacesInv'
  BY <1>2, <1>3 DEF SaverInv, PlacesInv
<1> QED BY <1>1, <1>4

\* Push adds a record to logs that was nowhere.
LEMMA PushKeeps ==
    ASSUME SaverConstants, SaverInv, NEW r \in Records, Saver!PushAppend(r)
    PROVE  SaverInv'
<1> USE DEF Saver!PushAppend
<1>1. logs \in Seq(Records) /\ ~InSeq(r, logs) /\ Distinct(logs)
  BY DEF SaverInv, PlacesInv, Saver!TypeOK
<1>2. /\ logs' \in Seq(Records) /\ Distinct(logs')
      /\ \A x : InSeq(x, logs') <=> InSeq(x, logs) \/ x = r
  BY <1>1, SeqAppended
<1>3. push \in [Records -> {"idle", "test", "done"}] /\ push[r] = "idle"
      /\ push' = [push EXCEPT ![r] = "test"]
  BY DEF SaverInv, Saver!TypeOK
<1>4. Saver!TypeOK'
  BY <1>2, <1>3 DEF SaverInv, Saver!TypeOK
<1>5. GroupsInv'
  BY <1>3 DEF SaverInv, GroupsInv
<1>6. \A x : /\ InSeq(x, db)' <=> InSeq(x, db)
             /\ \A s : Held(x, s)' <=> Held(x, s)
  BY DEF InSeq, Held, InGroups
<1>7. \A x : InSeq(x, logs)' <=> InSeq(x, logs) \/ x = r
  BY <1>2
<1>8. Distinct(logs)' /\ Distinct(db)' /\ failed' = failed
  BY <1>2 DEF SaverInv, PlacesInv, Distinct
<1>9. \A x \in Records : push'[x] # "idle" <=> push[x] # "idle" \/ x = r
  BY <1>3
<1>10. ~InSeq(r, db) /\ r \notin failed /\ \A s \in Records : ~Held(r, s)
  BY <1>3 DEF SaverInv, PlacesInv
<1>11. PlacesInv'
  BY <1>6, <1>7, <1>8, <1>9, <1>10 DEF SaverInv, PlacesInv
<1> QED BY <1>4, <1>5, <1>11 DEF SaverInv

\* persistLogs moves all of logs to the groups of one loop.
LEMMA PersistKeeps ==
    ASSUME SaverConstants, SaverInv, NEW r \in Records, Saver!Persist(r)
    PROVE  SaverInv'
<1> USE DEF Saver!Persist
<1> DEFINE gs == IF logs = << >> THEN << >> ELSE Saver!Split(logs)
<1>1. /\ logs \in Seq(Records) /\ Distinct(logs) /\ groups \in [Records -> Seq(Seq(Records))]
      /\ loop \in [Records -> {"none", "start", "set", "head", "wait", "insert"}]
      /\ tick \in [Records -> BOOLEAN] /\ groups[r] = << >> /\ push[r] = "done"
  BY DEF SaverInv, PlacesInv, GroupsInv, Saver!TypeOK
<1>2. /\ Grouped(gs) /\ \A x : InGroups(x, gs) <=> InSeq(x, logs)
      /\ logs # << >> <=> gs # << >>
  <2>1. CASE logs = << >>
    BY <2>1, NothingHeld
  <2>2. CASE logs # << >>
    <3>1. Covers(gs, logs, Len(logs))
      BY <1>1, <2>2, SplitCovers
    <3> HIDE DEF gs
    <3>2. Grouped(gs) /\ \A x : InGroups(x, gs) <=> InSeq(x, logs)
      <4>1. Grouped(gs) /\ \A x : InSeq(x, logs) => InGroups(x, gs)
        BY <3>1 DEF Covers, InSeq
      <4>2. \A x : InGroups(x, gs) => InSeq(x, logs)
        BY <3>1 DEF Covers, InSeq, InGroups
      <4> QED BY <4>1, <4>2
    <3>3. InSeq(logs[1], logs)
      BY <1>1, <2>2, EmptySeq DEF InSeq
    <3>4. gs # << >>
      BY <3>2, <3>3, NothingHeld
    <3> QED BY <2>2, <3>2, <3>4
  <2> QED BY <2>1, <2>2
<1>3. /\ groups' = [groups EXCEPT ![r] = gs]
      /\ loop' = [loop EXCEPT ![r] = IF logs = << >> THEN "head" ELSE "insert"]
      /\ logs' = << >>
  OBVIOUS
<1> HIDE DEF gs
<1>4. gs \in Seq(Seq(Records))
  BY <1>2 DEF Grouped
<1>5. Saver!TypeOK'
  <2>1. groups' \in [Records -> Seq(Seq(Records))]
    BY <1>1, <1>3, <1>4
  <2>2. loop' \in [Records -> {"none", "start", "set", "head", "wait", "insert"}]
    BY <1>1, <1>3
  <2>3. tick' \in [Records -> BOOLEAN]
    BY <1>1
  <2>4. logs' \in Seq(Records)
    BY <1>3
  <2> QED BY <2>1, <2>2, <2>3, <2>4 DEF SaverInv, Saver!TypeOK
<1>6. \A s \in Records : IF s = r THEN groups'[s] = gs ELSE groups'[s] = groups[s]
  BY <1>1, <1>3
<1>7. GroupsInv'
  <2>1. \A s \in Records : Grouped(groups'[s])
    BY <1>2, <1>6 DEF SaverInv, GroupsInv
  <2>2. \A s \in Records : loop'[s] = "insert" <=> groups'[s] # << >>
    BY <1>1, <1>2, <1>3, <1>6 DEF SaverInv, GroupsInv
  <2>3. \A s \in Records : push'[s] # "done" => loop'[s] = "none"
    BY <1>1, <1>3 DEF SaverInv, GroupsInv
  <2> QED BY <2>1, <2>2, <2>3 DEF GroupsInv
<1>8. \A x : \A s \in Records :
          Held(x, s)' <=> IF s = r THEN InSeq(x, logs) ELSE Held(x, s)
  BY <1>2, <1>6 DEF Held
<1>9. \A x : ~InSeq(x, logs)' /\ (InSeq(x, db)' <=> InSeq(x, db))
  BY <1>3, NothingHeld DEF InSeq
<1>10. Distinct(logs)' /\ Distinct(db)' /\ failed' = failed /\ push' = push
  BY <1>3, NothingHeld DEF SaverInv, PlacesInv, Distinct
<1>11. \A x : ~Held(x, r)
  BY <1>1, NothingHeld DEF Held
<1>12. PlacesInv'
  BY <1>8, <1>9, <1>10, <1>11 DEF SaverInv, PlacesInv
<1> QED BY <1>5, <1>7, <1>12 DEF SaverInv

\* The rows of a group up to the n-th, and the others.
LEMMA Parted ==
    ASSUME NEW g \in Seq(Records), Distinct(g), NEW n \in 0 .. Len(g),
           NEW rest, rest = {g[i] : i \in n + 1 .. Len(g)}
    PROVE  /\ SubSeq(g, 1, n) \in Seq(Records) /\ Distinct(SubSeq(g, 1, n))
           /\ \A x : InSeq(x, g) <=> InSeq(x, SubSeq(g, 1, n)) \/ x \in rest
           /\ \A x : ~(InSeq(x, SubSeq(g, 1, n)) /\ x \in rest)
<1> DEFINE u == SubSeq(g, 1, n)
           m == Len(g)
<1>1. /\ u \in Seq(Records) /\ Len(u) = n /\ m \in Nat /\ n \in Nat /\ n <= m
      /\ \A i \in 1 .. n : u[i] = g[i] /\ i \in 1 .. m
  <2>1. m \in Nat /\ n \in Nat /\ n <= m
    BY LenProperties
  <2>2. \A i \in 1 .. n : g[i] \in Records /\ i \in 1 .. m
    BY <2>1, ElementOfSeq
  <2>3. u = [i \in 1 .. n |-> g[i]]
    BY <2>1, SubSeqProperties
  <2> HIDE DEF u
  <2> QED BY <2>1, <2>2, <2>3, FunctionSeq
<1> HIDE DEF u, m
<1>2. Distinct(u)
  BY <1>1 DEF Distinct, m
<1>3. \A i \in 1 .. m : i \in 1 .. n \/ i \in n + 1 .. m
  BY <1>1
<1>4. \A i \in n + 1 .. m : i \in 1 .. m /\ i \notin 1 .. n
  BY <1>1
<1>5. \A x : InSeq(x, g) <=> InSeq(x, u) \/ x \in rest
  BY <1>1, <1>3, <1>4 DEF InSeq, m
<1>6. \A x : ~(InSeq(x, u) /\ x \in rest)
  BY <1>1, <1>4 DEF InSeq, Distinct, m
<1> QED BY <1>1, <1>2, <1>5, <1>6 DEF u

\* The rows of a group that are inserted go to the data base, the others to failed.
LEMMA InsertKeeps ==
    ASSUME SaverConstants, SaverInv, NEW r \in Records, Saver!Insert(r)
    PROVE  SaverInv'
<1> USE DEF Saver!Insert
<1> DEFINE g == Head(groups[r])
           u == Tail(groups[r])
<1>1. /\ groups \in [Records -> Seq(Seq(Records))] /\ db \in Seq(Records)
      /\ loop \in [Records -> {"none", "start", "set", "head", "wait", "insert"}]
      /\ failed \subseteq Records /\ Distinct(db)
      /\ Grouped(groups[r]) /\ groups[r] # << >> /\ push[r] = "done"
  BY DEF SaverInv, PlacesInv, GroupsInv, Saver!TypeOK
<1>2. /\ g \in Seq(Records) /\ Distinct(g) /\ Grouped(u) /\ (Len(groups[r]) = 1 <=> u = << >>)
      /\ \A x : Held(x, r) <=> InSeq(x, g) \/ InGroups(x, u)
      /\ \A x : ~(InSeq(x, g) /\ InGroups(x, u))
  BY <1>1, FirstGroup DEF Held
<1>3. \A x : InSeq(x, g) => x \in Records /\ ~InSeq(x, db) /\ x \notin failed
  <2>1. \A x : InSeq(x, g) => x \in Records
    BY <1>2, ElementOfSeq DEF InSeq
  <2> QED BY <1>2, <2>1 DEF SaverInv, PlacesInv
<1>4. /\ groups' = [groups EXCEPT ![r] = u]
      /\ loop' = [loop EXCEPT ![r] = IF Len(groups[r]) = 1 THEN "head" ELSE "insert"]
      /\ UNCHANGED <<push, logs, t, tick, waits>>
  OBVIOUS
<1>5. PICK n \in 0 .. Len(g) :
          /\ db' = db \o SubSeq(g, 1, n)
          /\ failed' = failed \cup {g[i] : i \in n + 1 .. Len(g)}
  OBVIOUS
<1> DEFINE p == SubSeq(g, 1, n)
           rest == {g[i] : i \in n + 1 .. Len(g)}
<1> HIDE DEF g, u, Saver!Insert
<1>6. /\ db' \in Seq(Records) /\ Distinct(db')
      /\ \A x : InSeq(x, db') <=> InSeq(x, db) \/ InSeq(x, p)
      /\ \A x : x \in failed' <=> x \in failed \/ x \in rest
      /\ \A x : InSeq(x, g) <=> InSeq(x, p) \/ x \in rest
      /\ \A x : ~(InSeq(x, p) /\ x \in rest)
  <2>1. /\ p \in Seq(Records) /\ Distinct(p)
        /\ \A x : InSeq(x, g) <=> InSeq(x, p) \/ x \in rest
        /\ \A x : ~(InSeq(x, p) /\ x \in rest)
    BY <1>2, Parted
  <2>2. db' = db \o p /\ failed' = failed \cup rest
    BY <1>5
  <2> HIDE DEF p, rest
  <2>3. /\ db \o p \in Seq(Records) /\ Distinct(db \o p)
        /\ \A x : InSeq(x, db \o p) <=> InSeq(x, db) \/ InSeq(x, p)
    BY <1>1, <1>3, <2>1, SeqJoined
  <2> QED BY <2>1, <2>2, <2>3
<1> HIDE DEF p, rest
<1>7. Saver!TypeOK'
  <2>1. groups' \in [Records -> Seq(Seq(Records))]
    BY <1>1, <1>2, <1>4 DEF Grouped
  <2>2. loop' \in [Records -> {"none", "start", "set", "head", "wait", "insert"}]
    BY <1>1, <1>4
  <2>3. db' \in Seq(Records) /\ failed' \subseteq Records
    BY <1>1, <1>3, <1>6
  <2> QED BY <1>4, <2>1, <2>2, <2>3 DEF SaverInv, Saver!TypeOK
<1>8. \A s \in Records : IF s = r THEN groups'[s] = u ELSE groups'[s] = groups[s]
  BY <1>1, <1>4
<1>9. GroupsInv'
  <2>1. \A s \in Records : Grouped(groups'[s])
    BY <1>2, <1>8 DEF SaverInv, GroupsInv
  <2>2. \A s \in Records : loop'[s] = "insert" <=> groups'[s] # << >>
    BY <1>1, <1>2, <1>4, <1>8 DEF SaverInv, GroupsInv
  <2>3. \A s \in Records : push'[s] # "done" => loop'[s] = "none"
    BY <1>1, <1>4 DEF SaverInv, GroupsInv
  <2> QED BY <2>1, <2>2, <2>3 DEF GroupsInv
<1>10. \A x : \A s \in Records :
           Held(x, s)' <=> IF s = r THEN InGroups(x, u) ELSE Held(x, s)
  BY <1>8 DEF Held
<1>11. \A x : InSeq(x, logs)' <=> InSeq(x, logs)
  BY <1>4 DEF InSeq
<1>12. Distinct(logs)'
  BY <1>4 DEF SaverInv, PlacesInv, Distinct
<1>13. Distinct(db)' /\ \A x : InSeq(x, db)' <=> InSeq(x, db) \/ InSeq(x, p)
  BY <1>6
<1>14. PlacesInv'
  BY <1>2, <1>3, <1>4, <1>6, <1>10, <1>11, <1>12, <1>13 DEF SaverInv, PlacesInv
<1> QED BY <1>7, <1>9, <1>14 DEF SaverInv

\* SaverInv is inductive: the other steps move goroutines only.
LEMMA SaverStep ==
    ASSUME SaverConstants, SaverInv, Saver!Next \/ UNCHANGED saverVars
    PROVE  SaverInv'
<1> DEFINE Quiet == UNCHANGED <<logs, groups, db, failed>>
<1>1. /\ push \in [Records -> {"idle", "test", "done"}] /\ t \in Records \cup {NoRecord}
      /\ tick \in [Records -> BOOLEAN] /\ waits \in [Records -> Records \cup {NoRecord}]
      /\ loop \in [Records -> {"none", "start", "set", "head", "wait", "insert"}]
      /\ logs \in Seq(Records) /\ db \in Seq(Records) /\ failed \subseteq Records
      /\ groups \in [Records -> Seq(Seq(Records))]
      /\ \A r \in Records : push[r] # "done" => loop[r] = "none"
  BY DEF SaverInv, GroupsInv, Saver!TypeOK
<1>2. ASSUME Quiet,
             push' \in [Records -> {"idle", "test", "done"}],
             tick' \in [Records -> BOOLEAN],
             waits' \in [Records -> Records \cup {NoRecord}],
             loop' \in [Records -> {"none", "start", "set", "head", "wait", "insert"}],
             t' \in Records \cup {NoRecord},
             \A r \in Records : push'[r] = "idle" <=> push[r] = "idle",
             \A r \in Records : loop'[r] = "insert" <=> loop[r] = "insert",
             \A r \in Records : push'[r] # "done" => loop'[r] = "none"
      PROVE  SaverInv'
  <2>1. Saver!TypeOK'
    BY <1>1, <1>2 DEF Saver!TypeOK
  <2> QED BY <1>2, <2>1, PlacesStay DEF SaverInv
<1>3. CASE UNCHANGED saverVars
  BY <1>1, <1>2, <1>3 DEF saverVars
<1>4. ASSUME NEW r \in Records, Saver!PushTest(r) PROVE SaverInv'
  BY <1>1, <1>2, <1>4 DEF Saver!PushTest
<1>5. ASSUME NEW r \in Records, Saver!LoopStart(r) PROVE SaverInv'
  BY <1>1, <1>2, <1>5 DEF Saver!LoopStart
<1>6. ASSUME NEW r \in Records, Saver!LoopSet(r) PROVE SaverInv'
  BY <1>1, <1>2, <1>6 DEF Saver!LoopSet
<1>7. ASSUME NEW r \in Records, Saver!LoopHead(r) PROVE SaverInv'
  BY <1>1, <1>2, <1>7 DEF Saver!LoopHead
<1>8. ASSUME NEW r \in Records, Saver!Tick(r) PROVE SaverInv'
  BY <1>1, <1>2, <1>8 DEF Saver!Tick
<1> QED
  BY <1>3, <1>4, <1>5, <1>6, <1>7, <1>8, PushKeeps, PersistKeeps, InsertKeeps
     DEF Saver!Next, Saver!Loop

\* AsyncRecordSaver's Cardinality is the library's.
LEMMA SaverCardinality == \A S : Saver!Cardinality(S) = Cardinality(S)
  BY DEF Saver!Cardinality, Cardinality

\* How often a list without repetitions holds x.
LEMMA CountOne ==
    ASSUME NEW x, NEW s \in Seq(Records), Distinct(s)
    PROVE  Saver!Count(x, s) = IF InSeq(x, s) THEN 1 ELSE 0
<1> DEFINE I == {i \in 1 .. Len(s) : s[i] = x}
<1>1. Saver!Count(x, s) = Cardinality(I)
  BY SaverCardinality DEF Saver!Count
<1>2. CASE InSeq(x, s)
  <2>1. PICK i \in 1 .. Len(s) : s[i] = x
    BY <1>2 DEF InSeq
  <2>2. I = {i}
    BY <2>1 DEF Distinct
  <2>3. Cardinality({i}) = 1
    BY FS_Singleton
  <2> HIDE DEF I
  <2> QED BY <1>1, <1>2, <2>2, <2>3
<1>3. CASE ~InSeq(x, s)
  <2>1. I = {}
    BY <1>3 DEF InSeq
  <2>2. Cardinality({}) = 0
    BY FS_EmptySet
  <2> HIDE DEF I
  <2> QED BY <1>1, <1>3, <2>1, <2>2
<1> QED BY <1>2, <1>3

\* How often the groups of a loop hold x.
LEMMA HeldOnce ==
    ASSUME SaverConstants, SaverInv, NEW x \in Records, NEW r \in Records
    PROVE  Saver!InHand(x, r) = IF Held(x, r) THEN 1 ELSE 0
<1> DEFINE gs == groups[r]
           I  == {e \in (1 .. Len(gs)) \X (1 .. GroupSize) :
                      e[2] <= Len(gs[e[1]]) /\ gs[e[1]][e[2]] = x}
<1>1. Saver!InHand(x, r) = Cardinality(I)
  BY SaverCardinality DEF Saver!InHand
<1>2. Grouped(gs)
  BY DEF SaverInv, GroupsInv
<1> HIDE DEF gs
<1>3. \A a \in 1 .. Len(gs) : Len(gs[a]) \in Nat /\ Len(gs[a]) <= GroupSize
  BY <1>2, ElementOfSeq, LenProperties DEF Grouped
<1>4. ASSUME NEW a \in 1 .. Len(gs), NEW b \in 1 .. Len(gs[a]) PROVE b \in 1 .. GroupSize
  BY <1>3 DEF SaverConstants
<1>5. ASSUME NEW p \in I PROVE /\ p[1] \in 1 .. Len(gs) /\ p[2] \in 1 .. Len(gs[p[1]])
                               /\ gs[p[1]][p[2]] = x /\ p = <<p[1], p[2]>>
  BY <1>3
<1>6. CASE Held(x, r)
  <2>1. PICK a \in 1 .. Len(gs) : \E b \in 1 .. Len(gs[a]) : gs[a][b] = x
    BY <1>6 DEF Held, InGroups, gs
  <2>2. PICK b \in 1 .. Len(gs[a]) : gs[a][b] = x
    BY <2>1
  <2>3. <<a, b>> \in I
    BY <1>3, <1>4, <2>2
  <2>4. ASSUME NEW p \in I PROVE p = <<a, b>>
    <3>1. /\ p[1] \in 1 .. Len(gs) /\ p[2] \in 1 .. Len(gs[p[1]])
          /\ gs[p[1]][p[2]] = gs[a][b] /\ p = <<p[1], p[2]>>
      BY <1>5, <2>2
    <3>2. p[1] = a /\ p[2] = b
      BY <1>2, <3>1 DEF Grouped
    <3> QED BY <3>1, <3>2
  <2> HIDE DEF I
  <2>5. I = {<<a, b>>}
    BY <2>3, <2>4
  <2>6. Cardinality({<<a, b>>}) = 1
    BY FS_Singleton
  <2> QED BY <1>1, <1>6, <2>5, <2>6
<1>7. CASE ~Held(x, r)
  <2>1. ~ \E a \in 1 .. Len(gs) : \E b \in 1 .. Len(gs[a]) : gs[a][b] = x
    BY <1>7 DEF Held, InGroups, gs
  <2> HIDE DEF I
  <2>2. I = {}
    BY <1>5, <2>1
  <2>3. Cardinality({}) = 0
    BY FS_EmptySet
  <2> QED BY <1>1, <1>7, <2>2, <2>3
<1> QED BY <1>6, <1>7

\* SaverInv implies the property.
LEMMA SaverPlaces == ASSUME SaverConstants, SaverInv PROVE Saver!InOnePlace
<1> SUFFICES ASSUME NEW x \in Records, push[x] # "idle"
             PROVE  LET held == {r \in Records : Saver!InHand(x, r) > 0}
                    IN /\ \A r \in held : Saver!InHand(x, r) = 1
                       /\ Saver!Count(x, logs) + Saver!Cardinality(held) + Saver!Count(x, db)
                              + Saver!Cardinality(failed \cap {x}) = 1
  BY DEF Saver!InOnePlace
<1> DEFINE held == {r \in Records : Saver!InHand(x, r) > 0}
<1>1. \A r \in Records : Saver!InHand(x, r) = IF Held(x, r) THEN 1 ELSE 0
  BY HeldOnce
<1>2. held = {r \in Records : Held(x, r)} /\ \A r \in held : Saver!InHand(x, r) = 1
  BY <1>1
<1>3. /\ Saver!Count(x, logs) = IF InSeq(x, logs) THEN 1 ELSE 0
      /\ Saver!Count(x, db) = IF InSeq(x, db) THEN 1 ELSE 0
  BY CountOne DEF SaverInv, PlacesInv, Saver!TypeOK
<1>4. Cardinality(failed \cap {x}) = IF x \in failed THEN 1 ELSE 0
  <2>1. failed \cap {x} = IF x \in failed THEN {x} ELSE {}
    OBVIOUS
  <2> QED BY <2>1, FS_Singleton, FS_EmptySet
<1>5. Cardinality(held) = IF \E r \in Records : Held(x, r) THEN 1 ELSE 0
  <2>1. CASE \E r \in Records : Held(x, r)
    <3>1. PICK r \in Records : Held(x, r)
      BY <2>1
    <3>2. held = {r}
      BY <1>2, <3>1 DEF SaverInv, PlacesInv
    <3> HIDE DEF held
    <3> QED BY <2>1, <3>2, FS_Singleton
  <2>2. CASE ~ \E r \in Records : Held(x, r)
    <3>1. held = {}
      BY <1>2, <2>2
    <3> HIDE DEF held
    <3> QED BY <2>2, <3>1, FS_EmptySet
  <2> QED BY <2>1, <2>2
<1>6. /\ ~(InSeq(x, logs) /\ InSeq(x, db))
      /\ x \in failed => ~InSeq(x, logs) /\ ~InSeq(x, db)
      /\ (\E r \in Records : Held(x, r)) => ~InSeq(x, logs) /\ ~InSeq(x, db) /\ x \notin failed
      /\ InSeq(x, logs) \/ InSeq(x, db) \/ x \in failed \/ \E r \in Records : Held(x, r)
  BY DEF SaverInv, PlacesInv
<1>7. Saver!Cardinality(held) = Cardinality(held)
      /\ Saver!Cardinality(failed \cap {x}) = Cardinality(failed \cap {x})
  BY SaverCardinality
<1> HIDE DEF held
<1>8. Saver!Count(x, logs) + Saver!Cardinality(held) + Saver!Count(x, db)
          + Saver!Cardinality(failed \cap {x}) = 1
  BY <1>3, <1>4, <1>5, <1>6, <1>7
<1> QED BY <1>2, <1>8 DEF held

\* asyncrecordsaver.go: however many loops one ticker has, a record that was
\* pushed is listed, in the hands of one loop, inserted or failed, and once only.
THEOREM RecordsInOnePlace == ASSUME SaverConstants PROVE SafetySpec => []InOnePlace
<1>1. AllInit => SaverInv
  BY SaverInit DEF AllInit
<1>2. SaverInv /\ [AllNext]_allVars => SaverInv'
  BY PartSteps, SaverStep
<1>3. SaverInv => InOnePlace
  BY SaverPlaces DEF InOnePlace
<1> QED BY <1>1, <1>2, <1>3, PTL DEF SafetySpec

-----------------------------------------------------------------------------
(* The types of all the parts *)

\* A connector moves from one of its places to another.
ConnectorPlaces == {"none", "dialing", "connected", "take", "subscribe", "ready", "idle"}
LEMMA GoesTyped ==
    ASSUME RpcInstance!TypeOK, NEW i \in Askers, NEW k \in RpcInstance!Connectors,
           NEW to \in ConnectorPlaces, connector' = [connector EXCEPT ![i][k] = to]
    PROVE  connector' \in [Askers -> [RpcInstance!Connectors -> ConnectorPlaces]]
<1> QED BY DEF RpcInstance!TypeOK, ConnectorPlaces

\* The types of PulsarRPCInstance, one conjunct per step of a goroutine.
LEMMA InstanceTypes ==
    /\ RpcInstance!Init => RpcInstance!TypeOK
    /\ RpcInstance!TypeOK /\ (RpcInstance!Next \/ UNCHANGED instanceVars)
           => RpcInstance!TypeOK'
<1> USE DEF RpcInstance!TypeOK, RpcInstance!instanceVars, RpcInstance!askerVars,
            RpcInstance!clientVars, RpcInstance!consumerVars
<1>1. RpcInstance!Init => RpcInstance!TypeOK
  BY DEF RpcInstance!Init
<1>2. ASSUME RpcInstance!TypeOK, NEW a \in Askers, RpcInstance!Asking(a)
      PROVE  RpcInstance!TypeOK'
  <2>1. CASE RpcInstance!LookUp(a)
    <3>1. used' \in [Askers -> Askers \cup {NoInstance}]
      BY <1>2, <2>1 DEF RpcInstance!LookUp
    <3>2. publishes' \in [Askers -> {"idle", "init", "consume", "append", "subscribe", "blocked",
                                    "register", "wait", "publish", "published", "failed"}]
      BY <1>2, <2>1 DEF RpcInstance!LookUp
    <3> QED BY <1>2, <2>1, <3>1, <3>2 DEF RpcInstance!LookUp
  <2>2. CASE RpcInstance!InitInstance(a)
    <3>1. "first" \in RpcInstance!Connectors /\ "dialing" \in ConnectorPlaces
      BY DEF RpcInstance!Connectors, ConnectorPlaces
    <3>2. connector' \in [Askers -> [RpcInstance!Connectors -> ConnectorPlaces]]
      BY <1>2, <2>2, <3>1, GoesTyped DEF RpcInstance!InitInstance, ConnectorPlaces
    <3> QED BY <1>2, <2>2, <3>2 DEF RpcInstance!InitInstance, ConnectorPlaces
  <2>3. CASE RpcInstance!TestClient(a)
    BY <1>2, <2>3 DEF RpcInstance!TestClient
  <2>4. CASE RpcInstance!AppendPending(a)
    BY <1>2, <2>4 DEF RpcInstance!AppendPending
  <2>5. CASE RpcInstance!SubscribeItself(a)
    BY <1>2, <2>5 DEF RpcInstance!SubscribeItself, RpcInstance!Subscribe
  <2>6. CASE RpcInstance!Register(a)
    BY <1>2, <2>6 DEF RpcInstance!Register
  <2>7. CASE RpcInstance!ReceiveReady(a)
    <3>1. PICK k \in RpcInstance!Connectors :
              /\ connector' = [connector EXCEPT ![a][k] = "idle"]
              /\ reading' = [reading EXCEPT ![a] = subscription[a] = k]
      BY <2>7 DEF RpcInstance!ReceiveReady
    <3>2. connector' \in [Askers -> [RpcInstance!Connectors -> ConnectorPlaces]]
      BY <1>2, <3>1, GoesTyped DEF ConnectorPlaces
    <3>3. reading' \in [Askers -> BOOLEAN]
      BY <1>2, <3>1
    <3> QED BY <1>2, <2>7, <3>2, <3>3 DEF RpcInstance!ReceiveReady, ConnectorPlaces
  <2>8. CASE RpcInstance!GiveUp(a)
    BY <1>2, <2>8 DEF RpcInstance!GiveUp
  <2>9. CASE RpcInstance!Publish(a)
    BY <1>2, <2>9 DEF RpcInstance!Publish
  <2> QED
    BY <1>2, <2>1, <2>2, <2>3, <2>4, <2>5, <2>6, <2>7, <2>8, <2>9 DEF RpcInstance!Asking
<1>3. ASSUME RpcInstance!TypeOK, NEW i \in Askers, NEW k \in RpcInstance!Connectors,
             RpcInstance!Connector(i, k)
      PROVE  RpcInstance!TypeOK'
  <2>1. CASE RpcInstance!Connect(i, k)
    <3>1. connector' \in [Askers -> [RpcInstance!Connectors -> ConnectorPlaces]]
      BY <1>3, <2>1, GoesTyped DEF RpcInstance!Connect, RpcInstance!Goes, ConnectorPlaces
    <3>2. again' \in [Askers -> [RpcInstance!Connectors -> BOOLEAN]]
      BY <1>3, <2>1 DEF RpcInstance!Connect
    <3> QED BY <1>3, <2>1, <3>1, <3>2 DEF RpcInstance!Connect, ConnectorPlaces
  <2>2. CASE RpcInstance!SetClient(i, k)
    BY <1>3, <2>2, GoesTyped DEF ConnectorPlaces, RpcInstance!SetClient, RpcInstance!Goes
  <2>3. CASE RpcInstance!TakePending(i, k)
    BY <1>3, <2>3, GoesTyped DEF ConnectorPlaces, RpcInstance!TakePending, RpcInstance!Goes
  <2>4. CASE RpcInstance!ConnectAgain(i, k)
    BY <1>3, <2>4, GoesTyped DEF ConnectorPlaces, RpcInstance!ConnectAgain, RpcInstance!Goes
  <2>5. CASE RpcInstance!EnsureConsumer(i, k)
    <3>1. connector' \in [Askers -> [RpcInstance!Connectors -> ConnectorPlaces]]
      BY <1>3, <2>5, GoesTyped DEF RpcInstance!EnsureConsumer, RpcInstance!Goes, ConnectorPlaces
    <3>2. /\ subscription' \in [Askers -> RpcInstance!Connectors \cup {"none", "itself"}]
          /\ refused' \subseteq Askers
      BY <1>3, <2>5 DEF RpcInstance!EnsureConsumer, RpcInstance!Subscribe
    <3> QED BY <1>3, <2>5, <3>1, <3>2 DEF RpcInstance!EnsureConsumer, ConnectorPlaces
  <2> QED BY <1>3, <2>1, <2>2, <2>3, <2>4, <2>5 DEF RpcInstance!Connector
<1>5. ASSUME RpcInstance!TypeOK, NEW i \in Askers, RpcInstance!Running(i)
      PROVE  RpcInstance!TypeOK'
  <2>1. CASE RpcInstance!RunHead(i)
    BY <1>5, <2>1 DEF RpcInstance!RunHead
  <2>2. CASE RpcInstance!RunTakesDown(i)
    BY <1>5, <2>2 DEF RpcInstance!RunTakesDown
  <2>3. CASE RpcInstance!RunInit(i)
    <3>1. "second" \in RpcInstance!Connectors /\ "dialing" \in ConnectorPlaces
      BY DEF RpcInstance!Connectors, ConnectorPlaces
    <3>2. connector' \in [Askers -> [RpcInstance!Connectors -> ConnectorPlaces]]
      BY <1>5, <2>3, <3>1, GoesTyped DEF RpcInstance!RunInit, ConnectorPlaces
    <3> QED BY <1>5, <2>3, <3>2 DEF RpcInstance!RunInit, ConnectorPlaces
  <2> QED BY <1>5, <2>1, <2>2, <2>3 DEF RpcInstance!Running
<1>4. ASSUME RpcInstance!TypeOK, UNCHANGED instanceVars PROVE RpcInstance!TypeOK'
  BY <1>4 DEF instanceVars
<1> QED BY <1>1, <1>2, <1>3, <1>4, <1>5 DEF RpcInstance!Next

\* The type invariants of the two instances of a component are the same.
LEMMA TypesSame ==
    /\ RabbitP!AnswerInv => Rabbit!TypeOK
    /\ PublishersP!TypeOK => Publishers!TypeOK
    /\ PulsarP!TypeOK => Pulsar!TypeOK
    /\ MockP!ShapeInv => Mock!TypeOK
<1>1. RabbitP!AnswerInv => Rabbit!TypeOK
  BY DEF RabbitP!AnswerInv, RabbitP!TypeOK, Rabbit!TypeOK, RabbitP!Instances,
         Rabbit!Instances
<1>2. PublishersP!TypeOK => Publishers!TypeOK
  BY DEF PublishersP!TypeOK, Publishers!TypeOK, PublishersP!Msgs, Publishers!Msgs,
         PublishersP!Frames, Publishers!Frames, PublishersP!Goroutines,
         Publishers!Goroutines
<1>3. PulsarP!TypeOK => Pulsar!TypeOK
  BY DEF PulsarP!TypeOK, Pulsar!TypeOK
<1>4. MockP!ShapeInv => Mock!TypeOK
  BY DEF MockP!ShapeInv, MockP!TypeOK, Mock!TypeOK, MockP!Places, Mock!Places
<1> QED BY <1>1, <1>2, <1>3, <1>4

\* The type invariants hold of the parts together: the ranges of KafkaConsumer, as
\* many channels as KafkaRPC has callers, and what the components' modules prove.
THEOREM AllTyped ==
    ASSUME Constants, HealthConstants, SaverConstants,
           KafkaConstants, IsFiniteSet(KafkaQueries), NoAnswer \notin Calls,
           NoMsg \notin Queued \cup Responses, PublisherFaults \in Nat
    PROVE  SafetySpec => []TypesOK
<1> DEFINE Answers == RabbitP!AnswerInv
           Keeps   == PublishersP!Inv
           Pulsars == PulsarP!TypeOK /\ PulsarP!IdInv
           Mocks   == MockP!ShapeInv /\ MockP!IdInv /\ MockP!AnswersMatchId
           Others  == RangesInv /\ KafkaTyped /\ HealthInv /\ SaverInv /\ RpcInstance!TypeOK
<1>1. /\ RabbitP!Constants /\ PublishersP!Constants
      /\ PulsarP!Constants /\ MockP!Constants
  BY DEF RabbitP!Constants, PublishersP!Constants, PublishersP!Msgs, PulsarP!Constants,
         MockP!Constants
<1>2. AllInit => RabbitP!Init /\ PublishersP!Init /\ PulsarP!Init /\ MockP!Init
  BY RabbitSame, PublishersSame, PulsarSame, MockSame DEF AllInit
<1>3. [AllNext]_allVars => /\ [RabbitP!Next]_(RabbitP!vars)
                           /\ [PublishersP!Next]_(PublishersP!vars)
                           /\ [PulsarP!Next]_(PulsarP!vars)
                           /\ [MockP!Next]_(MockP!vars)
  BY PartSteps, RabbitSame, PublishersSame, PulsarSame, MockSame
<1>4. AllInit => Others
  BY InitTypes, KafkaTypedInit, HealthInductive, SaverInit, InstanceTypes DEF AllInit
<1>5. Others /\ [AllNext]_allVars => Others'
  <2> SUFFICES ASSUME Others, [AllNext]_allVars PROVE Others'
    OBVIOUS
  <2>1. RangesInv' /\ HealthInv' /\ SaverInv' /\ RpcInstance!TypeOK'
    BY PartSteps, StepTypes, HealthInductive, SaverStep, InstanceTypes
  <2>2. KafkaTyped'
    BY PartSteps, KafkaTypesStep, KafkaMadeStep, KafkaCountsStep, KafkaFlagsStep
       DEF KafkaTyped
  <2> QED BY <2>1, <2>2
<1>6. Others => /\ TypeOK /\ Kafka!TypeOK /\ Health!TypeOK /\ Saver!TypeOK
                /\ RpcInstance!TypeOK
  BY KafkaTypeOK, HealthTypeOK DEF RangesInv, HealthInv, SaverInv
<1>7. Answers /\ Keeps /\ Pulsars /\ Mocks /\ Others => TypesOK
  BY <1>6, TypesSame, PublishersP!InvInductive DEF TypesOK
<1> HIDE DEF Answers, Keeps, Pulsars, Mocks, Others
<1>8. /\ AllInit => Answers /\ Keeps /\ Pulsars /\ Mocks
      /\ Answers /\ [AllNext]_allVars => Answers'
      /\ Keeps /\ [AllNext]_allVars => Keeps'
      /\ Pulsars /\ [AllNext]_allVars => Pulsars'
      /\ Mocks /\ [AllNext]_allVars => Mocks'
  BY <1>1, <1>2, <1>3, RabbitP!AnswerInvInductive, PublishersP!InvInductive,
     PulsarP!MatchInductive, MockP!MatchInductive DEF Answers, Keeps, Pulsars, Mocks
<1> QED BY <1>4, <1>5, <1>7, <1>8, PTL DEF SafetySpec

=============================================================================
