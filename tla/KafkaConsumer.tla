---------------------------- MODULE KafkaConsumer ---------------------------
(***************************************************************************)
(* mq/kafka.Consumer: the goroutine Receive starts for one topic.  It      *)
(* loops: test c.running, make a context and keep its cancel function,     *)
(* ReadMessage, compare the offset with c.OffsetDict[topic], callback.     *)
(*                                                                         *)
(* The kafka-go reader and the broker are external: the group assigns      *)
(* partitions and takes them away, what was read is committed a second at  *)
(* a time, the process may be restarted.  A partition holds MaxMsgs        *)
(* messages, of which the reader gets as many as it comes to.              *)
(* A message is its partition and its offset; ZeroMessage is the value     *)
(* ReadMessage returns together with an error.                             *)
(***************************************************************************)
EXTENDS Integers, Sequences, FiniteSets

CONSTANTS Partitions,       \* the partitions of the topic
          NoPartition,      \* the partition of the zero message
          MaxMsgs,          \* bound: messages in a partition
          MaxFaults         \* bound: failing ReadMessage calls, changes of the
                            \* assignment and restarts of the process

VARIABLES
    at,             \* where the goroutine is: at the loop "test", at "ctx", in
                    \* "read", in the "callback", or "closed"
    running,        \* c.running[topic]
    cancel,         \* the context of c.cancels[topic]: "none", "live", "cancelled"
    OffsetDict,     \* c.OffsetDict[topic]
    cur,            \* the message the callback is called with
    stop,           \* StopConsumer: "no", "running" (flag cleared) or "returned"
    crashed,        \* a nil function was called
    pos,            \* pos[p]: the next offset the reader fetches from p
    committed,      \* committed[p]: the group's offset of p
    assigned,       \* the partitions the group has given to this reader
    accepted,       \* messages that passed the offset test in this process
    skipped,        \* messages of this process that did not
    handled,        \* messages some process has returned from the callback of
    dropped,        \* messages a process that is gone had skipped
    afterStop,      \* callbacks begun since StopConsumer returned
    faults, restarts

loopVars  == <<at, running, cancel, OffsetDict, cur, accepted, skipped, afterStop>>
stopVars  == <<stop, crashed>>
groupVars == <<pos, committed, assigned>>
faultVars == <<faults, restarts>>
vars == <<loopVars, stopVars, groupVars, handled, dropped, faultVars>>

Message(p, o) == [part |-> p, off |-> o]
ZeroMessage   == Message(NoPartition, 0)
Messages      == [part : Partitions, off : 0 .. MaxMsgs - 1]

Init ==
    /\ at = "test" /\ running = TRUE /\ cancel = "none"
    /\ OffsetDict = -1 /\ cur = ZeroMessage
    /\ accepted = << >> /\ skipped = {} /\ afterStop = 0
    /\ stop = "no" /\ crashed = FALSE
    /\ pos = [p \in Partitions |-> 0]
    /\ committed = [p \in Partitions |-> 0]
    /\ assigned \in SUBSET Partitions
    /\ handled = {} /\ dropped = {}
    /\ faults = 0 /\ restarts = 0

Fault == faults < MaxFaults /\ faults' = faults + 1

-----------------------------------------------------------------------------
(* The goroutine of Receive *)

\* for c.running[topic]; without it reader.Close().
LoopTest ==
    /\ ~crashed /\ at = "test"
    /\ at' = IF running THEN "ctx" ELSE "closed"
    /\ UNCHANGED <<running, cancel, OffsetDict, cur, accepted, skipped, afterStop,
                   stopVars, groupVars, handled, dropped, faultVars>>

\* context.WithCancel, c.cancels[topic] = cancel.
NewContext ==
    /\ ~crashed /\ at = "ctx"
    /\ at' = "read" /\ cancel' = "live"
    /\ UNCHANGED <<running, OffsetDict, cur, accepted, skipped, afterStop,
                   stopVars, groupVars, handled, dropped, faultVars>>

\* Mutant: an offset that was handled is taken again.
OffsetTestRepeats(m) ==
    IF m.off >= OffsetDict
    THEN /\ OffsetDict' = m.off
         /\ accepted' = Append(accepted, m)
         /\ cur' = m /\ at' = "callback"
         /\ afterStop' = IF stop = "returned" THEN afterStop + 1 ELSE afterStop
         /\ UNCHANGED skipped
    ELSE /\ at' = "test"
         /\ skipped' = skipped \cup {m}
         /\ UNCHANGED <<OffsetDict, accepted, cur, afterStop>>

\* Mutant: the message of offset 0 is taken for one that was handled.
OffsetTestFromOne(m) ==
    IF m.off > OffsetDict /\ m.off > 0
    THEN /\ OffsetDict' = m.off
         /\ accepted' = Append(accepted, m)
         /\ cur' = m /\ at' = "callback"
         /\ afterStop' = IF stop = "returned" THEN afterStop + 1 ELSE afterStop
         /\ UNCHANGED skipped
    ELSE /\ at' = "test"
         /\ skipped' = skipped \cup {m}
         /\ UNCHANGED <<OffsetDict, accepted, cur, afterStop>>

\* Mutant: the callback is left to another goroutine, which has not run yet.
OffsetTestNoWait(m) ==
    IF m.off > OffsetDict
    THEN /\ OffsetDict' = m.off
         /\ accepted' = Append(accepted, m)
         /\ at' = "test"
         /\ UNCHANGED <<skipped, cur, afterStop>>
    ELSE /\ at' = "test"
         /\ skipped' = skipped \cup {m}
         /\ UNCHANGED <<OffsetDict, accepted, cur, afterStop>>

\* if m.Offset > c.OffsetDict[topic], one number for all partitions: the
\* message goes to the callback, or is skipped.
OffsetTest(m) ==
    IF m.off > OffsetDict
    THEN /\ OffsetDict' = m.off
         /\ accepted' = Append(accepted, m)
         /\ cur' = m /\ at' = "callback"
         /\ afterStop' = IF stop = "returned" THEN afterStop + 1 ELSE afterStop
         /\ UNCHANGED skipped
    ELSE /\ at' = "test"
         /\ skipped' = skipped \cup {m}
         /\ UNCHANGED <<OffsetDict, accepted, cur, afterStop>>

\* ReadMessage returns a message; it may do so under a cancelled context too.
ReadMessage(p) ==
    /\ ~crashed /\ at = "read"
    /\ p \in assigned /\ pos[p] < MaxMsgs
    /\ pos' = [pos EXCEPT ![p] = @ + 1]
    /\ OffsetTest(Message(p, pos[p]))
    /\ UNCHANGED <<running, cancel, stopVars, committed, assigned, handled, dropped,
                   faultVars>>

\* ReadMessage fails: the error is logged and the zero message goes on.
ReadFails ==
    /\ ~crashed /\ at = "read"
    /\ \/ cancel = "cancelled" /\ UNCHANGED faults
       \/ Fault
    /\ OffsetTest(ZeroMessage)
    /\ UNCHANGED <<running, cancel, stopVars, groupVars, handled, dropped,
                   restarts>>

\* callback(m.Value) returns, or panics and is recovered.
CallbackReturns ==
    /\ ~crashed /\ at = "callback" /\ at' = "test"
    /\ handled' = handled \cup {cur}
    /\ UNCHANGED <<running, cancel, OffsetDict, cur, accepted, skipped, afterStop,
                   stopVars, groupVars, dropped, faultVars>>

-----------------------------------------------------------------------------
(* StopConsumer, in another goroutine *)

StopClearsFlag ==
    /\ ~crashed /\ stop = "no"
    /\ stop' = "running" /\ running' = FALSE
    /\ UNCHANGED <<at, cancel, OffsetDict, cur, accepted, skipped, afterStop, crashed,
                   groupVars, handled, dropped, faultVars>>

\* Mutant: the loop's flag is set again.
StopCancelsOnly ==
    /\ ~crashed /\ stop = "running"
    /\ cancel # "none"
    /\ stop' = "returned" /\ cancel' = "cancelled" /\ running' = TRUE
    /\ UNCHANGED <<at, OffsetDict, cur, accepted, skipped, afterStop, crashed,
                   groupVars, handled, dropped, faultVars>>

\* cancel := c.cancels[k]; cancel(): the goroutine may not have made its first
\* context yet, and may make another one after this.
StopCancels ==
    /\ ~crashed /\ stop = "running"
    /\ IF cancel = "none"
       THEN crashed' = TRUE /\ UNCHANGED <<stop, cancel>>
       ELSE stop' = "returned" /\ cancel' = "cancelled" /\ UNCHANGED crashed
    /\ UNCHANGED <<at, running, OffsetDict, cur, accepted, skipped, afterStop,
                   groupVars, handled, dropped, faultVars>>

-----------------------------------------------------------------------------
(* kafka-go, the broker, the other members of the group (external) *)

\* CommitInterval: what ReadMessage returned is committed, called back or not.
Commit ==
    /\ committed' = [p \in Partitions |-> IF p \in assigned THEN pos[p] ELSE committed[p]]
    /\ UNCHANGED <<loopVars, stopVars, pos, assigned, handled, dropped, faultVars>>

\* Another member reads, handles and commits.
OtherMember(p) ==
    /\ p \notin assigned /\ committed[p] < MaxMsgs
    /\ committed' = [committed EXCEPT ![p] = @ + 1]
    /\ handled' = handled \cup {Message(p, committed[p])}
    /\ UNCHANGED <<loopVars, stopVars, pos, assigned, dropped, faultVars>>

\* A new generation of the group reads on from the committed offsets.
Rebalance ==
    /\ Fault /\ UNCHANGED restarts
    /\ assigned' \in SUBSET Partitions
    /\ pos' = committed
    /\ UNCHANGED <<loopVars, stopVars, committed, handled, dropped>>

\* The process ends anywhere and starts again: InitKafka, Subscribe.
Restart ==
    /\ Fault /\ restarts' = restarts + 1
    /\ at' = "test" /\ running' = TRUE /\ cancel' = "none"
    /\ OffsetDict' = -1 /\ cur' = ZeroMessage
    /\ accepted' = << >> /\ skipped' = {} /\ afterStop' = 0
    /\ stop' = "no" /\ crashed' = FALSE
    /\ pos' = committed
    /\ dropped' = dropped \cup skipped
    /\ UNCHANGED <<committed, assigned, handled>>

-----------------------------------------------------------------------------

Reader == LoopTest \/ NewContext \/ (\E p \in Partitions : ReadMessage(p)) \/ ReadFails
              \/ CallbackReturns

Next ==
    \/ Reader
    \/ StopClearsFlag \/ StopCancels
    \/ \E p \in Partitions : OtherMember(p)
    \/ Commit \/ Rebalance \/ Restart

Spec == Init /\ [][Next]_vars

-----------------------------------------------------------------------------

\* Type invariant.
TypeOK ==
    /\ at \in {"test", "ctx", "read", "callback", "closed"}
    /\ running \in BOOLEAN /\ crashed \in BOOLEAN
    /\ cancel \in {"none", "live", "cancelled"}
    /\ OffsetDict \in -1 .. MaxMsgs - 1
    /\ cur \in Messages \cup {ZeroMessage}
    /\ stop \in {"no", "running", "returned"}
    /\ pos \in [Partitions -> 0 .. MaxMsgs] /\ committed \in [Partitions -> 0 .. MaxMsgs]
    /\ assigned \subseteq Partitions
    /\ accepted \in Seq(Messages \cup {ZeroMessage})
    /\ skipped \subseteq Messages \cup {ZeroMessage}
    /\ handled \subseteq Messages \cup {ZeroMessage}
    /\ dropped \subseteq Messages \cup {ZeroMessage}
    /\ afterStop \in Nat
    /\ faults \in 0 .. MaxFaults /\ restarts \in 0 .. MaxFaults

\* What OffsetDict is for ("avoid handling a message again after a
\* reconnection"): one process never hands a message to the callback twice,
\* however often the group goes back to the committed offsets.
HandledOnceByProcess ==
    \A i, j \in 1 .. Len(accepted) : i < j => accepted[i].off < accepted[j].off

\* What OffsetDict costs: a message is skipped because it was taken before, or
\* because a message of another partition (or a failed read) with an offset at
\* least as large was.
SkippedForAReason ==
    \A m \in skipped \ {ZeroMessage} : \E i \in 1 .. Len(accepted) :
        /\ accepted[i].off >= m.off
        /\ accepted[i] = m \/ accepted[i].part # m.part

\* Committed messages that were neither handled nor skipped nor are at hand.
Lost == {m \in Messages : /\ m.off < committed[m.part]
                          /\ m \notin handled \cup skipped \cup dropped
                          /\ ~(at = "callback" /\ cur = m)}

\* The commit does not wait for the callback, so a restart loses a message, but
\* never more than the one that was in the callback.
OneLostPerRestart == Cardinality(Lost) <= restarts

\* StopConsumer cannot reach a goroutine between its test and its new context,
\* but such a goroutine makes one callback at most.
OneCallbackAfterStop == afterStop <= 1

=============================================================================
