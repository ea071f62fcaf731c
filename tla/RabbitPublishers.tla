-------------------------- MODULE RabbitPublishers --------------------------
(***************************************************************************)
(* mq/rabbitmq: two goroutines publish through one instance, Run and the   *)
(* delivery worker, which publishes what a consumer's callback returned.   *)
(* They share Conn, Channel, queueInfo and pendingPublishes without a      *)
(* lock.  RabbitMQ has all of Run; here its steps that write these four    *)
(* are taken apart, and so are publish, ensureQueue and ensurePendings,    *)
(* whichever goroutine calls them.                                         *)
(*                                                                         *)
(* A goroutine publishes in two frames: <<g, "own">> is its own message,   *)
(* <<g, "flush">> the one that ensurePendings publishes.  The order of the *)
(* pending messages is RabbitMQ's subject; the list is a set here.         *)
(***************************************************************************)
EXTENDS Integers

CONSTANTS Queued,       \* messages clients put on r.Publish
          Responses,    \* messages the callbacks return
          NoMsg,        \* no message
          MaxFaults     \* bound: drops, cancels and starved consumers

Msgs       == Queued \cup Responses
Goroutines == {"run", "worker"}
Frames     == Goroutines \X {"own", "flush"}

VARIABLES
    run,            \* where Run is: in "select", in "closing" after it cleared
                    \* queueInfo, at the "head" of its loop, "dialed", with a
                    \* new "channel", or in the "flush" of ensureQueue
    conn, channel,  \* "nil", "open" or "closed"
    named,          \* r.queueInfo.name # ""
    pending,        \* r.pendingPublishes
    msg, step,      \* msg[f], step[f]: the message frame f publishes, and where
    seen,           \* seen[f]: pendingPublishes as append has read it
    flushing,       \* flushing[g]: g in ensurePendings, "no", about to "read"
                    \* the list, about to "reset" it, then "publish"
    taken,          \* taken[g]: its copy of the list
    flush,          \* flush[g]: what it still has to publish
    accepted,       \* history: messages publish was called with
    out,            \* history: out[m], how often publish was through with m,
                    \* sent or failed
    raced,          \* history: messages that a write of the list, by a goroutine
                    \* that had read it earlier, took away or brought back
    crashed,        \* a method of a nil channel was called
    faults

linkVars  == <<run, conn, channel, named>>
frameVars == <<msg, step, seen>>
flushVars == <<flushing, taken, flush>>
histVars  == <<accepted, out, raced, crashed, faults>>
vars == <<linkVars, pending, frameVars, flushVars, histVars>>

Init ==
    /\ run = "select" /\ conn = "open" /\ channel = "open" /\ named = TRUE
    /\ pending = {}
    /\ msg = [f \in Frames |-> NoMsg] /\ step = [f \in Frames |-> "none"]
    /\ seen = [f \in Frames |-> {}]
    /\ flushing = [g \in Goroutines |-> "no"]
    /\ taken = [g \in Goroutines |-> {}] /\ flush = [g \in Goroutines |-> {}]
    /\ accepted = {} /\ out = [m \in Msgs |-> 0]
    /\ raced = {} /\ crashed = FALSE /\ faults = 0

\* close().
Close == conn' = "nil" /\ channel' = "nil"

-----------------------------------------------------------------------------
(* publish *)

Idle(g) == step[<<g, "own">>] = "none" /\ flushing[g] = "no"

\* publish is called with m in frame f: the test of r.Channel comes next.
Call(f, m) ==
    /\ msg' = [msg EXCEPT ![f] = m]
    /\ step' = [step EXCEPT ![f] = "test"]

\* publish returns.
Return(f) ==
    /\ msg' = [msg EXCEPT ![f] = NoMsg]
    /\ step' = [step EXCEPT ![f] = "none"]

Goto(f, s) == step' = [step EXCEPT ![f] = s] /\ UNCHANGED msg

\* case pm := <-r.Publish
RunReceives(m) ==
    /\ run = "select" /\ Idle("run") /\ m \in Queued \ accepted
    /\ accepted' = accepted \cup {m}
    /\ Call(<<"run", "own">>, m)
    /\ UNCHANGED <<linkVars, pending, seen, flushVars, out, raced, crashed, faults>>

\* A callback returned m.
WorkerResponds(m) ==
    /\ Idle("worker") /\ m \in Responses \ accepted
    /\ accepted' = accepted \cup {m}
    /\ Call(<<"worker", "own">>, m)
    /\ UNCHANGED <<linkVars, pending, seen, flushVars, out, raced, crashed, faults>>

TestChannel(f) ==
    /\ step[f] = "test"
    /\ Goto(f, IF channel = "nil" THEN "read" ELSE "check")
    /\ UNCHANGED <<linkVars, pending, seen, flushVars, histVars>>

\* r.pendingPublishes = append(r.pendingPublishes, pm): the read ...
ReadPending(f) ==
    /\ step[f] = "read"
    /\ seen' = [seen EXCEPT ![f] = pending]
    /\ Goto(f, "write")
    /\ UNCHANGED <<linkVars, pending, flushVars, histVars>>

\* What the other goroutine has put on the list or taken off it since it was read.
Changed(read) == (pending \ read) \cup (read \ pending)

\* ... and the write.
WritePending(f) ==
    /\ step[f] = "write"
    /\ pending' = seen[f] \cup {msg[f]}
    /\ raced' = raced \cup Changed(seen[f])
    /\ seen' = [seen EXCEPT ![f] = {}]
    /\ Return(f)
    /\ UNCHANGED <<linkVars, flushVars, accepted, out, crashed, faults>>

\* queueInfo.NotInitialized()
CheckQueue(f) ==
    /\ step[f] = "check"
    /\ Goto(f, IF named THEN "use" ELSE "declare")
    /\ UNCHANGED <<linkVars, pending, seen, flushVars, histVars>>

(***************************************************************************)
(* ensureQueue in publish.  Without a connection, or when declaring on a   *)
(* closed channel fails, publish returns the error; a closed channel also  *)
(* makes this goroutine close the connection.  Else ensurePendings comes   *)
(* before the message, and a flush that gets here flushes once more.       *)
(***************************************************************************)
EnsureQueue(g, k) ==
    LET f == <<g, k>>
    IN /\ step[f] = "declare"
       /\ \/ /\ conn = "nil"
             /\ Return(f)
             /\ out' = [out EXCEPT ![msg[f]] = @ + 1]
             /\ UNCHANGED <<conn, channel, named, flushing, crashed>>
          \/ /\ conn # "nil" /\ channel = "closed"
             /\ Close
             /\ Return(f)
             /\ out' = [out EXCEPT ![msg[f]] = @ + 1]
             /\ UNCHANGED <<named, flushing, crashed>>
          \/ /\ conn # "nil" /\ channel = "nil"
             /\ crashed' = TRUE
             /\ UNCHANGED <<conn, channel, named, flushing, out, msg, step>>
          \/ /\ conn # "nil" /\ channel = "open"
             /\ named' = TRUE
             /\ flushing' = [flushing EXCEPT ![g] = "read"]
             /\ Goto(f, "use")
             /\ UNCHANGED <<conn, channel, out, crashed>>
       /\ UNCHANGED <<run, pending, seen, taken, flush, accepted, raced, faults>>

\* r.Channel.Publish, sent or failed.  The flush of ensureQueue goes before the
\* own message of its goroutine.
UseChannel(g, k) ==
    LET f == <<g, k>>
    IN /\ step[f] = "use"
       /\ k = "own" => flushing[g] = "no"
       /\ k = "flush" => flushing[g] = "publish"
       /\ \/ /\ channel # "nil"
             /\ Return(f)
             /\ out' = [out EXCEPT ![msg[f]] = @ + 1]
             /\ UNCHANGED crashed
          \/ /\ channel = "nil"
             /\ crashed' = TRUE
             /\ UNCHANGED <<msg, step, out>>
       /\ UNCHANGED <<linkVars, pending, seen, flushVars, accepted, raced, faults>>

-----------------------------------------------------------------------------
(* ensurePendings *)

\* publishes := r.pendingPublishes, when there are any.
ReadList(g) ==
    /\ flushing[g] = "read"
    /\ taken' = [taken EXCEPT ![g] = pending]
    /\ flushing' = [flushing EXCEPT ![g] = IF pending = {} THEN "publish" ELSE "reset"]
    /\ UNCHANGED <<linkVars, pending, frameVars, flush, histVars>>

\* Mutant: the list is not reset.
ResetListKeeps(g) ==
    /\ flushing[g] = "reset"
    /\ flushing' = [flushing EXCEPT ![g] = "publish"]
    /\ flush' = [flush EXCEPT ![g] = @ \cup taken[g]]
    /\ taken' = [taken EXCEPT ![g] = {}]
    /\ UNCHANGED <<linkVars, pending, frameVars, histVars>>

\* r.pendingPublishes = make(...)
ResetList(g) ==
    /\ flushing[g] = "reset"
    /\ flushing' = [flushing EXCEPT ![g] = "publish"]
    /\ flush' = [flush EXCEPT ![g] = @ \cup taken[g]]
    /\ pending' = {}
    /\ raced' = raced \cup Changed(taken[g])
    /\ taken' = [taken EXCEPT ![g] = {}]
    /\ UNCHANGED <<linkVars, frameVars, accepted, out, crashed, faults>>

\* The next message of the copy, or the end of ensurePendings.
FlushNext(g) ==
    /\ flushing[g] = "publish" /\ step[<<g, "flush">>] = "none"
    /\ \/ \E m \in flush[g] :
             /\ Call(<<g, "flush">>, m)
             /\ flush' = [flush EXCEPT ![g] = @ \ {m}]
             /\ UNCHANGED flushing
       \/ /\ flush[g] = {}
          /\ flushing' = [flushing EXCEPT ![g] = "no"]
          /\ UNCHANGED <<flush, msg, step>>
    /\ UNCHANGED <<linkVars, pending, seen, taken, histVars>>

-----------------------------------------------------------------------------
(* Run reconnects *)

\* An event, the channel is closed or its consumer is cancelled:
\* queueInfo.clear(), ...
RunEvent ==
    /\ run = "select" /\ Idle("run")
    /\ \/ channel = "closed" /\ UNCHANGED faults
       \/ channel = "open" /\ faults < MaxFaults /\ faults' = faults + 1
    /\ run' = "closing" /\ named' = FALSE
    /\ UNCHANGED <<conn, channel, pending, frameVars, flushVars, accepted, out, raced, crashed>>

\* The tick that finds a consumer starved, or cannot inspect its queue, closes
\* the connection and keeps queueInfo.
RunReconnects ==
    /\ run = "select" /\ Idle("run") /\ conn = "open"
    /\ \/ channel = "closed" /\ UNCHANGED faults
       \/ channel = "open" /\ faults < MaxFaults /\ faults' = faults + 1
    /\ run' = "closing"
    /\ UNCHANGED <<conn, channel, named, pending, frameVars, flushVars, accepted, out,
                   raced, crashed>>

\* ... then r.Channel = nil and close().
RunCloses ==
    /\ run = "closing" /\ run' = "head"
    /\ Close
    /\ UNCHANGED <<named, pending, frameVars, flushVars, histVars>>

\* The tick that finds the connection closed forgets it, and its queue; when the
\* worker closed it, Run gets to the head of its loop with what the worker left.
RunTick ==
    /\ run = "select" /\ Idle("run") /\ conn # "open"
    /\ run' = "head" /\ conn' = "nil"
    /\ named' = (named /\ conn = "nil")
    /\ UNCHANGED <<channel, pending, frameVars, flushVars, histVars>>

\* initConn: the connection, ...
RunDials ==
    /\ run = "head" /\ run' = "dialed"
    /\ conn' = "open"
    /\ UNCHANGED <<channel, named, pending, frameVars, flushVars, histVars>>

\* ... the channel, ...
RunOpensChannel ==
    /\ run = "dialed"
    /\ \/ /\ conn = "open"
          /\ run' = "channel" /\ channel' = "open"
          /\ UNCHANGED conn
       \/ /\ conn # "open"
          /\ run' = "select"
          /\ Close
    /\ UNCHANGED <<named, pending, frameVars, flushVars, histVars>>

\* ... and ensureQueue, which closes the connection when it fails.
RunEnsuresQueue ==
    /\ run = "channel"
    /\ \/ /\ conn = "nil"
          /\ run' = "select"
          /\ UNCHANGED <<conn, channel, named, flushing>>
       \/ /\ conn # "nil" /\ channel = "open"
          /\ run' = "flush" /\ named' = TRUE
          /\ flushing' = [flushing EXCEPT !["run"] = "read"]
          /\ UNCHANGED <<conn, channel>>
       \/ /\ conn # "nil" /\ channel = "closed"
          /\ run' = "select"
          /\ Close
          /\ UNCHANGED <<named, flushing>>
    /\ UNCHANGED <<pending, frameVars, taken, flush, histVars>>

RunFlushed ==
    /\ run = "flush" /\ flushing["run"] = "no"
    /\ run' = "select"
    /\ UNCHANGED <<conn, channel, named, pending, frameVars, flushVars, histVars>>

\* The broker (external) drops the connection, its channel goes with it, or
\* closes the channel only.
BrokerDrops ==
    /\ conn = "open" /\ faults < MaxFaults
    /\ faults' = faults + 1
    /\ \/ conn' = "closed"
       \/ channel = "open" /\ UNCHANGED conn
    /\ channel' = IF channel = "open" THEN "closed" ELSE channel
    /\ UNCHANGED <<run, named, pending, frameVars, flushVars, accepted, out, raced, crashed>>

-----------------------------------------------------------------------------

Publishing(g) ==
    \E k \in {"own", "flush"} :
        \/ TestChannel(<<g, k>>) \/ ReadPending(<<g, k>>) \/ WritePending(<<g, k>>)
        \/ CheckQueue(<<g, k>>) \/ EnsureQueue(g, k) \/ UseChannel(g, k)

Flushing(g) == ReadList(g) \/ ResetList(g) \/ FlushNext(g)

Connecting == \/ RunEvent \/ RunReconnects \/ RunCloses \/ RunTick \/ RunDials
              \/ RunOpensChannel \/ RunEnsuresQueue \/ RunFlushed

\* A panic ends every goroutine.
Next ==
    /\ ~crashed
    /\ \/ \E m \in Queued : RunReceives(m)
       \/ \E m \in Responses : WorkerResponds(m)
       \/ \E g \in Goroutines : Publishing(g) \/ Flushing(g)
       \/ Connecting
       \/ BrokerDrops

Spec == Init /\ [][Next]_vars

-----------------------------------------------------------------------------

\* Type invariant.
TypeOK ==
    /\ run \in {"select", "closing", "head", "dialed", "channel", "flush"}
    /\ conn \in {"nil", "open", "closed"} /\ channel \in {"nil", "open", "closed"}
    /\ named \in BOOLEAN
    /\ pending \subseteq Msgs
    /\ msg \in [Frames -> Msgs \cup {NoMsg}]
    /\ step \in [Frames -> {"none", "test", "read", "write", "check", "declare", "use"}]
    /\ seen \in [Frames -> SUBSET Msgs]
    /\ flushing \in [Goroutines -> {"no", "read", "reset", "publish"}]
    /\ taken \in [Goroutines -> SUBSET Msgs] /\ flush \in [Goroutines -> SUBSET Msgs]
    /\ accepted \subseteq Msgs /\ out \in [Msgs -> Nat]
    /\ raced \subseteq Msgs /\ crashed \in BOOLEAN /\ faults \in 0 .. MaxFaults

\* Where a message can be: pending, in a frame, in the copy of a flush, or out.
List    == <<"pending", "list">>
Outside == <<"broker", "error">>
Places  == {List, Outside} \cup Frames \cup (Goroutines \X {"copy"})

IsAt(m, p) ==
    \/ p = List /\ m \in pending
    \/ p = Outside /\ out[m] > 0
    \/ p \in Frames /\ msg[p] = m
    \/ \E g \in Goroutines : p = <<g, "copy">> /\ m \in flush[g]

Where(m) == {p \in Places : IsAt(m, p)}

\* A message that publish was called with is in one place and leaves once,
\* whichever goroutines publish, flush and reconnect, and also after they have
\* written over each other's pendingPublishes: that harms the messages the other
\* goroutine appended or took between the read and the write, not the message
\* being appended nor the others on the list.
KeptUnlessRaced ==
    \A m \in accepted \ raced : out[m] <= 1 /\ \E p \in Places : Where(m) = {p}

=============================================================================
