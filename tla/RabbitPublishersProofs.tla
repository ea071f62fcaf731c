----------------------- MODULE RabbitPublishersProofs -----------------------
(***************************************************************************)
(* Proofs about RabbitPublishers, for every set of messages and every      *)
(* number of faults: a message is in one place and leaves once, unless a   *)
(* goroutine wrote over what the other had done with it.                   *)
(***************************************************************************)
EXTENDS RabbitPublishers, TLAPS

\* What the proofs need of the constants.
Constants == NoMsg \notin Msgs /\ MaxFaults \in Nat

-----------------------------------------------------------------------------
(* Type correctness *)

\* A frame has a message exactly while it is under way, one publish was called with.
FrameInv ==
    \A f \in Frames : /\ step[f] = "none" <=> msg[f] = NoMsg
                      /\ msg[f] \in accepted \cup {NoMsg}

LEMMA InitType == ASSUME Constants, Init PROVE TypeOK
<1>1. /\ run \in {"select", "closing", "head", "dialed", "channel", "flush"}
      /\ conn \in {"nil", "open", "closed"} /\ channel \in {"nil", "open", "closed"}
      /\ pending \subseteq Msgs
  BY DEF Init
<1>2. msg \in [Frames -> Msgs \cup {NoMsg}]
  BY DEF Init
<1>3. step \in [Frames -> {"none", "test", "read", "write", "check", "declare", "use"}]
  BY DEF Init
<1>4. seen \in [Frames -> SUBSET Msgs]
  BY DEF Init
<1>5. flushing \in [Goroutines -> {"no", "read", "reset", "publish"}]
  BY DEF Init
<1>6. taken \in [Goroutines -> SUBSET Msgs] /\ flush \in [Goroutines -> SUBSET Msgs]
  BY DEF Init
<1>7. accepted \subseteq Msgs /\ out \in [Msgs -> Nat]
  BY DEF Init
<1>8. named \in BOOLEAN /\ raced \subseteq Msgs /\ crashed \in BOOLEAN
  BY DEF Init
<1>9. faults \in 0 .. MaxFaults
  BY DEF Init, Constants
<1> QED
  BY <1>1, <1>2, <1>3, <1>4, <1>5, <1>6, <1>7, <1>8, <1>9 DEF TypeOK

LEMMA PublishType ==
    ASSUME Constants, TypeOK, FrameInv, NEW g \in Goroutines, Publishing(g)
    PROVE  TypeOK'
<1>1. PICK k \in {"own", "flush"} :
          \/ TestChannel(<<g, k>>) \/ ReadPending(<<g, k>>) \/ WritePending(<<g, k>>)
          \/ CheckQueue(<<g, k>>) \/ EnsureQueue(g, k) \/ UseChannel(g, k)
  BY DEF Publishing
<1> DEFINE f == <<g, k>>
<1>2. f \in Frames
  BY DEF Frames
<1>3. CASE TestChannel(f)
  BY <1>2, <1>3 DEF TypeOK, TestChannel, Goto, linkVars, flushVars, histVars
<1>4. CASE ReadPending(f)
  BY <1>2, <1>4 DEF TypeOK, ReadPending, Goto, linkVars, flushVars, histVars
<1>5. CASE WritePending(f)
  <2>1. msg[f] \in Msgs /\ seen[f] \subseteq Msgs
    BY <1>2, <1>5 DEF TypeOK, FrameInv, WritePending
  <2>2. pending' \subseteq Msgs /\ raced' \subseteq Msgs
    BY <1>5, <2>1 DEF WritePending, Changed, TypeOK
  <2>3. /\ msg' \in [Frames -> Msgs \cup {NoMsg}] /\ seen' \in [Frames -> SUBSET Msgs]
        /\ step' \in [Frames -> {"none", "test", "read", "write", "check", "declare", "use"}]
    BY <1>2, <1>5 DEF WritePending, Return, TypeOK
  <2> QED
    BY <1>5, <2>2, <2>3 DEF TypeOK, WritePending, linkVars, flushVars
<1>6. CASE CheckQueue(f)
  BY <1>2, <1>6 DEF TypeOK, CheckQueue, Goto, linkVars, flushVars, histVars
<1>7. CASE EnsureQueue(g, k)
  <2>1. UNCHANGED <<run, pending, seen, taken, flush, accepted, raced, faults>>
    BY <1>7 DEF EnsureQueue
  <2>2. /\ msg' \in [Frames -> Msgs \cup {NoMsg}]
        /\ step' \in [Frames -> {"none", "test", "read", "write", "check", "declare", "use"}]
    BY <1>2, <1>7 DEF EnsureQueue, Return, Goto, TypeOK
  <2>3. /\ conn' \in {"nil", "open", "closed"} /\ channel' \in {"nil", "open", "closed"}
        /\ named' \in BOOLEAN /\ crashed' \in BOOLEAN
        /\ flushing' \in [Goroutines -> {"no", "read", "reset", "publish"}]
    BY <1>7 DEF EnsureQueue, Close, TypeOK
  <2>4. out' \in [Msgs -> Nat]
    BY <1>7 DEF EnsureQueue, TypeOK
  <2> QED
    BY <2>1, <2>2, <2>3, <2>4 DEF TypeOK
<1>8. CASE UseChannel(g, k)
  <2>1. UNCHANGED <<linkVars, pending, seen, flushVars, accepted, raced, faults>>
    BY <1>8 DEF UseChannel
  <2>2. /\ msg' \in [Frames -> Msgs \cup {NoMsg}] /\ crashed' \in BOOLEAN
        /\ step' \in [Frames -> {"none", "test", "read", "write", "check", "declare", "use"}]
    BY <1>2, <1>8 DEF UseChannel, Return, TypeOK
  <2>3. out' \in [Msgs -> Nat]
    BY <1>8 DEF UseChannel, TypeOK
  <2> QED
    BY <2>1, <2>2, <2>3 DEF TypeOK, linkVars, flushVars
<1> QED
  BY <1>1, <1>3, <1>4, <1>5, <1>6, <1>7, <1>8

LEMMA FlushType ==
    ASSUME Constants, TypeOK, NEW g \in Goroutines, Flushing(g)
    PROVE  TypeOK'
<1>1. CASE ReadList(g)
  BY <1>1 DEF TypeOK, ReadList, linkVars, frameVars, histVars
<1>2. CASE ResetList(g)
  BY <1>2 DEF TypeOK, ResetList, Changed, linkVars, frameVars
<1>3. CASE FlushNext(g)
  <2>1. <<g, "flush">> \in Frames
    BY DEF Frames
  <2>2. UNCHANGED <<linkVars, pending, seen, taken, histVars>>
    BY <1>3 DEF FlushNext
  <2>3. /\ msg' \in [Frames -> Msgs \cup {NoMsg}]
        /\ step' \in [Frames -> {"none", "test", "read", "write", "check", "declare", "use"}]
    <3>1. CASE UNCHANGED <<msg, step>>
      BY <3>1 DEF TypeOK
    <3>2. CASE \E m \in flush[g] : Call(<<g, "flush">>, m)
      <4>1. PICK m \in flush[g] : Call(<<g, "flush">>, m)
        BY <3>2
      <4>2. m \in Msgs
        BY <4>1 DEF TypeOK
      <4> QED
        BY <2>1, <4>1, <4>2 DEF Call, TypeOK
    <3> QED
      BY <1>3, <3>1, <3>2 DEF FlushNext
  <2>4. /\ flush' \in [Goroutines -> SUBSET Msgs]
        /\ flushing' \in [Goroutines -> {"no", "read", "reset", "publish"}]
    BY <1>3 DEF FlushNext, TypeOK
  <2> QED
    BY <2>2, <2>3, <2>4 DEF TypeOK, linkVars, histVars
<1> QED
  BY <1>1, <1>2, <1>3 DEF Flushing

LEMMA ConnectType ==
    ASSUME Constants, TypeOK, Connecting \/ BrokerDrops
    PROVE  TypeOK'
<1>1. UNCHANGED <<pending, frameVars, taken, flush, accepted, out, raced, crashed>>
  BY DEF Connecting, RunEvent, RunReconnects, RunCloses, RunTick, RunDials, RunOpensChannel,
         RunEnsuresQueue, RunFlushed, BrokerDrops, frameVars, flushVars, histVars
<1>2. /\ run' \in {"select", "closing", "head", "dialed", "channel", "flush"}
      /\ conn' \in {"nil", "open", "closed"} /\ channel' \in {"nil", "open", "closed"}
      /\ named' \in BOOLEAN
  BY DEF TypeOK, Connecting, RunEvent, RunReconnects, RunCloses, RunTick, RunDials, Close,
         RunOpensChannel, RunEnsuresQueue, RunFlushed, BrokerDrops
<1>3. flushing' \in [Goroutines -> {"no", "read", "reset", "publish"}]
  BY DEF TypeOK, Connecting, RunEvent, RunReconnects, RunCloses, RunTick, RunDials,
         RunOpensChannel, RunEnsuresQueue, RunFlushed, BrokerDrops, flushVars
<1>4. faults' \in 0 .. MaxFaults
  BY DEF Constants, TypeOK, Connecting, RunEvent, RunReconnects, RunCloses, RunTick, RunDials,
         RunOpensChannel, RunEnsuresQueue, RunFlushed, BrokerDrops, histVars
<1> QED
  BY <1>1, <1>2, <1>3, <1>4 DEF TypeOK, frameVars

LEMMA ReceiveType ==
    ASSUME Constants, TypeOK, NEW m \in Msgs, RunReceives(m) \/ WorkerResponds(m)
    PROVE  TypeOK'
<1>1. UNCHANGED <<linkVars, pending, seen, flushVars, out, raced, crashed, faults>>
  BY DEF RunReceives, WorkerResponds
<1>2. <<"run", "own">> \in Frames /\ <<"worker", "own">> \in Frames
  BY DEF Frames, Goroutines
<1>3. /\ msg' \in [Frames -> Msgs \cup {NoMsg}] /\ accepted' \subseteq Msgs
      /\ step' \in [Frames -> {"none", "test", "read", "write", "check", "declare", "use"}]
  BY <1>2 DEF RunReceives, WorkerResponds, Call, TypeOK
<1> QED
  BY <1>1, <1>3 DEF TypeOK, linkVars, flushVars

LEMMA StepType == ASSUME Constants, TypeOK, FrameInv, [Next]_vars PROVE TypeOK'
<1>1. CASE UNCHANGED vars
  BY <1>1 DEF TypeOK, vars, linkVars, frameVars, flushVars, histVars
<1> QED
  BY <1>1, PublishType, FlushType, ConnectType, ReceiveType DEF Next, Msgs

-----------------------------------------------------------------------------
(* Where a message is *)

\* What a goroutine can be about to write has been accepted.
KnownInv ==
    /\ pending \subseteq accepted
    /\ \A f \in Frames : seen[f] \subseteq accepted
    /\ \A g \in Goroutines : taken[g] \subseteq accepted /\ flush[g] \subseteq accepted
    /\ \A m \in Msgs : out[m] > 0 => m \in accepted

Inv == TypeOK /\ FrameInv /\ KnownInv /\ KeptUnlessRaced

Copy(g) == <<g, "copy">>

\* The places are what their names say, and all different.
LEMMA PlacesDiffer ==
    /\ List \in Places /\ Outside \in Places /\ List # Outside
    /\ \A f \in Frames : f \in Places /\ f # List /\ f # Outside
    /\ \A g \in Goroutines : Copy(g) \in Places /\ Copy(g) # List /\ Copy(g) # Outside
                            /\ Copy(g) \notin Frames
    /\ \A g, h \in Goroutines : Copy(g) = Copy(h) => g = h
    /\ \A p \in Places : \/ p = List \/ p = Outside \/ p \in Frames
                         \/ \E g \in Goroutines : p = Copy(g)
BY DEF List, Outside, Places, Frames, Goroutines, Copy

\* Membership in Where, place by place, before and after a step.
LEMMA WhereIs ==
    ASSUME NEW m
    PROVE  /\ Where(m) \subseteq Places /\ Where(m)' \subseteq Places
           /\ List \in Where(m) <=> m \in pending
           /\ List \in Where(m)' <=> m \in pending'
           /\ Outside \in Where(m) <=> out[m] > 0
           /\ Outside \in Where(m)' <=> out'[m] > 0
           /\ \A f \in Frames : /\ f \in Where(m) <=> msg[f] = m
                                /\ f \in Where(m)' <=> msg'[f] = m
           /\ \A g \in Goroutines : /\ Copy(g) \in Where(m) <=> m \in flush[g]
                                    /\ Copy(g) \in Where(m)' <=> m \in flush'[g]
<1>1. /\ List \in Where(m) <=> m \in pending
      /\ List \in Where(m)' <=> m \in pending'
  BY PlacesDiffer DEF Where, IsAt, Copy
<1>2. /\ Outside \in Where(m) <=> out[m] > 0
      /\ Outside \in Where(m)' <=> out'[m] > 0
  BY PlacesDiffer DEF Where, IsAt, Copy
<1>3. ASSUME NEW f \in Frames
      PROVE  /\ f \in Where(m) <=> msg[f] = m
             /\ f \in Where(m)' <=> msg'[f] = m
  BY PlacesDiffer DEF Where, IsAt, Copy
<1>4. ASSUME NEW g \in Goroutines
      PROVE  /\ Copy(g) \in Where(m) <=> m \in flush[g]
             /\ Copy(g) \in Where(m)' <=> m \in flush'[g]
  BY PlacesDiffer DEF Where, IsAt, Copy
<1>5. Where(m) \subseteq Places /\ Where(m)' \subseteq Places
  BY DEF Where, Places, List, Outside, Frames, Goroutines
<1> QED
  BY <1>1, <1>2, <1>3, <1>4, <1>5

\* A message is where it was when no place changes for it.
LEMMA Stays ==
    ASSUME NEW m, m \in pending <=> m \in pending', out[m] = out'[m],
           \A f \in Frames : msg[f] = m <=> msg'[f] = m,
           \A g \in Goroutines : m \in flush[g] <=> m \in flush'[g]
    PROVE  Where(m)' = Where(m)
<1>1. ASSUME NEW p \in Places PROVE p \in Where(m)' <=> p \in Where(m)
  <2>1. CASE p \in {List, Outside}
    BY <2>1, WhereIs
  <2>2. CASE p \in Frames
    BY <2>2, WhereIs
  <2>3. CASE \E g \in Goroutines : p = Copy(g)
    BY <2>3, WhereIs
  <2> QED
    BY <2>1, <2>2, <2>3, PlacesDiffer
<1> QED
  BY <1>1, WhereIs

\* A message that leaves place a for place b is in one place again.
LEMMA Moves ==
    ASSUME NEW m, NEW a \in Places, NEW b \in Places, \E p \in Places : Where(m) = {p},
           a \in Where(m), b \in Where(m)',
           \A p \in Places \ {b} : p \in Where(m)' => p # a /\ p \in Where(m)
    PROVE  Where(m)' = {b}
<1>1. Where(m) = {a}
  OBVIOUS
<1>2. Where(m)' \subseteq Places
  BY WhereIs
<1> QED
  BY <1>1, <1>2

-----------------------------------------------------------------------------
(* Steps of a frame *)

LEMMA FrameStays ==
    ASSUME Inv, UNCHANGED <<msg, step>>, accepted \subseteq accepted'
    PROVE  FrameInv'
BY DEF Inv, FrameInv

LEMMA FrameGoes ==
    ASSUME Inv, NEW f \in Frames, NEW s, s # "none", step[f] # "none", Goto(f, s),
           UNCHANGED accepted
    PROVE  FrameInv'
BY DEF Inv, TypeOK, FrameInv, Goto

LEMMA FrameReturns ==
    ASSUME Inv, NEW f \in Frames, Return(f), UNCHANGED accepted
    PROVE  FrameInv'
BY DEF Inv, TypeOK, FrameInv, Return

LEMMA FrameCalls ==
    ASSUME Constants, Inv, NEW f \in Frames, NEW m \in accepted', m \in Msgs, Call(f, m),
           accepted \subseteq accepted'
    PROVE  FrameInv'
BY DEF Constants, Inv, TypeOK, FrameInv, Call

\* The step of a goroutine that moves no message.
LEMMA Quiet ==
    ASSUME Inv, UNCHANGED <<pending, msg, flush, out, accepted, raced>>
    PROVE  KeptUnlessRaced'
<1>1. SUFFICES ASSUME NEW m \in accepted \ raced
               PROVE  out'[m] <= 1 /\ \E p \in Places : Where(m)' = {p}
  BY DEF KeptUnlessRaced
<1>2. Where(m)' = Where(m)
  BY Stays
<1> QED
  BY <1>1, <1>2 DEF Inv, KeptUnlessRaced

\* publish is through with the message of a frame.
LEMMA Leaves ==
    ASSUME Constants, Inv, NEW f \in Frames, step[f] # "none", Return(f),
           out' = [out EXCEPT ![msg[f]] = @ + 1], UNCHANGED <<pending, flush, accepted, raced>>
    PROVE  KeptUnlessRaced'
<1>1. SUFFICES ASSUME NEW m \in accepted \ raced
               PROVE  out'[m] <= 1 /\ \E p \in Places : Where(m)' = {p}
  BY DEF KeptUnlessRaced
<1>2. /\ msg[f] \in Msgs /\ m \in Msgs /\ m # NoMsg /\ out \in [Msgs -> Nat]
      /\ msg \in [Frames -> Msgs \cup {NoMsg}]
  BY DEF Constants, Inv, TypeOK, FrameInv
<1>3. msg' = [msg EXCEPT ![f] = NoMsg]
  BY DEF Return
<1>4. out[m] <= 1 /\ \E p \in Places : Where(m) = {p}
  BY <1>1 DEF Inv, KeptUnlessRaced
<1>5. CASE msg[f] # m
  <2>1. Where(m)' = Where(m)
    BY <1>2, <1>3, <1>5, Stays
  <2> QED
    BY <1>2, <1>4, <1>5, <2>1
<1>6. CASE msg[f] = m
  <2>1. f \in Where(m)
    BY <1>6, WhereIs
  <2>2. out[m] = 0
    <3>1. Outside \notin Where(m)
      BY <1>4, <2>1, PlacesDiffer
    <3> QED
      BY <1>2, <3>1, WhereIs
  <2>3. out'[m] = 1
    BY <1>2, <1>6, <2>2
  <2>4. Outside \in Where(m)'
    BY <2>3, WhereIs
  <2>5. ASSUME NEW p \in Places \ {Outside}, p \in Where(m)' PROVE p # f /\ p \in Where(m)
    <3>1. CASE p = List
      BY <2>5, <3>1, WhereIs, PlacesDiffer
    <3>2. CASE p \in Frames
      <4>1. msg'[p] = m
        BY <2>5, <3>2, WhereIs
      <4>2. p # f
        BY <1>2, <1>3, <4>1
      <4> QED
        BY <1>2, <1>3, <3>2, <4>1, <4>2, WhereIs
    <3>3. CASE \E g \in Goroutines : p = Copy(g)
      BY <2>5, <3>3, WhereIs, PlacesDiffer
    <3> QED
      BY <2>5, <3>1, <3>2, <3>3, PlacesDiffer
  <2>6. Where(m)' = {Outside}
    BY <1>4, <2>1, <2>4, <2>5, Moves, PlacesDiffer
  <2> QED
    BY <2>3, <2>6, PlacesDiffer
<1> QED
  BY <1>5, <1>6

\* append writes the list it has read and the message of the frame, which goes to
\* the list; the other messages stay, unless the list changed for them in between.
LEMMA Writes ==
    ASSUME Constants, Inv, NEW f \in Frames, WritePending(f)
    PROVE  KeptUnlessRaced'
<1>1. SUFFICES ASSUME NEW m \in accepted \ raced'
               PROVE  out'[m] <= 1 /\ \E p \in Places : Where(m)' = {p}
  BY DEF KeptUnlessRaced, WritePending
<1>2. /\ step[f] = "write" /\ m \notin raced
      /\ m \in pending' <=> m \in pending \/ m = msg[f]
      /\ msg' = [msg EXCEPT ![f] = NoMsg] /\ UNCHANGED <<flush, out, accepted>>
  BY <1>1 DEF WritePending, Changed, Return, flushVars
<1>3. /\ msg[f] \in Msgs /\ m \in Msgs /\ m # NoMsg
      /\ msg \in [Frames -> Msgs \cup {NoMsg}]
  BY <1>2 DEF Constants, Inv, TypeOK, FrameInv
<1>4. out[m] <= 1 /\ \E p \in Places : Where(m) = {p}
  BY <1>2 DEF Inv, KeptUnlessRaced
<1>5. CASE msg[f] # m
  <2>1. Where(m)' = Where(m)
    BY <1>2, <1>3, <1>5, Stays
  <2> QED
    BY <1>2, <1>4, <2>1
<1>6. CASE msg[f] = m
  <2>1. f \in Where(m) /\ List \in Where(m)'
    BY <1>2, <1>6, WhereIs
  <2>2. ASSUME NEW p \in Places \ {List}, p \in Where(m)' PROVE p # f /\ p \in Where(m)
    <3>1. CASE p = Outside
      BY <1>2, <2>2, <3>1, WhereIs, PlacesDiffer
    <3>2. CASE p \in Frames
      <4>1. msg'[p] = m
        BY <2>2, <3>2, WhereIs
      <4>2. p # f
        BY <1>2, <1>3, <4>1
      <4> QED
        BY <1>2, <1>3, <3>2, <4>1, <4>2, WhereIs
    <3>3. CASE \E g \in Goroutines : p = Copy(g)
      BY <1>2, <2>2, <3>3, WhereIs, PlacesDiffer
    <3> QED
      BY <2>2, <3>1, <3>2, <3>3, PlacesDiffer
  <2>3. Where(m)' = {List}
    BY <1>4, <2>1, <2>2, Moves, PlacesDiffer
  <2> QED
    BY <1>2, <1>4, <2>3, PlacesDiffer
<1> QED
  BY <1>5, <1>6

\* ensurePendings empties the list it has copied: its messages go to the copy,
\* unless the list changed for them in between.
LEMMA Resets ==
    ASSUME Constants, Inv, NEW g \in Goroutines, ResetList(g)
    PROVE  KeptUnlessRaced'
<1>1. SUFFICES ASSUME NEW m \in accepted \ raced'
               PROVE  out'[m] <= 1 /\ \E p \in Places : Where(m)' = {p}
  BY DEF KeptUnlessRaced, ResetList
<1>2. /\ pending' = {} /\ flush' = [flush EXCEPT ![g] = @ \cup taken[g]]
      /\ m \notin raced /\ (m \in taken[g] <=> m \in pending)
      /\ UNCHANGED <<msg, out, accepted>> /\ flush \in [Goroutines -> SUBSET Msgs]
  BY <1>1 DEF ResetList, Changed, frameVars, Inv, TypeOK
<1>3. out[m] <= 1 /\ \E p \in Places : Where(m) = {p}
  BY <1>2 DEF Inv, KeptUnlessRaced
<1>4. CASE m \notin pending
  <2>1. Where(m)' = Where(m)
    BY <1>2, <1>4, Stays
  <2> QED
    BY <1>2, <1>3, <2>1
<1>5. CASE m \in pending
  <2>1. List \in Where(m) /\ Copy(g) \in Where(m)'
    BY <1>2, <1>5, WhereIs
  <2>2. ASSUME NEW p \in Places \ {Copy(g)}, p \in Where(m)' PROVE p # List /\ p \in Where(m)
    <3>1. CASE p = List
      BY <1>2, <2>2, <3>1, WhereIs
    <3>2. CASE p = Outside \/ p \in Frames
      BY <1>2, <2>2, <3>2, WhereIs, PlacesDiffer
    <3>3. CASE \E h \in Goroutines : p = Copy(h)
      <4>1. PICK h \in Goroutines : p = Copy(h)
        BY <3>3
      <4>2. h # g /\ m \in flush'[h]
        BY <2>2, <4>1, WhereIs
      <4>3. m \in flush[h]
        BY <1>2, <4>2
      <4> QED
        BY <4>1, <4>3, WhereIs, PlacesDiffer
    <3> QED
      BY <2>2, <3>1, <3>2, <3>3, PlacesDiffer
  <2>3. Where(m)' = {Copy(g)}
    BY <1>3, <2>1, <2>2, Moves, PlacesDiffer
  <2> QED
    BY <1>2, <1>3, <2>3, PlacesDiffer
<1> QED
  BY <1>4, <1>5

\* The flush of g calls publish with a message of its copy.
LEMMA FlushCalls ==
    ASSUME Constants, Inv, NEW g \in Goroutines, NEW n \in flush[g], step[<<g, "flush">>] = "none",
           Call(<<g, "flush">>, n), flush' = [flush EXCEPT ![g] = @ \ {n}],
           UNCHANGED <<pending, out, accepted, raced>>
    PROVE  KeptUnlessRaced'
<1> DEFINE f == <<g, "flush">>
<1>1. SUFFICES ASSUME NEW m \in accepted \ raced
               PROVE  out'[m] <= 1 /\ \E p \in Places : Where(m)' = {p}
  BY DEF KeptUnlessRaced
<1>2. /\ f \in Frames /\ msg[f] = NoMsg /\ msg' = [msg EXCEPT ![f] = n]
      /\ msg \in [Frames -> Msgs \cup {NoMsg}] /\ flush \in [Goroutines -> SUBSET Msgs]
      /\ n \in Msgs /\ m \in Msgs /\ m # NoMsg
  BY DEF Frames, Call, Constants, Inv, TypeOK, FrameInv
<1>3. out[m] <= 1 /\ \E p \in Places : Where(m) = {p}
  BY <1>1 DEF Inv, KeptUnlessRaced
<1>4. CASE m # n
  <2>1. \A e \in Frames : msg[e] = m <=> msg'[e] = m
    BY <1>2, <1>4
  <2>2. \A h \in Goroutines : m \in flush[h] <=> m \in flush'[h]
    BY <1>2, <1>4
  <2>3. Where(m)' = Where(m)
    BY <2>1, <2>2, Stays
  <2> QED
    BY <1>3, <2>3
<1>5. CASE m = n
  <2>1. Copy(g) \in Where(m) /\ f \in Where(m)'
    BY <1>2, <1>5, WhereIs
  <2>2. ASSUME NEW p \in Places \ {f}, p \in Where(m)' PROVE p # Copy(g) /\ p \in Where(m)
    <3>1. CASE p \in {List, Outside}
      BY <2>2, <3>1, WhereIs, PlacesDiffer
    <3>2. CASE p \in Frames
      BY <1>2, <2>2, <3>2, WhereIs, PlacesDiffer
    <3>3. CASE \E h \in Goroutines : p = Copy(h)
      <4>1. PICK h \in Goroutines : p = Copy(h)
        BY <3>3
      <4>2. m \in flush'[h]
        BY <2>2, <4>1, WhereIs
      <4>3. h # g /\ m \in flush[h]
        BY <1>2, <1>5, <4>2
      <4> QED
        BY <4>1, <4>3, WhereIs, PlacesDiffer
    <3> QED
      BY <2>2, <3>1, <3>2, <3>3, PlacesDiffer
  <2>3. Where(m)' = {f}
    BY <1>2, <1>3, <2>1, <2>2, Moves, PlacesDiffer
  <2> QED
    BY <1>2, <1>3, <2>3, PlacesDiffer
<1> QED
  BY <1>4, <1>5

\* publish is called with a message nobody had: it is in the frame only.
LEMMA Receives ==
    ASSUME Constants, Inv, NEW f \in Frames, NEW n \in Msgs \ accepted, step[f] = "none",
           Call(f, n), accepted' = accepted \cup {n}, UNCHANGED <<pending, flush, out, raced>>
    PROVE  KeptUnlessRaced'
<1>1. SUFFICES ASSUME NEW m \in accepted' \ raced
               PROVE  out'[m] <= 1 /\ \E p \in Places : Where(m)' = {p}
  BY DEF KeptUnlessRaced
<1>2. /\ msg[f] = NoMsg /\ msg' = [msg EXCEPT ![f] = n] /\ m \in Msgs /\ m # NoMsg
      /\ msg \in [Frames -> Msgs \cup {NoMsg}]
  BY DEF Call, Constants, Inv, TypeOK, FrameInv
<1>3. CASE m # n
  <2>1. out[m] <= 1 /\ \E p \in Places : Where(m) = {p}
    BY <1>1, <1>3 DEF Inv, KeptUnlessRaced
  <2>2. Where(m)' = Where(m)
    BY <1>2, <1>3, Stays
  <2> QED
    BY <2>1, <2>2
<1>4. CASE m = n
  <2>1. /\ m \notin pending /\ out[m] = 0 /\ \A g \in Goroutines : m \notin flush[g]
        /\ \A e \in Frames : msg[e] # m
    BY <1>2, <1>4 DEF Inv, TypeOK, KnownInv, FrameInv
  <2>2. f \in Where(m)'
    BY <1>2, <1>4, WhereIs
  <2>3. ASSUME NEW p \in Places, p \in Where(m)' PROVE p = f
    <3>1. CASE p = List
      BY <2>1, <2>3, <3>1, WhereIs
    <3>2. CASE p = Outside
      BY <2>1, <2>3, <3>2, WhereIs
    <3>3. CASE p \in Frames
      BY <1>2, <2>1, <2>3, <3>3, WhereIs
    <3>4. CASE \E g \in Goroutines : p = Copy(g)
      BY <2>1, <2>3, <3>4, WhereIs
    <3> QED
      BY <3>1, <3>2, <3>3, <3>4, PlacesDiffer
  <2>4. Where(m)' = {f}
    BY <2>2, <2>3, WhereIs
  <2> QED
    BY <2>1, <2>4, PlacesDiffer
<1> QED
  BY <1>3, <1>4

-----------------------------------------------------------------------------
(* The invariant *)

LEMMA KnownStays ==
    ASSUME Inv, UNCHANGED <<pending, seen, taken, flush, out>>, accepted \subseteq accepted'
    PROVE  KnownInv'
BY DEF Inv, KnownInv

\* publish is through with a message it was called with.
LEMMA KnownLeaves ==
    ASSUME Constants, Inv, NEW f \in Frames, step[f] # "none",
           out' = [out EXCEPT ![msg[f]] = @ + 1],
           UNCHANGED <<pending, seen, taken, flush, accepted>>
    PROVE  KnownInv'
<1>1. msg[f] \in accepted /\ out \in [Msgs -> Nat]
  BY DEF Inv, TypeOK, FrameInv
<1> QED
  BY <1>1 DEF Inv, KnownInv

LEMMA StepPublish ==
    ASSUME Constants, Inv, NEW g \in Goroutines, Publishing(g)
    PROVE  FrameInv' /\ KnownInv' /\ KeptUnlessRaced'
<1>1. PICK k \in {"own", "flush"} :
          \/ TestChannel(<<g, k>>) \/ ReadPending(<<g, k>>) \/ WritePending(<<g, k>>)
          \/ CheckQueue(<<g, k>>) \/ EnsureQueue(g, k) \/ UseChannel(g, k)
  BY DEF Publishing
<1> DEFINE f == <<g, k>>
<1>2. f \in Frames
  BY DEF Frames
<1>3. CASE TestChannel(f)
  <2>1. UNCHANGED <<pending, msg, seen, taken, flush, out, accepted, raced>>
    BY <1>3 DEF TestChannel, Goto, flushVars, histVars
  <2>2. \E s : s # "none" /\ Goto(f, s)
    BY <1>3 DEF TestChannel
  <2>3. FrameInv'
    BY <1>2, <1>3, <2>1, <2>2, FrameGoes DEF TestChannel
  <2> QED
    BY <2>1, <2>3, Quiet, KnownStays
<1>4. CASE ReadPending(f)
  <2>1. UNCHANGED <<pending, msg, taken, flush, out, accepted, raced>>
    BY <1>4 DEF ReadPending, Goto, flushVars, histVars
  <2>2. FrameInv'
    BY <1>2, <1>4, <2>1, FrameGoes DEF ReadPending
  <2>3. KnownInv'
    BY <1>2, <1>4, <2>1 DEF ReadPending, Inv, TypeOK, KnownInv
  <2> QED
    BY <2>1, <2>2, <2>3, Quiet
<1>5. CASE WritePending(f)
  <2>1. UNCHANGED <<taken, flush, out, accepted>> /\ Return(f)
    BY <1>5 DEF WritePending, flushVars
  <2>2. msg[f] \in accepted /\ seen[f] \subseteq accepted
    BY <1>2, <1>5 DEF WritePending, Inv, FrameInv, KnownInv
  <2>3. pending' \subseteq accepted' /\ \A e \in Frames : seen'[e] \subseteq accepted'
    BY <1>5, <2>1, <2>2 DEF WritePending, Inv, TypeOK, KnownInv
  <2>4. KnownInv'
    BY <2>1, <2>3 DEF Inv, KnownInv
  <2> QED
    BY <1>2, <1>5, <2>1, <2>4, FrameReturns, Writes
<1>6. CASE CheckQueue(f)
  <2>1. UNCHANGED <<pending, msg, seen, taken, flush, out, accepted, raced>>
    BY <1>6 DEF CheckQueue, Goto, flushVars, histVars
  <2>2. \E s : s # "none" /\ Goto(f, s)
    BY <1>6 DEF CheckQueue
  <2>3. FrameInv'
    BY <1>2, <1>6, <2>1, <2>2, FrameGoes DEF CheckQueue
  <2> QED
    BY <2>1, <2>3, Quiet, KnownStays
<1>7. CASE EnsureQueue(g, k)
  <2>1. UNCHANGED <<pending, seen, taken, flush, accepted, raced>> /\ step[f] = "declare"
    BY <1>7 DEF EnsureQueue
  <2>2. \/ Return(f) /\ out' = [out EXCEPT ![msg[f]] = @ + 1]
        \/ UNCHANGED <<msg, step, out>>
        \/ Goto(f, "use") /\ UNCHANGED out
    BY <1>7 DEF EnsureQueue
  <2>3. CASE Return(f) /\ out' = [out EXCEPT ![msg[f]] = @ + 1]
    BY <1>2, <2>1, <2>3, FrameReturns, KnownLeaves, Leaves
  <2>4. CASE UNCHANGED <<msg, step, out>>
    BY <2>1, <2>4, FrameStays, KnownStays, Quiet
  <2>5. CASE Goto(f, "use") /\ UNCHANGED out
    <3>1. UNCHANGED msg
      BY <2>5 DEF Goto
    <3> QED
      BY <1>2, <2>1, <2>5, <3>1, FrameGoes, KnownStays, Quiet
  <2> QED
    BY <2>2, <2>3, <2>4, <2>5
<1>8. CASE UseChannel(g, k)
  <2>1. UNCHANGED <<pending, seen, taken, flush, accepted, raced>> /\ step[f] = "use"
    BY <1>8 DEF UseChannel, flushVars
  <2>2. \/ Return(f) /\ out' = [out EXCEPT ![msg[f]] = @ + 1]
        \/ UNCHANGED <<msg, step, out>>
    BY <1>8 DEF UseChannel
  <2>3. CASE Return(f) /\ out' = [out EXCEPT ![msg[f]] = @ + 1]
    BY <1>2, <2>1, <2>3, FrameReturns, KnownLeaves, Leaves
  <2>4. CASE UNCHANGED <<msg, step, out>>
    BY <2>1, <2>4, FrameStays, KnownStays, Quiet
  <2> QED
    BY <2>2, <2>3, <2>4
<1> QED
  BY <1>1, <1>3, <1>4, <1>5, <1>6, <1>7, <1>8

LEMMA StepFlush ==
    ASSUME Constants, Inv, NEW g \in Goroutines, Flushing(g)
    PROVE  FrameInv' /\ KnownInv' /\ KeptUnlessRaced'
<1>1. CASE ReadList(g)
  <2>1. UNCHANGED <<pending, msg, step, seen, flush, out, accepted, raced>>
    BY <1>1 DEF ReadList, frameVars, histVars
  <2>2. KnownInv'
    BY <1>1, <2>1 DEF ReadList, Inv, TypeOK, KnownInv
  <2> QED
    BY <2>1, <2>2, FrameStays, Quiet
<1>2. CASE ResetList(g)
  <2>1. UNCHANGED <<msg, step, seen, out, accepted>>
    BY <1>2 DEF ResetList, frameVars
  <2>2. KnownInv'
    BY <1>2, <2>1 DEF ResetList, Inv, TypeOK, KnownInv
  <2> QED
    BY <1>2, <2>1, <2>2, FrameStays, Resets
<1>3. CASE FlushNext(g)
  <2>1. UNCHANGED <<pending, seen, taken, out, accepted, raced>> /\ step[<<g, "flush">>] = "none"
    BY <1>3 DEF FlushNext, histVars
  <2>2. CASE UNCHANGED <<flush, msg, step>>
    BY <2>1, <2>2, FrameStays, KnownStays, Quiet
  <2>3. CASE \E n \in flush[g] :
                 Call(<<g, "flush">>, n) /\ flush' = [flush EXCEPT ![g] = @ \ {n}]
    <3>1. PICK n \in flush[g] :
              Call(<<g, "flush">>, n) /\ flush' = [flush EXCEPT ![g] = @ \ {n}]
      BY <2>3
    <3>2. n \in accepted /\ n \in Msgs /\ <<g, "flush">> \in Frames
      BY DEF Inv, TypeOK, KnownInv, Frames
    <3>3. FrameInv'
      BY <2>1, <3>1, <3>2, FrameCalls
    <3>4. KnownInv'
      BY <2>1, <3>1 DEF Inv, TypeOK, KnownInv
    <3> QED
      BY <2>1, <3>1, <3>3, <3>4, FlushCalls
  <2> QED
    BY <1>3, <2>2, <2>3 DEF FlushNext
<1> QED
  BY <1>1, <1>2, <1>3 DEF Flushing

LEMMA StepConnect ==
    ASSUME Inv, Connecting \/ BrokerDrops
    PROVE  FrameInv' /\ KnownInv' /\ KeptUnlessRaced'
<1>1. UNCHANGED <<pending, msg, step, seen, taken, flush, out, accepted, raced>>
  BY DEF Connecting, RunEvent, RunReconnects, RunCloses, RunTick, RunDials, RunOpensChannel,
         RunEnsuresQueue, RunFlushed, BrokerDrops, frameVars, flushVars, histVars
<1> QED
  BY <1>1, FrameStays, KnownStays, Quiet

LEMMA StepReceive ==
    ASSUME Constants, Inv, NEW m \in Msgs, RunReceives(m) \/ WorkerResponds(m)
    PROVE  FrameInv' /\ KnownInv' /\ KeptUnlessRaced'
<1>1. PICK g \in Goroutines : Idle(g) /\ Call(<<g, "own">>, m)
  BY DEF RunReceives, WorkerResponds, Goroutines
<1>2. /\ m \notin accepted /\ accepted' = accepted \cup {m}
      /\ UNCHANGED <<pending, seen, taken, flush, out, raced>>
  BY DEF RunReceives, WorkerResponds, flushVars
<1>3. <<g, "own">> \in Frames /\ step[<<g, "own">>] = "none"
  BY <1>1 DEF Frames, Idle
<1> QED
  BY <1>1, <1>2, <1>3, FrameCalls, KnownStays, Receives

\* The invariant holds initially and is kept; KeptUnlessRaced is a part of it.
LEMMA InvInductive ==
    /\ Constants /\ Init => Inv
    /\ Constants /\ Inv /\ [Next]_vars => Inv'
    /\ Inv => TypeOK /\ KeptUnlessRaced
<1>1. ASSUME Constants, Init PROVE Inv
  <2>1. FrameInv
    BY <1>1 DEF Init, FrameInv
  <2>2. KnownInv
    BY <1>1 DEF Init, KnownInv
  <2>3. KeptUnlessRaced
    BY <1>1 DEF Init, KeptUnlessRaced
  <2> QED
    BY <1>1, <2>1, <2>2, <2>3, InitType DEF Inv
<1>2. ASSUME Constants, Inv, [Next]_vars PROVE Inv'
  <2>1. TypeOK'
    BY <1>2, StepType DEF Inv
  <2>2. CASE UNCHANGED vars
    <3>1. UNCHANGED <<pending, msg, step, seen, taken, flush, out, accepted, raced>>
      BY <2>2 DEF vars, frameVars, flushVars, histVars
    <3> QED
      BY <1>2, <2>1, <3>1, FrameStays, KnownStays, Quiet DEF Inv
  <2>3. CASE Next
    <3>1. FrameInv' /\ KnownInv' /\ KeptUnlessRaced'
      BY <1>2, <2>3, StepPublish, StepFlush, StepConnect, StepReceive DEF Next, Msgs
    <3> QED
      BY <2>1, <3>1 DEF Inv
  <2> QED
    BY <1>2, <2>2, <2>3
<1>3. Inv => TypeOK /\ KeptUnlessRaced
  BY DEF Inv
<1> QED
  BY <1>1, <1>2, <1>3

\* Type correctness, for every set of messages and every number of faults.
THEOREM TypeCorrect == ASSUME Constants PROVE Spec => []TypeOK
  BY InvInductive, PTL DEF Spec

\* However Run and the delivery worker publish, flush and reconnect, a message is in
\* one place and leaves once, unless it was the message of a lost race for
\* pendingPublishes.
THEOREM MessagesKept == ASSUME Constants PROVE Spec => []KeptUnlessRaced
  BY InvInductive, PTL DEF Spec

=============================================================================
