------------------------------- MODULE Healthz ------------------------------
(***************************************************************************)
(* healthz: every GET /healthz runs handlerHealthz in a goroutine of its   *)
(* own.  It sends a message through every RabbitMQ instance that has a     *)
(* health queue (a category), pings the data bases and the cachers, and    *)
(* collects what comes back on two unbuffered channels until everything    *)
(* was heard of or two seconds are over.                                   *)
(*                                                                         *)
(* Composed with it: Run of each category's RabbitMQ instance, reduced to  *)
(* r.Publish, pendingPublishes, the connection and the send on             *)
(* pm.PublishStatus; its delivery worker in handleHealthzConsumer; the     *)
(* broker (external).  A message is the handler it reports to and the      *)
(* second that is in its body; livenessTickerCache is keyed by category    *)
(* and second, whichever handler it was.                                   *)
(***************************************************************************)
EXTENDS Integers, Sequences, FiniteSets

CONSTANTS Handlers,     \* requests for /healthz
          NoHandler,
          Categories,   \* the keys of mqChecks.categories
          NoCategory,
          Pings,        \* data bases and cachers there may be
          ChannelSize,  \* GetPublishMessageChannelSize()
          MaxSecond,    \* bound: the clock counts from 1 to MaxSecond
          MaxFaults     \* bound: broken connections

VARIABLES
    at,         \* where handlerHealthz is, see TypeOK
    todo,       \* the categories CheckConsumers has not come to
    cur,        \* the category it is at, in CheckConsumers or in Clear
    categories, \* mqCheckObject.categories[c]: the second of the key, 0 if absent
    parts,      \* checkParts
    still,      \* stillChecking
    timer,      \* "armed", or "quit": quitTiker is closed
    clears,     \* the categories Clear has still to remove
    results,    \* checkResults: the last status of every name
    pushes,     \* the goroutines that wait to send on checkTrigger
    cache,      \* livenessTickerCache
    channel,    \* r.Publish of the instance of a category
    pending,    \* r.pendingPublishes
    flush,      \* what ensurePendings has still to publish
    status,     \* the handler Run is sending a status to, and whether it is Ok
    link,       \* "up", "broken" (not noticed yet) or "nil"
    delivered,  \* messages on their way to the consumer
    worker,     \* the delivery worker: at, the second, the handler found
    consumed,   \* consumed[c][s]: messages handleHealthzConsumer was called with
    pings,      \* those that are configured
    route,      \* what PublishMQ does for a category, see Routes
    enabling,   \* enablingNetworkingCheckTS, 1 if it was never set
    now, faults

handlerVars == <<at, todo, cur, parts, still, timer, clears, results>>
runVars     == <<channel, pending, flush, status, link>>
workVars    == <<worker, consumed>>
sharedVars  == <<categories, cache, pushes>>
clockVars   == <<pings, route, enabling, now, faults>>
vars == <<handlerVars, runVars, workVars, sharedVars, delivered, clockVars>>

Seconds == 1 .. MaxSecond
Names   == Categories \cup Pings
Message(h, s) == [to |-> h, sec |-> s]
Messages      == [to : Handlers, sec : Seconds]
Result(n, st) == [name |-> n, status |-> st]
Statuses      == {"none", "success", "failed", "timeout"}
Keys          == [cat : Categories, sec : Seconds]
NoStatus      == [to |-> NoHandler, ok |-> TRUE]
IdleWorker    == [at |-> "idle", sec |-> 0, ev |-> NoHandler]

\* PublishMQ hands the message over or returns an error (a route that was there
\* before, for RPC and without consumers); GetMQConfig finds no route at all.
Routes == {"sends", "refuses", "missing"}

Init ==
    /\ at = [h \in Handlers |-> "idle"]
    /\ todo = [h \in Handlers |-> Categories]
    /\ cur = [h \in Handlers |-> NoCategory]
    /\ categories = [h \in Handlers |-> [c \in Categories |-> 0]]
    /\ parts = [h \in Handlers |-> {}]
    /\ still = [h \in Handlers |-> TRUE]
    /\ timer = [h \in Handlers |-> "armed"]
    /\ clears = [h \in Handlers |-> {}]
    /\ results = [h \in Handlers |-> [n \in Names |-> "unset"]]
    /\ pushes = [h \in Handlers |-> {}]
    /\ cache = [c \in Categories |-> [s \in Seconds |-> NoHandler]]
    /\ channel = [c \in Categories |-> << >>]
    /\ pending = [c \in Categories |-> << >>]
    /\ flush = [c \in Categories |-> << >>]
    /\ status = [c \in Categories |-> NoStatus]
    /\ link = [c \in Categories |-> "up"]
    /\ delivered = [c \in Categories |-> << >>]
    /\ worker = [c \in Categories |-> IdleWorker]
    /\ consumed = [c \in Categories |-> [s \in Seconds |-> 0]]
    /\ pings \in SUBSET Pings
    /\ route \in [Categories -> Routes] /\ enabling \in Seconds
    /\ now = 1 /\ faults = 0

Goto(h, place) == at' = [at EXCEPT ![h] = place]

NotEmpty(h) == \E c \in Categories : categories[h][c] # 0

-----------------------------------------------------------------------------
(* handlerHealthz *)

\* Before the second SetDelayCheckNetworking has set, the answer is "Ok" and
\* nothing is checked.
Request(h) ==
    /\ at[h] = "idle" /\ Goto(h, IF now < enabling THEN "excused" ELSE "check")
    /\ UNCHANGED <<todo, cur, parts, still, timer, clears, results,
                   runVars, workVars, sharedVars, delivered, clockVars>>

\* CheckConsumers, checkMQMessage: the key is made of the current second, the
\* message is handed to Run, a push of the status "none" is started.  If PublishMQ
\* returns an error the push is "failed" and the key is registered all the same;
\* without a route there is no key.  The time a message waits for a full r.Publish
\* is left out: the key is made when it goes.
CheckMQMessage(h, c) ==
    /\ at[h] = "check" /\ c \in todo[h]
    /\ IF route[c] = "sends"
       THEN Len(channel[c]) < ChannelSize
            /\ channel' = [channel EXCEPT ![c] = Append(@, Message(h, now))]
       ELSE UNCHANGED channel
    /\ pushes' = [pushes EXCEPT ![h] = @ \cup
                     {Result(c, IF route[c] = "refuses" THEN "failed" ELSE "none")}]
    /\ todo' = [todo EXCEPT ![h] = @ \ {c}]
    /\ IF route[c] = "missing" THEN UNCHANGED <<at, cur>>
       ELSE cur' = [cur EXCEPT ![h] = [cat |-> c, sec |-> now]] /\ Goto(h, "register")
    /\ UNCHANGED <<parts, still, timer, clears, results, pending, flush, status, link,
                   workVars, categories, cache, delivered, clockVars>>

\* CheckConsumers after checkMQMessage returned: only now the consumer can find
\* the handler.  A handler of the same second is overwritten.
Register(h) ==
    /\ at[h] = "register"
    /\ categories' = [categories EXCEPT ![h][cur[h].cat] = cur[h].sec]
    /\ cache' = [cache EXCEPT ![cur[h].cat][cur[h].sec] = h]
    /\ cur' = [cur EXCEPT ![h] = NoCategory]
    /\ Goto(h, "check")
    /\ UNCHANGED <<todo, parts, still, timer, clears, results,
                   runVars, workVars, pushes, delivered, clockVars>>

\* The goroutines of the pings are started, checkParts is filled with what is
\* in the categories by now, the timer is started.
StartChecks(h) ==
    /\ at[h] = "check" /\ todo[h] = {}
    /\ LET registered == {c \in Categories : categories[h][c] # 0}
       IN /\ parts' = [parts EXCEPT ![h] = pings \cup registered]
          /\ still' = [still EXCEPT ![h] = pings \cup registered # {}]
    /\ \E good \in SUBSET pings :
           pushes' = [pushes EXCEPT ![h] = @ \cup {Result(p, "success") : p \in good}
                                             \cup {Result(p, "failed") : p \in pings \ good}]
    /\ Goto(h, "head")
    /\ UNCHANGED <<todo, cur, timer, clears, results,
                   runVars, workVars, categories, cache, delivered, clockVars>>

\* The condition of the loop; without it the answer is written.
LoopHead(h) ==
    /\ at[h] = "head"
    /\ Goto(h, IF NotEmpty(h) \/ still[h] THEN "body" ELSE "gone")
    /\ UNCHANGED <<todo, cur, parts, still, timer, clears, results,
                   runVars, workVars, sharedVars, delivered, clockVars>>

\* The head of the body asks NotEmpty again.
LoopBody(h) ==
    /\ at[h] = "body" /\ Goto(h, "select")
    /\ still' = IF NotEmpty(h) THEN still
                ELSE [still EXCEPT ![h] = parts[h] # {}]
    /\ UNCHANGED <<todo, cur, parts, timer, clears, results,
                   runVars, workVars, sharedVars, delivered, clockVars>>

\* Mutant: the timer closes nothing.
SelectTimerNoQuit(h) ==
    /\ at[h] = "select" /\ timer[h] = "armed"
    /\ Goto(h, "head")
    /\ UNCHANGED <<todo, cur, parts, still, timer, clears, results,
                   runVars, workVars, sharedVars, delivered, clockVars>>

\* case <-timeoutTicker.C
SelectTimer(h) ==
    /\ at[h] = "select" /\ timer[h] = "armed"
    /\ timer' = [timer EXCEPT ![h] = "quit"]
    /\ Goto(h, "head")
    /\ UNCHANGED <<todo, cur, parts, still, clears, results,
                   runVars, workVars, sharedVars, delivered, clockVars>>

\* case <-quitTiker: Clear("timeout") begins with a copy of the categories.
SelectQuit(h) ==
    /\ at[h] = "select" /\ timer[h] = "quit"
    /\ clears' = [clears EXCEPT ![h] = {c \in Categories : categories[h][c] # 0}]
    /\ Goto(h, "clear")
    /\ UNCHANGED <<todo, cur, parts, still, timer, results,
                   runVars, workVars, sharedVars, delivered, clockVars>>

\* case trigger := <-checkTrigger, of any goroutine that waits there.
SelectTrigger(h, r) ==
    /\ at[h] = "select" /\ r \in pushes[h]
    /\ pushes' = [pushes EXCEPT ![h] = @ \ {r}]
    /\ results' = [results EXCEPT ![h][r.name] = r.status]
    /\ IF r.status = "none" THEN UNCHANGED <<parts, still>>
       ELSE /\ parts' = [parts EXCEPT ![h] = @ \ {r.name}]
            /\ still' = [still EXCEPT ![h] = parts[h] \ {r.name} # {}]
    /\ Goto(h, "head")
    /\ UNCHANGED <<todo, cur, timer, clears, runVars, workVars, categories, cache,
                   delivered, clockVars>>

\* Mutant: a failure ends the wait for the message.
SelectEventRemoves(h, c) ==
    /\ at[h] = "select" /\ status[c].to = h
    /\ status' = [status EXCEPT ![c] = NoStatus]
    /\ IF status[c].ok
       THEN results' = [results EXCEPT ![h][c] = "sent"] /\ UNCHANGED <<pushes, categories>>
       ELSE /\ pushes' = [pushes EXCEPT ![h] = @ \cup {Result(c, "failed")}]
            /\ categories' = [categories EXCEPT ![h][c] = 0]
            /\ UNCHANGED results
    /\ Goto(h, "head")
    /\ UNCHANGED <<todo, cur, parts, still, timer, clears, channel, pending, flush, link,
                   workVars, cache, delivered, clockVars>>

\* Mutant: a message that was sent counts as one that came back.
SelectEventSucceeds(h, c) ==
    /\ at[h] = "select" /\ status[c].to = h
    /\ status' = [status EXCEPT ![c] = NoStatus]
    /\ pushes' = [pushes EXCEPT ![h] = @ \cup
                     {Result(c, IF status[c].ok THEN "success" ELSE "failed")}]
    /\ Goto(h, "head")
    /\ UNCHANGED <<todo, cur, parts, still, timer, clears, results, channel, pending, flush,
                   link, workVars, categories, cache, delivered, clockVars>>

\* case ev := <-mqEvent: Run is released.
SelectEvent(h, c) ==
    /\ at[h] = "select" /\ status[c].to = h
    /\ status' = [status EXCEPT ![c] = NoStatus]
    /\ IF status[c].ok
       THEN /\ results' = [results EXCEPT ![h][c] = "sent"] /\ UNCHANGED pushes
       ELSE /\ pushes' = [pushes EXCEPT ![h] = @ \cup {Result(c, "failed")}]
            /\ UNCHANGED results
    /\ Goto(h, "head")
    /\ UNCHANGED <<todo, cur, parts, still, timer, clears, channel, pending, flush, link,
                   workVars, categories, cache, delivered, clockVars>>

-----------------------------------------------------------------------------
(* mqCheckListWrapper.Remove, of the handler (Clear) and of the consumer *)

\* What Remove does once it has read the key: it forgets key and category, be
\* they still there or not, and starts a push.
RemoveKey(h, c, s, st) ==
    /\ cache' = [cache EXCEPT ![c][s] = NoHandler]
    /\ categories' = [categories EXCEPT ![h][c] = 0]
    /\ pushes' = [pushes EXCEPT ![h] = @ \cup {Result(c, st)}]

\* Clear: Remove reads the category under its lock ...
ClearCheck(h, c) ==
    /\ at[h] = "clear" /\ c \in clears[h]
    /\ clears' = [clears EXCEPT ![h] = @ \ {c}]
    /\ IF categories[h][c] = 0 THEN UNCHANGED <<at, cur>>
       ELSE /\ cur' = [cur EXCEPT ![h] = [cat |-> c, sec |-> categories[h][c]]]
            /\ Goto(h, "clearing")
    /\ UNCHANGED <<todo, parts, still, timer, results,
                   runVars, workVars, sharedVars, delivered, clockVars>>

\* ... and removes it under others.
ClearDelete(h) ==
    /\ at[h] = "clearing"
    /\ RemoveKey(h, cur[h].cat, cur[h].sec, "timeout")
    /\ cur' = [cur EXCEPT ![h] = NoCategory]
    /\ Goto(h, "clear")
    /\ UNCHANGED <<todo, parts, still, timer, clears, results,
                   runVars, workVars, delivered, clockVars>>

ClearDone(h) ==
    /\ at[h] = "clear" /\ clears[h] = {}
    /\ still' = [still EXCEPT ![h] = FALSE]
    /\ Goto(h, "head")
    /\ UNCHANGED <<todo, cur, parts, timer, clears, results,
                   runVars, workVars, sharedVars, delivered, clockVars>>

-----------------------------------------------------------------------------
(* The delivery worker of a category in handleHealthzConsumer *)

\* ev, ok := livenessTickerCache[cacherKey] under the read lock.
Lookup(c) ==
    /\ worker[c].at = "idle" /\ delivered[c] # << >>
    /\ delivered' = [delivered EXCEPT ![c] = Tail(@)]
    /\ LET s == Head(delivered[c]).sec
       IN /\ consumed' = [consumed EXCEPT ![c][s] = @ + 1]
          /\ worker' = [worker EXCEPT ![c] =
                 IF cache[c][s] = NoHandler THEN IdleWorker
                 ELSE [at |-> "evict", sec |-> s, ev |-> cache[c][s]]]
    /\ UNCHANGED <<handlerVars, runVars, sharedVars, clockVars>>

\* delete(livenessTickerCache, cacherKey), whoever is in it by now; then
\* RemoveBySerialNo and the first half of Remove, which read the categories of
\* the handler found and commute with all that may come in between.
Evict(c) ==
    /\ worker[c].at = "evict"
    /\ cache' = [cache EXCEPT ![c][worker[c].sec] = NoHandler]
    /\ worker' = [worker EXCEPT ![c] =
           IF categories[worker[c].ev][c] = worker[c].sec THEN [@ EXCEPT !.at = "remove"]
           ELSE IdleWorker]
    /\ UNCHANGED <<handlerVars, runVars, consumed, categories, pushes, delivered, clockVars>>

\* The second half of Remove.
WorkerRemove(c) ==
    /\ worker[c].at = "remove"
    /\ RemoveKey(worker[c].ev, c, worker[c].sec, "success")
    /\ worker' = [worker EXCEPT ![c] = IdleWorker]
    /\ UNCHANGED <<handlerVars, runVars, consumed, delivered, clockVars>>

-----------------------------------------------------------------------------
(* RabbitMQ.Run of a category *)

\* Run is in its select.
InSelect(c) == flush[c] = << >> /\ status[c] = NoStatus

\* Channel.Publish, then pm.PublishStatus <- status, which waits for the handler.
Publish(c, m) ==
    /\ status' = [status EXCEPT ![c] = [to |-> m.to, ok |-> link[c] = "up"]]
    /\ delivered' = IF link[c] = "up" THEN [delivered EXCEPT ![c] = Append(@, m)]
                    ELSE delivered

\* case pm := <-r.Publish
RunPublish(c) ==
    /\ InSelect(c) /\ channel[c] # << >>
    /\ channel' = [channel EXCEPT ![c] = Tail(@)]
    /\ IF link[c] = "nil"
       THEN /\ pending' = [pending EXCEPT ![c] = Append(@, Head(channel[c]))]
            /\ UNCHANGED <<status, delivered>>
       ELSE Publish(c, Head(channel[c])) /\ UNCHANGED pending
    /\ UNCHANGED <<handlerVars, flush, link, workVars, sharedVars, clockVars>>

\* ensurePendings, one message after the other.
FlushOne(c) ==
    /\ flush[c] # << >> /\ status[c] = NoStatus
    /\ flush' = [flush EXCEPT ![c] = Tail(@)]
    /\ Publish(c, Head(flush[c]))
    /\ UNCHANGED <<handlerVars, channel, pending, link, workVars, sharedVars, clockVars>>

\* case err := <-r.eventConnClosed
RunNotices(c) ==
    /\ InSelect(c) /\ link[c] = "broken"
    /\ link' = [link EXCEPT ![c] = "nil"]
    /\ UNCHANGED <<handlerVars, channel, pending, flush, status, workVars, sharedVars,
                   delivered, clockVars>>

\* initConn succeeds: ensurePendings takes the pending messages.
RunReconnects(c) ==
    /\ InSelect(c) /\ link[c] = "nil"
    /\ link' = [link EXCEPT ![c] = "up"]
    /\ flush' = [flush EXCEPT ![c] = pending[c]]
    /\ pending' = [pending EXCEPT ![c] = << >>]
    /\ UNCHANGED <<handlerVars, channel, status, workVars, sharedVars, delivered, clockVars>>

\* The connection breaks (external); the health queue deletes itself, what was
\* in it may be lost.
LinkBreaks(c) ==
    /\ faults < MaxFaults /\ faults' = faults + 1
    /\ link[c] = "up"
    /\ link' = [link EXCEPT ![c] = "broken"]
    /\ delivered' \in {delivered, [delivered EXCEPT ![c] = << >>]}
    /\ UNCHANGED <<handlerVars, channel, pending, flush, status, workVars, sharedVars, pings,
                   route, enabling, now>>

Clock ==
    /\ now < MaxSecond /\ now' = now + 1
    /\ UNCHANGED <<handlerVars, runVars, workVars, sharedVars, delivered, pings, route,
                   enabling, faults>>

-----------------------------------------------------------------------------

Handler(h) ==
    \/ \E c \in Categories : CheckMQMessage(h, c)
    \/ Register(h) \/ StartChecks(h)
    \/ LoopHead(h) \/ LoopBody(h)
    \/ SelectTimer(h) \/ SelectQuit(h)
    \/ \E r \in pushes[h] : SelectTrigger(h, r)
    \/ \E c \in Categories : SelectEvent(h, c) \/ ClearCheck(h, c)
    \/ ClearDelete(h) \/ ClearDone(h)

Worker(c) == Lookup(c) \/ Evict(c) \/ WorkerRemove(c)

Run(c) == RunPublish(c) \/ FlushOne(c) \/ RunNotices(c) \/ RunReconnects(c)

Next ==
    \/ \E h \in Handlers : Request(h) \/ Handler(h)
    \/ \E c \in Categories : Worker(c) \/ Run(c) \/ LinkBreaks(c)
    \/ Clock

\* The goroutines go on; nobody needs to ask for /healthz.
Fairness ==
    /\ \A h \in Handlers : WF_vars(Handler(h))
    /\ \A c \in Categories : WF_vars(Worker(c)) /\ WF_vars(Run(c))

Spec == Init /\ [][Next]_vars /\ Fairness

-----------------------------------------------------------------------------

\* Type invariant.
TypeOK ==
    /\ at \in [Handlers -> {"idle", "check", "register", "head", "body", "select",
                            "clear", "clearing", "gone", "excused"}]
    /\ todo \in [Handlers -> SUBSET Categories]
    /\ cur \in [Handlers -> Keys \cup {NoCategory}]
    /\ \A h \in Handlers :
           cur[h] # NoCategory <=> at[h] \in {"register", "clearing"}
    /\ categories \in [Handlers -> [Categories -> 0 .. MaxSecond]]
    /\ parts \in [Handlers -> SUBSET Names] /\ clears \in [Handlers -> SUBSET Categories]
    /\ still \in [Handlers -> BOOLEAN] /\ timer \in [Handlers -> {"armed", "quit"}]
    /\ results \in [Handlers -> [Names -> {"unset", "sent"} \cup Statuses]]
    /\ pushes \in [Handlers -> SUBSET [name : Names, status : Statuses]]
    /\ cache \in [Categories -> [Seconds -> Handlers \cup {NoHandler}]]
    /\ {channel, pending, flush, delivered} \subseteq [Categories -> Seq(Messages)]
    /\ \A c \in Categories : Len(channel[c]) <= ChannelSize
    /\ status \in [Categories -> [to : Handlers \cup {NoHandler}, ok : BOOLEAN]]
    /\ worker \in [Categories -> [at : {"evict", "remove"}, sec : Seconds, ev : Handlers]
                                     \cup {IdleWorker}]
    /\ consumed \in [Categories -> [Seconds -> Nat]]
    /\ link \in [Categories -> {"up", "broken", "nil"}]
    /\ route \in [Categories -> Routes] /\ enabling \in Seconds
    /\ pings \subseteq Pings /\ now \in Seconds /\ faults \in 0 .. MaxFaults

\* What has been reported, or is on its way to the handler.
Reported(h, c, st) == results[h][c] = st \/ Result(c, st) \in pushes[h]

\* The messages of a category that came back, numbered within their second.
Back(c) == UNION {{s} \X (1 .. consumed[c][s]) : s \in Seconds}

\* A request that was checked and answered before its two seconds were over has
\* the result of every ping, and the message of every category with a route came
\* back: a message that could not be sent, be it refused or failed, is waited for
\* until the timeout, and no result that is pushed for it ends the wait.  The "Ok"
\* of a request that SetDelayCheckNetworking excused has heard of nothing.
NoEarlyAnswer ==
    \A h \in Handlers : at[h] = "gone" /\ timer[h] = "armed" =>
        /\ \A p \in pings : results[h][p] \in {"success", "failed"}
        /\ \A c \in Categories : route[c] # "missing" => Back(c) # {}

\* No request is told "success" for a message that did not come back: requests
\* of the same second share a key, but each message that comes back makes one of
\* them successful at most.
OneSuccessPerMessage ==
    \A c \in Categories :
        Cardinality({h \in Handlers : Reported(h, c, "success")}) <= Cardinality(Back(c))

\* Run waits for a request that has been answered: nobody takes the status.
StuckRun(c) == status[c].to # NoHandler /\ at[status[c].to] = "gone"

\* Every request is answered: the timer always gets it out of the loop, however
\* the results come in - unless Run is stuck, which leaves r.Publish full.
RequestsEnd ==
    \A h \in Handlers : at[h] = "check" ~> at[h] = "gone" \/ \E c \in Categories : StuckRun(c)

\* "2. expect messages from the message hub on the Publish channel 3. if the
\* connection is closed, try to restart it" (Run): an instance that has lost its
\* connection comes back to its select with a new one.
ResumesPublishing ==
    \A c \in Categories : link[c] = "nil" ~> link[c] = "up" /\ InSelect(c)

=============================================================================
