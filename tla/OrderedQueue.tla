---------------------------- MODULE OrderedQueue ----------------------------
(***************************************************************************)
(* queues.OrderedQueue: a slice of elements kept sorted by OrderingValue() *)
(* and guarded by one mutex.                                               *)
(*                                                                         *)
(* Add, Remove and GetOne locate a position with the bisection loop of     *)
(* findOrderedQueueInsertingIndex.  Every iteration of that loop is a step *)
(* of its own (SearchStep), so that its loop invariant is an invariant of  *)
(* this specification and can be proved for queues of every length.        *)
(*                                                                         *)
(* Go's indexes count from 0: the element at index i is queue[i + 1].      *)
(***************************************************************************)
EXTENDS Integers, Sequences

CONSTANTS Elements,     \* the IElement values the callers use: records with
                        \* the fields id (GetID) and ord (OrderingValue)
          Descending,   \* TRUE for NewDescOrderingQueue
          MaxLen        \* bound on the length of the queue

ASSUME ElementsAssumption ==
    \A e \in Elements : e.ord \in Int
ASSUME OrderingAssumption ==
    Descending \in BOOLEAN
ASSUME MaxLenAssumption ==
    MaxLen \in Nat

VARIABLES queue,        \* OrderedQueue.queue
          m,            \* the mutex: "free", "held" by a running operation,
                        \* or "dead": held by an operation that panicked
          cur,          \* the locals of the running operation
          ret           \* what the last finished operation returned

vars == <<queue, m, cur, ret>>

SearchOps == {"Add", "Remove", "GetOne"}

(***************************************************************************)
(* Whether a is ordered strictly before b: the comparison of the loop,     *)
(* which checkInsertBefore repeats.                                        *)
(***************************************************************************)
Before(a, b) == IF Descending THEN a.ord > b.ord ELSE a.ord < b.ord

Locals == [op : SearchOps, item : Elements, idx : Int, minIdx : Int,
           maxIdx : Int, found : BOOLEAN]

Results == [op : SearchOps \cup {"none", "Pop", "PopMany", "CutBefore", "CutAfter"},
            ok : BOOLEAN, items : Seq(Elements)]

Return(op, ok, items) == ret' = [op |-> op, ok |-> ok, items |-> items]

\* queue[0:idx] ++ [item] ++ queue[idx:]
InsertAt(q, idx, item) ==
    [i \in 1 .. Len(q) + 1 |-> IF i <= idx THEN q[i]
                               ELSE IF i = idx + 1 THEN item
                               ELSE q[i - 1]]

\* queue[0:idx] ++ queue[idx+1:]
RemoveAt(q, idx) ==
    [i \in 1 .. Len(q) - 1 |-> IF i <= idx THEN q[i] ELSE q[i + 1]]

\* queue[n:]
DropFirst(q, n) == [i \in 1 .. Len(q) - n |-> q[i + n]]

-----------------------------------------------------------------------------

Init ==
    /\ queue = << >>
    /\ m = "free"
    /\ cur = << >>
    /\ ret = [op |-> "none", ok |-> TRUE, items |-> << >>]

(***************************************************************************)
(* An operation that bisects takes the lock and sets up the loop.  On an   *)
(* empty queue the loop is not entered: the index is 0.                    *)
(***************************************************************************)
BeginSearch(op, item) ==
    /\ m = "free"
    /\ op = "Add" => Len(queue) < MaxLen
    /\ m' = "held"
    /\ cur' = [op |-> op, item |-> item, idx |-> Len(queue) \div 2,
               minIdx |-> 0, maxIdx |-> Len(queue) - 1,
               found |-> Len(queue) = 0]
    /\ UNCHANGED <<queue, ret>>

\* Mutant: the middle is rounded down.
SearchStepRoundsDown ==
    /\ m = "held" /\ ~cur.found
    /\ LET left == Before(cur.item, queue[cur.idx + 1])
           min  == IF left THEN cur.minIdx ELSE cur.idx + 1
           max  == IF left THEN cur.idx - 1 ELSE cur.maxIdx
           mid  == (min + max) \div 2
       IN IF left /\ cur.idx <= 0
          THEN cur' = [cur EXCEPT !.found = TRUE]
          ELSE cur' = [cur EXCEPT !.idx = mid, !.minIdx = min, !.maxIdx = max,
                                  !.found = mid = cur.idx \/ mid >= Len(queue)]
    /\ UNCHANGED <<queue, m, ret>>

\* Mutant: the loop is not left when the probe does not move.
SearchStepNoBreak ==
    /\ m = "held" /\ ~cur.found
    /\ LET left == Before(cur.item, queue[cur.idx + 1])
           min  == IF left THEN cur.minIdx ELSE cur.idx + 1
           max  == IF left THEN cur.idx - 1 ELSE cur.maxIdx
           mid  == (min + max + 1) \div 2
       IN IF left /\ cur.idx <= 0
          THEN cur' = [cur EXCEPT !.found = TRUE]
          ELSE cur' = [cur EXCEPT !.idx = mid, !.minIdx = min, !.maxIdx = max,
                                  !.found = mid >= Len(queue)]
    /\ UNCHANGED <<queue, m, ret>>

(***************************************************************************)
(* One iteration: compare with the probed element, move one of the two     *)
(* bounds, probe the middle of what is left, and stop when the probe does  *)
(* not move or leaves the slice.                                           *)
(***************************************************************************)
SearchStep ==
    /\ m = "held" /\ ~cur.found
    /\ LET left == Before(cur.item, queue[cur.idx + 1])
           min  == IF left THEN cur.minIdx ELSE cur.idx + 1
           max  == IF left THEN cur.idx - 1 ELSE cur.maxIdx
           mid  == (min + max + 1) \div 2
       IN IF left /\ cur.idx <= 0
          THEN cur' = [cur EXCEPT !.found = TRUE]
          ELSE cur' = [cur EXCEPT !.idx = mid, !.minIdx = min, !.maxIdx = max,
                                  !.found = mid = cur.idx \/ mid >= Len(queue)]
    /\ UNCHANGED <<queue, m, ret>>

\* Mutant: Add returns without unlocking.
FinishAddKeepsLock ==
    /\ m = "held" /\ cur.found /\ cur.op = "Add"
    /\ queue' = InsertAt(queue, cur.idx, cur.item)
    /\ cur' = << >>
    /\ Return("Add", TRUE, <<cur.item>>)
    /\ UNCHANGED m

FinishAdd ==
    /\ m = "held" /\ cur.found /\ cur.op = "Add"
    /\ queue' = InsertAt(queue, cur.idx, cur.item)
    /\ m' = "free" /\ cur' = << >>
    /\ Return("Add", TRUE, <<cur.item>>)

\* Mutant: the element in front of the insertion point is not looked at.
FoundAtForwardOnly(q, idx, item) ==
    LET hit(i) == i \in 0 .. Len(q) - 1 /\ q[i + 1].id = item.id
    IN IF hit(idx) THEN idx ELSE IF hit(idx + 1) THEN idx + 1 ELSE -1

(***************************************************************************)
(* findElementIndex looks for the id at the two indexes from the insertion *)
(* point on and at the one before it, in this order.  Indexes outside the  *)
(* slice are not read.                                                     *)
(***************************************************************************)
FoundAt(q, idx, item) ==
    LET hit(i) == i \in 0 .. Len(q) - 1 /\ q[i + 1].id = item.id
    IN IF hit(idx) THEN idx
       ELSE IF hit(idx + 1) THEN idx + 1
       ELSE IF hit(idx - 1) THEN idx - 1
       ELSE -1

FinishRemove ==
    /\ m = "held" /\ cur.found /\ cur.op = "Remove"
    /\ LET at == FoundAt(queue, cur.idx, cur.item)
       IN /\ queue' = IF at < 0 THEN queue ELSE RemoveAt(queue, at)
          /\ Return("Remove", at >= 0, <<cur.item>>)
    /\ m' = "free" /\ cur' = << >>

\* GetOne answers with the item it was given, not with the one it found.
FinishGetOne ==
    /\ m = "held" /\ cur.found /\ cur.op = "GetOne"
    /\ Return("GetOne", FoundAt(queue, cur.idx, cur.item) >= 0, <<cur.item>>)
    /\ m' = "free" /\ cur' = << >>
    /\ UNCHANGED queue

Pop ==
    /\ m = "free"
    /\ IF queue = << >>
       THEN Return("Pop", FALSE, << >>) /\ UNCHANGED queue
       ELSE /\ Return("Pop", TRUE, <<queue[1]>>)
            /\ queue' = DropFirst(queue, 1)
    /\ UNCHANGED <<m, cur>>

PopMany(maxResults) ==
    /\ m = "free"
    /\ LET n == IF Len(queue) > maxResults THEN maxResults ELSE Len(queue)
       IN IF queue = << >> \/ maxResults <= 0
          THEN Return("PopMany", FALSE, << >>) /\ UNCHANGED queue
          ELSE /\ Return("PopMany", TRUE, [i \in 1 .. n |-> queue[i]])
               /\ queue' = DropFirst(queue, n)
    /\ UNCHANGED <<m, cur>>

(***************************************************************************)
(* CutBefore and CutAfter as written: the whole queue is cut when the      *)
(* index lies inside it (CutBefore), nothing is (CutAfter), and an index   *)
(* beyond the end slices out of range: the operation panics and its mutex, *)
(* which no deferred call releases, stays locked.                          *)
(***************************************************************************)
Panic ==
    /\ m' = "dead"
    /\ UNCHANGED <<queue, cur, ret>>

CutBefore(idx) ==
    /\ m = "free"
    /\ \/ idx < 0 /\ Return("CutBefore", TRUE, << >>) /\ UNCHANGED <<queue, m, cur>>
       \/ /\ idx \in 0 .. Len(queue)
          /\ Return("CutBefore", TRUE, queue)
          /\ queue' = << >>
          /\ UNCHANGED <<m, cur>>
       \/ idx > Len(queue) /\ Panic

CutAfter(idx) ==
    /\ m = "free"
    /\ \/ /\ idx < 0
          /\ Return("CutAfter", TRUE, queue)
          /\ queue' = << >>
          /\ UNCHANGED <<m, cur>>
       \/ /\ idx \in 0 .. Len(queue)
          /\ Return("CutAfter", TRUE, << >>)
          /\ UNCHANGED <<queue, m, cur>>
       \/ idx > Len(queue) /\ Panic

FinishSearch == FinishAdd \/ FinishRemove \/ FinishGetOne

Next ==
    \/ \E op \in SearchOps, item \in Elements : BeginSearch(op, item)
    \/ SearchStep
    \/ FinishSearch
    \/ Pop
    \/ \E n \in 0 .. MaxLen : PopMany(n)
    \/ \E i \in -1 .. MaxLen + 1 : CutBefore(i) \/ CutAfter(i)

\* An operation that holds the lock runs on: Go schedules its goroutine.
Spec == Init /\ [][Next]_vars /\ WF_vars(SearchStep \/ FinishSearch)

-----------------------------------------------------------------------------

\* Type invariant: the shapes of the slice, the mutex and the locals.
TypeOK ==
    /\ queue \in Seq(Elements)
    /\ m \in {"free", "held", "dead"}
    /\ m = "held" => cur \in Locals
    /\ ret \in Results

\* The slice is sorted by OrderingValue in the queue's direction after every
\* operation, whatever the bisection in findOrderedQueueInsertingIndex did.
Sorted ==
    \A i, j \in 1 .. Len(queue) : i < j => ~Before(queue[j], queue[i])

\* The loop invariant of the bisection: everything before minIdx stays in
\* front of the item, everything after maxIdx goes behind it, the probe lies
\* between the two, and the index the loop stops at separates them.
BisectionOK ==
    m = "held" =>
        /\ 0 <= cur.minIdx /\ cur.minIdx <= cur.maxIdx + 1
        /\ cur.maxIdx < Len(queue)
        /\ cur.idx \in 0 .. Len(queue)
        /\ \A i \in 0 .. Len(queue) - 1 :
              /\ i < cur.minIdx => ~Before(cur.item, queue[i + 1])
              /\ i > cur.maxIdx => Before(cur.item, queue[i + 1])
        /\ ~cur.found => /\ cur.idx < Len(queue)
                         /\ cur.idx = (cur.minIdx + cur.maxIdx + 1) \div 2
        /\ cur.found =>
              \A i \in 0 .. Len(queue) - 1 :
                  Before(cur.item, queue[i + 1]) <=> i >= cur.idx

\* Every bisection stops: the lock taken for a search is released again.
SearchTerminates == m = "held" ~> m # "held"

\* As long as the ordering values in the queue are pairwise different, and no
\* other element there has the id of the given one, the window of
\* findElementIndex is wide enough: Remove reports success exactly when an
\* element equal to the given one was there, and then it is gone.
DistinctOrders == \A i, j \in 1 .. Len(queue) : queue[i].ord = queue[j].ord => i = j
IdIdentifies   == \A i \in 1 .. Len(queue) : queue[i].id = cur.item.id => queue[i] = cur.item

RemoveFindsDistinct ==
    [][FinishRemove /\ DistinctOrders /\ IdIdentifies =>
        /\ ret'.ok <=> \E i \in 1 .. Len(queue) : queue[i] = cur.item
        /\ \A i \in 1 .. Len(queue') : queue'[i] # cur.item]_vars

\* "Remove an element from queue identified by element.GetID()": an element
\* that is in the queue is removed.
RemoveById ==
    [][FinishRemove /\ (\E i \in 1 .. Len(queue) : queue[i] = cur.item) =>
        ret'.ok]_vars

\* "CutBefore cut elements out before index" and "CutAfter cut elements out
\* after index": with an index inside the queue the elements from the index on
\* stay, and no element behind the index does.
CutsAtIndex ==
    [][\A i \in 0 .. Len(queue) - 1 :
        /\ CutBefore(i) => queue' = DropFirst(queue, i)
        /\ CutAfter(i)  => Len(queue') <= i + 1]_vars

=============================================================================
