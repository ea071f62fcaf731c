------------------------- MODULE OrderedQueueProofs -------------------------
(***************************************************************************)
(* The bisection of queues.OrderedQueue keeps the slice sorted, for every  *)
(* set of elements, both directions and queues of every length; Remove     *)
(* finds an element if no other one has its ordering value.                *)
(***************************************************************************)
EXTENDS OrderedQueue, TLAPS

\* The inductive invariant: a sorted slice and the loop invariant of the
\* bisection need each other.
IInv == TypeOK /\ Sorted /\ BisectionOK

-----------------------------------------------------------------------------
\* The three slice operations yield sequences again, of the expected length.

\* Inserting at an index of 0 .. Len lengthens the slice by one element.
LEMMA InsertAtType ==
    ASSUME NEW q \in Seq(Elements), NEW idx \in 0 .. Len(q), NEW item \in Elements
    PROVE  /\ InsertAt(q, idx, item) \in Seq(Elements)
           /\ Len(InsertAt(q, idx, item)) = Len(q) + 1
           /\ \A i \in 1 .. Len(q) + 1 :
                 InsertAt(q, idx, item)[i] = IF i <= idx THEN q[i]
                                             ELSE IF i = idx + 1 THEN item
                                             ELSE q[i - 1]
  BY DEF InsertAt

\* Removing the element at an index shortens the slice by one element.
LEMMA RemoveAtType ==
    ASSUME NEW q \in Seq(Elements), NEW idx \in 0 .. Len(q) - 1
    PROVE  /\ RemoveAt(q, idx) \in Seq(Elements)
           /\ Len(RemoveAt(q, idx)) = Len(q) - 1
           /\ \A i \in 1 .. Len(q) - 1 :
                 RemoveAt(q, idx)[i] = IF i <= idx THEN q[i] ELSE q[i + 1]
  BY DEF RemoveAt

\* Dropping a prefix leaves the rest.
LEMMA DropFirstType ==
    ASSUME NEW q \in Seq(Elements), NEW n \in 0 .. Len(q)
    PROVE  /\ DropFirst(q, n) \in Seq(Elements)
           /\ Len(DropFirst(q, n)) = Len(q) - n
           /\ \A i \in 1 .. Len(q) - n : DropFirst(q, n)[i] = q[i + n]
  BY DEF DropFirst

\* findElementIndex answers -1 or an index of the slice.
LEMMA FoundAtRange ==
    ASSUME NEW q \in Seq(Elements), NEW idx \in 0 .. Len(q), NEW item \in Elements
    PROVE  FoundAt(q, idx, item) = -1 \/ FoundAt(q, idx, item) \in 0 .. Len(q) - 1
  BY DEF FoundAt

\* A result record of an operation is one of Results.
LEMMA ResultType ==
    ASSUME NEW op \in {"Add", "Remove", "GetOne", "Pop", "PopMany", "CutBefore", "CutAfter"},
           NEW ok \in BOOLEAN, NEW items \in Seq(Elements)
    PROVE  [op |-> op, ok |-> ok, items |-> items] \in Results
  BY DEF Results, SearchOps

\* The empty slice.
LEMMA EmptySlice == << >> \in Seq(Elements) /\ Len(<< >>) = 0
  OBVIOUS

-----------------------------------------------------------------------------
\* Sortedness, stated for an arbitrary slice.
SortedSeq(q) == \A i, j \in 1 .. Len(q) : i < j => ~Before(q[j], q[i])

\* Inserting at an index that separates what is not behind the item from what
\* is behind it keeps the slice sorted.
LEMMA InsertKeepsSorted ==
    ASSUME NEW q \in Seq(Elements), NEW idx \in 0 .. Len(q), NEW item \in Elements,
           SortedSeq(q),
           \A i \in 0 .. Len(q) - 1 : Before(item, q[i + 1]) <=> i >= idx
    PROVE  SortedSeq(InsertAt(q, idx, item))
  <1> DEFINE r == InsertAt(q, idx, item)
  <1>1. Len(r) = Len(q) + 1
    BY InsertAtType
  <1>2. ASSUME NEW i \in 1 .. Len(q) + 1, NEW j \in 1 .. Len(q) + 1, i < j
        PROVE  ~Before(r[j], r[i])
    <2>1. /\ r[i] = IF i <= idx THEN q[i] ELSE IF i = idx + 1 THEN item ELSE q[i - 1]
          /\ r[j] = IF j <= idx THEN q[j] ELSE IF j = idx + 1 THEN item ELSE q[j - 1]
      BY InsertAtType
    <2> HIDE DEF r
    <2>2. CASE j <= idx
      BY <1>2, <2>1, <2>2 DEF SortedSeq
    <2>3. CASE j = idx + 1
      <3>1. i - 1 \in 0 .. Len(q) - 1 /\ i - 1 < idx /\ r[i] = q[i] /\ r[j] = item
        BY <1>2, <2>1, <2>3
      <3>2. ~Before(item, q[(i - 1) + 1])
        BY <3>1
      <3> QED BY <3>1, <3>2
    <2>4. CASE j > idx + 1 /\ i <= idx
      BY <1>2, <2>1, <2>4 DEF SortedSeq
    <2>5. CASE j > idx + 1 /\ i = idx + 1
      <3>1. j - 2 \in 0 .. Len(q) - 1 /\ j - 2 >= idx /\ r[i] = item /\ r[j] = q[j - 1]
        BY <1>2, <2>1, <2>5
      <3>2. Before(item, q[(j - 2) + 1])
        BY <3>1
      <3>3. q[j - 1] \in Elements
        BY <3>1
      <3> QED BY <3>1, <3>2, <3>3, ElementsAssumption DEF Before
    <2>6. CASE j > idx + 1 /\ i > idx + 1
      BY <1>2, <2>1, <2>6 DEF SortedSeq
    <2> QED BY <2>2, <2>3, <2>4, <2>5, <2>6
  <1> QED BY <1>1, <1>2 DEF SortedSeq

\* Removing one element keeps the slice sorted.
LEMMA RemoveKeepsSorted ==
    ASSUME NEW q \in Seq(Elements), NEW idx \in 0 .. Len(q) - 1, SortedSeq(q)
    PROVE  SortedSeq(RemoveAt(q, idx))
  <1> DEFINE r == RemoveAt(q, idx)
  <1>1. /\ Len(r) = Len(q) - 1
        /\ \A i \in 1 .. Len(q) - 1 : r[i] = IF i <= idx THEN q[i] ELSE q[i + 1]
    BY RemoveAtType
  <1> HIDE DEF r
  <1>2. SortedSeq(r)
    BY <1>1 DEF SortedSeq
  <1> QED BY <1>2 DEF r

\* Dropping a prefix keeps the slice sorted.
LEMMA DropKeepsSorted ==
    ASSUME NEW q \in Seq(Elements), NEW n \in 0 .. Len(q), SortedSeq(q)
    PROVE  SortedSeq(DropFirst(q, n))
  <1> DEFINE r == DropFirst(q, n)
  <1>1. Len(r) = Len(q) - n /\ \A i \in 1 .. Len(q) - n : r[i] = q[i + n]
    BY DropFirstType
  <1> HIDE DEF r
  <1>2. SortedSeq(r)
    BY <1>1 DEF SortedSeq
  <1> QED BY <1>2 DEF r

-----------------------------------------------------------------------------
\* Halving an interval: the probe lies between the bounds, and reaches the
\* upper one only when the interval is empty.
LEMMA Middle ==
    ASSUME NEW a \in Int, NEW b \in Int, a <= b + 1
    PROVE  /\ (a + b + 1) \div 2 \in Int
           /\ a <= (a + b + 1) \div 2
           /\ (a + b + 1) \div 2 <= b + 1
           /\ a = b + 1 <=> (a + b + 1) \div 2 = b + 1
  OBVIOUS

\* In a sorted slice, what is ordered before an element is ordered before all
\* that follow it, and what is not is not ordered before any in front of it.
LEMMA BeforeSorted ==
    ASSUME NEW q \in Seq(Elements), SortedSeq(q), NEW item \in Elements,
           NEW i \in 0 .. Len(q) - 1, NEW j \in 0 .. Len(q) - 1, i <= j,
           Before(item, q[i + 1])
    PROVE  Before(item, q[j + 1])
  <1>1. CASE i = j
    BY <1>1
  <1>2. CASE i < j
    <2>1. q[i + 1] \in Elements /\ q[j + 1] \in Elements
      OBVIOUS
    <2>2. ~Before(q[j + 1], q[i + 1])
      BY <1>2 DEF SortedSeq
    <2> QED BY <2>1, <2>2, ElementsAssumption DEF Before
  <1> QED BY <1>1, <1>2

\* Initially the slice is empty and no operation runs.
LEMMA InitIInv == Init => IInv
  BY DEF Init, IInv, TypeOK, Sorted, BisectionOK, Results

\* Taking the lock for a search establishes the loop invariant.
LEMMA BeginSearchIInv ==
    ASSUME IInv, NEW op \in SearchOps, NEW item \in Elements, BeginSearch(op, item)
    PROVE  IInv'
  <1>1. TypeOK'
    BY DEF IInv, TypeOK, BeginSearch, Locals
  <1>2. Sorted'
    BY DEF IInv, Sorted, BeginSearch, Before
  <1>3. BisectionOK'
    <2>1. /\ queue' = queue /\ Len(queue) \in Nat
          /\ cur'.item = item /\ cur'.idx = Len(queue) \div 2 /\ cur'.minIdx = 0
          /\ cur'.maxIdx = Len(queue) - 1 /\ cur'.found = (Len(queue) = 0)
      BY DEF IInv, TypeOK, BeginSearch
    <2>2. /\ Len(queue) \div 2 \in 0 .. Len(queue)
          /\ Len(queue) # 0 => Len(queue) \div 2 < Len(queue)
          /\ Len(queue) \div 2 = (0 + (Len(queue) - 1) + 1) \div 2
      BY <2>1
    <2>3. cur'.idx \in 0 .. Len(queue') /\ cur'.maxIdx < Len(queue')
      BY <2>1, <2>2
    <2>4. ~cur'.found => /\ cur'.idx < Len(queue')
                         /\ cur'.idx = (cur'.minIdx + cur'.maxIdx + 1) \div 2
      BY <2>1, <2>2
    <2>5. \A i \in 0 .. Len(queue') - 1 : ~(i < cur'.minIdx) /\ ~(i > cur'.maxIdx)
      BY <2>1
    <2>6. cur'.found => \A i \in 0 .. Len(queue') - 1 : FALSE
      <3>1. cur'.found => Len(queue') = 0
        BY <2>1
      <3> QED BY <3>1
    <2>7. 0 <= cur'.minIdx /\ cur'.minIdx <= cur'.maxIdx + 1
      BY <2>1
    <2> QED BY <2>3, <2>4, <2>5, <2>6, <2>7 DEF BisectionOK
  <1> QED BY <1>1, <1>2, <1>3 DEF IInv

\* One iteration of the loop keeps the loop invariant, and when it leaves the
\* loop the index separates the elements before the item from those behind it.
LEMMA SearchStepIInv ==
    ASSUME IInv, SearchStep
    PROVE  IInv'
  <1> DEFINE left == Before(cur.item, queue[cur.idx + 1])
             min  == IF left THEN cur.minIdx ELSE cur.idx + 1
             max  == IF left THEN cur.idx - 1 ELSE cur.maxIdx
             mid  == (min + max + 1) \div 2
             n    == Len(queue)
  <1>1. /\ cur \in Locals /\ cur.item \in Elements /\ queue \in Seq(Elements) /\ n \in Nat
        /\ cur.idx \in Int /\ cur.minIdx \in Int /\ cur.maxIdx \in Int
        /\ m = "held" /\ cur.found = FALSE
        /\ queue' = queue /\ m' = m /\ ret' = ret
    BY DEF IInv, TypeOK, SearchStep, Locals
  <1>2. /\ 0 <= cur.minIdx /\ cur.minIdx <= cur.maxIdx + 1 /\ cur.maxIdx < n
        /\ 0 <= cur.idx /\ cur.idx < n
        /\ cur.idx = (cur.minIdx + cur.maxIdx + 1) \div 2
    BY <1>1 DEF IInv, BisectionOK
  <1>3. \A i \in 0 .. n - 1 : /\ i < cur.minIdx => ~Before(cur.item, queue[i + 1])
                              /\ i > cur.maxIdx => Before(cur.item, queue[i + 1])
    BY <1>1 DEF IInv, BisectionOK
  <1>4. SortedSeq(queue)
    BY DEF IInv, Sorted, SortedSeq
  <1>up. ASSUME NEW i \in 0 .. n - 1, NEW j \in 0 .. n - 1, i <= j,
                Before(cur.item, queue[i + 1])
         PROVE  Before(cur.item, queue[j + 1])
    BY <1>1, <1>4, <1>up, BeforeSorted
  <1>5. cur.minIdx <= cur.idx /\ cur.idx <= cur.maxIdx + 1
    <2> DEFINE a == cur.minIdx
               b == cur.maxIdx
    <2>1. a \in Int /\ b \in Int /\ a <= b + 1 /\ cur.idx = (a + b + 1) \div 2
      BY <1>1, <1>2
    <2> HIDE DEF a, b
    <2>2. a <= cur.idx /\ cur.idx <= b + 1
      BY <2>1, Middle
    <2> QED BY <2>2 DEF a, b
  <1>6. Sorted'
    BY <1>1 DEF IInv, Sorted, Before
  <1>7. CASE left /\ cur.idx <= 0
    <2>1. cur' = [cur EXCEPT !.found = TRUE]
      BY <1>7 DEF SearchStep
    <2>2. TypeOK'
      BY <1>1, <2>1 DEF IInv, TypeOK, Locals
    <2>3. /\ cur'.item = cur.item /\ cur'.idx = 0 /\ cur'.minIdx = cur.minIdx
          /\ cur'.maxIdx = cur.maxIdx /\ cur'.found = TRUE
      BY <1>1, <1>2, <1>7, <2>1 DEF Locals
    <2>4. \A i \in 0 .. n - 1 : Before(cur.item, queue[i + 1])
      <3> SUFFICES ASSUME NEW j \in 0 .. n - 1
                   PROVE  Before(cur.item, queue[j + 1])
        OBVIOUS
      <3>1. cur.idx \in 0 .. n - 1 /\ cur.idx <= j
        BY <1>1, <1>2, <1>7
      <3> QED BY <1>7, <3>1, <1>up
    <2>5. BisectionOK'
      <3>1. /\ 0 <= cur'.minIdx /\ cur'.minIdx <= cur'.maxIdx + 1
            /\ cur'.maxIdx < Len(queue') /\ cur'.idx \in 0 .. Len(queue')
        BY <1>1, <1>2, <2>3
      <3>2. \A i \in 0 .. Len(queue') - 1 :
               /\ i < cur'.minIdx => ~Before(cur'.item, queue'[i + 1])
               /\ i > cur'.maxIdx => Before(cur'.item, queue'[i + 1])
        BY <1>1, <1>3, <2>3
      <3>3. \A i \in 0 .. Len(queue') - 1 :
               Before(cur'.item, queue'[i + 1]) <=> i >= cur'.idx
        BY <1>1, <2>3, <2>4
      <3> QED BY <2>3, <3>1, <3>2, <3>3 DEF BisectionOK, Before
    <2> QED BY <1>6, <2>2, <2>5 DEF IInv
  <1>8. CASE ~(left /\ cur.idx <= 0)
    <2>1. cur' = [cur EXCEPT !.idx = mid, !.minIdx = min, !.maxIdx = max,
                             !.found = mid = cur.idx \/ mid >= n]
      BY <1>8 DEF SearchStep
    <2>2. min \in Int /\ max \in Int /\ mid \in Int
      <3>1. min \in Int /\ max \in Int
        BY <1>1
      <3> HIDE DEF min, max
      <3> QED BY <3>1
    <2>3. /\ cur'.item = cur.item /\ cur'.idx = mid /\ cur'.minIdx = min
          /\ cur'.maxIdx = max /\ cur'.found = (mid = cur.idx \/ mid >= n)
      BY <1>1, <2>1 DEF Locals
    <2>4. TypeOK'
      <3>1. cur' \in Locals
        BY <1>1, <2>1, <2>2 DEF Locals
      <3> QED BY <1>1, <3>1 DEF IInv, TypeOK
    \* The bounds stay around the insertion point ...
    <2>5. 0 <= min /\ min <= max + 1 /\ max < n
      <3>1. CASE left
        BY <1>1, <1>2, <1>5, <3>1
      <3>2. CASE ~left
        <4>1. cur.idx <= cur.maxIdx
          BY <1>1, <1>2, <1>3, <1>5, <3>2
        <4> QED BY <1>1, <1>2, <3>2, <4>1
      <3> QED BY <3>1, <3>2
    <2>6. \A i \in 0 .. n - 1 : /\ i < min => ~Before(cur.item, queue[i + 1])
                                /\ i > max => Before(cur.item, queue[i + 1])
      <3> SUFFICES ASSUME NEW k \in 0 .. n - 1
                   PROVE  /\ k < min => ~Before(cur.item, queue[k + 1])
                          /\ k > max => Before(cur.item, queue[k + 1])
        OBVIOUS
      <3>0. cur.idx \in 0 .. n - 1
        BY <1>1, <1>2
      <3>1. CASE left
        <4>1. k > cur.idx - 1 => Before(cur.item, queue[k + 1])
          BY <3>0, <3>1, <1>up
        <4> QED BY <1>3, <3>1, <4>1
      <3>2. CASE ~left
        <4>1. k < cur.idx + 1 => ~Before(cur.item, queue[k + 1])
          BY <3>0, <3>2, <1>up
        <4> QED BY <1>3, <3>2, <4>1
      <3> QED BY <3>1, <3>2
    \* ... and the loop stops exactly when nothing is left between them.
    <2>7. min <= mid /\ mid <= max + 1 /\ (min = max + 1 <=> mid = max + 1)
      <3> HIDE DEF min, max
      <3> QED BY <2>2, <2>5, Middle
    <2>8. ASSUME mid = cur.idx \/ mid >= n
          PROVE  min = mid /\ max = mid - 1
      <3>1. CASE left
        BY <1>1, <1>2, <2>2, <2>5, <2>7, <2>8, <3>1
      <3>2. CASE ~left
        <4>1. min = cur.idx + 1 /\ max = cur.maxIdx
          BY <3>2
        <4> HIDE DEF min, max, mid, left
        <4>2. mid >= n
          BY <1>1, <2>2, <2>7, <2>8, <4>1
        <4> QED BY <1>1, <1>2, <2>2, <2>5, <2>7, <4>1, <4>2
      <3> QED BY <3>1, <3>2
    <2>9. BisectionOK'
      <3> HIDE DEF min, max, mid, left
      <3>1. mid \in 0 .. n /\ (~(mid = cur.idx \/ mid >= n) => mid < n)
        BY <1>1, <2>2, <2>5, <2>7
      <3>2. mid = (min + max + 1) \div 2
        BY DEF mid
      <3>3. ASSUME mid = cur.idx \/ mid >= n, NEW i \in 0 .. n - 1
            PROVE  Before(cur.item, queue[i + 1]) <=> i >= mid
        BY <1>1, <2>2, <2>6, <2>8, <3>3
      <3>4. \A i \in 0 .. Len(queue') - 1 :
               Before(cur'.item, queue'[i + 1]) <=> Before(cur.item, queue[i + 1])
        BY <1>1, <2>3 DEF Before
      <3> QED
        BY <1>1, <2>2, <2>3, <2>5, <2>6, <3>1, <3>2, <3>3, <3>4 DEF BisectionOK, Before
    <2> QED BY <1>6, <2>4, <2>9 DEF IInv
  <1> QED BY <1>7, <1>8

\* Add inserts at the index the bisection stopped at.
LEMMA FinishAddIInv ==
    ASSUME IInv, FinishAdd
    PROVE  IInv'
  <1>1. /\ queue \in Seq(Elements) /\ cur.item \in Elements /\ cur.idx \in 0 .. Len(queue)
        /\ \A i \in 0 .. Len(queue) - 1 : Before(cur.item, queue[i + 1]) <=> i >= cur.idx
    BY DEF IInv, TypeOK, BisectionOK, Locals, FinishAdd
  <1>2. queue' = InsertAt(queue, cur.idx, cur.item) /\ m' = "free"
    BY DEF FinishAdd
  <1>3. TypeOK'
    <2>1. queue' \in Seq(Elements)
      BY <1>1, <1>2, InsertAtType
    <2>2. ret' \in Results
      BY <1>1 DEF FinishAdd, Return, Results, SearchOps
    <2> QED BY <1>2, <2>1, <2>2 DEF TypeOK
  <1>4. Sorted'
    <2>1. SortedSeq(queue)
      BY DEF IInv, Sorted, SortedSeq
    <2>2. SortedSeq(queue')
      BY <1>1, <1>2, <2>1, InsertKeepsSorted
    <2> QED BY <2>2 DEF Sorted, SortedSeq, Before
  <1>5. BisectionOK'
    BY <1>2 DEF BisectionOK
  <1> QED BY <1>3, <1>4, <1>5 DEF IInv

\* Remove takes out the element findElementIndex points at, or none.
LEMMA FinishRemoveIInv ==
    ASSUME IInv, FinishRemove
    PROVE  IInv'
  <1> DEFINE at == FoundAt(queue, cur.idx, cur.item)
  <1>1. queue \in Seq(Elements) /\ cur.item \in Elements /\ cur.idx \in 0 .. Len(queue)
    BY DEF IInv, TypeOK, BisectionOK, Locals, FinishRemove
  <1>2. /\ queue' = IF at < 0 THEN queue ELSE RemoveAt(queue, at)
        /\ m' = "free"
    BY DEF FinishRemove
  <1>3. at = -1 \/ at \in 0 .. Len(queue) - 1
    BY <1>1, FoundAtRange
  <1>4. ret' \in Results
    <2> HIDE DEF at
    <2>1. ret' = [op |-> "Remove", ok |-> at >= 0, items |-> <<cur.item>>]
      BY DEF FinishRemove, Return, at
    <2> QED BY <1>1, <1>3, <2>1 DEF Results, SearchOps
  <1>5. SortedSeq(queue)
    BY DEF IInv, Sorted, SortedSeq
  <1> HIDE DEF at
  <1>6. queue' \in Seq(Elements) /\ SortedSeq(queue')
    BY <1>1, <1>2, <1>3, <1>5, RemoveAtType, RemoveKeepsSorted
  <1>7. TypeOK'
    BY <1>2, <1>4, <1>6 DEF TypeOK
  <1>8. Sorted'
    BY <1>6 DEF Sorted, SortedSeq, Before
  <1>9. BisectionOK'
    BY <1>2 DEF BisectionOK
  <1> QED BY <1>7, <1>8, <1>9 DEF IInv

\* GetOne leaves the slice alone.
LEMMA FinishGetOneIInv ==
    ASSUME IInv, FinishGetOne
    PROVE  IInv'
  <1> DEFINE at == FoundAt(queue, cur.idx, cur.item)
  <1>1. queue \in Seq(Elements) /\ cur.item \in Elements /\ cur.idx \in 0 .. Len(queue)
    BY DEF IInv, TypeOK, BisectionOK, Locals, FinishGetOne
  <1>2. at = -1 \/ at \in 0 .. Len(queue) - 1
    BY <1>1, FoundAtRange
  <1>3. /\ queue' = queue /\ m' = "free"
        /\ ret' = [op |-> "GetOne", ok |-> at >= 0, items |-> <<cur.item>>]
    BY DEF FinishGetOne, Return
  <1> HIDE DEF at
  <1>4. ret' \in Results
    BY <1>1, <1>2, <1>3 DEF Results, SearchOps
  <1>5. TypeOK' /\ Sorted' /\ BisectionOK'
    BY <1>3, <1>4 DEF IInv, TypeOK, Sorted, BisectionOK, Before
  <1> QED BY <1>5 DEF IInv

\* Pop and PopMany drop a prefix.
LEMMA PopIInv ==
    ASSUME IInv, Pop \/ \E n \in 0 .. MaxLen : PopMany(n)
    PROVE  IInv'
  <1>1. queue \in Seq(Elements) /\ SortedSeq(queue) /\ m = "free" /\ m' = m /\ cur' = cur
    BY DEF IInv, TypeOK, Sorted, SortedSeq, Pop, PopMany
  <1>2. ret' \in Results /\ queue' \in Seq(Elements) /\ SortedSeq(queue')
    <2>1. CASE Pop
      <3>1. CASE queue = << >>
        BY <1>1, <2>1, <3>1, ResultType, EmptySlice DEF Pop, Return
      <3>2. CASE queue # << >>
        <4>1. 1 \in 0 .. Len(queue) /\ queue[1] \in Elements
          BY <1>1, <3>2
        <4>2. queue' = DropFirst(queue, 1)
          BY <2>1, <3>2 DEF Pop
        <4>3. ret' \in Results
          <5>1. <<queue[1]>> \in Seq(Elements)
            BY <4>1
          <5> QED BY <2>1, <3>2, <5>1, ResultType DEF Pop, Return
        <4> QED BY <1>1, <4>1, <4>2, <4>3, DropFirstType, DropKeepsSorted
      <3> QED BY <3>1, <3>2
    <2>2. ASSUME NEW k \in 0 .. MaxLen, PopMany(k)
          PROVE  ret' \in Results /\ queue' \in Seq(Elements) /\ SortedSeq(queue')
      <3> DEFINE c == IF Len(queue) > k THEN k ELSE Len(queue)
      <3>1. CASE queue = << >> \/ k <= 0
        <4>1. queue' = queue /\ ret' = [op |-> "PopMany", ok |-> FALSE, items |-> << >>]
          BY <2>2, <3>1 DEF PopMany, Return
        <4> QED BY <1>1, <4>1, ResultType, EmptySlice
      <3>2. CASE ~(queue = << >> \/ k <= 0)
        <4>1. c \in 0 .. Len(queue)
          BY <1>1, MaxLenAssumption
        <4>2. /\ queue' = DropFirst(queue, c)
              /\ ret' = [op |-> "PopMany", ok |-> TRUE, items |-> [i \in 1 .. c |-> queue[i]]]
          BY <2>2, <3>2 DEF PopMany, Return
        <4> HIDE DEF c
        <4>3. [i \in 1 .. c |-> queue[i]] \in Seq(Elements)
          BY <1>1, <4>1
        <4>4. ret' \in Results
          BY <4>2, <4>3 DEF Results
        <4> QED BY <1>1, <4>1, <4>2, <4>4, DropFirstType, DropKeepsSorted
      <3> QED BY <3>1, <3>2
    <2> QED BY <2>1, <2>2
  <1>3. TypeOK' /\ Sorted' /\ BisectionOK'
    BY <1>1, <1>2 DEF TypeOK, Sorted, SortedSeq, BisectionOK, Before
  <1> QED BY <1>3 DEF IInv

\* The cuts empty the slice, leave it alone, or panic.
LEMMA CutIInv ==
    ASSUME IInv, NEW i \in -1 .. MaxLen + 1, CutBefore(i) \/ CutAfter(i)
    PROVE  IInv'
  <1>1. queue \in Seq(Elements) /\ SortedSeq(queue) /\ ret \in Results
    BY DEF IInv, TypeOK, Sorted, SortedSeq
  <1>2. (queue' = queue \/ queue' = << >>) /\ m' \in {"free", "dead"}
    BY DEF CutBefore, CutAfter, Panic
  <1>3. ret' \in Results
    BY <1>1, ResultType, EmptySlice DEF CutBefore, CutAfter, Panic, Return
  <1>4. queue' \in Seq(Elements) /\ SortedSeq(queue')
    <2>1. CASE queue' = queue
      BY <1>1, <2>1 DEF SortedSeq, Before
    <2>2. CASE queue' = << >>
      <3>1. queue' \in Seq(Elements) /\ Len(queue') = 0
        BY <2>2, EmptySlice
      <3> QED BY <3>1 DEF SortedSeq
    <2> QED BY <1>2, <2>1, <2>2
  <1>5. TypeOK' /\ Sorted' /\ BisectionOK'
    BY <1>2, <1>3, <1>4 DEF TypeOK, Sorted, SortedSeq, BisectionOK, Before
  <1> QED BY <1>5 DEF IInv

\* Every operation of the queue preserves the inductive invariant.
LEMMA NextIInv == IInv /\ [Next]_vars => IInv'
  <1> SUFFICES ASSUME IInv, [Next]_vars
               PROVE  IInv'
    OBVIOUS
  <1>1. CASE \E op \in SearchOps, item \in Elements : BeginSearch(op, item)
    BY <1>1, BeginSearchIInv
  <1>2. CASE SearchStep
    BY <1>2, SearchStepIInv
  <1>3. CASE FinishSearch
    BY <1>3, FinishAddIInv, FinishRemoveIInv, FinishGetOneIInv DEF FinishSearch
  <1>4. CASE Pop \/ \E n \in 0 .. MaxLen : PopMany(n)
    BY <1>4, PopIInv
  <1>5. CASE \E i \in -1 .. MaxLen + 1 : CutBefore(i) \/ CutAfter(i)
    BY <1>5, CutIInv
  <1>6. CASE UNCHANGED vars
    BY <1>6 DEF vars, IInv, TypeOK, Sorted, BisectionOK, Before
  <1> QED BY <1>1, <1>2, <1>3, <1>4, <1>5, <1>6 DEF Next

-----------------------------------------------------------------------------
\* With different ordering values the bisection stops right behind the only
\* element that equals the given one.
LEMMA EqualBeforeIndex ==
    ASSUME IInv, m = "held", cur.found, DistinctOrders,
           NEW i \in 1 .. Len(queue), queue[i] = cur.item
    PROVE  i = cur.idx
  <1> DEFINE n == Len(queue)
             k == cur.idx
  <1>1. /\ queue \in Seq(Elements) /\ n \in Nat /\ k \in 0 .. n /\ cur.item \in Elements
        /\ \A j \in 0 .. n - 1 : Before(cur.item, queue[j + 1]) <=> j >= k
    BY DEF IInv, TypeOK, BisectionOK, Locals
  <1>2. ~Before(cur.item, cur.item)
    BY <1>1, ElementsAssumption DEF Before
  <1>3. i <= k
    <2>1. i - 1 \in 0 .. n - 1 /\ (i - 1) + 1 = i
      BY <1>1
    <2>2. ~Before(cur.item, queue[(i - 1) + 1])
      BY <1>2, <2>1
    <2>3. ~(i - 1 >= k)
      BY <1>1, <2>1, <2>2
    <2> QED BY <1>1, <2>3
  <1>4. ASSUME i < k PROVE FALSE
    <2>1. i \in 0 .. n - 1 /\ i + 1 \in 1 .. n
      BY <1>1, <1>4
    <2>2. ~Before(cur.item, queue[i + 1])
      BY <1>1, <1>4, <2>1
    <2>3. ~Before(queue[i + 1], cur.item)
      BY <2>1, i < i + 1 DEF IInv, Sorted
    <2>4. queue[i + 1] \in Elements /\ queue[i] \in Elements
      BY <1>1, <2>1
    <2>5. queue[i + 1].ord = queue[i].ord
      BY <2>2, <2>3, <2>4, ElementsAssumption, OrderingAssumption DEF Before
    <2>6. i + 1 = i
      BY <2>1, <2>5 DEF DistinctOrders
    <2> QED BY <2>6
  <1> QED BY <1>1, <1>3, <1>4

\* Remove finds such an element, at the index before the probe, and takes out
\* that one; without one it finds nothing.
LEMMA RemoveStep ==
    ASSUME IInv, FinishRemove, DistinctOrders, IdIdentifies
    PROVE  /\ ret'.ok <=> \E i \in 1 .. Len(queue) : queue[i] = cur.item
           /\ \A i \in 1 .. Len(queue') : queue'[i] # cur.item
  <1> DEFINE n  == Len(queue)
             k  == cur.idx
             at == FoundAt(queue, k, cur.item)
             hit(i) == i \in 0 .. n - 1 /\ queue[i + 1].id = cur.item.id
  <1>1. /\ m = "held" /\ cur.found
        /\ queue \in Seq(Elements) /\ n \in Nat /\ k \in 0 .. n /\ cur.item \in Elements
    BY DEF IInv, TypeOK, BisectionOK, Locals, FinishRemove
  <1>2. /\ queue' = IF at < 0 THEN queue ELSE RemoveAt(queue, at)
        /\ ret'.ok = (at >= 0)
    BY DEF FinishRemove, Return
  <1>3. at = IF hit(k) THEN k ELSE IF hit(k + 1) THEN k + 1
             ELSE IF hit(k - 1) THEN k - 1 ELSE -1
    BY DEF FoundAt
  <1>4. \A i \in 1 .. n : queue[i] = cur.item => i = k
    BY <1>1, EqualBeforeIndex
  <1>5. \A i \in Int : hit(i) => i + 1 = k /\ i + 1 \in 1 .. n /\ queue[i + 1] = cur.item
    <2> TAKE i \in Int
    <2>1. ASSUME hit(i) PROVE i + 1 = k /\ i + 1 \in 1 .. n /\ queue[i + 1] = cur.item
      <3>1. i + 1 \in 1 .. n
        BY <1>1, <2>1
      <3>2. queue[i + 1] = cur.item
        BY <2>1, <3>1 DEF IdIdentifies
      <3> QED BY <1>4, <3>1, <3>2
    <2> QED BY <2>1
  <1>6. k \in Int /\ ~hit(k) /\ ~hit(k + 1)
    BY <1>1, <1>5
  <1> HIDE DEF at
  <1>7. CASE \E i \in 1 .. n : queue[i] = cur.item
    <2>1. k \in 1 .. n /\ queue[k] = cur.item
      BY <1>4, <1>7
    <2>2. hit(k - 1)
      <3>1. k - 1 \in 0 .. n - 1 /\ (k - 1) + 1 = k
        BY <1>1, <2>1
      <3> QED BY <2>1, <3>1
    <2>3. at = k - 1 /\ k - 1 \in 0 .. n - 1
      BY <1>1, <1>3, <1>6, <2>1, <2>2
    <2>4. ret'.ok /\ queue' = RemoveAt(queue, k - 1)
      <3>1. at >= 0 /\ ~(at < 0)
        BY <1>1, <2>3
      <3> QED BY <1>2, <2>3, <3>1
    <2>5. /\ Len(queue') = n - 1
          /\ \A i \in 1 .. n - 1 : queue'[i] = IF i <= k - 1 THEN queue[i] ELSE queue[i + 1]
      BY <1>1, <2>3, <2>4, RemoveAtType
    <2>6. ASSUME NEW i \in 1 .. Len(queue') PROVE queue'[i] # cur.item
      <3>1. i \in 1 .. n - 1
        BY <2>5
      <3>2. CASE i <= k - 1
        BY <1>1, <1>4, <2>5, <3>1, <3>2
      <3>3. CASE ~(i <= k - 1)
        <4>1. i + 1 \in 1 .. n /\ i + 1 # k /\ queue'[i] = queue[i + 1]
          BY <1>1, <2>5, <3>1, <3>3
        <4> QED BY <1>4, <4>1
      <3> QED BY <3>2, <3>3
    <2> QED BY <1>7, <2>4, <2>6
  <1>8. CASE ~\E i \in 1 .. n : queue[i] = cur.item
    <2>1. k - 1 \in Int /\ ~hit(k - 1)
      BY <1>1, <1>5, <1>8
    <2>2. at = -1
      BY <1>3, <1>6, <2>1
    <2>3. ~ret'.ok /\ queue' = queue
      <3>1. at < 0 /\ ~(at >= 0)
        BY <2>2
      <3> QED BY <1>2, <3>1
    <2> QED BY <1>8, <2>3
  <1> QED BY <1>7, <1>8

-----------------------------------------------------------------------------
\* The inductive invariant holds in every reachable state.
THEOREM Invariance == Spec => []IInv
  BY InitIInv, NextIInv, PTL DEF Spec

\* Every operation of queues.OrderedQueue keeps the shapes of its state.
THEOREM TypeCorrect == Spec => []TypeOK
  <1>1. IInv => TypeOK
    BY DEF IInv
  <1> QED BY <1>1, Invariance, PTL

\* The slice of queues.OrderedQueue is sorted in every reachable state, for
\* every set of elements, either direction and every length: the bisection in
\* findOrderedQueueInsertingIndex always stops at a correct insertion index.
THEOREM AlwaysSorted == Spec => []Sorted
  <1>1. IInv => Sorted
    BY DEF IInv
  <1> QED BY <1>1, Invariance, PTL

\* The loop invariant of findOrderedQueueInsertingIndex holds throughout every
\* bisection; in particular it never probes outside the slice.
THEOREM BisectionCorrect == Spec => []BisectionOK
  <1>1. IInv => BisectionOK
    BY DEF IInv
  <1> QED BY <1>1, Invariance, PTL

\* With pairwise different ordering values Remove takes out the element it was
\* given exactly when it is in the queue, and reports it: for every length the
\* window of three that findElementIndex looks at around the insertion point is
\* wide enough.
THEOREM RemoveFinds == Spec => RemoveFindsDistinct
  <1>1. IInv /\ [Next]_vars =>
          [FinishRemove /\ DistinctOrders /\ IdIdentifies =>
             /\ ret'.ok <=> \E i \in 1 .. Len(queue) : queue[i] = cur.item
             /\ \A i \in 1 .. Len(queue') : queue'[i] # cur.item]_vars
    BY RemoveStep
  <1> QED BY <1>1, Invariance, PTL DEF Spec, RemoveFindsDistinct

=============================================================================
