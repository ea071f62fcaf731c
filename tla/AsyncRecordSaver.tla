-------------------------- MODULE AsyncRecordSaver -------------------------
(***************************************************************************)
(* builtinmodels.AsyncRecordSaver: Push collects records (access and       *)
(* operation logs) and starts a goroutine that inserts what was collected  *)
(* at every tick of m.t.  Nothing but the slice is guarded by the mutex:   *)
(* several goroutines of Push may find m.t nil, and each starts a loop.    *)
(* A ticker is named after the loop that made it, a loop after the record  *)
(* whose Push started it.  The data base is external.                      *)
(***************************************************************************)
EXTENDS Integers, Sequences, FiniteSets

CONSTANTS Records,      \* the records, each pushed by a goroutine of its own
          NoRecord,     \* nil
          GroupSize,    \* rows of one Insert: 100 in the code
          MaxFailed     \* bound: rows that are not inserted

VARIABLES
    push,       \* where the Push of a record is: "idle", "test", "done"
    logs,       \* m.logs
    t,          \* m.t: the loop whose ticker it is, or NoRecord
    tick,       \* tick[k]: a tick is in the channel of k's ticker
    loop,       \* startPersistentTimer: "none", "start", "set", "head", "wait", "insert"
    waits,      \* the ticker whose channel the loop receives from
    groups,     \* pendings of persistLogs
    db,         \* the rows inserted
    failed      \* the rows an Insert failed at, and those it did not come to

vars == <<push, logs, t, tick, loop, waits, groups, db, failed>>

Init ==
    /\ push = [r \in Records |-> "idle"]
    /\ logs = << >>
    /\ t = NoRecord
    /\ tick = [r \in Records |-> FALSE]
    /\ loop = [r \in Records |-> "none"]
    /\ waits = [r \in Records |-> NoRecord]
    /\ groups = [r \in Records |-> << >>]
    /\ db = << >> /\ failed = {}

-----------------------------------------------------------------------------
(* persistLogs: the rows in groups of GroupSize *)

Smaller(a, b) == IF a < b THEN a ELSE b

NewGroup(l) == [i \in 1 .. l |-> NoRecord]

\* Mutant: every group is made GroupSize long.
SplitFullGroups(rows) ==
    LET ll == Len(rows)
        g[i \in 0 .. ll] ==
            IF i = 0 THEN [full |-> << >>, off |-> 0, cur |-> NewGroup(GroupSize)]
            ELSE LET p == g[i - 1]
                     n == p.off + Len(p.cur)
                     q == IF i - 1 - p.off >= GroupSize
                          THEN [full |-> Append(p.full, p.cur), off |-> n,
                                cur |-> NewGroup(GroupSize)]
                          ELSE p
                 IN [q EXCEPT !.cur[i - q.off] = rows[i]]
    IN Append(g[ll].full, g[ll].cur)

\* The loop over the rows: a full group is put aside, the next one is made as
\* long as what is left, GroupSize at most.
Split(rows) ==
    LET ll == Len(rows)
        g[i \in 0 .. ll] ==
            IF i = 0 THEN [full |-> << >>, off |-> 0, cur |-> NewGroup(Smaller(ll, GroupSize))]
            ELSE LET p == g[i - 1]
                     n == p.off + Len(p.cur)
                     q == IF i - 1 - p.off >= GroupSize
                          THEN [full |-> Append(p.full, p.cur), off |-> n,
                                cur |-> NewGroup(Smaller(ll - n, GroupSize))]
                          ELSE p
                 IN [q EXCEPT !.cur[i - q.off] = rows[i]]
    IN Append(g[ll].full, g[ll].cur)

-----------------------------------------------------------------------------
(* Push *)

PushAppend(r) ==
    /\ push[r] = "idle" /\ push' = [push EXCEPT ![r] = "test"]
    /\ logs' = Append(logs, r)
    /\ UNCHANGED <<t, tick, loop, waits, groups, db, failed>>

\* if nil == m.t, without the lock.
PushTest(r) ==
    /\ push[r] = "test" /\ push' = [push EXCEPT ![r] = "done"]
    /\ loop' = IF t = NoRecord THEN [loop EXCEPT ![r] = "start"] ELSE loop
    /\ UNCHANGED <<logs, t, tick, waits, groups, db, failed>>

-----------------------------------------------------------------------------
(* startPersistentTimer *)

LoopStart(r) ==
    /\ loop[r] = "start"
    /\ loop' = [loop EXCEPT ![r] = IF t = NoRecord THEN "set" ELSE "none"]
    /\ UNCHANGED <<push, logs, t, tick, waits, groups, db, failed>>

\* m.t = time.NewTicker: the ticker of another loop is lost, but goes on.
LoopSet(r) ==
    /\ loop[r] = "set" /\ loop' = [loop EXCEPT ![r] = "head"]
    /\ t' = r
    /\ UNCHANGED <<push, logs, tick, waits, groups, db, failed>>

\* Nothing sets m.t to nil before the loop has ended.
LoopHead(r) ==
    /\ loop[r] = "head" /\ loop' = [loop EXCEPT ![r] = "wait"]
    /\ waits' = [waits EXCEPT ![r] = t]
    /\ UNCHANGED <<push, logs, t, tick, groups, db, failed>>

\* Mutant: the records are taken and the slice is kept.
PersistKeeps(r) ==
    /\ loop[r] = "wait" /\ tick[waits[r]]
    /\ tick' = [tick EXCEPT ![waits[r]] = FALSE]
    /\ groups' = [groups EXCEPT ![r] = IF logs = << >> THEN << >> ELSE Split(logs)]
    /\ loop' = [loop EXCEPT ![r] = IF logs = << >> THEN "head" ELSE "insert"]
    /\ UNCHANGED <<push, logs, t, waits, db, failed>>

\* Mutant: after a tick without records the loop ends.
PersistEnds(r) ==
    /\ loop[r] = "wait" /\ tick[waits[r]]
    /\ tick' = [tick EXCEPT ![waits[r]] = FALSE]
    /\ logs' = << >>
    /\ groups' = [groups EXCEPT ![r] = IF logs = << >> THEN << >> ELSE Split(logs)]
    /\ loop' = [loop EXCEPT ![r] = IF logs = << >> THEN "none" ELSE "insert"]
    /\ UNCHANGED <<push, t, waits, db, failed>>

\* case <-m.t.C: m.logs is taken and replaced under the lock.
Persist(r) ==
    /\ loop[r] = "wait" /\ tick[waits[r]]
    /\ tick' = [tick EXCEPT ![waits[r]] = FALSE]
    /\ logs' = << >>
    /\ groups' = [groups EXCEPT ![r] = IF logs = << >> THEN << >> ELSE Split(logs)]
    /\ loop' = [loop EXCEPT ![r] = IF logs = << >> THEN "head" ELSE "insert"]
    /\ UNCHANGED <<push, t, waits, db, failed>>

\* InsertRecords(rows): session.Insert inserts one row after the other and in no
\* transaction.  At the first that fails it returns: the rows before it stay, it
\* and the rest are lost, for the error is dropped.
Insert(r) ==
    /\ loop[r] = "insert"
    /\ LET g == Head(groups[r])
       IN \E n \in 0 .. Len(g) :
              /\ n = Len(g) \/ Cardinality(failed) + Len(g) - n <= MaxFailed
              /\ db' = db \o SubSeq(g, 1, n)
              /\ failed' = failed \cup {g[i] : i \in n + 1 .. Len(g)}
    /\ groups' = [groups EXCEPT ![r] = Tail(@)]
    /\ loop' = [loop EXCEPT ![r] = IF Len(groups[r]) = 1 THEN "head" ELSE "insert"]
    /\ UNCHANGED <<push, logs, t, tick, waits>>

\* A ticker that was made ticks for ever (external).
Tick(r) ==
    /\ loop[r] \notin {"none", "start", "set"} /\ ~tick[r]
    /\ tick' = [tick EXCEPT ![r] = TRUE]
    /\ UNCHANGED <<push, logs, t, loop, waits, groups, db, failed>>

-----------------------------------------------------------------------------

Loop(r) == LoopStart(r) \/ LoopSet(r) \/ LoopHead(r) \/ Persist(r) \/ Insert(r)

Next == \E r \in Records : PushAppend(r) \/ PushTest(r) \/ Loop(r) \/ Tick(r)

\* Goroutines that began go on, tickers tick.
Fairness == \A r \in Records : WF_vars(PushTest(r) \/ Loop(r)) /\ WF_vars(Tick(r))

Spec == Init /\ [][Next]_vars /\ Fairness

-----------------------------------------------------------------------------

\* How many times x occurs in a sequence, and in the groups of a loop.
Count(x, s) == Cardinality({i \in 1 .. Len(s) : s[i] = x})
InHand(x, r) ==
    Cardinality({at \in (1 .. Len(groups[r])) \X (1 .. GroupSize) :
                    /\ at[2] <= Len(groups[r][at[1]])
                    /\ groups[r][at[1]][at[2]] = x})

\* Type invariant.
TypeOK ==
    /\ push \in [Records -> {"idle", "test", "done"}]
    /\ {logs, db} \subseteq Seq(Records) /\ failed \subseteq Records
    /\ t \in Records \cup {NoRecord}
    /\ tick \in [Records -> BOOLEAN]
    /\ loop \in [Records -> {"none", "start", "set", "head", "wait", "insert"}]
    /\ waits \in [Records -> Records \cup {NoRecord}]
    /\ groups \in [Records -> Seq(Seq(Records))]

\* However many loops were started, a record that was pushed is in one place
\* only: in m.logs, in the hands of one loop, in the data base, or among the rows
\* an Insert failed at or did not come to.
InOnePlace ==
    \A x \in Records : push[x] # "idle" =>
        LET held == {r \in Records : InHand(x, r) > 0}
        IN /\ \A r \in held : InHand(x, r) = 1
           /\ Count(x, logs) + Cardinality(held) + Count(x, db)
                  + Cardinality(failed \cap {x}) = 1

\* Every record is inserted in the end, or the Insert of its group failed before
\* it was: again and again nothing that was pushed is left to save.
Saved == []<>(\A x \in Records : push[x] # "idle" => Count(x, db) > 0 \/ x \in failed)

=============================================================================
