----------------------------- MODULE LFCompactor -----------------------------
(***************************************************************************)
(* The lock-free compactor of src/unnamed/part_007 composed with the      *)
(* lock-free queue it keeps its tasks in (LFQueue, part_006).             *)
(*                                                                         *)
(* A producer goroutine calls AddTask, which is Enqueue.  Controller      *)
(* goroutines call Run and Stop.  Run loads `running`, stores true and     *)
(* starts a compactor goroutine; two Runs that both load false start two. *)
(* On a tick a compactor goroutine runs compact: Dequeue, Dequeue, then    *)
(* Enqueue of the merged SSTable, or of the first one back if the second  *)
(* Dequeue found the queue empty.  Stop loads `running`, closes stopCh and *)
(* stores false; closing a closed channel panics and ends the process.     *)
(*                                                                         *)
(* The queue's steps are LFQueue's, one atomic access each; the process   *)
(* of each queue call is the goroutine making it.  An SSTable is its key   *)
(* range [MinKey, MaxKey]; the k-th AddTask adds [k, k], the order of the  *)
(* unit test.  parts[n] is the set of added tasks the SSTable of node n   *)
(* was merged from.                                                        *)
(***************************************************************************)
EXTENDS Integers, Sequences, FiniteSets

CONSTANTS
  Producer,    \* the goroutine calling AddTask
  Compactors,  \* the goroutines Run can start
  Controllers, \* the goroutines calling Run and Stop
  MaxTasks,    \* AddTask calls
  MaxTicks,    \* ticks taken by the compactor goroutines
  MaxCalls,    \* Run and Stop calls
  Nil, NoVal

QProcs == {Producer} \cup Compactors

\* Every tick makes at most three queue calls: the bound on queue calls
\* never stops a compact halfway.
QMaxOps == MaxTasks + 3 * MaxTicks

VARIABLES
  head, tail, next, val, length, alloc, pc, lh, lt, ln, node, ret, ops,
  rng,        \* node -> the SSTable its value points to, as [lo, hi]
  parts,      \* ghost: node -> the tasks its SSTable was merged from
  added,      \* AddTask calls so far
  running,    \* c.running
  stopClosed, \* c.stopCh has been closed
  cg,         \* compactor goroutine -> where it is
  sst1,       \* compactor goroutine -> the node its first Dequeue returned
  ticks,
  upc,        \* controller -> where it is in Run or Stop
  calls,
  panicked    \* a Stop closed the closed stopCh

qvars == <<head, tail, next, val, length, alloc, pc, lh, lt, ln, node, ret, ops>>
cvars == <<rng, parts, added, running, stopClosed, cg, sst1, ticks, upc, calls,
           panicked>>
vars == <<qvars, cvars>>

Q == INSTANCE LFQueue WITH Procs <- QProcs, MaxOps <- QMaxOps

\* NewLockFreeCompactor: an empty queue, not running, stopCh open.
Init ==
  /\ Q!Init
  /\ rng = [n \in Q!Nodes |-> [lo |-> 0, hi |-> 0]]
  /\ parts = [n \in Q!Nodes |-> {}]
  /\ added = 0 /\ running = FALSE /\ stopClosed = FALSE
  /\ cg = [c \in Compactors |-> "off"]
  /\ sst1 = [c \in Compactors |-> NoVal]
  /\ ticks = 0
  /\ upc = [u \in Controllers |-> "idle"]
  /\ calls = 0 /\ panicked = FALSE

\* Enqueue by p of a new node holding the SSTable r made of tasks ts.
EnqSST(p, r, ts) ==
  /\ Q!EnqStart(p)
  /\ rng' = [rng EXCEPT ![alloc] = r]
  /\ parts' = [parts EXCEPT ![alloc] = ts]

\* AddTask(NewSSTable(k, k)).
AddTask ==
  /\ added < MaxTasks
  /\ EnqSST(Producer, [lo |-> added + 1, hi |-> added + 1], {added + 1})
  /\ added' = added + 1
  /\ UNCHANGED <<running, stopClosed, cg, sst1, ticks, upc, calls, panicked>>

Busy(c) == pc[c] # "idle"

CUnchanged == UNCHANGED <<added, running, stopClosed, upc, calls, panicked>>

\* The select of Run's goroutine: on a tick, compact starts with its first
\* Dequeue; once stopCh is closed the goroutine may return (select picks
\* among the ready cases at random).
Tick(c) ==
  /\ cg[c] = "loop" /\ ticks < MaxTicks
  /\ Q!DeqStart(c)
  /\ ticks' = ticks + 1
  /\ cg' = [cg EXCEPT ![c] = "deq1"]
  /\ UNCHANGED <<rng, parts, sst1>> /\ CUnchanged

Exit(c) ==
  /\ cg[c] = "loop" /\ stopClosed
  /\ cg' = [cg EXCEPT ![c] = "exit"]
  /\ UNCHANGED qvars
  /\ UNCHANGED <<rng, parts, sst1, ticks>> /\ CUnchanged

\* sst1, ok1 := Dequeue() has returned; sst2, ok2 := Dequeue() starts.
Deq2(c) ==
  /\ cg[c] = "deq1" /\ ~Busy(c)
  /\ sst1' = [sst1 EXCEPT ![c] = ret[c]]
  /\ Q!DeqStart(c)
  /\ cg' = [cg EXCEPT ![c] = "deq2"]
  /\ UNCHANGED <<rng, parts, ticks>> /\ CUnchanged

\* The second Dequeue has returned.  With both, the merged SSTable
\* [sst1.MinKey, sst2.MaxKey] is enqueued; with only the first, it is
\* enqueued back; with neither, compact returns.
Merge(c) ==
  /\ cg[c] = "deq2" /\ ~Busy(c)
  /\ LET s1 == sst1[c]
         s2 == ret[c]
     IN  \/ /\ s1 # NoVal /\ s2 # NoVal
            /\ EnqSST(c, [lo |-> rng[s1].lo, hi |-> rng[s2].hi], parts[s1] \cup parts[s2])
            /\ cg' = [cg EXCEPT ![c] = "enq"]
         \/ /\ s1 # NoVal /\ s2 = NoVal
            /\ EnqSST(c, rng[s1], parts[s1])
            /\ cg' = [cg EXCEPT ![c] = "enq"]
         \/ /\ s1 = NoVal
            /\ cg' = [cg EXCEPT ![c] = "loop"]
            /\ UNCHANGED <<qvars, rng, parts>>
  /\ UNCHANGED <<sst1, ticks>> /\ CUnchanged

\* The Enqueue of compact has returned: back to the select.
EnqDone(c) ==
  /\ cg[c] = "enq" /\ ~Busy(c)
  /\ cg' = [cg EXCEPT ![c] = "loop"]
  /\ UNCHANGED qvars
  /\ UNCHANGED <<rng, parts, sst1, ticks>> /\ CUnchanged

-----------------------------------------------------------------------------
(* Run and Stop.                                                           *)

UUnchanged == UNCHANGED <<qvars, rng, parts, added, sst1, ticks>>

\* Run: if running.Load() return; the store and the go statement follow.
RunCall(u) ==
  /\ upc[u] = "idle" /\ calls < MaxCalls
  /\ calls' = calls + 1
  /\ upc' = [upc EXCEPT ![u] = IF running THEN "idle" ELSE "run_store"]
  /\ UUnchanged /\ UNCHANGED <<running, stopClosed, cg, panicked>>

\* running.Store(true); go func() {...}: a compactor goroutine not yet
\* started begins its loop.
RunStart(u) ==
  /\ upc[u] = "run_store"
  /\ running' = TRUE
  /\ \E c \in Compactors : cg[c] = "off"
  /\ LET c == CHOOSE c \in Compactors : cg[c] = "off"
     IN  cg' = [cg EXCEPT ![c] = "loop"]
  /\ upc' = [upc EXCEPT ![u] = "idle"]
  /\ UUnchanged /\ UNCHANGED <<stopClosed, calls, panicked>>

\* Stop: if running.Load() { close(stopCh); running.Store(false) }.
StopCall(u) ==
  /\ upc[u] = "idle" /\ calls < MaxCalls
  /\ calls' = calls + 1
  /\ upc' = [upc EXCEPT ![u] = IF running THEN "stop_close" ELSE "idle"]
  /\ UUnchanged /\ UNCHANGED <<running, stopClosed, cg, panicked>>

StopClose(u) ==
  /\ upc[u] = "stop_close"
  /\ stopClosed' = TRUE
  /\ panicked' = stopClosed
  /\ upc' = [upc EXCEPT ![u] = "stop_store"]
  /\ UUnchanged /\ UNCHANGED <<running, cg, calls>>

StopStore(u) ==
  /\ upc[u] = "stop_store"
  /\ running' = FALSE
  /\ upc' = [upc EXCEPT ![u] = "idle"]
  /\ UUnchanged /\ UNCHANGED <<stopClosed, cg, calls, panicked>>

-----------------------------------------------------------------------------

\* The steps of a call in progress, of a queue call or of compact.
CStep(c) == Q!Step(c) /\ UNCHANGED cvars
PStep == Q!Step(Producer) /\ UNCHANGED cvars
Compact(c) == Deq2(c) \/ Merge(c) \/ EnqDone(c)
Control(u) == RunStart(u) \/ StopClose(u) \/ StopStore(u)

\* Nothing is in progress and nothing more will be called.
Done ==
  /\ \/ panicked
     \/ /\ \A p \in QProcs : pc[p] = "idle"
        /\ \A c \in Compactors : cg[c] \in {"off", "loop", "exit"}
        /\ \A u \in Controllers : upc[u] = "idle"
  /\ UNCHANGED vars

Next ==
  \/ /\ ~panicked
     /\ \/ AddTask \/ PStep
        \/ \E c \in Compactors : Tick(c) \/ Exit(c) \/ Compact(c) \/ CStep(c)
        \/ \E u \in Controllers : RunCall(u) \/ StopCall(u) \/ Control(u)
  \/ Done

\* A goroutine inside a call or a compact keeps being scheduled.  Ticks,
\* AddTask and the calls of Run and Stop are not forced.
Fairness ==
  /\ WF_vars(~panicked /\ PStep)
  /\ \A c \in Compactors : WF_vars(~panicked /\ (CStep(c) \/ Compact(c)))
  /\ \A u \in Controllers : WF_vars(~panicked /\ Control(u))

Spec == Init /\ [][Next]_vars /\ Fairness

-----------------------------------------------------------------------------
(* Properties.                                                             *)

Ranges == [lo : 0..MaxTasks, hi : 0..MaxTasks]
UPcs == {"idle", "run_store", "stop_close", "stop_store"}
CPcs == {"off", "loop", "deq1", "deq2", "enq", "exit"}

TypeOK ==
  /\ Q!TypeOK
  /\ rng \in [Q!Nodes -> Ranges]
  /\ parts \in [Q!Nodes -> SUBSET (1..MaxTasks)]
  /\ added \in 0..MaxTasks /\ ticks \in 0..MaxTicks /\ calls \in 0..MaxCalls
  /\ running \in BOOLEAN /\ stopClosed \in BOOLEAN /\ panicked \in BOOLEAN
  /\ cg \in [Compactors -> CPcs]
  /\ sst1 \in [Compactors -> Q!Values \cup {NoVal}]
  /\ upc \in [Controllers -> UPcs]

\* The nodes a compactor goroutine holds between its Dequeues and its
\* Enqueue: what the first and the second Dequeue returned.
Held(c) ==
  CASE cg[c] = "deq1" -> {ret[c]} \ {NoVal}
    [] cg[c] = "deq2" -> {sst1[c], ret[c]} \ {NoVal}
    [] OTHER -> {}

Queued == {Q!ListFrom(head)[i] : i \in 1..Len(Q!ListFrom(head))}

Alive == Queued \cup UNION {Held(c) : c \in Compactors}

Quiescent == \A p \in QProcs : pc[p] = "idle"

\* Compaction never duplicates a task.  Whenever no queue call is in
\* progress, the SSTables in the queue and those the compactor goroutines
\* hold between their Dequeues and their Enqueue are all distinct, and no
\* added task is part of two of them.  Two compactor goroutines (two Runs
\* that both saw running false) and AddTask race on the queue, and compact
\* puts sst1 back when its second Dequeue finds the queue empty.
TasksNotDuplicated ==
  Quiescent =>
    /\ Len(Q!ListFrom(head)) + Cardinality(UNION {Held(c) : c \in Compactors})
         = Cardinality(Alive)
    /\ \A c, d \in Compactors : c # d => Held(c) \cap Held(d) = {}
    /\ \A m, n \in Alive : m # n => parts[m] \cap parts[n] = {}
    /\ UNION {parts[n] : n \in Alive} \subseteq 1..added

\* ... and never loses one: every task added so far is part of one of
\* them.  Not kept in a run: TLC violates it (PROJECT.json, hazards).
TasksPreserved ==
  TasksNotDuplicated /\ (Quiescent => UNION {parts[n] : n \in Alive} = 1..added)

TailReachable == Q!TailReachable

QuiescentLength == Q!QuiescentLength

Linearizable == Q!Linearizable

\* Every Enqueue and Dequeue, AddTask's and compact's, returns, unless a
\* Stop has panicked and ended the process.
OpsComplete ==
  \A p \in QProcs : pc[p] # "idle" ~> (pc[p] = "idle" \/ panicked)

=============================================================================
