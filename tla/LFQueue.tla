------------------------------- MODULE LFQueue -------------------------------
(***************************************************************************)
(* The Michael-Scott queue LFQueue of src/unnamed/part_006.  Each process *)
(* runs Enqueue or Dequeue one atomic access at a time: every              *)
(* atomic.LoadPointer, CompareAndSwapPointer and AddInt64 is a step, and   *)
(* the local tests between them belong to the step before.                *)
(*                                                                         *)
(* Nodes are numbered: 0 is the sentinel and Enqueue allocates the next    *)
(* number.  next[n] is the *nodePointer n.next points to, as its value    *)
(* [ptr, tag]; a node's next is replaced once, from its initial [Nil, 0],  *)
(* so equal values are the same pointer and the CAS on it can compare      *)
(* values.  Nodes are never freed (Go's collector keeps every node a       *)
(* goroutine still holds), so no pointer is reused.  Process p enqueues   *)
(* the value of its node, the node's number: every value is distinct.     *)
(***************************************************************************)
EXTENDS Integers, Sequences

CONSTANTS
  Procs,    \* goroutines using the queue
  MaxOps,   \* operations started in a behaviour (bounds the nodes)
  Nil,      \* the nil *node
  NoVal     \* Dequeue's zero value

Nodes == 0..MaxOps
Values == 1..MaxOps

VARIABLES
  head, tail,   \* q.head, q.tail
  next,         \* node -> the [ptr, tag] its next field points to
  val,          \* node -> its value
  length,       \* q.length
  alloc,        \* the next node number new(node) returns
  pc,           \* process -> position in Enqueue or Dequeue
  lh, lt,       \* process -> the head and tail it loaded
  ln,           \* process -> the [ptr, tag] it loaded from a next field
  node,         \* process -> the node its Enqueue allocated
  ret,          \* process -> the value its Dequeue returns
  ops           \* operations started

vars == <<head, tail, next, val, length, alloc, pc, lh, lt, ln, node, ret, ops>>

NilPtr == [ptr |-> Nil, tag |-> 0]

\* NewLFQueue: head and tail point to the sentinel, whose next is nil.
Init ==
  /\ head = 0 /\ tail = 0
  /\ next = [n \in Nodes |-> NilPtr]
  /\ val = [n \in Nodes |-> NoVal]
  /\ length = 0
  /\ alloc = 1
  /\ pc = [p \in Procs |-> "idle"]
  /\ lh = [p \in Procs |-> 0] /\ lt = [p \in Procs |-> 0]
  /\ ln = [p \in Procs |-> NilPtr]
  /\ node = [p \in Procs |-> 0]
  /\ ret = [p \in Procs |-> NoVal]
  /\ ops = 0

Goto(p, l) == pc' = [pc EXCEPT ![p] = l]

-----------------------------------------------------------------------------
(* Enqueue.                                                                *)

\* The new node, with a nil next, before the loop.
EnqStart(p) ==
  /\ pc[p] = "idle" /\ ops < MaxOps
  /\ node' = [node EXCEPT ![p] = alloc]
  /\ val' = [val EXCEPT ![alloc] = alloc]
  /\ alloc' = alloc + 1
  /\ ops' = ops + 1
  /\ Goto(p, "E_loadTail")
  /\ UNCHANGED <<head, tail, next, length, lh, lt, ln, ret>>

\* tail := LoadPointer(&q.tail)
EnqLoadTail(p) ==
  /\ pc[p] = "E_loadTail"
  /\ lt' = [lt EXCEPT ![p] = tail]
  /\ Goto(p, "E_loadNext")
  /\ UNCHANGED <<head, tail, next, val, length, alloc, lh, ln, node, ret, ops>>

\* next := LoadPointer(&tail.next)
EnqLoadNext(p) ==
  /\ pc[p] = "E_loadNext"
  /\ ln' = [ln EXCEPT ![p] = next[lt[p]]]
  /\ Goto(p, "E_recheck")
  /\ UNCHANGED <<head, tail, next, val, length, alloc, lh, lt, node, ret, ops>>

\* if LoadPointer(&q.tail) != tail { continue }; then, on the loaded next,
\* help a lagging tail or try to link.
\* (EnqRecheckInverted retries exactly when the tail is unchanged.)
EnqRecheckInverted(p) ==
  /\ pc[p] = "E_recheck"
  /\ Goto(p, IF tail = lt[p] THEN "E_loadTail"
             ELSE IF ln[p].ptr # Nil THEN "E_help" ELSE "E_link")
  /\ UNCHANGED <<head, tail, next, val, length, alloc, lh, lt, ln, node, ret, ops>>

EnqRecheck(p) ==
  /\ pc[p] = "E_recheck"
  /\ Goto(p, IF tail # lt[p] THEN "E_loadTail"
             ELSE IF ln[p].ptr # Nil THEN "E_help" ELSE "E_link")
  /\ UNCHANGED <<head, tail, next, val, length, alloc, lh, lt, ln, node, ret, ops>>

\* CompareAndSwapPointer(&q.tail, tail, tailNext.ptr); continue
EnqHelp(p) ==
  /\ pc[p] = "E_help"
  /\ tail' = IF tail = lt[p] THEN ln[p].ptr ELSE tail
  /\ Goto(p, "E_loadTail")
  /\ UNCHANGED <<head, next, val, length, alloc, lh, lt, ln, node, ret, ops>>

\* CompareAndSwapPointer(&tail.next, next, {newNode, tag+1}); on failure
\* retry from the start.
\* (EnqLinkBlind stores the new pointer without comparing.)
EnqLinkBlind(p) ==
  /\ pc[p] = "E_link"
  /\ next' = [next EXCEPT ![lt[p]] = [ptr |-> node[p], tag |-> ln[p].tag + 1]]
  /\ Goto(p, "E_swing")
  /\ UNCHANGED <<head, tail, val, length, alloc, lh, lt, ln, node, ret, ops>>

EnqLink(p) ==
  /\ pc[p] = "E_link"
  /\ IF next[lt[p]] = ln[p]
     THEN /\ next' = [next EXCEPT ![lt[p]] = [ptr |-> node[p], tag |-> ln[p].tag + 1]]
          /\ Goto(p, "E_swing")
     ELSE /\ Goto(p, "E_loadTail")
          /\ UNCHANGED next
  /\ UNCHANGED <<head, tail, val, length, alloc, lh, lt, ln, node, ret, ops>>

\* CompareAndSwapPointer(&q.tail, tail, newNode), whatever its outcome.
EnqSwing(p) ==
  /\ pc[p] = "E_swing"
  /\ tail' = IF tail = lt[p] THEN node[p] ELSE tail
  /\ Goto(p, "E_count")
  /\ UNCHANGED <<head, next, val, length, alloc, lh, lt, ln, node, ret, ops>>

\* AddInt64(&q.length, 1); return true
EnqCount(p) ==
  /\ pc[p] = "E_count"
  /\ length' = length + 1
  /\ Goto(p, "idle")
  /\ UNCHANGED <<head, tail, next, val, alloc, lh, lt, ln, node, ret, ops>>

-----------------------------------------------------------------------------
(* Dequeue.                                                                *)

DeqStart(p) ==
  /\ pc[p] = "idle" /\ ops < MaxOps
  /\ ops' = ops + 1
  /\ Goto(p, "D_loadHead")
  /\ UNCHANGED <<head, tail, next, val, length, alloc, lh, lt, ln, node, ret>>

\* headPtr := LoadPointer(&q.head)
DeqLoadHead(p) ==
  /\ pc[p] = "D_loadHead"
  /\ lh' = [lh EXCEPT ![p] = head]
  /\ Goto(p, "D_loadTail")
  /\ UNCHANGED <<head, tail, next, val, length, alloc, lt, ln, node, ret, ops>>

\* tailPtr := LoadPointer(&q.tail)
DeqLoadTail(p) ==
  /\ pc[p] = "D_loadTail"
  /\ lt' = [lt EXCEPT ![p] = tail]
  /\ Goto(p, "D_loadNext")
  /\ UNCHANGED <<head, tail, next, val, length, alloc, lh, ln, node, ret, ops>>

\* nextPtr := LoadPointer(&head.next); a nil next means empty: return
\* (zero, false); if head == tail, help the tail first; else go on to the
\* CAS on head.
\* (DeqLoadNextNoHelp leaves out the head == tail case; DeqLoadNextHelpFirst
\* tests head == tail before the nil next.)
DeqLoadNextHelpFirst(p) ==
  /\ pc[p] = "D_loadNext"
  /\ ln' = [ln EXCEPT ![p] = next[lh[p]]]
  /\ ret' = [ret EXCEPT ![p] = NoVal]
  /\ Goto(p, IF lh[p] = lt[p] THEN "D_help"
             ELSE IF next[lh[p]].ptr = Nil THEN "D_empty" ELSE "D_cas")
  /\ UNCHANGED <<head, tail, next, val, length, alloc, lh, lt, node, ops>>

DeqLoadNextNoHelp(p) ==
  /\ pc[p] = "D_loadNext"
  /\ ln' = [ln EXCEPT ![p] = next[lh[p]]]
  /\ ret' = [ret EXCEPT ![p] = NoVal]
  /\ Goto(p, IF next[lh[p]].ptr = Nil THEN "D_empty" ELSE "D_cas")
  /\ UNCHANGED <<head, tail, next, val, length, alloc, lh, lt, node, ops>>

DeqLoadNext(p) ==
  /\ pc[p] = "D_loadNext"
  /\ ln' = [ln EXCEPT ![p] = next[lh[p]]]
  /\ ret' = [ret EXCEPT ![p] = NoVal]
  /\ Goto(p, IF next[lh[p]].ptr = Nil THEN "D_empty"
             ELSE IF lh[p] = lt[p] THEN "D_help" ELSE "D_cas")
  /\ UNCHANGED <<head, tail, next, val, length, alloc, lh, lt, node, ops>>

\* CompareAndSwapPointer(&q.tail, tailPtr, headNext.ptr); continue
DeqHelp(p) ==
  /\ pc[p] = "D_help"
  /\ tail' = IF tail = lt[p] THEN ln[p].ptr ELSE tail
  /\ Goto(p, "D_loadHead")
  /\ UNCHANGED <<head, next, val, length, alloc, lh, lt, ln, node, ret, ops>>

\* (DeqCasBlind stores the new head without comparing it with the loaded
\* one.)
DeqCasBlind(p) ==
  /\ pc[p] = "D_cas"
  /\ head' = ln[p].ptr
  /\ ret' = [ret EXCEPT ![p] = val[ln[p].ptr]]
  /\ Goto(p, "D_count")
  /\ UNCHANGED <<tail, next, val, length, alloc, lh, lt, ln, node, ops>>

\* value = headNext.ptr.value; CompareAndSwapPointer(&q.head, headPtr,
\* headNext.ptr): on success the value is returned, else retry.  The
\* value was stored before the node was linked and never changes.
DeqCas(p) ==
  /\ pc[p] = "D_cas"
  /\ IF head = lh[p]
     THEN /\ head' = ln[p].ptr
          /\ ret' = [ret EXCEPT ![p] = val[ln[p].ptr]]
          /\ Goto(p, "D_count")
     ELSE /\ Goto(p, "D_loadHead")
          /\ UNCHANGED <<head, ret>>
  /\ UNCHANGED <<tail, next, val, length, alloc, lh, lt, ln, node, ops>>

\* AddInt64(&q.length, -1); return value, true
DeqCount(p) ==
  /\ pc[p] = "D_count"
  /\ length' = length - 1
  /\ Goto(p, "idle")
  /\ UNCHANGED <<head, tail, next, val, alloc, lh, lt, ln, node, ret, ops>>

\* return value, false: the counter is left alone.
\* (DeqEmptyCounts decrements it on this path too.)
DeqEmptyCounts(p) ==
  /\ pc[p] = "D_empty"
  /\ length' = length - 1
  /\ Goto(p, "idle")
  /\ UNCHANGED <<head, tail, next, val, alloc, lh, lt, ln, node, ret, ops>>

DeqEmpty(p) ==
  /\ pc[p] = "D_empty"
  /\ Goto(p, "idle")
  /\ UNCHANGED <<head, tail, next, val, length, alloc, lh, lt, ln, node, ret, ops>>

-----------------------------------------------------------------------------

\* The steps of an operation in progress.
Step(p) ==
  \/ EnqLoadTail(p) \/ EnqLoadNext(p) \/ EnqRecheck(p) \/ EnqHelp(p)
  \/ EnqLink(p) \/ EnqSwing(p) \/ EnqCount(p)
  \/ DeqLoadHead(p) \/ DeqLoadTail(p) \/ DeqLoadNext(p) \/ DeqHelp(p)
  \/ DeqCas(p) \/ DeqCount(p) \/ DeqEmpty(p)

\* Once MaxOps operations have returned the behaviour stutters.
Done == ops = MaxOps /\ \A p \in Procs : pc[p] = "idle" /\ UNCHANGED vars

Next ==
  \/ \E p \in Procs : EnqStart(p) \/ DeqStart(p) \/ Step(p)
  \/ Done

\* A goroutine inside Enqueue or Dequeue keeps being scheduled; nothing
\* makes a goroutine start an operation.
Fairness == \A p \in Procs : WF_vars(Step(p))

Spec == Init /\ [][Next]_vars /\ Fairness

-----------------------------------------------------------------------------
(* Properties.                                                             *)

\* The values of the nodes after n, in list order.
RECURSIVE ListFrom(_)
ListFrom(n) ==
  IF next[n].ptr = Nil THEN <<>> ELSE <<val[next[n].ptr]>> \o ListFrom(next[n].ptr)

\* The nodes from n on, n included.
RECURSIVE NodesFrom(_)
NodesFrom(n) == {n} \cup IF next[n].ptr = Nil THEN {} ELSE NodesFrom(next[n].ptr)

Pcs == {"idle", "E_loadTail", "E_loadNext", "E_recheck", "E_help", "E_link",
        "E_swing", "E_count", "D_loadHead", "D_loadTail", "D_loadNext",
        "D_help", "D_cas", "D_count", "D_empty"}
EnqPcs == {"E_loadTail", "E_loadNext", "E_recheck", "E_help", "E_link",
           "E_swing", "E_count"}
\* After the linearisation point: the link CAS, the head CAS, or the load
\* of a nil head.next.
DonePcs == {"E_swing", "E_count", "D_count", "D_empty"}

TypeOK ==
  /\ head \in Nodes /\ tail \in Nodes
  /\ next \in [Nodes -> [ptr : Nodes \cup {Nil}, tag : 0..1]]
  /\ val \in [Nodes -> Values \cup {NoVal}]
  /\ length \in -MaxOps..MaxOps
  /\ alloc \in 1..MaxOps + 1
  /\ pc \in [Procs -> Pcs]
  /\ ret \in [Procs -> Values \cup {NoVal}]
  /\ ops \in 0..MaxOps

\* The refinement mapping: the abstract queue is the list after head; an
\* operation is pending until its linearisation point and done after it.
Abs == INSTANCE QueueSpec WITH
  Values <- Values,
  q <- ListFrom(head),
  opState <- [p \in Procs |-> IF pc[p] = "idle" THEN "idle"
                              ELSE IF pc[p] \in DonePcs THEN "done" ELSE "pending"],
  opKind <- [p \in Procs |-> IF pc[p] = "idle" THEN "none"
                             ELSE IF pc[p] \in EnqPcs THEN "enq" ELSE "deq"],
  opArg <- [p \in Procs |-> IF pc[p] \in EnqPcs THEN val[node[p]] ELSE NoVal],
  opRet <- [p \in Procs |-> IF pc[p] \in {"D_count", "D_empty"} THEN ret[p] ELSE NoVal]

\* Enqueue and Dequeue are linearizable: every behaviour of the CAS loops
\* is a behaviour of the atomic FIFO queue, so each dequeue returns the
\* oldest value not yet dequeued, no value twice, and empty only when the
\* queue was empty (spec 4.5, and scenario 6 without losses or duplicates).
Linearizable == Abs!Spec

\* The tail is never behind the head: it is on the list from head.  This
\* is what Dequeue's head == tail test and help protect.
TailReachable == tail \in NodesFrom(head)

\* When no operation is in progress, length equals the number of values
\* in the queue: each increment and decrement follows exactly one link or
\* unlink.
QuiescentLength ==
  (\A p \in Procs : pc[p] = "idle") => length = Len(ListFrom(head))

\* Every Enqueue and Dequeue returns (the retry loops do not spin forever
\* once the other goroutines stop interfering).
OpsComplete == \A p \in Procs : pc[p] # "idle" ~> pc[p] = "idle"

=============================================================================
