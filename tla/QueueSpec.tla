------------------------------ MODULE QueueSpec ------------------------------
(***************************************************************************)
(* What the lock-free queue (src/unnamed/part_006, LFQueue) promises: a    *)
(* FIFO queue whose Enqueue and Dequeue are linearizable.  Each process    *)
(* invokes an operation, the operation takes effect on the queue at one    *)
(* instant, and it then returns; Dequeue on an empty queue returns         *)
(* (zero, false), here NoVal.                                              *)
(***************************************************************************)
EXTENDS Sequences

CONSTANTS
  Procs,    \* the goroutines calling the queue
  Values,   \* the values enqueued
  NoVal     \* Dequeue's (zero, false)

VARIABLES
  q,        \* the queue's contents, oldest first
  opState,  \* per process: "idle", "pending" (invoked) or "done" (took effect)
  opKind,   \* per process: "enq", "deq", or "none" when idle
  opArg,    \* per process: the value being enqueued
  opRet     \* per process: what the dequeue returns

absVars == <<q, opState, opKind, opArg, opRet>>

Init ==
  /\ q = <<>>
  /\ opState = [p \in Procs |-> "idle"]
  /\ opKind = [p \in Procs |-> "none"]
  /\ opArg = [p \in Procs |-> NoVal]
  /\ opRet = [p \in Procs |-> NoVal]

InvokeEnq(p, v) ==
  /\ opState[p] = "idle"
  /\ opState' = [opState EXCEPT ![p] = "pending"]
  /\ opKind' = [opKind EXCEPT ![p] = "enq"]
  /\ opArg' = [opArg EXCEPT ![p] = v]
  /\ UNCHANGED <<q, opRet>>

InvokeDeq(p) ==
  /\ opState[p] = "idle"
  /\ opState' = [opState EXCEPT ![p] = "pending"]
  /\ opKind' = [opKind EXCEPT ![p] = "deq"]
  /\ UNCHANGED <<q, opArg, opRet>>

Enq(p) ==
  /\ opState[p] = "pending" /\ opKind[p] = "enq"
  /\ q' = Append(q, opArg[p])
  /\ opState' = [opState EXCEPT ![p] = "done"]
  /\ UNCHANGED <<opKind, opArg, opRet>>

Deq(p) ==
  /\ opState[p] = "pending" /\ opKind[p] = "deq"
  /\ IF q = <<>>
     THEN /\ opRet' = [opRet EXCEPT ![p] = NoVal]
          /\ UNCHANGED q
     ELSE /\ opRet' = [opRet EXCEPT ![p] = Head(q)]
          /\ q' = Tail(q)
  /\ opState' = [opState EXCEPT ![p] = "done"]
  /\ UNCHANGED <<opKind, opArg>>

\* The operation returns; the process holds no operation any more.
Return(p) ==
  /\ opState[p] = "done"
  /\ opState' = [opState EXCEPT ![p] = "idle"]
  /\ opKind' = [opKind EXCEPT ![p] = "none"]
  /\ opArg' = [opArg EXCEPT ![p] = NoVal]
  /\ opRet' = [opRet EXCEPT ![p] = NoVal]
  /\ UNCHANGED q

Next ==
  \E p \in Procs :
    \/ \E v \in Values : InvokeEnq(p, v)
    \/ InvokeDeq(p)
    \/ Enq(p)
    \/ Deq(p)
    \/ Return(p)

Spec == Init /\ [][Next]_absVars

=============================================================================
