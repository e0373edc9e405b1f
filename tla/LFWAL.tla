------------------------------- MODULE LFWAL -------------------------------
(***************************************************************************)
(* The lock-free WAL of src/pkg/adapters/lockfree/lf_wal.go: a ring buffer *)
(* of `capacity` slots indexed by the atomic counters head and tail, a     *)
(* file in append mode, and an atomic closed flag.  Every atomic load,     *)
(* store and CAS is a step of its own.  Append reserves a slot by CAS on   *)
(* tail and stores its entry in a later step; Flush loads head and tail,   *)
(* reads the slots from head to tail one by one, writes them to the file   *)
(* and then stores tail into head.  Reset and Close call Flush, and the    *)
(* flush worker calls it on every tick.                                    *)
(*                                                                         *)
(* Entries are numbered 1, 2, ... in call order; 0 is the zero WalEntry   *)
(* that a slot holds before its first store (Op 0, empty key and value,    *)
(* which the file format reads as an insert of the empty key).  A slot     *)
(* store and a slot read are each one step: the struct copy is a data race *)
(* in Go, and a torn read is left out.                                     *)
(***************************************************************************)
EXTENDS Integers, Sequences, SequencesExt, FiniteSets

CONSTANTS
  Procs,     \* goroutines calling Append, Reset and Close
  Worker,    \* the goroutine of StartFlushWorker
  Capacity,  \* LFWAL.capacity
  MaxOps     \* calls in a behaviour

ASSUME Capacity > 0 /\ Worker \notin Procs

Actors == Procs \cup {Worker}

\* The zero WalEntry.
Zero == 0

VARIABLES
  buffer,    \* w.buffer: slot -> entry
  head,      \* w.head
  tail,      \* w.tail
  file,      \* the entries written to the file, in order
  fileOpen,  \* w.file has not been closed
  closed,    \* w.closed
  pc,        \* per actor: where it is in its call
  op,        \* per actor: the call it is in ("append", "reset", "close", "tick")
  ent,       \* per actor: the entry its Append writes
  lh, lt,    \* per actor: the head and tail it loaded
  fi,        \* per actor: Flush's loop index i
  fbuf,      \* per actor: Flush's bytes.Buffer, as the entries read so far
  acked,     \* ghost: the entries whose Append returned nil
  closedOK,  \* ghost: some Close returned nil
  ops        \* calls so far

vars == <<buffer, head, tail, file, fileOpen, closed, pc, op, ent, lh, lt,
          fi, fbuf, acked, closedOK, ops>>

locals == <<op, ent, lh, lt, fi, fbuf>>

\* The slot of a sequence number: tail % w.capacity.
IndexOf(n) == n % Capacity

Goto(a, l) == pc' = [pc EXCEPT ![a] = l]

\* NewLFWAL: an empty buffer of zero entries and a file opened for append.
Init ==
  /\ buffer = [i \in 0..Capacity-1 |-> Zero]
  /\ head = 0 /\ tail = 0
  /\ file = <<>> /\ fileOpen = TRUE /\ closed = FALSE
  /\ pc = [a \in Actors |-> IF a = Worker THEN "w_idle" ELSE "idle"]
  /\ op = [a \in Actors |-> IF a = Worker THEN "tick" ELSE "none"]
  /\ ent = [a \in Actors |-> Zero]
  /\ lh = [a \in Actors |-> 0] /\ lt = [a \in Actors |-> 0]
  /\ fi = [a \in Actors |-> 0] /\ fbuf = [a \in Actors |-> <<>>]
  /\ acked = {} /\ closedOK = FALSE /\ ops = 0

\* A goroutine starts Append (of the next entry), Reset or Close.
Call(p) ==
  /\ pc[p] = "idle" /\ ops < MaxOps
  /\ ops' = ops + 1
  /\ \E c \in {"append", "reset", "close"} :
       /\ op' = [op EXCEPT ![p] = c]
       /\ Goto(p, CASE c = "append" -> "a_closed"
                    [] c = "reset"  -> "f_head"
                    [] c = "close"  -> "c_mark")
  /\ ent' = [ent EXCEPT ![p] = ops + 1]
  /\ UNCHANGED <<buffer, head, tail, file, fileOpen, closed, lh, lt, fi, fbuf,
                 acked, closedOK>>

Unchanged == UNCHANGED <<buffer, head, tail, file, fileOpen, closed, acked,
                         closedOK, ops>>

\* Append: the closed check, once, before the loop.
AClosed(p) ==
  /\ pc[p] = "a_closed"
  /\ Goto(p, IF closed THEN "idle" ELSE "a_tail")
  /\ Unchanged /\ UNCHANGED locals

ATail(p) ==
  /\ pc[p] = "a_tail"
  /\ lt' = [lt EXCEPT ![p] = tail]
  /\ Goto(p, "a_head")
  /\ Unchanged /\ UNCHANGED <<op, ent, lh, fi, fbuf>>

\* The buffer-full check returns "WAL buffer full".
AHead(p) ==
  /\ pc[p] = "a_head"
  /\ lh' = [lh EXCEPT ![p] = head]
  /\ Goto(p, IF lt[p] - head >= Capacity THEN "idle" ELSE "a_cas")
  /\ Unchanged /\ UNCHANGED <<op, ent, lt, fi, fbuf>>

\* tail.CompareAndSwap(tail, tail+1): on failure the loop starts again.
ACas(p) ==
  /\ pc[p] = "a_cas"
  /\ IF tail = lt[p]
       THEN tail' = tail + 1 /\ Goto(p, "a_store")
       ELSE UNCHANGED tail /\ Goto(p, "a_tail")
  /\ UNCHANGED <<buffer, head, file, fileOpen, closed, acked, closedOK, ops>>
  /\ UNCHANGED locals

\* buffer[tail % capacity] = entry; return nil.
AStore(p) ==
  /\ pc[p] = "a_store"
  /\ buffer' = [buffer EXCEPT ![IndexOf(lt[p])] = ent[p]]
  /\ acked' = acked \cup {ent[p]}
  /\ Goto(p, "idle")
  /\ UNCHANGED <<head, tail, file, fileOpen, closed, closedOK, ops>>
  /\ UNCHANGED locals

\* Where Flush returns to: the worker's loop, or the rest of Reset or
\* Close when Flush returned nil; an error ends Reset and Close.
FlushReturn(a, ok) ==
  Goto(a, CASE op[a] = "tick"  -> "w_idle"
            [] op[a] = "reset" -> IF ok THEN "r_head" ELSE "idle"
            [] op[a] = "close" -> IF ok THEN "c_file" ELSE "idle")

FHead(a) ==
  /\ pc[a] = "f_head"
  /\ lh' = [lh EXCEPT ![a] = head]
  /\ Goto(a, "f_tail")
  /\ Unchanged /\ UNCHANGED <<op, ent, lt, fi, fbuf>>

\* count := tail - head; if count <= 0 return nil.
FTail(a) ==
  /\ pc[a] = "f_tail"
  /\ lt' = [lt EXCEPT ![a] = tail]
  /\ IF tail - lh[a] <= 0
       THEN FlushReturn(a, TRUE) /\ UNCHANGED <<fi, fbuf>>
       ELSE /\ Goto(a, "f_read")
            /\ fi' = [fi EXCEPT ![a] = lh[a]]
            /\ fbuf' = [fbuf EXCEPT ![a] = <<>>]
  /\ Unchanged /\ UNCHANGED <<op, ent, lh>>

\* One pass of the loop: entry := buffer[i % capacity], encoded into buf.
FRead(a) ==
  /\ pc[a] = "f_read"
  /\ fbuf' = [fbuf EXCEPT ![a] = Append(@, buffer[IndexOf(fi[a])])]
  /\ fi' = [fi EXCEPT ![a] = @ + 1]
  /\ Goto(a, IF fi[a] + 1 < lt[a] THEN "f_read" ELSE "f_write")
  /\ Unchanged /\ UNCHANGED <<op, ent, lh, lt>>

\* file.Write(buf.Bytes()) and Sync; Write on a closed file fails.
FWrite(a) ==
  /\ pc[a] = "f_write"
  /\ IF fileOpen
       THEN file' = file \o fbuf[a] /\ Goto(a, "f_store")
       ELSE UNCHANGED file /\ FlushReturn(a, FALSE)
  /\ UNCHANGED <<buffer, head, tail, fileOpen, closed, acked, closedOK, ops>>
  /\ UNCHANGED locals

\* head.Store(tail), the tail loaded at the start of this Flush.
FStore(a) ==
  /\ pc[a] = "f_store"
  /\ head' = lt[a]
  /\ FlushReturn(a, TRUE)
  /\ UNCHANGED <<buffer, tail, file, fileOpen, closed, acked, closedOK, ops>>
  /\ UNCHANGED locals

\* Reset, after its Flush: head.Store(0), then tail.Store(0).
RHead(p) ==
  /\ pc[p] = "r_head"
  /\ head' = 0
  /\ Goto(p, "r_tail")
  /\ UNCHANGED <<buffer, tail, file, fileOpen, closed, acked, closedOK, ops>>
  /\ UNCHANGED locals

RTail(p) ==
  /\ pc[p] = "r_tail"
  /\ tail' = 0
  /\ Goto(p, "idle")
  /\ UNCHANGED <<buffer, head, file, fileOpen, closed, acked, closedOK, ops>>
  /\ UNCHANGED locals

\* Close: closed.Store(true), then Flush.
CMark(p) ==
  /\ pc[p] = "c_mark"
  /\ closed' = TRUE
  /\ Goto(p, "f_head")
  /\ UNCHANGED <<buffer, head, tail, file, fileOpen, acked, closedOK, ops>>
  /\ UNCHANGED locals

\* Close, after its Flush: file.Close(), which fails if already closed.
CFile(p) ==
  /\ pc[p] = "c_file"
  /\ fileOpen' = FALSE
  /\ closedOK' = (closedOK \/ fileOpen)
  /\ Goto(p, "idle")
  /\ UNCHANGED <<buffer, head, tail, file, closed, acked, ops>>
  /\ UNCHANGED locals

\* The flush worker: a tick starts a Flush; a closed stopCh ends it.
WTick ==
  /\ pc[Worker] = "w_idle"
  /\ Goto(Worker, "f_head")
  /\ Unchanged /\ UNCHANGED locals

WStop ==
  /\ pc[Worker] = "w_idle"
  /\ Goto(Worker, "w_done")
  /\ Unchanged /\ UNCHANGED locals

Next ==
  \/ \E p \in Procs :
       \/ Call(p) \/ AClosed(p) \/ ATail(p) \/ AHead(p) \/ ACas(p) \/ AStore(p)
       \/ RHead(p) \/ RTail(p) \/ CMark(p) \/ CFile(p)
  \/ \E a \in Actors : FHead(a) \/ FTail(a) \/ FRead(a) \/ FWrite(a) \/ FStore(a)
  \/ WTick \/ WStop

Spec == Init /\ [][Next]_vars

-----------------------------------------------------------------------------
\* After a Close returned nil, the file holds exactly the entries whose
\* Append returned nil, each once and nothing else: an acknowledged entry
\* is durable once the WAL is closed (Append's comment and the WAL's
\* promise in spec.md), whatever the order of Append's tail CAS and slot
\* store, Flush's loads, Reset's index stores and Close's flag.
AckedWrittenOnce ==
  closedOK =>
    /\ ToSet(file) = acked
    /\ Len(file) = Cardinality(acked)

=============================================================================
