-------------------------------- MODULE File --------------------------------
(***************************************************************************)
(* The file storage adapter (src/pkg/adapters/file/file.go, File), with    *)
(* ThreadSafe set.  Its state:                                             *)
(*   data      f.data, every entry [key, val, del] in append order;         *)
(*   index     f.index, the sync.Map Get reads, and gen, which index map   *)
(*             is current (compact installs a new one);                    *)
(*   pending   the `go f.index.Store(key, val)` goroutines of Insert that  *)
(*             have not run yet, each with the map it was started on;      *)
(*   walCh     the batches sent to the WAL worker, walBuf its walBuffer,   *)
(*             walFile the records in the .wal file, mainFile the entries  *)
(*             compact wrote to the main file.                            *)
(* Sizes are counted in records: FlushCap records fill walBuffer.         *)
(* A crash loses the memory; NewFile rebuilds data and index from the two *)
(* files.                                                                  *)
(***************************************************************************)
EXTENDS Integers, Sequences, SequencesExt, FiniteSets, FiniteSetsExt

CONSTANTS
  Procs,        \* goroutines calling the adapter
  Keys,         \* keys, ordered integers standing for strings
  Vals,         \* values
  NoVal,        \* absent / ErrKeyNotFound
  WalChCap,     \* capacity of walCh (1000 in NewFile)
  FlushCap,     \* records walBuffer holds (flushSize)
  MaxOps,       \* calls in a behaviour
  MaxCrashes,   \* crashes of the process
  MaxRestarts   \* NewFile calls on the existing files

VARIABLES
  data, index, gen, pending, walCh, walBuf, walFile, mainFile,
  pc,           \* per goroutine: "idle", or "send" holding batch[p]
  batch,
  state,        \* "open", "closing" (channels closed), "closed", "down"
  walWorker,    \* "running" or "done"
  compactor,    \* "running" or "done"
  ops, crashes, restarts

vars == <<data, index, gen, pending, walCh, walBuf, walFile, mainFile, pc,
          batch, state, walWorker, compactor, ops, crashes, restarts>>

Recs == [op : {"INSERT"}, key : Keys, val : Vals]
          \cup [op : {"DELETE"}, key : Keys, val : {NoVal}]

\* The batches InsertBatch is called with: one or two WalEntry.
Batches == {<<r>> : r \in Recs} \cup {<<r, s>> : r, s \in Recs}

Entry(r) == [key |-> r.key, val |-> r.val, del |-> r.op = "DELETE"]

\* What data says of k: the last entry of k, absent if it is a deletion.
LogicalMap(d) ==
  [k \in Keys |->
     LET is == {i \in DOMAIN d : d[i].key = k}
     IN IF is = {} \/ d[Max(is)].del THEN NoVal ELSE d[Max(is)].val]

EmptyIndex == [k \in Keys |-> NoVal]

\* appendWAL: each record goes into walBuffer; a full buffer is first
\* written to the file (flushBuffer).
AppendRec(bf, r) ==
  IF Len(bf[1]) + 1 > FlushCap THEN <<<<r>>, bf[2] \o bf[1]>>
  ELSE <<Append(bf[1], r), bf[2]>>

AppendWAL(b) == FoldLeft(AppendRec, <<walBuf, walFile>>, b)

\* compact: keep the last entry of each key unless it is a deletion, sorted
\* by key.
Compacted(d) ==
  LET m == LogicalMap(d)
      ks == SetToSortSeq({k \in Keys : m[k] # NoVal}, <)
  IN [i \in DOMAIN ks |-> [key |-> ks[i], val |-> m[ks[i]], del |-> FALSE]]

\* NewFile: loadFromFile reads the main file's entries, loadFromWAL appends
\* one entry per WAL record, storing or deleting it in the index; then
\* every entry that is not a deletion is stored again, in data order.
Recovered == mainFile \o [i \in DOMAIN walFile |-> Entry(walFile[i])]

ReplayIndex(ix, r) == [ix EXCEPT ![r.key] = r.val]

RecoveredIndex(d) ==
  LET walIx == FoldLeft(ReplayIndex, EmptyIndex, walFile)
      live == SelectSeq(d, LAMBDA e : ~e.del)
  IN FoldLeft(LAMBDA ix, e : [ix EXCEPT ![e.key] = e.val], walIx, live)

Init ==
  /\ data = <<>> /\ index = EmptyIndex /\ gen = 0 /\ pending = {}
  /\ walCh = <<>> /\ walBuf = <<>> /\ walFile = <<>> /\ mainFile = <<>>
  /\ pc = [p \in Procs |-> "idle"] /\ batch = [p \in Procs |-> <<>>]
  /\ state = "open" /\ walWorker = "running" /\ compactor = "running"
  /\ ops = 0 /\ crashes = 0 /\ restarts = 0

Call(p) == state = "open" /\ pc[p] = "idle" /\ ops < MaxOps /\ ops' = ops + 1

ToSend(p, b) == pc' = [pc EXCEPT ![p] = "send"] /\ batch' = [batch EXCEPT ![p] = b]

\* Insert: under f.mu append the entry; after Unlock start the goroutine
\* that stores into the index f.index names now; then send the record.
Insert(p, k, v) ==
  /\ Call(p)
  /\ data' = Append(data, [key |-> k, val |-> v, del |-> FALSE])
  /\ pending' = pending \cup {[key |-> k, val |-> v, gen |-> gen]}
  /\ ToSend(p, <<[op |-> "INSERT", key |-> k, val |-> v]>>)
  /\ UNCHANGED <<index, gen, walCh, walBuf, walFile, mainFile, state,
                 walWorker, compactor, crashes, restarts>>

\* InsertBatch: entries and index updates in order under f.mu, then send.
InsertBatch(p, b) ==
  /\ Call(p)
  /\ data' = data \o [i \in DOMAIN b |-> Entry(b[i])]
  /\ index' = FoldLeft(ReplayIndex, index, b)
  /\ ToSend(p, b)
  /\ UNCHANGED <<gen, pending, walCh, walBuf, walFile, mainFile, state,
                 walWorker, compactor, crashes, restarts>>

\* Delete: found only if some entry of k is not a deletion; every entry of
\* k is dropped and a deletion appended; the index entry is deleted at once.
Delete(p, k) ==
  /\ Call(p)
  /\ IF \E i \in DOMAIN data : data[i].key = k /\ ~data[i].del
     THEN /\ data' = Append(SelectSeq(data, LAMBDA e : e.key # k),
                            [key |-> k, val |-> NoVal, del |-> TRUE])
          /\ index' = [index EXCEPT ![k] = NoVal]
          /\ ToSend(p, <<[op |-> "DELETE", key |-> k, val |-> NoVal]>>)
     ELSE UNCHANGED <<data, index, pc, batch>>
  /\ UNCHANGED <<gen, pending, walCh, walBuf, walFile, mainFile, state,
                 walWorker, compactor, crashes, restarts>>

\* `f.walCh <- batch` blocks while the channel is full.
Send(p) ==
  /\ pc[p] = "send" /\ state = "open" /\ Len(walCh) < WalChCap
  /\ walCh' = Append(walCh, batch[p])
  /\ pc' = [pc EXCEPT ![p] = "idle"]
  /\ batch' = [batch EXCEPT ![p] = <<>>]
  /\ UNCHANGED <<data, index, gen, pending, walBuf, walFile, mainFile,
                 state, walWorker, compactor, ops, crashes, restarts>>

\* An Insert goroutine runs; a map compact has replaced is garbage.
StoreRun(s) ==
  /\ s \in pending /\ state \in {"open", "closing"}
  /\ pending' = pending \ {s}
  /\ index' = IF s.gen = gen THEN [index EXCEPT ![s.key] = s.val] ELSE index
  /\ UNCHANGED <<data, gen, walCh, walBuf, walFile, mainFile, pc, batch,
                 state, walWorker, compactor, ops, crashes, restarts>>

\* walWorker: a batch from walCh goes through appendWAL.
WalRecv ==
  /\ walWorker = "running" /\ walCh # <<>>
  /\ LET r == AppendWAL(Head(walCh)) IN walBuf' = r[1] /\ walFile' = r[2]
  /\ walCh' = Tail(walCh)
  /\ UNCHANGED <<data, index, gen, pending, mainFile, pc, batch, state,
                 walWorker, compactor, ops, crashes, restarts>>

\* The worker's ticker: flushBuffer writes a non-empty walBuffer.
WalTick ==
  /\ walWorker = "running" /\ walBuf # <<>>
  /\ walFile' = walFile \o walBuf /\ walBuf' = <<>>
  /\ UNCHANGED <<data, index, gen, pending, walCh, mainFile, pc, batch,
                 state, walWorker, compactor, ops, crashes, restarts>>

\* walCh closed and drained: flushBuffer and return.
WalExit ==
  /\ walWorker = "running" /\ state = "closing" /\ walCh = <<>>
  /\ walFile' = walFile \o walBuf /\ walBuf' = <<>>
  /\ walWorker' = "done"
  /\ UNCHANGED <<data, index, gen, pending, walCh, mainFile, pc, batch,
                 state, compactor, ops, crashes, restarts>>

\* compact, under f.mu and then f.walMu: the main file is rewritten with
\* the compacted entries, the WAL truncated, and data and a new index map
\* installed.
DoCompact ==
  /\ data' = Compacted(data)
  /\ mainFile' = Compacted(data)
  /\ walFile' = <<>>
  /\ index' = LogicalMap(data)
  /\ gen' = gen + 1

\* compactWorker: its ticker (compactCh is never sent to).
CompactTick ==
  /\ compactor = "running" /\ state \in {"open", "closing"}
  /\ DoCompact
  /\ UNCHANGED <<pending, walCh, walBuf, pc, batch, state, walWorker,
                 compactor, ops, crashes, restarts>>

CompactExit ==
  /\ compactor = "running" /\ state = "closing"
  /\ compactor' = "done"
  /\ UNCHANGED <<data, index, gen, pending, walCh, walBuf, walFile,
                 mainFile, pc, batch, state, walWorker, ops, crashes, restarts>>

\* Close: close(walCh) and close(stopCh), then wg.Wait.
CloseStart(p) ==
  /\ Call(p)
  /\ state' = "closing"
  /\ pc' = [pc EXCEPT ![p] = "close"]
  /\ UNCHANGED <<data, index, gen, pending, walCh, walBuf, walFile, mainFile,
                 batch, walWorker, compactor, crashes, restarts>>

\* Both workers returned: flushBuffer, compact, close the files.
CloseFinish(p) ==
  /\ pc[p] = "close" /\ walWorker = "done" /\ compactor = "done"
  /\ DoCompact
  /\ state' = "closed"
  /\ pc' = [pc EXCEPT ![p] = "idle"]
  /\ UNCHANGED <<pending, walCh, walBuf, batch, walWorker, compactor, ops,
                 crashes, restarts>>

\* The process ends: memory, goroutines and the channel are gone.
Down ==
  /\ state' = "down"
  /\ data' = <<>> /\ index' = EmptyIndex /\ pending' = {}
  /\ walCh' = <<>> /\ walBuf' = <<>>
  /\ pc' = [p \in Procs |-> "idle"] /\ batch' = [p \in Procs |-> <<>>]
  /\ walWorker' = "done" /\ compactor' = "done"
  /\ UNCHANGED <<gen, walFile, mainFile, ops, restarts>>

Crash ==
  /\ state \in {"open", "closing"} /\ crashes < MaxCrashes
  /\ crashes' = crashes + 1
  /\ Down

\* A send on the closed walCh panics and ends the process.
SendPanics(p) ==
  /\ pc[p] = "send" /\ state = "closing"
  /\ Down /\ UNCHANGED crashes

\* NewFile on the existing files.
Reopen ==
  /\ state \in {"down", "closed"} /\ restarts < MaxRestarts
  /\ data' = Recovered
  /\ index' = RecoveredIndex(Recovered)
  /\ gen' = gen + 1
  /\ state' = "open" /\ walWorker' = "running" /\ compactor' = "running"
  /\ restarts' = restarts + 1
  /\ UNCHANGED <<pending, walCh, walBuf, walFile, mainFile, pc, batch,
                 ops, crashes>>

Next ==
  \/ \E p \in Procs :
       \/ \E k \in Keys : \/ \E v \in Vals : Insert(p, k, v)
                          \/ Delete(p, k)
       \/ \E b \in Batches : InsertBatch(p, b)
       \/ Send(p) \/ SendPanics(p) \/ CloseStart(p) \/ CloseFinish(p)
  \/ \E s \in pending : StoreRun(s)
  \/ WalRecv \/ WalTick \/ WalExit \/ CompactTick \/ CompactExit
  \/ Crash \/ Reopen

Spec == Init /\ [][Next]_vars

-----------------------------------------------------------------------------
\* Get answers from the index (f.index.Load).  Once no Insert goroutine
\* of key k is left to run, Get(k) must answer what data holds for k: the
\* value of the last Insert, or not found after a Delete.  This is the
\* storage port's contract, and the index is the only thing Get reads.
IndexMatchesData ==
  state # "down" =>
    \A k \in Keys : (\A s \in pending : s.key # k) =>
                      index[k] = LogicalMap(data)[k]

=============================================================================
