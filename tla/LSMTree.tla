------------------------------ MODULE LSMTree ------------------------------
(***************************************************************************)
(* The LSM-tree storage backend (src/pkg/adapters/lsmtree/memtable.go,     *)
(* type LSMTree, with compaction.go and the WAL of src/unnamed/part_003).  *)
(*                                                                         *)
(* Client goroutines call Insert, Delete, Get, ForceCompaction and Close;  *)
(* the compactor goroutine calls Compact on every tick; the WAL worker     *)
(* drains the WAL channel.  Each client has a program counter pc[c]; one   *)
(* step is what the code does between two points at which another          *)
(* goroutine can observe or change shared state: a critical section under  *)
(* l.mu, mt.mu or c.mu is one step, a load of the l.memTable pointer is    *)
(* one step, a channel send or wait is one step.                           *)
(*                                                                         *)
(* The ghost kv is the key-value map the operations have linearised to so *)
(* far: an Insert or Delete takes effect at its memtable write.  read[c]   *)
(* records a Get: the value kv held for its key when it started, whether   *)
(* an Insert or Delete of that key took effect while it ran, and its       *)
(* answer once it returned.                                                *)
(***************************************************************************)
EXTENDS SSTable, Cache, Naturals, Sequences, FiniteSets

CONSTANTS
  Clients,      \* client goroutines
  OpKinds,      \* the operations clients call, a subset of ClientOps
  MaxOps,       \* operations each client performs before Close
  NoClient,     \* flushMu is free
  WalChCap,     \* capacity of the WAL channel
  NoEntry,      \* the WAL worker holds no entry
  MaxCrashes,   \* process crashes (and reopens) a behaviour may contain
  MaxCreateFails \* CreateSSTable calls of a behaviour that return an error

\* Config.Validate, which NewLSMTree calls first: the store only exists for
\* a configuration that passes it.  Of the fields it checks, the model has
\* MemTableSize and CacheSize (CacheCapacity); the others (SSTableSize,
\* CompactionInterval, MaxOpenFiles, the strategy, compression, recovery
\* and log-level names) shape nothing the model keeps.
Validate == MemTableSize > 0 /\ CacheCapacity >= 0

ASSUME Validate

VARIABLES
  mts,          \* every memtable ever created, by id
  memTable,     \* l.memTable: the id of the current memtable
  levels,       \* l.levels: a sequence of levels, each a sequence of SSTables
  sstSeq,       \* id of the next SSTable file (its UnixNano name)
  cache,        \* l.cache
  sstFiles,     \* every db.sst.*.sst file on disk, in file-name order
  flushHolder,  \* the client holding l.flushMu, or NoClient
  stopClosed,   \* close(l.stopCh) has happened
  compactor,    \* the compactor goroutine: "running" or "exited"
  closed,       \* Close has returned
  crashes,      \* crashes so far
  createFails,  \* CreateSSTable calls that have failed so far
  pc,           \* pc[c]: where client c is in its current operation
  op,           \* op[c]: the operation and its arguments
  ptr,          \* ptr[c]: the memtable id client c loaded
  cont,         \* cont[c]: where client c resumes after flushMemTable
  opsDone,      \* opsDone[c]: operations client c has completed
  kv,           \* ghost: the linearised key-value map
  read,         \* ghost: the last Get of each client
  flushed,      \* ghost: flushed[k] iff a flushMemTable completed (or the
                \* store was reopened) after the last write of k took effect
  appended,     \* ghost: WAL records appended so far (ever)
  logged,       \* ghost: WAL records the worker has written to the file so far
  ticket,       \* ghost: ticket[c], the number of client c's last record
  lastTicket,   \* ghost: the ticket of the last write of each key (0: none
                \* since the last reopen)
  walCh, walHand, walFile, walChClosed, walWorkerDone

W == INSTANCE WAL

storeVars == <<mts, memTable, levels, sstSeq, cache, sstFiles>>
ctlVars == <<flushHolder, stopClosed, compactor, closed, crashes, createFails>>
clientVars == <<pc, op, ptr, cont, opsDone>>
tickets == <<appended, logged, ticket, lastTicket>>
ghostVars == <<kv, read, flushed, tickets>>
walVars == <<walCh, walHand, walFile, walChClosed, walWorkerDone>>
vars == <<storeVars, ctlVars, clientVars, ghostVars, walVars>>

ClientOps == {"insert", "delete", "get", "force"}

\* Compact runs only when level 0 holds at least this many SSTables.
L0CompactionTrigger == 4

NoOp == [kind |-> "none", key |-> EmptyKey, val |-> NoValue]
NoRead == [key |-> EmptyKey, exp |-> NoValue, dirty |-> FALSE, done |-> FALSE,
           got |-> NoValue]

\* The WAL records of Insert (op 0x00) and Delete (op 0x01, empty value).
WalRecord(o) == [op |-> IF o.kind = "insert" THEN 0 ELSE 1, key |-> o.key,
                 val |-> o.val]

GetPcs == {"get_load", "get_mt", "get_cache", "get_levels"}

\* loadSSTables: every .sst file goes into level 0 (os.ReadDir lists them
\* in name order, i.e. by id), which is then sorted by minKey.
LoadSSTables(files) == <<SortByMinKey(files)>>

\* RecoverFromWAL: replay the records in file order onto the new memtable.
\* The error of memTable.Insert is ignored, so a record that does not fit
\* is skipped.  (ReplayRecordSwapped reads the op byte the wrong way round.)
ReplayRecordSwapped(m, r) ==
  IF r.op = 1 THEN IF MTFits(m) THEN MTInsert(m, r.key, r.val) ELSE m
  ELSE MTDelete(m, r.key)

ReplayRecord(m, r) ==
  IF r.op = 0 THEN IF MTFits(m) THEN MTInsert(m, r.key, r.val) ELSE m
  ELSE MTDelete(m, r.key)

RecoverFromWAL(m, log) == FoldLeft(ReplayRecord, m, log)

\* NewLSMTree on an empty directory.
Init ==
  /\ sstFiles = <<>>
  /\ mts = <<RecoverFromWAL(NewMemTable, <<>>)>>
  /\ memTable = 1
  /\ levels = LoadSSTables(<<>>)
  /\ sstSeq = 1
  /\ cache = NewCache
  /\ crashes = 0 /\ createFails = 0
  /\ flushed = [k \in Keys |-> TRUE]
  /\ appended = 0 /\ logged = 0
  /\ ticket = [c \in Clients |-> 0] /\ lastTicket = [k \in Keys |-> 0]
  /\ flushHolder = NoClient
  /\ stopClosed = FALSE
  /\ compactor = "running"
  /\ closed = FALSE
  /\ pc = [c \in Clients |-> "idle"]
  /\ op = [c \in Clients |-> NoOp]
  /\ ptr = [c \in Clients |-> 1]
  /\ cont = [c \in Clients |-> "idle"]
  /\ opsDone = [c \in Clients |-> 0]
  /\ kv = [k \in Keys |-> NoValue]
  /\ read = [c \in Clients |-> NoRead]
  /\ W!WalInit(<<>>)

-----------------------------------------------------------------------------
(* Helpers shared by the actions.                                          *)

Goto(c, l) == pc' = [pc EXCEPT ![c] = l]

Finish(c) ==
  /\ pc' = [pc EXCEPT ![c] = "idle"]
  /\ opsDone' = [opsDone EXCEPT ![c] = @ + 1]

\* Client c's Insert or Delete of k takes effect: kv changes, every Get of
\* k that is running sees a concurrent write, and k's last write is now
\* the one of c's record.
TakeEffect(c, k, v) ==
  /\ kv' = [kv EXCEPT ![k] = v]
  /\ read' = [d \in Clients |->
                IF pc[d] \in GetPcs /\ op[d].key = k
                THEN [read[d] EXCEPT !.dirty = TRUE] ELSE read[d]]
  /\ flushed' = [flushed EXCEPT ![k] = FALSE]
  /\ lastTicket' = [lastTicket EXCEPT ![k] = ticket[c]]
  /\ UNCHANGED <<appended, logged, ticket>>

\* The record client c sends on walCh gets the next number.
TakeTicket(c) ==
  /\ appended' = appended + 1
  /\ ticket' = [ticket EXCEPT ![c] = appended + 1]
  /\ UNCHANGED <<kv, read, flushed, logged, lastTicket>>

\* A Get returns v.
Return(c, v) ==
  /\ read' = [read EXCEPT ![c].done = TRUE, ![c].got = v]
  /\ Finish(c)

\* Compactor.Compact under c.mu and lsm.mu: below the trigger nothing
\* happens; otherwise level 0 is merged into one new SSTable, level 0 is
\* emptied and the merged table is appended to level 1, which is sorted.
Compact ==
  \/ /\ Len(levels[1]) < L0CompactionTrigger
     /\ UNCHANGED <<levels, sstSeq, sstFiles>>
  \/ /\ Len(levels[1]) >= L0CompactionTrigger
     /\ LET merged == MergeSSTables(levels[1], sstSeq)
        IN /\ levels' = IF Len(levels) < 2
                        THEN <<<<>>, <<merged>>>>
                        ELSE [levels EXCEPT ![1] = <<>>,
                                            ![2] = SortByMinKey(Append(@, merged))]
           /\ sstFiles' = Append(sstFiles, merged)
     /\ sstSeq' = sstSeq + 1

-----------------------------------------------------------------------------
(* Starting an operation.  Close is called once every client has done its *)
(* operations; no operation starts once Close has begun.                   *)

CanStart(c) == pc[c] = "idle" /\ opsDone[c] < MaxOps /\ ~stopClosed

StartInsert(c) ==
  /\ CanStart(c) /\ "insert" \in OpKinds
  /\ \E k \in Keys, v \in Values :
       op' = [op EXCEPT ![c] = [kind |-> "insert", key |-> k, val |-> v]]
  /\ Goto(c, "ins_wal")
  /\ UNCHANGED <<storeVars, ctlVars, ptr, cont, opsDone, ghostVars, walVars>>

StartDelete(c) ==
  /\ CanStart(c) /\ "delete" \in OpKinds
  /\ \E k \in Keys :
       op' = [op EXCEPT ![c] = [kind |-> "delete", key |-> k, val |-> NoValue]]
  /\ Goto(c, "del_wal")
  /\ UNCHANGED <<storeVars, ctlVars, ptr, cont, opsDone, ghostVars, walVars>>

StartGet(c) ==
  /\ CanStart(c) /\ "get" \in OpKinds
  /\ \E k \in Keys :
       /\ op' = [op EXCEPT ![c] = [kind |-> "get", key |-> k, val |-> NoValue]]
       /\ read' = [read EXCEPT ![c] = [NoRead EXCEPT !.key = k, !.exp = kv[k]]]
  /\ Goto(c, "get_load")
  /\ UNCHANGED <<storeVars, ctlVars, ptr, cont, opsDone, kv, flushed, tickets, walVars>>

StartForce(c) ==
  /\ CanStart(c) /\ "force" \in OpKinds
  /\ op' = [op EXCEPT ![c] = [kind |-> "force", key |-> EmptyKey, val |-> NoValue]]
  /\ Goto(c, "fc_load")
  /\ UNCHANGED <<storeVars, ctlVars, ptr, cont, opsDone, ghostVars, walVars>>

\* Close: close(l.stopCh) once all clients are done.
StartClose(c) ==
  /\ \A d \in Clients : pc[d] = "idle" /\ opsDone[d] = MaxOps
  /\ ~stopClosed
  /\ stopClosed' = TRUE
  /\ Goto(c, "cl_wait")
  /\ UNCHANGED <<storeVars, flushHolder, compactor, closed, crashes, createFails, op, ptr,
                 cont, opsDone, ghostVars, walVars>>

-----------------------------------------------------------------------------
(* LSMTree.Insert.                                                         *)

\* l.wal.Append(entry): blocks while the WAL channel is full.
InsWal(c) ==
  /\ pc[c] = "ins_wal"
  /\ W!AppendEntry(WalRecord(op[c]))
  /\ TakeTicket(c)
  /\ Goto(c, "ins_load")
  /\ UNCHANGED <<storeVars, ctlVars, op, ptr, cont, opsDone>>

\* mt := l.memTable.Load(), before and again after the flush.
InsLoad(c) ==
  /\ pc[c] \in {"ins_load", "ins_reload"}
  /\ ptr' = [ptr EXCEPT ![c] = memTable]
  /\ Goto(c, IF pc[c] = "ins_load" THEN "ins_mt" ELSE "ins_retry")
  /\ UNCHANGED <<storeVars, ctlVars, op, cont, opsDone, ghostVars, walVars>>

\* l.mu.RLock(); mt.Insert(key, value); l.mu.RUnlock() on the loaded
\* memtable.  A full memtable sends the first attempt to flushMemTable and
\* makes the second return ErrMemTableFull.
InsMemTable(c) ==
  /\ pc[c] \in {"ins_mt", "ins_retry"}
  /\ LET k == op[c].key
         v == op[c].val
         m == mts[ptr[c]]
     IN \/ /\ MTFits(m)
           /\ mts' = [mts EXCEPT ![ptr[c]] = MTInsert(m, k, v)]
           /\ TakeEffect(c, k, v)
           /\ Finish(c)
           /\ UNCHANGED cont
        \/ /\ ~MTFits(m) /\ pc[c] = "ins_mt"
           /\ Goto(c, "fl_lock")
           /\ cont' = [cont EXCEPT ![c] = "ins_reload"]
           /\ UNCHANGED <<mts, opsDone, ghostVars>>
        \/ /\ ~MTFits(m) /\ pc[c] = "ins_retry"
           /\ Finish(c)
           /\ UNCHANGED <<mts, cont, ghostVars>>
  /\ UNCHANGED <<memTable, levels, sstSeq, cache, sstFiles, ctlVars, op, ptr,
                 walVars>>

-----------------------------------------------------------------------------
(* LSMTree.Delete: no lock is taken around the memtable write.             *)

DelWal(c) ==
  /\ pc[c] = "del_wal"
  /\ W!AppendEntry(WalRecord(op[c]))
  /\ TakeTicket(c)
  /\ Goto(c, "del_load")
  /\ UNCHANGED <<storeVars, ctlVars, op, ptr, cont, opsDone>>

DelLoad(c) ==
  /\ pc[c] = "del_load"
  /\ ptr' = [ptr EXCEPT ![c] = memTable]
  /\ Goto(c, "del_mt")
  /\ UNCHANGED <<storeVars, ctlVars, op, cont, opsDone, ghostVars, walVars>>

DelMemTable(c) ==
  /\ pc[c] = "del_mt"
  /\ mts' = [mts EXCEPT ![ptr[c]] = MTDelete(@, op[c].key)]
  /\ TakeEffect(c, op[c].key, NoValue)
  /\ Finish(c)
  /\ UNCHANGED <<memTable, levels, sstSeq, cache, sstFiles, ctlVars, op, ptr,
                 cont, walVars>>

-----------------------------------------------------------------------------
(* LSMTree.Get: memtable, then cache, then the levels under l.mu.RLock.    *)

GetLoad(c) ==
  /\ pc[c] = "get_load"
  /\ ptr' = [ptr EXCEPT ![c] = memTable]
  /\ Goto(c, "get_mt")
  /\ UNCHANGED <<storeVars, ctlVars, op, cont, opsDone, ghostVars, walVars>>

\* mt.Get: a tombstone answers like a miss and the search goes on.
GetMemTable(c) ==
  /\ pc[c] = "get_mt"
  /\ LET v == MTGet(mts[ptr[c]], op[c].key)
     IN \/ v # NoValue /\ Return(c, v)
        \/ v = NoValue /\ Goto(c, "get_cache") /\ UNCHANGED <<opsDone, read>>
  /\ UNCHANGED <<storeVars, ctlVars, op, ptr, cont, kv, flushed, tickets, walVars>>

GetCache(c) ==
  /\ pc[c] = "get_cache"
  /\ LET v == CacheGet(cache, op[c].key)
     IN \/ /\ v # NoValue
           /\ cache' = CacheTouch(cache, op[c].key)
           /\ Return(c, v)
        \/ /\ v = NoValue
           /\ Goto(c, "get_levels")
           /\ UNCHANGED <<cache, opsDone, read>>
  /\ UNCHANGED <<mts, memTable, levels, sstSeq, sstFiles, ctlVars, op, ptr,
                 cont, kv, flushed, tickets, walVars>>

\* The level loop, and l.cache.Put of a value found in an SSTable.
GetLevels(c) ==
  /\ pc[c] = "get_levels"
  /\ LET v == LevelsGet(levels, op[c].key)
     IN /\ cache' = IF v # NoValue THEN CachePut(cache, op[c].key, v) ELSE cache
        /\ Return(c, v)
  /\ UNCHANGED <<mts, memTable, levels, sstSeq, sstFiles, ctlVars, op, ptr,
                 cont, kv, flushed, tickets, walVars>>

-----------------------------------------------------------------------------
(* flushMemTable, called by Insert, ForceCompaction and Close; the caller  *)
(* continues at cont[c] when it returns.                                   *)

\* oldMT.Swap(); l.memTable.Store(NewMemTable(...)).
SwapMemTable ==
  /\ mts' = Append([mts EXCEPT ![memTable] = NewMemTable], NewMemTable)
  /\ memTable' = Len(mts) + 1

\* flushMemTable returned an error: Insert and ForceCompaction return it,
\* and so does Close, before l.wal.Close().
FlushFailed(c) ==
  IF cont[c] = "cl_wal" THEN Goto(c, "idle") /\ UNCHANGED opsDone
                        ELSE Finish(c)

\* l.flushMu.Lock().
FlLock(c) ==
  /\ pc[c] = "fl_lock"
  /\ flushHolder = NoClient
  /\ flushHolder' = c
  /\ Goto(c, "fl_swap")
  /\ UNCHANGED <<storeVars, stopClosed, compactor, closed, crashes, createFails, op, ptr,
                 cont, opsDone, ghostVars, walVars>>

\* CreateSSTable returns an error after the swap: return err, and the
\* deferred flushMu.Unlock().  (FlCreateFailsNoUnlock leaves flushMu held.)
FlCreateFailsNoUnlock(c) ==
  /\ mts[memTable].size > 0 /\ createFails < MaxCreateFails
  /\ SwapMemTable
  /\ createFails' = createFails + 1
  /\ FlushFailed(c)
  /\ UNCHANGED <<levels, sstSeq, sstFiles, flushed, flushHolder>>

FlCreateFails(c) ==
  /\ mts[memTable].size > 0 /\ createFails < MaxCreateFails
  /\ SwapMemTable
  /\ createFails' = createFails + 1
  /\ flushHolder' = NoClient
  /\ FlushFailed(c)
  /\ UNCHANGED <<levels, sstSeq, sstFiles, flushed>>

\* Under l.mu: return at once (releasing flushMu) when the current memtable
\* is empty; otherwise Swap it, store a new memtable, write the snapshot as
\* a new SSTable, append it to level 0 and sort level 0 by minKey.  When
\* CreateSSTable fails (os.Create of the file), flushMemTable returns the
\* error after the swap: the snapshot is dropped, flushMu is released by
\* the deferred Unlock and the WAL is neither flushed nor reset.
FlSwap(c) ==
  /\ pc[c] = "fl_swap"
  /\ \/ /\ mts[memTable].size = 0
        /\ flushHolder' = NoClient
        /\ Goto(c, cont[c])
        /\ flushed' = [k \in Keys |-> TRUE]
        /\ UNCHANGED <<mts, memTable, levels, sstSeq, sstFiles, createFails, opsDone>>
     \/ /\ mts[memTable].size > 0
        /\ LET sst == CreateSSTable(sstSeq, SwapData(mts[memTable]))
           IN /\ levels' = [levels EXCEPT ![1] = SortByMinKey(Append(@, sst))]
              /\ sstFiles' = Append(sstFiles, sst)
        /\ SwapMemTable
        /\ sstSeq' = sstSeq + 1
        /\ Goto(c, "fl_walflush")
        /\ UNCHANGED <<flushHolder, flushed, createFails, opsDone>>
     \/ FlCreateFails(c)
  /\ UNCHANGED <<cache, stopClosed, compactor, closed, crashes, op, ptr, cont,
                 kv, read, tickets, walVars>>

\* l.wal.Flush(): wait until the WAL channel is empty.
FlWalFlush(c) ==
  /\ pc[c] = "fl_walflush"
  /\ W!Drained
  /\ Goto(c, "fl_reset")
  /\ UNCHANGED <<storeVars, ctlVars, op, ptr, cont, opsDone, ghostVars, walVars>>

\* l.wal.Reset(), then the deferred flushMu.Unlock().  (FlResetNoUnlock
\* leaves flushMu held.)
FlResetNoUnlock(c) ==
  /\ pc[c] = "fl_reset"
  /\ W!Reset
  /\ flushed' = [k \in Keys |-> TRUE]
  /\ Goto(c, cont[c])
  /\ UNCHANGED <<storeVars, ctlVars, op, ptr, cont, opsDone, kv, read, tickets>>

FlReset(c) ==
  /\ pc[c] = "fl_reset"
  /\ W!Reset
  /\ flushHolder' = NoClient
  /\ flushed' = [k \in Keys |-> TRUE]
  /\ Goto(c, cont[c])
  /\ UNCHANGED <<storeVars, stopClosed, compactor, closed, crashes, createFails, op, ptr,
                 cont, opsDone, kv, read, tickets>>

-----------------------------------------------------------------------------
(* LSMTree.ForceCompaction.                                                *)

FcLoad(c) ==
  /\ pc[c] = "fc_load"
  /\ ptr' = [ptr EXCEPT ![c] = memTable]
  /\ Goto(c, "fc_size")
  /\ UNCHANGED <<storeVars, ctlVars, op, cont, opsDone, ghostVars, walVars>>

\* if mt.Size() > 0 { flushMemTable() }
FcSize(c) ==
  /\ pc[c] = "fc_size"
  /\ IF mts[ptr[c]].size > 0
     THEN Goto(c, "fl_lock") /\ cont' = [cont EXCEPT ![c] = "fc_compact"]
     ELSE Goto(c, "fc_compact") /\ UNCHANGED cont
  /\ UNCHANGED <<storeVars, ctlVars, op, ptr, opsDone, ghostVars, walVars>>

\* l.compactor.Compact()
FcCompact(c) ==
  /\ pc[c] = "fc_compact"
  /\ Compact
  /\ Finish(c)
  /\ UNCHANGED <<mts, memTable, cache, ctlVars, op, ptr, cont, ghostVars,
                 walVars>>

-----------------------------------------------------------------------------
(* LSMTree.Close, after close(l.stopCh).                                   *)

\* l.wg.Wait() for the compactor goroutine, then flushMemTable().
ClWait(c) ==
  /\ pc[c] = "cl_wait"
  /\ compactor = "exited"
  /\ Goto(c, "fl_lock")
  /\ cont' = [cont EXCEPT ![c] = "cl_wal"]
  /\ UNCHANGED <<storeVars, ctlVars, op, ptr, opsDone, ghostVars, walVars>>

\* l.wal.Close(): close the channel ...
ClWal(c) ==
  /\ pc[c] = "cl_wal"
  /\ W!CloseChannel
  /\ Goto(c, "cl_join")
  /\ UNCHANGED <<storeVars, ctlVars, op, ptr, cont, opsDone, ghostVars>>

\* ... and wait for the worker; Close returns.
ClJoin(c) ==
  /\ pc[c] = "cl_join"
  /\ W!WorkerJoined
  /\ closed' = TRUE
  /\ Goto(c, "idle")
  /\ UNCHANGED <<storeVars, flushHolder, stopClosed, compactor, crashes, createFails, op,
                 ptr, cont, opsDone, ghostVars, walVars>>

-----------------------------------------------------------------------------
(* The compactor goroutine (Compactor.Run) and the WAL worker.             *)

\* A tick: Compact.  select picks among ready cases at random, so a tick
\* can still be taken after stopCh is closed.
CompactorTick ==
  /\ compactor = "running"
  /\ Compact
  /\ UNCHANGED <<mts, memTable, cache, ctlVars, clientVars, ghostVars, walVars>>

\* case <-stopCh: return.
CompactorExit ==
  /\ compactor = "running"
  /\ stopClosed
  /\ compactor' = "exited"
  /\ UNCHANGED <<storeVars, flushHolder, stopClosed, closed, crashes, createFails,
                 clientVars, ghostVars, walVars>>

\* The WAL worker: a record it writes to the file is logged.
WalWorker ==
  /\ \/ (W!WorkerRecv \/ W!WorkerExit) /\ UNCHANGED logged
     \/ W!WorkerWrite /\ logged' = logged + 1
  /\ UNCHANGED <<storeVars, ctlVars, clientVars, kv, read, flushed, appended,
                 ticket, lastTicket>>

\* The process dies at any point and NewLSMTree reopens the directory: the
\* goroutines, the channel, the cache and the locks are gone; every .sst
\* file (Compact never removes the level-0 files it merged) is loaded into
\* level 0 and the WAL file is replayed onto a new memtable.  The ghost kv
\* forgets the writes the recovered store does not hold.
Crash ==
  /\ crashes < MaxCrashes
  /\ LET mt == RecoverFromWAL(NewMemTable, walFile)
         held == {k \in Keys : \/ mt.table[k] \in Values
                              \/ \E i \in DOMAIN sstFiles : SSTHas(sstFiles[i], k)}
     IN /\ mts' = Append(mts, mt)
        /\ kv' = [k \in Keys |-> IF k \in held THEN kv[k] ELSE NoValue]
  /\ memTable' = Len(mts) + 1
  /\ levels' = LoadSSTables(sstFiles)
  /\ cache' = NewCache
  /\ flushHolder' = NoClient
  /\ stopClosed' = FALSE
  /\ compactor' = "running"
  /\ closed' = FALSE
  /\ crashes' = crashes + 1
  /\ UNCHANGED createFails
  /\ pc' = [c \in Clients |-> "idle"]
  /\ op' = [c \in Clients |-> NoOp]
  /\ ptr' = [c \in Clients |-> Len(mts) + 1]
  /\ cont' = [c \in Clients |-> "idle"]
  /\ read' = [c \in Clients |-> NoRead]
  /\ flushed' = [k \in Keys |-> TRUE]
  /\ logged' = appended
  /\ ticket' = [c \in Clients |-> 0] /\ lastTicket' = [k \in Keys |-> 0]
  /\ UNCHANGED appended
  /\ W!Reopen
  /\ UNCHANGED <<sstSeq, sstFiles, opsDone>>

\* Close has returned, with or without an error: the system stops.
Terminating ==
  /\ stopClosed /\ \A c \in Clients : pc[c] = "idle"
  /\ UNCHANGED vars

-----------------------------------------------------------------------------------------------------------------------------------------------------
(* Properties.                                                             *)

Pcs == {"idle", "ins_wal", "ins_load", "ins_mt", "ins_reload", "ins_retry",
        "del_wal", "del_load", "del_mt", "fl_lock", "fl_swap", "fl_walflush",
        "fl_reset", "fc_load", "fc_size", "fc_compact", "cl_wait", "cl_wal",
        "cl_join"} \cup GetPcs

TypeOK ==
  /\ mts \in Seq(MemTableType) /\ memTable \in DOMAIN mts
  /\ levels \in Seq(Seq(SSTableType)) /\ Len(levels) \in {1, 2}
  /\ cache \in Seq(Keys \X Values) /\ Len(cache) <= CacheCapacity
  /\ flushHolder \in Clients \cup {NoClient}
  /\ compactor \in {"running", "exited"}
  /\ pc \in [Clients -> Pcs] /\ cont \in [Clients -> Pcs]
  /\ ptr \in [Clients -> DOMAIN mts]
  /\ opsDone \in [Clients -> 0..MaxOps]
  /\ kv \in [Keys -> Values \cup {NoValue}]
  /\ flushed \in [Keys -> BOOLEAN]
  /\ sstFiles \in Seq(SSTableType) /\ crashes \in 0..MaxCrashes
  /\ createFails \in 0..MaxCreateFails
  /\ appended \in Nat /\ logged \in 0..appended
  /\ ticket \in [Clients -> 0..appended] /\ lastTicket \in [Keys -> 0..appended]

\* The keys the store still holds a value for: in the current memtable or
\* in the index of some SSTable of some level.
StoredKeys ==
  {k \in Keys : mts[memTable].table[k] \in Values}
    \cup {k \in Keys : \E l \in DOMAIN levels :
                         \E i \in DOMAIN levels[l] : SSTHas(levels[l][i], k)}

\* Insert returned nil (its memtable write took effect) and no Delete of
\* the key took effect since: the key is still held by the current memtable
\* or an SSTable, across flushes (Swap + CreateSSTable) and compactions
\* (mergeSSTables).
NoLostInsert == \A k \in Keys : kv[k] \in Values => k \in StoredKeys

\* A Get that ran while no Insert or Delete of its key took effect returns
\* the value of the last one before it: the memtable, cache and level probes
\* of LSMTree.Get together find the newest value and honour tombstones.
ReadLatest ==
  \A c \in Clients : read[c].done /\ ~read[c].dirty => read[c].got = read[c].exp

\* The record of the last write of k has reached the file: the worker
\* writes records in channel order, so record n is written once logged >= n.
Logged(k) == logged >= lastTicket[k]

\* An Insert or Delete of k has started and not returned: its WAL record
\* may be replayed although its memtable write has not happened.
InFlight(k) ==
  \E c \in Clients : pc[c] # "idle" /\ op[c].kind \in {"insert", "delete"}
                    /\ op[c].key = k

\* A crash and reopen keeps every key whose last acknowledged write is an
\* insert, unless a write of the key is in flight, once that insert is
\* durable: a later completed flushMemTable covered it, or the worker
\* wrote its WAL record to the file at some point.  loadSSTables and
\* RecoverFromWAL must rebuild it from the SSTable files and the log, also
\* when flushMemTable's wal.Reset has truncated the log since.  (The
\* channel is asynchronous: a record still in walCh may be lost.)
CrashKeepsAcknowledged ==
  [][crashes' > crashes =>
       \A k \in Keys : /\ kv[k] \in Values /\ ~InFlight(k)
                       /\ flushed[k] \/ Logged(k)
                       => k \in StoredKeys']_vars

\* Every operation a client starts returns: the flushMu hand-off, the wait
\* for the WAL channel to drain and Close's wait for the compactor and the
\* WAL worker all end.
OpsComplete == \A c \in Clients : pc[c] # "idle" ~> pc[c] = "idle"

-----

StartOp(c) ==
  StartInsert(c) \/ StartDelete(c) \/ StartGet(c) \/ StartForce(c) \/ StartClose(c)

\* The steps of an operation that has started.
Step(c) ==
  \/ InsWal(c) \/ InsLoad(c) \/ InsMemTable(c)
  \/ DelWal(c) \/ DelLoad(c) \/ DelMemTable(c)
  \/ GetLoad(c) \/ GetMemTable(c) \/ GetCache(c) \/ GetLevels(c)
  \/ FlLock(c) \/ FlSwap(c) \/ FlWalFlush(c) \/ FlReset(c)
  \/ FcLoad(c) \/ FcSize(c) \/ FcCompact(c)
  \/ ClWait(c) \/ ClWal(c) \/ ClJoin(c)

Next ==
  \/ \E c \in Clients : StartOp(c) \/ Step(c)
  \/ CompactorTick \/ CompactorExit \/ WalWorker
  \/ Crash
  \/ Terminating

\* A goroutine in the middle of an operation keeps running, the WAL worker
\* drains its channel, and the compactor leaves once stopCh is closed.
Fairness ==
  /\ \A c \in Clients : WF_vars(Step(c))
  /\ WF_vars(WalWorker)
  /\ WF_vars(CompactorExit)

Spec == Init /\ [][Next]_vars /\ Fairness

=============================================================================
