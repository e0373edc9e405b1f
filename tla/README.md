# TLA+ models of golite

golite is a small embedded key-value database in Go. It has three storage
backends behind one port (`pkg/ports/storage.go`):

- the **LSM tree** (`pkg/adapters/lsmtree`, plus the WAL in `unnamed/part_003`
  and the LRU cache in `unnamed/part_005`);
- the **file adapter** (`pkg/adapters/file`), with an in-memory slice, a
  `sync.Map` index, an asynchronous WAL and an on-disk B-tree
  (`unnamed/part_005`);
- the **lock-free** pieces (`pkg/adapters/lockfree/lf_wal.go`,
  `unnamed/part_006`–`part_009`): a ring-buffer WAL, a skip-list memtable, a
  Michael–Scott queue, a compactor, a cache and an SSTable index.

A table registry (`pkg/domain/database.go`) and a command handler
(`pkg/application/command.go`) sit on top. The registry keeps the table
names in memory and on page 1 of the B-tree's file, and stores row `k` of
table `t` under the storage key `t:k`.

This project models the LSM tree, which is the backend with the most
concurrency: client goroutines, one compactor goroutine and one WAL worker
goroutine share the memtable pointer, the levels, the cache and the WAL. It
also models the process crashing and reopening the LSM tree, and the on-disk
B-tree, whose difficulty is in its algorithms rather than in concurrency,
the lock-free queue and skip list, the table registry, and the file
adapter's thread-safe path with its asynchronous index stores, WAL worker,
compaction and recovery.

## Inventory

| Part | Source | Module | Status |
|---|---|---|---|
| MemTable (Insert, Get, Delete, Swap) | `lsmtree/memtable.go` 11–107 | `MemTable` | modelled |
| LSMTree operations, crash and reopen | `lsmtree/memtable.go` 122–367 | `LSMTree` | partly: one I/O error (`os.Create` in `CreateSSTable`) |
| Compactor (Run, Compact, mergeSSTables) | `lsmtree/compaction.go` | `LSMTree`, `SSTable` | modelled, no I/O errors |
| SSTable (Create, Open, Get), level search | `lsmtree/errors.go`, `memtable.go` 259–275 | `SSTable` | partly: no CRC or Bloom |
| WAL (Append, worker, Flush, Reset, Close) | `unnamed/part_003` | `WAL` | modelled |
| LRU cache | `unnamed/part_005` 9–62 | `Cache` | modelled |
| WAL recovery, loadSSTables | `lsmtree/recovery.go`, `memtable.go` 138–207 | `LSMTree` | modelled |
| B-tree (Insert, Get, Delete) | `unnamed/part_005` 63–809 | `BTree` | partly: no node cache, I/O errors or mid-operation crash |
| File adapter (Insert, InsertBatch, Delete, WAL worker, compaction, Close, NewFile recovery) | `adapters/file/file.go` 44–620 | `File` | partly: ThreadSafe path only; no crash inside compact's WriteFile |
| Lock-free queue (Enqueue, Dequeue) | `unnamed/part_006` 28–261 | `LFQueue`, `QueueSpec`, checked inside `LFCompactor` | modelled |
| Lock-free skip-list memtable (Insert, Delete, Get, Dump, Swap, Reset) | `lockfree/lf_wal.go` 162–378 | `SkipList` | partly: Swap and Reset only between calls |
| Lock-free WAL (Append, Flush, Reset, Close, flush worker) | `lockfree/lf_wal.go` 12–161 | `LFWAL` | modelled; no torn reads or I/O errors |
| Lock-free compactor (AddTask, Run, compact, Stop) | `unnamed/part_007` 34–101 | `LFCompactor` (with `LFQueue`) | modelled; SSTables as key ranges |
| Lock-free cache, SSTable index | parts 008–009 | — | not yet |
| Table registry (CreateTable, DropTable, Insert, Get, Delete, Close, reopen) | `domain/database.go` 53–296 | `Database` | modelled; storage port as a map; its bug is kept in no run |
| LSM config validation (`Config.Validate`) | `lsmtree/config.go` 78–128 | `LSMTree` (`ASSUME Validate`) | partly: only the fields the model has |
| Bloom filter, metrics, default config, types, command, CLI | — | — | not modelled: no shared state a property needs |

`PROJECT.json` lists every component, with the reason for each one that is
left out, and every hazard found in the code.

## Modules

- `MemTable.tla` holds operators on one memtable value: a `table` from key to
  value, `Tombstone` or `NoValue`, and a `size`. `MTFits` is the `maxSize`
  check of `MemTable.Insert`. `MTGet` answers a tombstone like a miss, as the
  code does. `SwapData` is the snapshot `Swap` returns, which leaves the
  tombstones out. Each entry costs one unit of size.
- `Cache.tla` models the LRU list as a sequence, most recently used first.
  `CacheGet` and `CacheTouch` model `Get`, and `CachePut` models `Put`.
- `SSTable.tla` models an SSTable as its record sequence. `MinKey` and
  `MaxKey` are the first and last keys. `SSTGet` returns the last duplicate,
  because the index keeps the last offset. `MergeSSTables` concatenates
  records, as `mergeSSTables` copies the files.
  - `SortByMinKey` is Go's `sort.Slice` on small slices. That is insertion
    sort, which is stable.
  - `SearchMaxKey` is the bisection of `sort.Search`, step by step. The
    predicate is not monotone on an overlapping level, so an idealised search
    would give different answers.
- `WAL.tla` holds the WAL's variables and one fragment per operation:
  - the channel `walCh` with capacity `WalChCap`;
  - the entry the worker holds (`walHand`);
  - the file contents (`walFile`);
  - the closed flag and the worker-done flag.

  `LSMTree` instantiates it.
- `LSMTree.tla` is the composed system. Each client has a program counter. A
  step is one of:
  - a load of `l.memTable`;
  - one critical section under `l.mu`, `mt.mu` or `c.mu`;
  - one channel send;
  - one wait.

  Actions are named after the code position:
  - Insert: `InsWal`, `InsLoad`, `InsMemTable` (with the flush and the
    retry);
  - Delete: `DelWal`, `DelLoad`, `DelMemTable`;
  - Get: `GetLoad`, `GetMemTable`, `GetCache`, `GetLevels`;
  - flushMemTable: `FlLock`, `FlSwap`, `FlWalFlush`, `FlReset`;
  - ForceCompaction: `FcLoad`, `FcSize`, `FcCompact`;
  - Close: `ClWait`, `ClWal`, `ClJoin`.

  flushMemTable is shared: its caller records where it resumes in `cont`.
  `FlCreateFails` is the fault branch of `FlSwap`: `CreateSSTable`'s
  `os.Create` fails after the memtable was swapped, the snapshot is
  dropped, the deferred `Unlock` releases `flushMu`, and the caller returns
  the error (`FlushFailed`). `MaxCreateFails` bounds these failures; it is
  1 in `lsm_liveness` and 0 in the other runs.
  The compactor goroutine is `CompactorTick` and `CompactorExit`, and the WAL
  worker is `WalWorker`. Two ghost variables record what the operations have
  done:
  - `kv` is the map the operations linearised to, updated at each memtable
    write;
  - `read[c]` records a Get: the value `kv` held when it started, whether a
    write of its key overlapped it, and its answer.

  A crash (`Crash`) is the process dying at any point, followed by
  `NewLSMTree`. The memtable is rebuilt by `RecoverFromWAL` from the WAL
  file, and the levels by `loadSSTables` from every SST file ever written.
  Compaction never deletes its input files. The channel, the worker's entry,
  the locks and every client's operation are lost. The ghost `flushed[k]`
  records that no write of `k` has happened since the last completed flush
  or reopen. The ghost record tickets number the WAL records: `appended`
  counts the records sent on the channel, `logged` those the worker has
  written to the file, and `lastTicket[k]` is the number of the record of
  the last write of `k`. The channel is FIFO, so that record has reached
  the file once `logged >= lastTicket[k]`, even if a `wal.Reset` has
  truncated it since.
- `BTree.tla` models the B-tree of `unnamed/part_005`. `disk` is the file:
  a function from page offset to node `[items, kids, off]`, plus `next`, the
  `nextOffset` of `allocateNode`. `root` and `length` are the header. Each of
  Insert, Get and Delete runs under `b.mu`, so each one is a single step.
  - Each Go function becomes one operator that takes the disk and the
    in-memory node and returns the disk after the function's writes:
    `SplitChild`, `InsertNonFull`, `SearchValue`, `DeleteFromNode`, `Fill`,
    `MergeNodes`, `BorrowFromPrev` and `BorrowFromNext`. The recursive ones
    are `RECURSIVE`.
  - `DeleteFromNode` returns `"panic"` where the code indexes past the end
    of `childrenOffsets`.
  - The code never calls `recover`, so a panic ends the process. `NewBtree`
    then reads the old header and the disk as the panic left it, and the
    model goes on from that state.
  - The LRU node cache is left out. It is write-through, and `readNode`
    returns what was last written, so no value read depends on it.
  - The ghost `ref` is the map the operations promise, and `lastOp` and
    `lastErr` record the last operation and how it ended.
- `MCBTree.tla` sets `BKeys` to `1..NumBKeys`.
- `QueueSpec.tla` is what the lock-free queue promises: a FIFO sequence
  `q`, and per goroutine an operation that is invoked (`pending`), takes
  effect at one instant (`Enq`, `Deq`), and returns. A Dequeue of the empty
  queue returns `NoVal`, the code's `(zero, false)`.
- `LFQueue.tla` models the Michael–Scott queue of `unnamed/part_006`.
  - Each `atomic.LoadPointer`, `CompareAndSwapPointer` and `AddInt64` is one
    step of a goroutine, with `pc[p]` naming the next one. The local tests
    after a load belong to that load's step.
  - Nodes are numbers: 0 is the sentinel, and Enqueue takes the next one.
    `next[n]` is the `nodePointer` that `n.next` points to, as a
    `[ptr, tag]` value. A node's `next` is replaced at most once, so
    comparing values is comparing pointers. The garbage collector never
    frees a node that a goroutine still holds, so no pointer is reused.
  - Each enqueued value is its node's number, so all values are distinct
    and a lost or duplicated value shows.
  - `Abs` maps the state to `QueueSpec`: the queue is the list after
    `head`. An operation is `done` after its linearisation point: the
    link CAS, the head CAS, or the load of a nil `head.next`.
- `LFCompactor.tla` models the lock-free compactor of `unnamed/part_007`
  on top of the queue: `Q == INSTANCE LFQueue`, with the producer and the
  compactor goroutines as the queue's goroutines, so every queue step of
  theirs is a step of `LFQueue`.
  - An SSTable is a queue node with a key range `rng[n]` (`MinKey`,
    `MaxKey`) and a ghost `parts[n]`, the tasks it was merged from.
    `AddTask` enqueues task `k` as the range `[k, k]`.
  - `cg[c]` is where compactor goroutine `c` is: `off` before a Run
    started it, `loop` in its `select`, `deq1`, `deq2` and `enq` inside
    `compact`, `exit` after it took the `stopCh` case. `Tick` starts the
    first Dequeue, `Deq2` the second, `Merge` is the `if !ok1 || !ok2`
    and the Enqueue of the merged or the put-back SSTable, `EnqDone` its
    return.
  - `upc[u]` is a caller of Run or Stop. The `running.Load()` check and the
    `Store` are separate steps (`RunCall`, `RunStart`; `StopCall`,
    `StopClose`, `StopStore`), so two Runs can both pass the check and
    start two goroutines, and two Stops can both close `stopCh`. A second
    close panics (`panicked`), and the model then stops.
- `SkipList.tla` models the lock-free memtable `lfMemtable` of
  `lockfree/lf_wal.go`.
  - Each CAS and each load of Insert, Delete and Get is one step, and
    `pc[p]` names the next one. `find` is a walk of its own, with
    `fx[p]`, `fi[p]` as its cursor and level and `fcont[p]` as where the
    call resumes: `FindWalk` is one load of `x.next[i]` (`lf_wal.go:234`),
    and `FindSucc` is the second load that sets `succs[i]` (241). A node
    linked between the two loads becomes the successor without its key
    being compared, which is the bug `sl_unsorted` shows.
  - Get's walk from the top level is left out. Its result is thrown away,
    because `x` restarts at `m.head.next[0]`.
  - `randomLevel` is a choice over `1..MaxLevel`.
  - Swap and Reset replace `m.head` with plain stores. No caller runs them
    beside other calls, so here they run only when no call is in
    progress.
  - The ghost `kv` is the map the calls took effect on. An Insert takes
    effect at its level-0 CAS or at its update, and a Delete at its flag
    CAS. `seen[p]` collects every value the key of p's Get or Delete held
    during the call.
- `Database.tla` models the table registry. Each method runs under `db.mu`
  and is one step. `tables` and `tableCount` are `spec.Tables` and
  `status.TableCount`, `header` is the name list on page 1, and `store` is
  the storage port as the map it promises. The B-tree behind the port is
  checked on its own in `BTree`. Names and keys are TLA+ strings, so
  `Prefix(t, k)` is the real concatenation `t \o ":" \o k`.
  - `SaveHeader` writes the names only if `HeaderBytes` fits the page:
    a u32 count, then a u16 length and the bytes of each name.
    `CreateTable` and `DropTable` change the in-memory set first, as the
    code does, so a failed save leaves memory and page 1 apart.
  - `Reopen` is `NewDatabase` on the existing file: `loadHeader` reads the
    names back, and the rows stay in the B-tree pages.
  - The ghost `ref` is what each table should hold: a table is empty when
    created, and its rows change only through its own Insert and Delete.
- `File.tla` models the file adapter with `ThreadSafe` set.
  - `data` is `f.data`, the sequence of entries with their deleted flag.
    `index` is the `sync.Map`.
  - `pending` holds the `go f.index.Store(key, value)` goroutines that
    Insert started and that have not run yet (`StoreRun`).
  - `walCh`, `walBuf` and `walFile` are the WAL channel, the worker's
    buffer and the records on disk. `mainFile` is the main file that
    compaction writes.
  - Each caller has a `pc`: after its critical section under `f.mu` it
    still has to send its WAL record (`Send`), or it sends on a closed
    channel during Close and panics (`SendPanics`).
  - `DoCompact` is `compact`: the live entries sorted by key, written to
    the main file, the WAL truncated, and the index rebuilt. A `gen`
    counter stands for the rebuilt index, so a store goroutine older than
    the rebuild writes into the old map (`StoreRun` ignores it).
  - `Crash` loses memory; `Reopen` is `NewFile`: it reads the main file,
    replays the WAL, and rebuilds the index as the code does
    (`RecoveredIndex`).
- `LFWAL.tla` models the lock-free WAL. `buffer` is the ring of
  `Capacity` slots, `head` and `tail` the atomic counters, `file` the
  entries written so far, `closed` the atomic flag. Every goroutine and
  the flush worker has a `pc`. Append is `AClosed`, `ATail`, `AHead`,
  `ACas` and `AStore`, one step per atomic operation. Flush is `FHead`,
  `FTail`, one `FRead` per slot, `FWrite` and `FStore`, and returns to
  Reset (`RHead`, `RTail`), Close (`CMark` before it, `CFile` after it)
  or the worker loop (`WTick`, `WStop`). Entries are numbered by call;
  0 is the zero `WalEntry` of a slot never stored.
- `MCSkipList.tla` sets `Keys` to `1..NumSKeys`.
- `MCLSMTree.tla` sets `Keys` to `1..NumKeys`. Keys are ordered integers
  standing for strings; `0` is the empty string.

## Properties

- `TypeOK` is the type invariant. It includes `size <= MemTableSize`.
- `NoLostInsert`: every key whose last linearised write was an Insert is
  still stored, in the current memtable or in some SSTable.
- `ReadLatest`: a Get with no overlapping write of its key returns the value
  of the last write before it. A delete makes that value "not found".
- `OpsComplete` (liveness): every operation a client starts returns.
- `CrashKeepsAcknowledged` (action property): at a crash, every key whose
  last write was an insert with no operation in flight is stored after the
  reopen, if a flush covered the insert or the worker wrote its WAL record
  to the file at some point (`Logged`). A record still in the channel may
  be lost: the WAL is asynchronous.
- `BTreeShape`: every node reachable from the root holds at most
  `2*Degree-1` items, and every non-root node at least `Degree-1`. An inner
  node has one child more than items, and all leaves are at one depth.
- `SearchFindsStored`: `Get(k)` returns a value exactly when some node
  holds `k`, and then the value of one such item.
- `LengthCountsItems`: the header's `Length` equals the number of items in
  the tree.
- `GetReturnsLatest` (`BTree`, not kept in a run): `Get(k)` returns the
  last value inserted for `k`, or not found after a successful delete
  (spec section 8). TLC violates it with two inserts of one key.
- `DeleteFailsOnlyIfAbsent` (`BTree`, not kept in a run): a Delete that
  returns an error was given a key the tree did not hold.
- `Linearizable` (`LFQueue`, temporal): `Abs!Spec`. Every behaviour of the
  CAS loops is a behaviour of the atomic FIFO queue. So no value is lost or
  returned twice, values leave in the order they were linked, and an empty
  result means the queue was empty at some instant during the call.
- `TailReachable` (`LFQueue`): `tail` is on the list from `head`. This is
  the invariant that Dequeue's `head == tail` help exists to keep.
- `QuiescentLength` (`LFQueue`): when no call is in flight, `length` equals
  the number of values in the list. While calls are in flight it may differ,
  because the counter is updated after the CAS.
- `OpsComplete` (`LFQueue`, liveness): every Enqueue and Dequeue returns.
  The queue properties are checked through `LFCompactor`, with the
  compactor's goroutines and the producer as the queue's callers.
- `TasksNotDuplicated` (`LFCompactor`): when no queue call is in flight,
  the SSTables in the queue and those a compactor goroutine holds between
  its Dequeues and its Enqueue are distinct, no two hold the same task,
  and each holds only tasks already added. Two goroutines started by
  racing Runs compact at once, and compact puts `sst1` back when the
  queue runs dry.
- `TasksPreserved` (`LFCompactor`, not kept in a run): every added task is
  in one of them as well. TLC violates it: the first Dequeue of `compact`
  finds the queue empty, AddTask enqueues, the second Dequeue takes the
  task, and `compact` returns on `!ok1` without putting it back
  (`part_007:74`).
- `SkipListShape` (`SkipList`): every level is sorted, holds only nodes
  tall enough for it, and holds only nodes that are also on level 0. Keys
  repeat after a delete and re-insert: the new node goes in front of the
  deleted one. So the strict order that the spec states in section 8
  holds only between distinct keys. The code breaks it (`sl_unsorted`).
- `ListMatchesMap` (`SkipList`, not kept in a run): `Dump`, and so
  Swap's snapshot, equals `kv` in every state.
- `ResultsLinearizable` (`SkipList`, not kept in a run): a Get returns a
  value from `seen[p]`. A Delete that fails saw the key absent at some
  instant of its call. Both fail after the out-of-order link of
  `sl_unsorted`: a later Get(1) or Delete(1) stops at node 2 and misses
  key 1.
- `QuiescentSize` (`SkipList`): with no call in progress, `m.length` is
  the number of nodes not deleted.
- `OpsComplete` (`SkipList`, liveness): every call returns.
- `TablesIsolated` (`Database`, not kept in a run): `Get(t, k)` returns the value last inserted
  into row `k` of `t` since `t` was created and not deleted since, and
  not found otherwise. spec.md section 2 describes the registry as mapping
  each table name to its own key namespace.
- `AckedWrittenOnce` (`LFWAL`): once a Close has returned nil, the file
  holds exactly the entries whose Append returned nil, each once, and
  nothing else.
- `IndexMatchesData` (`File`): when no index store of a key is still
  pending, the index entry that Get reads agrees with `f.data`: the value
  of the key's last entry, or absent if that entry is a deletion. This is
  what Get must return by the storage port's contract.

## Runs

| Run | Expect | Shows |
|---|---|---|
| `lsm_single` | pass | One client's inserts, deletes and forced compactions through several flushes and one level-0 compaction keep every inserted key (`TypeOK`, `NoLostInsert`). 111k states. |
| `lsm_crash` | pass | One client, with a crash and reopen anywhere, never loses an acknowledged insert that a flush covered or whose record reached the file (`CrashKeepsAcknowledged`). The memtable never fills, so no Insert flushes and replay never overflows. 3.86M states. |
| `bt_ops` | pass | Eight inserts and deletes over five keys on a degree-2 B-tree, repeated keys and the delete panic included, keep `BTreeShape`, `SearchFindsStored` and `LengthCountsItems`. 94k states. |
| `lfc_compact` | pass | The compactor on the lock-free queue: a producer adding two tasks, two controllers calling Run and Stop, and up to two compactor goroutines ticking twice, in every interleaving of their atomic steps. The queue refines `QueueSpec` (`Linearizable`), the tail stays reachable, `length` is exact when no call is in flight, every call returns or the process panics (`OpsComplete`), and no task is duplicated (`TasksNotDuplicated`). 110k states. |
| `sl_ops` | pass | Two goroutines and three calls over two keys on a two-level skip list, in every interleaving of their CAS and load steps, with each load of `find` a step of its own, count `m.length` right whenever no call is in flight (`QuiescentSize`), and every call returns (`OpsComplete`). 163k states. |
| `lsm_liveness` | pass | Two clients doing Insert, Get and ForceCompaction, then Close: every operation returns under the fairness below (`OpsComplete`), also when one `CreateSSTable` fails and flushMemTable returns its error, Close's included. 175k states. |
| `lsm_stale_memtable` | violation | An Insert that loaded the memtable pointer before another client's flush writes into the swapped-out memtable. The key is lost. |
| `lsm_tombstone` | violation | Delete, then Get: the tombstone is read as a miss and the SSTable's old value is returned. |
| `lsm_wal_reset` | violation | Insert k1 fills a memtable of one entry. Insert k2 appends its record, finds the memtable full and flushes it; the worker writes the record to the file, and `wal.Reset` truncates it (`memtable.go:324`). k2 then goes into the new memtable and Insert returns nil. A crash loses k2. The same property also fails by replay overflow, on a longer trace: a record written after `Reset` fills the memtable on replay, and `RecoverFromWAL` skips the next insert (`recovery.go:71`). |
| `lfwal_close` | violation | p1's Append passes the `closed` check (`lf_wal.go:47`); p2's Close sets `closed`, flushes an empty buffer and closes the file; p1's CAS and slot store succeed and Append returns nil. The entry is acknowledged and never written. Under the same bounds TLC also reaches the file holding an entry twice (the worker and Close flush the same range) and holding the zero entry of a slot whose store had not landed. |
| `sl_unsorted` | violation | p1's Insert(2) breaks its level-0 walk on `head.next[0] == nil`. p2's Insert(1) links node 1. p1's second load of `head.next[0]` (`lf_wal.go:241`) returns node 1, which is not key 2, so p1 links node 2 in front of it: head -> 2 -> 1 (`SkipListShape`, 15 states). |
| `file_index` | violation | Insert, Send, Delete, then the Insert's `go f.index.Store` runs: `f.data` holds the deletion and the index holds the deleted value, so Get returns it (`file.go:252`). |

The violation runs are the findings in `PROJECT.json`. Each one comes from
`spec.md` and the code disagreeing, or from the code breaking a guarantee the
spec states.

### Mutants

Each property of a passing run is also checked against a deliberately broken
copy of the code it depends on:

- `MTFitsUnsized` leaves the entry's own size out of the check.
- `SwapDataAfterReset` takes the snapshot after the table was reset.
- `FlResetNoUnlock` leaves `flushMu` locked.
- `FlCreateFailsNoUnlock` returns the `CreateSSTable` error without
  releasing `flushMu`.
- `ReplayRecordSwapped` replays an insert record as a delete.
- `AllocateNodeNoAdvance` hands out the same page twice.
- `FillNoBorrow` merges without trying to borrow from a sibling.
- `BorrowFromPrevNoRotate` moves the sibling's item into the child directly
  instead of rotating it through the parent.
- `DeleteTreeCountsErrors` decrements `Length` even when the delete fails.
- `EnqLinkBlind` links the new node without comparing `tail.next`, so a
  concurrent link is overwritten.
- `DeqLoadNextHelpFirst` tests `head == tail` before the nil check, and
  swings the tail to nil.
- `DeqLoadNextNoHelp` drops the `head == tail` help, so head can pass tail.
- `DeqEmptyCounts` decrements `length` on the empty return.
- `EnqRecheckInverted` retries exactly when the tail is unchanged.
- `RandomLevelsOffByOne` lets a level reach `maxLevel + 1`.
- `InsCheckCounts` increments `length` after an update as well.
- `DeqCasBlind` swings `head` without comparing, so two compactor
  goroutines can take the same SSTable.
- `InsRefindStale` retries the upper-level CAS without searching again.

TLC finds every one of these.

## Bounds

- **Values**: one or two. Two only where the age of a duplicate matters.
- **Keys**: one to three.
- **`MemTableSize`**: 1 or 2, so a flush happens at every insert or second
  insert.
- **`MaxOps`**: up to 5. Five flushes fill level 0 to the compaction trigger
  of 4 (`L0CompactionTrigger`, `compaction.go:52`).
- **`CacheCapacity`**: 0 or 1. A capacity of 0 keeps the cache out of the
  read-path runs.
- **`WalChCap`**: 2. That is small enough for the channel to fill.
- **Lock-free queue and compactor**: one producer adding two tasks, two
  compactor goroutines with two ticks between them, and two controllers
  with two Run or Stop calls. That makes three queue goroutines and up to
  eight nodes, and allows two concurrent Enqueues that loaded the same
  tail, a Dequeue that overtakes a lagging tail, an empty Dequeue racing
  an Enqueue, two goroutines from racing Runs, and a merge. Three tasks
  and three calls reach 4.9M states and liveness checking does not end in
  fifteen minutes. Every queue mutant fails within this bound.
- **Skip list**: two goroutines, two keys, one value, two levels and
  three calls. That is enough for:
  - two Inserts of one key racing on the level-0 CAS;
  - an upper-level CAS failing and being retried after a new search;
  - delete then re-insert, and two Deletes of one key;
  - a Get overlapping each of these;
  - a node linked between the two loads of one level of `find`, which
    `sl_unsorted` needs.
  Each added call multiplies the states about fifteen times.
- **Table registry**: no run is kept. The bounds that show its bug are two
  table names and two keys chosen so that a prefixed key can coincide
  (`"a"` with `"b:c"` and `"a:b"` with `"c"`), `MaxTables` 2, and a page
  of 12 bytes, which holds both names.
- **File adapter**: one goroutine, one key, one value, a WAL channel of
  one slot, a flush threshold of two records, three calls. The race
  needs only Insert then Delete of one key by one goroutine, because the
  store runs in a goroutine of its own.
- **Lock-free WAL**: two goroutines, the worker, two slots and three
  calls: enough for an Append racing Close, the worker's Flush racing
  Close's, a Flush reading a reserved but unstored slot, and Reset racing
  an Append.
- **`MaxCrashes`**: 1. One reopen already replays a WAL holding records
  from before and after a flush.
- **B-tree**: `Degree` 2 is the configured default (`part_012`), and with
  it three items fill a node. Five keys and eight operations are enough to
  reach:
  - a root split and a split below the root;
  - both borrows, merges in both directions and root collapse;
  - predecessor and successor replacement;
  - the panic.

Why these are enough:

- Every finding needs at most two clients and five operations.
- `lsm_single` reaches a compaction.
- `lsm_liveness` reaches flushes by both clients and Close with the
  compactor's exit.

## Fairness

Fairness is weak and covers three things:

- each client's started operation (`WF Step(c)`), because a goroutine that is
  running keeps running;
- the WAL worker, which loops on the channel;
- the compactor's exit once `stopCh` is closed. `select` picks among the
  ready cases at random, so the stop case is eventually taken.

For the queue, each goroutine inside Enqueue or Dequeue is weakly fair
(`WF Step(p)`): the Go scheduler preempts, so a runnable goroutine keeps
running. With two goroutines and bounded operations, the retry loops then
end. Without a bound, a goroutine could lose every CAS.

In the compactor run the producer, and each compactor goroutine inside a
queue call or inside `compact`, is weakly fair, and so is a caller of Run
or Stop between its load and its store. Ticks, `AddTask`, and the calls of
Run and Stop are not forced. After a panic nothing is fair: the process
has ended.

The skip-list run makes the same assumption (`WF Step(p)`).

The B-tree and crash runs check safety only and assume no fairness. After
`MaxOps` operations the B-tree model stutters (`Done`).

Nothing forces a client to start an operation. The compactor's ticks are not
fair, because Go's ticker gives no guarantee that the model relies on.

## Not modelled yet

- I/O errors of `CreateSSTable` after its file was created, of
  `mergeSSTables` and of `wal.Reset`.
- The data lost by a failed `CreateSSTable` (`memtable.go:312`): the
  memtable was already swapped, so the keys it held are in no memtable and
  no SSTable until a reopen replays the WAL. The model has this, and
  `NoLostInsert` fails on it (Insert, then ForceCompaction whose create
  fails), but the project keeps no run for it.
- A crash after compaction. The crash run never reaches four flushes.
- For the B-tree:
  - a crash between the node writes of one operation and its
    `saveHeader`;
  - page overflow;
  - the node cache's aliasing of nodes that are mutated in place before
    an I/O error.
- In the file adapter: the non-`ThreadSafe` path through `seqBuffer`, and
  a crash inside compact's in-place `os.WriteFile` of the main file.
  `NewFile` also brings deleted keys back into the index
  (`file.go:106–112` re-stores every non-deleted entry after replaying the
  deletions); the model has this and `IndexMatchesData` fails on it after
  a crash, but only `file_index` is kept as a run.
- Inserting a stored key into the B-tree adds a second item and Get
  returns the first (`part_005:378`); `GetReturnsLatest` fails on it,
  but the project keeps no run for it.
- The lock-free cache and SSTable index (parts 008–009).
- Compactor bugs the model reaches but no run keeps: the lost task of
  `compact` (`TasksPreserved`, `part_007:74`); `Stop` racing `Stop`,
  where both pass the `running` check and the second `close(stopCh)`
  panics (`part_007:98`); and merged ranges that are no longer ordered:
  a put-back SSTable goes to the tail, so a later merge pairs a newer
  task's `MinKey` with an older one's `MaxKey`, against the comment that
  sorted order is kept (`part_007:83`). No property states range order.
- In the lock-free WAL: a torn read of a `WalEntry` that a racing Append
  is storing, and I/O errors other than a write to a closed file.
- The B-tree delete panic (`part_005:577`): after `fill` merges the key's
  child into its left sibling, `deleteFromNode` reads
  `childrenOffsets[idx]` past the end. `DeleteFailsOnlyIfAbsent` fails on
  it with insert 1, 2, 3, 4, delete 4, delete 3, but the project keeps no
  run for this short sequential case.
- The age order of level 0. `flushMemTable` sorts level 0 by minKey
  (`memtable.go:317`), so an older table that shares a key with a newer one
  can be probed first, and Get returns the old value. `ReadLatest` states
  what is wanted, but no run sets up this case.
- The level-0 bisection. `Get` picks one table per level by `sort.Search`
  on maxKey (`memtable.go:264`). Level-0 tables overlap, so a key held
  by a table the bisection skips is reported not found. The model has this
  behaviour and `ReadLatest` fails on it (level 0 holding [{1,2}, {1}] and
  a Get of key 2), but the project keeps no run for it. The
  `lsm_tombstone` run shows another way the level-0 probe goes wrong.
- A concurrent Swap or Reset of the skip list.
- The queue's `Peek`. It only reads, and its head CAS depends on the
  `dequeued` flag, which nothing sets.
- The table registry's key collision (`database.go:222`). `TablesIsolated`
  fails on it: `Insert("a:b", "c", v)` writes storage key `"a:b:c"`,
  which is also row `"b:c"` of table `"a"`, so `Get("a", "b:c")` returns
  `v`. It also fails by drop and re-create, because `DropTable` leaves the
  rows behind. The run that checked it gave its place to `sl_unsorted`:
  the project keeps twelve runs, and this sequential case is the one a
  unit test reaches most easily.
- The command handler and CLI. Each command is a thin wrapper that calls
  one `Database` method, and that method is already an action of
  `Database`. The handler adds parsing and output formatting, but no
  shared state of its own.
- The lock-free cache and SSTable index would each need a run of their
  own, and the project already has one run for every question it asks.
- `Config.Validate` is kept only as the assumption that `NewLSMTree`
  succeeded (`MemTableSize > 0`, `CacheSize >= 0`). Every constant the
  model uses is already valid, so an invalid configuration is never
  explored.
- Byte encodings, CRCs, compression flags, the Bloom filter (the LSM Get path
  never reads it) and metrics. No property depends on them.
