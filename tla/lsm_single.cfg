\* One client, a memtable of one entry: inserts, deletes, flushes on a full
\* memtable, compaction of four level-0 tables, and Close.
CONSTANTS
  Keys <- MCKeys
  NumKeys = 2
  Values = {v1}
  Tombstone = Tombstone
  NoValue = NoValue
  MemTableSize = 1
  CacheCapacity = 1
  Clients = {c1}
  OpKinds = {"insert", "delete", "force"}
  MaxOps = 5
  NoClient = NoClient
  WalChCap = 2
  NoEntry = NoEntry
  MaxCrashes = 0
  MaxCreateFails = 0
SPECIFICATION Spec
INVARIANTS TypeOK NoLostInsert
