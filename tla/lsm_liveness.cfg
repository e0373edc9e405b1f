\* Two clients: flushMu contention, the retry that finds the new memtable
\* already full, Get through memtable, cache and levels, and Close.
CONSTANTS
  Keys <- MCKeys
  NumKeys = 1
  Values = {v1}
  Tombstone = Tombstone
  NoValue = NoValue
  MemTableSize = 1
  CacheCapacity = 1
  Clients = {c1, c2}
  OpKinds = {"insert", "get", "force"}
  MaxOps = 2
  NoClient = NoClient
  WalChCap = 2
  NoEntry = NoEntry
  MaxCrashes = 0
  MaxCreateFails = 1
SPECIFICATION Spec
PROPERTY OpsComplete
