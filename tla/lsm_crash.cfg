\* One client inserting, deleting and forcing compaction into a memtable
\* that never fills, with process crashes and reopens anywhere in the run
\* (after Close included).
CONSTANTS
  Keys <- MCKeys
  NumKeys = 2
  Values = {v1}
  Tombstone = Tombstone
  NoValue = NoValue
  MemTableSize = 5
  CacheCapacity = 0
  Clients = {c1}
  OpKinds = {"insert", "delete", "force"}
  MaxOps = 5
  NoClient = NoClient
  WalChCap = 2
  NoEntry = NoEntry
  MaxCrashes = 1
  MaxCreateFails = 0
SPECIFICATION Spec
PROPERTY CrashKeepsAcknowledged
