\* One client, one crash: the Insert that fills the memtable flushes it;
\* its WAL record, already in the file, is truncated by the flush's Reset
\* and the Insert then goes into the new memtable, so a crash loses it.
CONSTANTS
  Keys <- MCKeys
  NumKeys = 2
  Values = {v1}
  Tombstone = Tombstone
  NoValue = NoValue
  MemTableSize = 1
  CacheCapacity = 0
  Clients = {c1}
  OpKinds = {"insert", "delete", "force"}
  MaxOps = 3
  NoClient = NoClient
  WalChCap = 2
  NoEntry = NoEntry
  MaxCrashes = 1
  MaxCreateFails = 0
SPECIFICATION Spec
PROPERTY CrashKeepsAcknowledged
