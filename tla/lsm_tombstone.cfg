CONSTANTS
  Keys <- MCKeys
  NumKeys = 1
  Values = {v1}
  Tombstone = Tombstone
  NoValue = NoValue
  MemTableSize = 1
  CacheCapacity = 0
  Clients = {c1}
  OpKinds = {"insert", "delete", "get"}
  MaxOps = 4
  NoClient = NoClient
  WalChCap = 2
  NoEntry = NoEntry
  MaxCrashes = 0
  MaxCreateFails = 0
SPECIFICATION Spec
INVARIANT ReadLatest
