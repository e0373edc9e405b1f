CONSTANTS
  Keys <- MCKeys
  NumKeys = 2
  Values = {v1}
  Tombstone = Tombstone
  NoValue = NoValue
  MemTableSize = 1
  CacheCapacity = 0
  Clients = {c1, c2}
  OpKinds = {"insert"}
  MaxOps = 2
  NoClient = NoClient
  WalChCap = 2
  NoEntry = NoEntry
  MaxCrashes = 0
  MaxCreateFails = 0
SPECIFICATION Spec
INVARIANT NoLostInsert
