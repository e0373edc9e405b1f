\* One goroutine, one key, one value: Insert, Delete and the Insert's
\* index goroutine in any order.
CONSTANTS
  Procs = {p1}
  Keys = {1}
  Vals = {v1}
  NoVal = NoVal
  WalChCap = 1
  FlushCap = 2
  MaxOps = 3
  MaxCrashes = 0
  MaxRestarts = 0
SPECIFICATION Spec
INVARIANT IndexMatchesData
