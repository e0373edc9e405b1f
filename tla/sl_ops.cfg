\* Two goroutines, two keys, skip lists of two levels: concurrent Insert,
\* Delete and Get, with Swap and Reset between them.
CONSTANTS
  Procs = {p1, p2}
  NumSKeys = 2
  Keys <- MCKeys
  Vals = {v1}
  NoVal = NoVal
  Nil = Nil
  MaxLevel = 2
  MaxOps = 3
SPECIFICATION Spec
INVARIANTS TypeOK QuiescentSize
PROPERTIES OpsComplete
