\* Two goroutines, two keys, two levels.  Insert(2) breaks its level-0 walk
\* on an empty list, Insert(1) links its node, and Insert(2)'s second load
\* of head.next[0] makes node 1 its successor: head -> 2 -> 1.
CONSTANTS
  Procs = {p1, p2}
  NumSKeys = 2
  Keys <- MCKeys
  Vals = {v1}
  NoVal = NoVal
  Nil = Nil
  MaxLevel = 2
  MaxOps = 3
SPECIFICATION Spec
INVARIANT SkipListShape
