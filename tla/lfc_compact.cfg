\* The unit test's use of the compactor: one producer adding two tasks
\* while the compactor runs, two controllers whose Run calls can race and
\* start two compactor goroutines, and Stop.
CONSTANTS
  Producer = pr
  Compactors = {c1, c2}
  Controllers = {u1, u2}
  MaxTasks = 2
  MaxTicks = 2
  MaxCalls = 2
  Nil = Nil
  NoVal = NoVal
SPECIFICATION Spec
INVARIANTS TypeOK TasksNotDuplicated TailReachable QuiescentLength
PROPERTIES Linearizable OpsComplete
