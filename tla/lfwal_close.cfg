\* Two goroutines and one flush worker, a ring of two slots, three calls.
\* The run stops once the calls are made and the worker has stopped, so
\* deadlock is not checked.
CONSTANTS
  Procs = {p1, p2}
  Worker = w
  Capacity = 2
  MaxOps = 3
SPECIFICATION Spec
INVARIANT AckedWrittenOnce
CHECK_DEADLOCK FALSE
