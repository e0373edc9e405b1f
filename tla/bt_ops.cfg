\* Inserts (with repeated keys, as the database layer allows) and deletes
\* on a degree-2 B-tree: every result keeps the node invariants, Get finds
\* exactly the stored keys and Length counts the items.
CONSTANTS
  Degree = 2
  NumBKeys = 5
  BKeys <- MCBKeys
  BValues = {v1}
  NotFound = NotFound
  MaxOps = 8
INIT Init
NEXT Next
INVARIANT TypeOK BTreeShape SearchFindsStored LengthCountsItems
