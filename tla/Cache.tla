------------------------------- MODULE Cache -------------------------------
(***************************************************************************)
(* The LRU read cache of the LSM tree (src/unnamed/part_005, type Cache):  *)
(* a list of <<key, value>> entries, most recently used first, and at most *)
(* CacheCapacity of them (capacity/64 in NewCache).  Each operation holds  *)
(* c.mu for its whole body, so each is one step of the caller.             *)
(***************************************************************************)
EXTENDS MemTable, Sequences

CONSTANT CacheCapacity

NewCache == <<>>

CacheKeys(c) == {c[i][1] : i \in DOMAIN c}

\* Position of key k in the list (0 when absent).
CachePos(c, k) == IF k \in CacheKeys(c) THEN CHOOSE i \in DOMAIN c : c[i][1] = k ELSE 0

\* The list without position i.
CacheWithout(c, i) == SubSeq(c, 1, i - 1) \o SubSeq(c, i + 1, Len(c))

\* Get: the cached value, or NoValue on a miss ...
CacheGet(c, k) == IF CachePos(c, k) = 0 THEN NoValue ELSE c[CachePos(c, k)][2]

\* ... and a hit moves the element to the front.
CacheTouch(c, k) ==
  IF CachePos(c, k) = 0 THEN c
  ELSE <<c[CachePos(c, k)]>> \o CacheWithout(c, CachePos(c, k))

\* Put: an existing key is moved to the front and its value replaced; a new
\* key is pushed to the front and the back element is evicted when the list
\* is then longer than the capacity.
CachePut(c, k, v) ==
  IF CachePos(c, k) # 0 THEN <<<<k, v>>>> \o CacheWithout(c, CachePos(c, k))
  ELSE IF Len(c) + 1 > CacheCapacity THEN SubSeq(<<<<k, v>>>> \o c, 1, Len(c))
  ELSE <<<<k, v>>>> \o c

=============================================================================
