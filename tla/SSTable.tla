------------------------------ MODULE SSTable ------------------------------
(***************************************************************************)
(* Sorted string tables and the level search of the LSM tree              *)
(* (src/pkg/adapters/lsmtree/errors.go: CreateSSTable, OpenSSTable,        *)
(* SSTable.Get; compaction.go: mergeSSTables; memtable.go: the level       *)
(* lookup of LSMTree.Get and the sort of a level by minKey).               *)
(*                                                                         *)
(* An SSTable is its file's record sequence <<key, value>> and an id (the  *)
(* UnixNano file name).  minKey, maxKey and the offset index are what      *)
(* CreateSSTable/OpenSSTable compute from the records, so they are         *)
(* operators here.  The CRC, the uint16 length prefixes and the Bloom      *)
(* filter (built but never consulted by LSMTree.Get) are left out.         *)
(***************************************************************************)
EXTENDS MemTable, Sequences, SequencesExt

SSTableType == [id : Nat, recs : Seq(Keys \X Values)]

\* CreateSSTable: one record <<key, value>> per key of the snapshot data,
\* in sort.Strings order (keys of D taken smallest first).
RECURSIVE SortedRecords(_, _)
SortedRecords(data, D) ==
  IF D = {} THEN <<>>
  ELSE LET m == CHOOSE x \in D : \A y \in D : x <= y
       IN <<<<m, data[m]>>>> \o SortedRecords(data, D \ {m})

CreateSSTable(id, data) == [id |-> id, recs |-> SortedRecords(data, DOMAIN data)]

\* minKey is the key of the first record and maxKey the key of the last;
\* both stay "" when the table has no record.
MinKey(s) == IF s.recs = <<>> THEN EmptyKey ELSE s.recs[1][1]
MaxKey(s) == IF s.recs = <<>> THEN EmptyKey ELSE s.recs[Len(s.recs)][1]

\* The index: index[key] = offset is overwritten by every later record of
\* the same key, so a lookup finds the last one.
SSTHas(s, k) == \E i \in DOMAIN s.recs : s.recs[i][1] = k

\* SSTable.Get: the value of the record the index points at, NoValue when
\* the key is not in the index.
SSTGet(s, k) ==
  LET i == SelectLastInSeq(s.recs, LAMBDA r : r[1] = k)
  IN IF i = 0 THEN NoValue ELSE s.recs[i][2]

\* mergeSSTables: copy every input file's records (all but its CRC) in
\* level order into one new file and OpenSSTable it.
MergeSSTables(ssts, id) ==
  [id |-> id, recs |-> FlattenSeq([i \in DOMAIN ssts |-> ssts[i].recs])]

\* sort.Slice by minKey.  The levels the model reaches have at most 12
\* tables, for which Go's pdqsort runs insertion sort: an element moves
\* left only past strictly greater minKeys, so the sort is stable and a
\* table's place is fixed by the tables with a smaller minKey and the
\* earlier tables with an equal one.
StableRank(level, j) ==
  Cardinality({i \in DOMAIN level :
                 \/ MinKey(level[i]) < MinKey(level[j])
                 \/ MinKey(level[i]) = MinKey(level[j]) /\ i < j}) + 1

SortByMinKey(level) ==
  [r \in DOMAIN level |-> level[CHOOSE j \in DOMAIN level : StableRank(level, j) = r]]

\* sort.Search(n, f): the smallest i in 0..n with f(i), found by bisection
\* over [lo, hi).  The predicate maxKey >= key need not be monotone on an
\* overlapping level, so the bisection is kept step by step.
RECURSIVE SearchMaxKey(_, _, _, _)
SearchMaxKey(level, k, lo, hi) ==
  IF lo >= hi THEN lo
  ELSE LET h == (lo + hi) \div 2
       IN IF ~(MaxKey(level[h + 1]) >= k)
          THEN SearchMaxKey(level, k, h + 1, hi)
          ELSE SearchMaxKey(level, k, lo, h)

\* The probe of one level in LSMTree.Get: only the table sort.Search picks
\* is looked at, and only when its minKey <= key.
LevelGet(level, k) ==
  LET idx == SearchMaxKey(level, k, 0, Len(level))
  IN IF idx < Len(level) /\ MinKey(level[idx + 1]) <= k
     THEN SSTGet(level[idx + 1], k)
     ELSE NoValue

\* The loop over the levels: the first level whose probe finds the key.
RECURSIVE LevelsGet(_, _)
LevelsGet(levels, k) ==
  IF levels = <<>> THEN NoValue
  ELSE IF LevelGet(Head(levels), k) # NoValue THEN LevelGet(Head(levels), k)
  ELSE LevelsGet(Tail(levels), k)

=============================================================================
