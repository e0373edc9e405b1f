------------------------------ MODULE MemTable ------------------------------
(***************************************************************************)
(* The LSM memtable (src/pkg/adapters/lsmtree/memtable.go, type MemTable): *)
(* a sync.Map from key to value or tombstone, and a size counter checked   *)
(* against maxSize.  Operators map one memtable value to the next; the     *)
(* LSM tree decides when each of them happens.                             *)
(*                                                                         *)
(* Keys are small positive integers ordered like the strings they stand   *)
(* for; the empty string is EmptyKey = 0.  An entry costs AddSize units    *)
(* (len(key)+len(value) bytes in the code) and MemTableSize is given in    *)
(* the same units.                                                         *)
(***************************************************************************)
EXTENDS Naturals

CONSTANTS
  Keys,          \* the keys clients use, a set of positive integers
  Values,        \* the values clients write, model values
  Tombstone,     \* the "<TOMBSTONE>" marker Delete stores
  NoValue,       \* no entry for the key (sync.Map Load misses)
  MemTableSize   \* config.MemTableSize, in AddSize units

EmptyKey == 0
AddSize == 1

\* A memtable never holds more than MemTableSize units.
MemTableType ==
  [table : [Keys -> Values \cup {Tombstone, NoValue}], size : 0..MemTableSize]

\* NewMemTable: an empty sync.Map and size 0.
NewMemTable == [table |-> [k \in Keys |-> NoValue], size |-> 0]

\* Insert: under m.mu, refuse with ErrMemTableFull when the entry does not
\* fit; otherwise store it and add its size (an overwrite is counted again).
\* (MTFitsUnsized forgets the entry's own size in the check.)
MTFitsUnsized(m) == m.size <= MemTableSize
MTFits(m) == m.size + AddSize <= MemTableSize

MTInsert(m, k, v) ==
  [table |-> [m.table EXCEPT ![k] = v], size |-> m.size + AddSize]

\* Get: a miss and a tombstone both answer ("", false).
MTGet(m, k) == IF m.table[k] \in Values THEN m.table[k] ELSE NoValue

\* Delete: store the tombstone; no lock is taken and size is unchanged.
MTDelete(m, k) == [m EXCEPT !.table[k] = Tombstone]

\* Swap: the snapshot of the old table without its tombstones; the old
\* memtable itself is then emptied (a new sync.Map, size 0), i.e. becomes
\* NewMemTable.  (SwapDataAfterReset ranges over the table after it has
\* been replaced.)
SwapDataAfterReset(m) ==
  [k \in {x \in Keys : NewMemTable.table[x] \in Values} |-> m.table[k]]

SwapData(m) == [k \in {x \in Keys : m.table[x] \in Values} |-> m.table[k]]

=============================================================================
