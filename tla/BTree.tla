------------------------------- MODULE BTree -------------------------------
(***************************************************************************)
(* The paged B-tree backend (src/unnamed/part_005, package btree).         *)
(*                                                                         *)
(* Insert, Delete and Get each run under b.mu (ThreadSafe) and touch only *)
(* the file, so each is one atomic step whose effect is computed by the   *)
(* recursive operators below, one per function of the code.  The file is  *)
(* `disk`: pages, a function from page offset to node, and next, the      *)
(* nextOffset of allocateNode.  Offsets count pages (the page size is one  *)
(* unit); page 0 is the header, held as root and length.                  *)
(*                                                                         *)
(* A node is [items, kids, off]: its <<key, value>> items, its child page  *)
(* offsets and its own offset (n.offset), as the code holds it in memory. *)
(* An operator takes the in-memory node a Go function is passed and       *)
(* returns the disk after the function's writes (and the node, where the   *)
(* caller goes on using it).  The LRU node cache is left out: writeNode    *)
(* refreshes it and readNode returns what was last written, so it never   *)
(* changes a value read.  Indices named after the code's (i, idx) are the  *)
(* code's 0-based ones; sequences are 1-based, hence the "+ 1"s.          *)
(***************************************************************************)
EXTENDS Integers, Sequences, SequencesExt, FiniteSets, TLC

CONSTANTS
  Degree,     \* BtConfig.Degree, the minimum degree t
  BKeys,      \* keys, integers ordered like the strings they stand for
  BValues,    \* values
  NotFound,   \* Get's ErrKeyNotFound / "key not found"
  MaxOps      \* operations in a behaviour

VARIABLES
  disk,       \* [pages, next]: the node pages and nextOffset
  root,       \* RootOffset (header)
  length,     \* Length (header)
  ref,        \* ghost: the map the operations promise, key -> value or NotFound
  lastErr,    \* ghost: how the last operation ended: "ok", "notfound", "panic"
  lastOp,     \* ghost: the last operation, [op, key]
  ops         \* operations so far

vars == <<disk, root, length, ref, lastErr, lastOp, ops>>

Full == 2 * Degree - 1

IsLeaf(n) == n.kids = <<>>

\* writeNode: the node's page now holds it.
WriteNode(D, n) == [D EXCEPT !.pages = (n.off :> n) @@ @]

\* readNode: the node at a page, from the cache or from the file; both
\* hold what writeNode last wrote there.
ReadNode(D, off) == D.pages[off]

\* allocateNode: the next page; its offset is D.next before the call.
\* (AllocateNodeNoAdvance hands out the same page again.)
AllocateNodeNoAdvance(D) == D

AllocateNode(D) == [D EXCEPT !.next = @ + 1]

\* `for i < len(n.items) && key > n.items[i].Key { i++ }`: where the loop
\* stops.
ScanUp(items, k) ==
  Min({i \in 0..Len(items) : i = Len(items) \/ ~(k > items[i + 1][1])})

\* `i := len(n.items) - 1; for i >= 0 && key < n.items[i].Key { i-- }`.
ScanDown(items, k) ==
  Max({i \in -1..Len(items) - 1 : i = -1 \/ ~(k < items[i + 1][1])})

\* NewBtree on an empty file: saveHeader writes root 0 and length 0;
\* nextOffset is the first page after the header.
Init ==
  /\ disk = [pages |-> <<>>, next |-> 1]
  /\ root = 0
  /\ length = 0
  /\ ref = [k \in BKeys |-> NotFound]
  /\ lastErr = "ok"
  /\ lastOp = [op |-> "none", key |-> 0]
  /\ ops = 0

-----------------------------------------------------------------------------
(* Insert.                                                                 *)

\* splitChild: the median item of the full child moves up into the parent
\* at `index`; its upper half goes to a new node z placed right of it.
\* Writes child, z and parent; returns the disk and the parent.
SplitChild(D, parent, index, child) ==
  LET t == Degree
      z == [items |-> SubSeq(child.items, t + 1, Len(child.items)),
            kids |-> IF IsLeaf(child) THEN <<>>
                     ELSE SubSeq(child.kids, t + 1, Len(child.kids)),
            off |-> D.next]
      c2 == [child EXCEPT !.items = SubSeq(@, 1, t - 1),
                          !.kids = IF IsLeaf(child) THEN @ ELSE SubSeq(@, 1, t)]
      p2 == [parent EXCEPT !.kids = InsertAt(@, index + 2, D.next),
                           !.items = InsertAt(@, index + 1, child.items[t])]
  IN [disk |-> WriteNode(WriteNode(WriteNode(AllocateNode(D), c2), z), p2),
      parent |-> p2]

\* insertNonFull: in a leaf, the item goes after every item whose key is
\* not greater (an equal key is not looked for: a second item is added);
\* in an inner node, descend to the child right of those items, splitting
\* it first when it is full.  Returns the disk and the node n.
RECURSIVE InsertNonFull(_, _, _, _)
InsertNonFull(D, n, k, v) ==
  IF IsLeaf(n)
  THEN LET n2 == [n EXCEPT !.items = InsertAt(@, ScanDown(@, k) + 2, <<k, v>>)]
       IN [disk |-> WriteNode(D, n2), node |-> n2]
  ELSE LET i == ScanDown(n.items, k) + 1
           child == ReadNode(D, n.kids[i + 1])
       IN IF Len(child.items) = Full
          THEN LET s == SplitChild(D, n, i, child)
                   j == IF k > s.parent.items[i + 1][1] THEN i + 1 ELSE i
                   r == InsertNonFull(s.disk, ReadNode(s.disk, s.parent.kids[j + 1]), k, v)
               IN [disk |-> r.disk, node |-> s.parent]
          ELSE [disk |-> InsertNonFull(D, child, k, v).disk, node |-> n]

\* Btree.Insert: an empty tree gets a new one-item root; a full root is
\* split under a new root first.  Length is incremented and the header
\* saved in every case.
InsertTree(D, rootOff, len, k, v) ==
  IF len = 0
  THEN [disk |-> WriteNode(AllocateNode(D),
                           [items |-> <<<<k, v>>>>, kids |-> <<>>, off |-> D.next]),
        root |-> D.next, length |-> len + 1]
  ELSE LET r == ReadNode(D, rootOff)
       IN IF Len(r.items) = Full
          THEN LET s == SplitChild(AllocateNode(D),
                                   [items |-> <<>>, kids |-> <<r.off>>, off |-> D.next],
                                   0, r)
                   i == InsertNonFull(s.disk, s.parent, k, v)
               IN [disk |-> WriteNode(i.disk, i.node), root |-> D.next,
                   length |-> len + 1]
          ELSE [disk |-> InsertNonFull(D, r, k, v).disk, root |-> rootOff,
                length |-> len + 1]

-----------------------------------------------------------------------------
(* Get.                                                                    *)

\* searchValue: the first item whose key is not less than k; its value if
\* the key is k, else the child left of it, or not found at a leaf.
RECURSIVE SearchValue(_, _, _)
SearchValue(D, off, k) ==
  LET n == ReadNode(D, off)
      i == ScanUp(n.items, k)
  IN IF i < Len(n.items) /\ n.items[i + 1][1] = k THEN n.items[i + 1][2]
     ELSE IF IsLeaf(n) THEN NotFound
     ELSE SearchValue(D, n.kids[i + 1], k)

GetTree(D, rootOff, len, k) ==
  IF len = 0 THEN NotFound ELSE SearchValue(D, rootOff, k)

-----------------------------------------------------------------------------
(* Delete.                                                                 *)

\* getPredecessor / getSuccessor: the last item of the rightmost leaf, the
\* first item of the leftmost leaf, below n.
RECURSIVE GetPredecessor(_, _)
GetPredecessor(D, n) ==
  IF IsLeaf(n) THEN Last(n.items) ELSE GetPredecessor(D, ReadNode(D, Last(n.kids)))

RECURSIVE GetSuccessor(_, _)
GetSuccessor(D, n) ==
  IF IsLeaf(n) THEN Head(n.items) ELSE GetSuccessor(D, ReadNode(D, Head(n.kids)))

\* mergeNodes: the parent's item idx and the right child idx+1 are appended
\* to the left child idx; writes left and parent (the right page is left
\* as it is, unreachable).  The caller makes sure child idx+1 exists.
MergeNodes(D, parent, idx) ==
  LET left == ReadNode(D, parent.kids[idx + 1])
      right == ReadNode(D, parent.kids[idx + 2])
      l2 == [left EXCEPT !.items = (@ \o <<parent.items[idx + 1]>>) \o right.items,
                         !.kids = IF IsLeaf(left) THEN @ ELSE @ \o right.kids]
      p2 == [parent EXCEPT !.items = RemoveAt(@, idx + 1),
                           !.kids = RemoveAt(@, idx + 2)]
  IN WriteNode(WriteNode(D, l2), p2)

\* borrowFromPrev: the parent's item idx-1 moves down to the front of child
\* idx and the left sibling's last item moves up in its place (with the
\* sibling's last child, when the child is not a leaf).
\* (BorrowFromPrevNoRotate moves the sibling's item straight into the
\* child and leaves the parent alone.)
BorrowFromPrevNoRotate(D, parent, idx) ==
  LET child == ReadNode(D, parent.kids[idx + 1])
      ls == ReadNode(D, parent.kids[idx])
      c2 == [child EXCEPT !.items = <<Last(ls.items)>> \o @,
                          !.kids = IF IsLeaf(child) THEN @ ELSE <<Last(ls.kids)>> \o @]
      l2 == [ls EXCEPT !.items = Front(@),
                       !.kids = IF IsLeaf(child) THEN @ ELSE Front(@)]
  IN WriteNode(WriteNode(WriteNode(D, c2), l2), parent)

BorrowFromPrev(D, parent, idx) ==
  LET child == ReadNode(D, parent.kids[idx + 1])
      ls == ReadNode(D, parent.kids[idx])
      c2 == [child EXCEPT !.items = <<parent.items[idx]>> \o @,
                          !.kids = IF IsLeaf(child) THEN @ ELSE <<Last(ls.kids)>> \o @]
      l2 == [ls EXCEPT !.items = Front(@),
                       !.kids = IF IsLeaf(child) THEN @ ELSE Front(@)]
      p2 == [parent EXCEPT !.items[idx] = Last(ls.items)]
  IN WriteNode(WriteNode(WriteNode(D, c2), l2), p2)

\* borrowFromNext: the mirror image, through the parent's item idx.
BorrowFromNext(D, parent, idx) ==
  LET child == ReadNode(D, parent.kids[idx + 1])
      rs == ReadNode(D, parent.kids[idx + 2])
      c2 == [child EXCEPT !.items = @ \o <<parent.items[idx + 1]>>,
                          !.kids = IF IsLeaf(child) THEN @ ELSE @ \o <<Head(rs.kids)>>]
      r2 == [rs EXCEPT !.items = Tail(@),
                       !.kids = IF IsLeaf(child) THEN @ ELSE Tail(@)]
      p2 == [parent EXCEPT !.items[idx + 1] = Head(rs.items)]
  IN WriteNode(WriteNode(WriteNode(D, c2), r2), p2)

\* fill: borrow from a sibling that has Degree items, the left one first;
\* else merge with the left sibling, or with the right one for child 0.
\* mergeNodes(parent, idx) reads childrenOffsets[idx+1]: out of range,
\* the process panics, when child 0 is the parent's only child.
\* (FillNoBorrow merges without looking at the siblings' sizes.)
FillNoBorrow(D, parent, idx) ==
  IF idx > 0 THEN [disk |-> MergeNodes(D, parent, idx - 1), err |-> "ok"]
  ELSE IF idx + 1 < Len(parent.kids)
  THEN [disk |-> MergeNodes(D, parent, idx), err |-> "ok"]
  ELSE [disk |-> D, err |-> "panic"]

Fill(D, parent, idx) ==
  LET sibling(j) == ReadNode(D, parent.kids[j + 1])
  IN IF idx > 0 /\ Len(sibling(idx - 1).items) >= Degree
     THEN [disk |-> BorrowFromPrev(D, parent, idx), err |-> "ok"]
     ELSE IF idx < Len(parent.kids) - 1 /\ Len(sibling(idx + 1).items) >= Degree
     THEN [disk |-> BorrowFromNext(D, parent, idx), err |-> "ok"]
     ELSE IF idx > 0
     THEN [disk |-> MergeNodes(D, parent, idx - 1), err |-> "ok"]
     ELSE IF idx + 1 < Len(parent.kids)
     THEN [disk |-> MergeNodes(D, parent, idx), err |-> "ok"]
     ELSE [disk |-> D, err |-> "panic"]

\* deleteFromNode: returns the disk and "ok", "notfound" (the key is not
\* in the leaf the search ends at) or "panic" (an index out of range).
\* After a fill the node is read again and the descent goes on at the same
\* child index idx, whatever the fill did; when fill merged child idx into
\* child idx-1 that index is one past the key's child, or past the end.
RECURSIVE DeleteFromNode(_, _, _)
DeleteFromNode(D, off, k) ==
  LET n == ReadNode(D, off)
      idx == ScanUp(n.items, k)
  IN IF idx < Len(n.items) /\ n.items[idx + 1][1] = k
     THEN IF IsLeaf(n)
          THEN [disk |-> WriteNode(D, [n EXCEPT !.items = RemoveAt(@, idx + 1)]),
                err |-> "ok"]
          ELSE LET left == ReadNode(D, n.kids[idx + 1])
                   right == ReadNode(D, n.kids[idx + 2])
               IN IF Len(left.items) >= Degree
                  THEN LET pred == GetPredecessor(D, left)
                       IN DeleteFromNode(WriteNode(D, [n EXCEPT !.items[idx + 1] = pred]),
                                         left.off, pred[1])
                  ELSE IF Len(right.items) >= Degree
                  THEN LET succ == GetSuccessor(D, right)
                       IN DeleteFromNode(WriteNode(D, [n EXCEPT !.items[idx + 1] = succ]),
                                         right.off, succ[1])
                  ELSE DeleteFromNode(MergeNodes(D, n, idx), left.off, k)
     ELSE IF IsLeaf(n)
     THEN [disk |-> D, err |-> "notfound"]
     ELSE IF Len(ReadNode(D, n.kids[idx + 1]).items) >= Degree
     THEN DeleteFromNode(D, n.kids[idx + 1], k)
     ELSE LET f == Fill(D, n, idx)
              n2 == ReadNode(f.disk, off)
          IN IF f.err # "ok" THEN f
             ELSE IF idx + 1 > Len(n2.kids) THEN [disk |-> f.disk, err |-> "panic"]
             ELSE DeleteFromNode(f.disk, n2.kids[idx + 1], k)

\* Btree.Delete: not found on an empty tree; after a successful
\* deleteFromNode a root left with no items and a child is replaced by
\* that child, and Length is decremented and the header saved.  On an
\* error nothing of the header changes.
\* (DeleteTreeCountsErrors decrements Length whatever deleteFromNode did.)
DeleteTreeCountsErrors(D, rootOff, len, k) ==
  LET r == DeleteFromNode(D, rootOff, k)
      rt == ReadNode(r.disk, rootOff)
  IN IF len = 0 THEN [disk |-> D, root |-> rootOff, length |-> len, err |-> "notfound"]
     ELSE [disk |-> r.disk,
           root |-> IF r.err = "ok" /\ rt.items = <<>> /\ ~IsLeaf(rt)
                    THEN Head(rt.kids) ELSE rootOff,
           length |-> len - 1, err |-> r.err]

DeleteTree(D, rootOff, len, k) ==
  LET r == DeleteFromNode(D, rootOff, k)
      rt == ReadNode(r.disk, rootOff)
  IN IF len = 0 THEN [disk |-> D, root |-> rootOff, length |-> len, err |-> "notfound"]
     ELSE IF r.err # "ok" THEN [disk |-> r.disk, root |-> rootOff, length |-> len,
                                err |-> r.err]
     ELSE [disk |-> r.disk,
           root |-> IF rt.items = <<>> /\ ~IsLeaf(rt) THEN Head(rt.kids) ELSE rootOff,
           length |-> len - 1, err |-> "ok"]

-----------------------------------------------------------------------------
(* The operations, each one step under b.mu.  A panic ends the process;   *)
(* NewBtree on the same file reads the header the Delete did not save and  *)
(* sets nextOffset to the file size, which is disk.next since every page   *)
(* allocated is written before the operation returns.  So the behaviour   *)
(* goes on from the disk as the panic left it.                            *)

\* Btree.Insert(k, v) (database.Insert calls it without looking the key up).
InsertOp(k, v) ==
  LET r == InsertTree(disk, root, length, k, v)
  IN /\ ops < MaxOps
     /\ disk' = r.disk
     /\ root' = r.root
     /\ length' = r.length
     /\ ref' = [ref EXCEPT ![k] = v]
     /\ lastErr' = "ok"
     /\ lastOp' = [op |-> "insert", key |-> k]
     /\ ops' = ops + 1

\* Btree.Delete(k): the caller learns the key is gone only from a nil error.
DeleteOp(k) ==
  LET r == DeleteTree(disk, root, length, k)
  IN /\ ops < MaxOps
     /\ disk' = r.disk
     /\ root' = r.root
     /\ length' = r.length
     /\ ref' = IF r.err = "ok" THEN [ref EXCEPT ![k] = NotFound] ELSE ref
     /\ lastErr' = r.err
     /\ lastOp' = [op |-> "delete", key |-> k]
     /\ ops' = ops + 1

\* Once MaxOps operations are done the behaviour stutters.
Done == ops = MaxOps /\ UNCHANGED vars

Next ==
  \/ \E k \in BKeys, v \in BValues : InsertOp(k, v)
  \/ \E k \in BKeys : DeleteOp(k)
  \/ Done

Spec == Init /\ [][Next]_vars

-----------------------------------------------------------------------------
(* Properties.                                                             *)

Get(k) == GetTree(disk, root, length, k)

\* The pages reachable from the root.
RECURSIVE Reach(_, _)
Reach(D, off) == {off} \cup UNION {Reach(D, c) : c \in Range(ReadNode(D, off).kids)}

Live == IF length = 0 THEN {} ELSE Reach(disk, root)

\* The depths of the leaves below a page.
RECURSIVE LeafDepths(_, _)
LeafDepths(D, off) ==
  IF IsLeaf(ReadNode(D, off)) THEN {0}
  ELSE {d + 1 : d \in UNION {LeafDepths(D, c) : c \in Range(ReadNode(D, off).kids)}}

StoredItems == UNION {Range(ReadNode(disk, o).items) : o \in Live}

NodeType ==
  [items : Seq(BKeys \X BValues), kids : Seq(Nat), off : Nat]

TypeOK ==
  /\ disk.next \in Nat \ {0}
  /\ DOMAIN disk.pages \subseteq 1..disk.next - 1
  /\ \A o \in DOMAIN disk.pages : ReadNode(disk, o) \in NodeType /\ ReadNode(disk, o).off = o
  /\ length \in Nat
  /\ root \in {0} \cup DOMAIN disk.pages
  /\ ref \in [BKeys -> BValues \cup {NotFound}]
  /\ lastErr \in {"ok", "notfound", "panic"}
  /\ ops \in 0..MaxOps

\* Every operation that returns leaves the tree a B-tree of degree Degree
\* (spec 3): non-root nodes hold Degree-1 to 2*Degree-1 items, the root at
\* most 2*Degree-1, an inner node one child more than items, and all leaves
\* lie at one depth.  This is what splitChild, fill, the borrows and
\* mergeNodes maintain together, over sequences of inserts and deletes.
BTreeShape ==
  \A o \in Live :
    LET n == ReadNode(disk, o)
    IN /\ Len(n.items) <= Full
       /\ o # root => Len(n.items) >= Degree - 1
       /\ ~IsLeaf(n) => Len(n.kids) = Len(n.items) + 1
       /\ Cardinality(LeafDepths(disk, o)) = 1

\* Get finds a key exactly when some node of the tree holds it, and then
\* answers the value of an item with that key: searchValue's descent
\* reaches every item, whatever splits, borrows and merges moved it.
SearchFindsStored ==
  \A k \in BKeys :
    IF \E it \in StoredItems : it[1] = k
    THEN <<k, Get(k)>> \in StoredItems
    ELSE Get(k) = NotFound

\* The header's Length is the number of items in the tree: Insert adds one
\* item and Delete removes one exactly when they count it.
LengthCountsItems ==
  length = MapThenSumSet(LAMBDA o : Len(ReadNode(disk, o).items), Live)

\* spec 8: insert(k, v); get(k) = v, and get after delete(k) is not found.
GetReturnsLatest == \A k \in BKeys : Get(k) = ref[k]

\* Delete of a key the tree holds returns nil: it fails only for a key
\* that is not there.
DeleteFailsOnlyIfAbsent ==
  lastOp.op = "delete" /\ lastErr # "ok" => ref[lastOp.key] = NotFound

=============================================================================
