------------------------------ MODULE SkipList ------------------------------
(***************************************************************************)
(* The lock-free skip-list memtable lfMemtable of                          *)
(* src/pkg/adapters/lockfree/lf_wal.go.  Goroutines run Insert, Delete and *)
(* Get concurrently; each atomic CAS or load is a step.                    *)
(*                                                                         *)
(* find is a walk of its own, one load per step: on each level it loads  *)
(* x.next[i] until the next key is not below the key searched, then loads *)
(* x.next[i] again for succs[i].  A node linked between the two loads     *)
(* becomes succs[i] although the walk never compared its key.             *)
(*                                                                         *)
(* Nodes are numbers: 0 is the first sentinel.  An Insert takes a number   *)
(* for its node; a retry reuses it, since a node whose CAS failed was      *)
(* never linked and is garbage.  Swap and Reset also take a number, for    *)
(* the new sentinel.  Keys are ordered integers, and the sentinel's key    *)
(* "" is 0.  randomLevel picks any level in 1..MaxLevel.                   *)
(***************************************************************************)
EXTENDS Integers, Sequences, SequencesExt, FiniteSets

CONSTANTS
  Procs,     \* goroutines using the memtable
  Keys,      \* keys: a set of positive integers
  Vals,      \* values
  NoVal,     \* "" and not found
  Nil,       \* the nil *mnode
  MaxLevel,  \* maxLevel (16 in the code)
  MaxOps     \* operations started in a behaviour

Nodes == 0..MaxOps
Levels == 0..MaxLevel - 1

VARIABLES
  key, sval, lvl,  \* node -> its key, value and level
  del,             \* node -> its deleted flag
  nxt,             \* node -> level -> the next node
  head,            \* m.head, the sentinel
  length,          \* m.length
  alloc,           \* the next node number
  pc, op,          \* process -> position; the call and its arguments
  nd,              \* process -> its Insert's new node
  preds, succs,    \* process -> what find filled in
  lv,              \* process -> the level Insert is linking
  fx, fi,          \* process -> find's cursor x and its level i
  fcont,           \* process -> where the call resumes when find returns
  x,               \* process -> Get's cursor
  ret,             \* process -> what Get returns
  kv,              \* ghost: the map the operations have taken effect on
  seen,            \* ghost: process -> the values its Get's or Delete's key had during the call
  snap,            \* the map the last Swap returned
  ops              \* operations started

findVars == <<fx, fi, fcont>>
vars == <<key, sval, lvl, del, nxt, head, length, alloc, pc, op, nd, preds,
          succs, lv, x, ret, kv, seen, snap, ops, findVars>>
procVars == <<pc, op, nd, preds, succs, lv, x, ret, findVars>>

NilNexts == [i \in Levels |-> Nil]

\* NewLFMemtable: a sentinel with key "" and every next nil.
Init ==
  /\ key = [n \in Nodes |-> 0] /\ sval = [n \in Nodes |-> NoVal]
  /\ lvl = [n \in Nodes |-> MaxLevel]
  /\ del = [n \in Nodes |-> FALSE]
  /\ nxt = [n \in Nodes |-> NilNexts]
  /\ head = 0 /\ length = 0 /\ alloc = 1
  /\ pc = [p \in Procs |-> "idle"]
  /\ op = [p \in Procs |-> [kind |-> "none", k |-> 0, v |-> NoVal]]
  /\ nd = [p \in Procs |-> 0]
  /\ preds = [p \in Procs |-> [i \in Levels |-> 0]]
  /\ succs = [p \in Procs |-> NilNexts]
  /\ lv = [p \in Procs |-> 1]
  /\ fx = [p \in Procs |-> 0] /\ fi = [p \in Procs |-> 0]
  /\ fcont = [p \in Procs |-> "idle"]
  /\ x = [p \in Procs |-> Nil]
  /\ ret = [p \in Procs |-> NoVal]
  /\ kv = [k \in Keys |-> NoVal]
  /\ seen = [p \in Procs |-> {}]
  /\ snap = [k \in Keys |-> NoVal]
  /\ ops = 0

\* randomLevel: 1, raised while a coin comes up and level < maxLevel.
\* (RandomLevelsOffByOne raises it while level <= maxLevel.)
RandomLevelsOffByOne == 1..MaxLevel + 1

RandomLevels == 1..MaxLevel

Goto(p, l) == pc' = [pc EXCEPT ![p] = l]

\* find's loop on one level breaks at the first next node that is nil or
\* whose key is not below k.
Stop(n, k) == n = Nil \/ key[n] >= k

\* x := m.head, at the top level; the call resumes at back when find returns.
StartFind(p, back) ==
  /\ fx' = [fx EXCEPT ![p] = head]
  /\ fi' = [fi EXCEPT ![p] = MaxLevel - 1]
  /\ fcont' = [fcont EXCEPT ![p] = back]
  /\ Goto(p, "F_walk")

\* next := x.next[i].Load(); break, or x = next.
FindWalk(p) ==
  /\ pc[p] = "F_walk"
  /\ LET n == nxt[fx[p]][fi[p]] IN
       IF Stop(n, op[p].k)
       THEN Goto(p, "F_succ") /\ UNCHANGED fx
       ELSE fx' = [fx EXCEPT ![p] = n] /\ UNCHANGED pc
  /\ UNCHANGED <<key, sval, lvl, del, nxt, head, length, alloc, op, nd, preds,
                 succs, lv, x, ret, kv, seen, snap, ops, fi, fcont>>

\* preds[i] = x; succs[i] = x.next[i].Load(), a second load; then the
\* level below, or return to the caller after level 0.
FindSucc(p) ==
  /\ pc[p] = "F_succ"
  /\ LET i == fi[p] IN
       /\ preds' = [preds EXCEPT ![p][i] = fx[p]]
       /\ succs' = [succs EXCEPT ![p][i] = nxt[fx[p]][i]]
       /\ IF i = 0 THEN Goto(p, fcont[p]) /\ UNCHANGED fi
                   ELSE fi' = [fi EXCEPT ![p] = i - 1] /\ Goto(p, "F_walk")
  /\ UNCHANGED <<key, sval, lvl, del, nxt, head, length, alloc, op, nd, lv, x,
                 ret, kv, seen, snap, ops, fx, fcont>>

\* find's result: succs[0] if it holds the key.
Found(sc, k) == sc[0] # Nil /\ key[sc[0]] = k

\* A Get, or a Delete before its flag CAS, is in progress.
Observing(p) ==
  \/ pc[p] \in {"G_first", "G_walk", "D_find", "D_cas"}
  \/ pc[p] \in {"F_walk", "F_succ"} /\ op[p].kind = "delete"

\* The ghost map takes k to v; every Get or Delete of k in progress has
\* seen v.
Write(k, v) ==
  /\ kv' = [kv EXCEPT ![k] = v]
  /\ seen' = [p \in Procs |-> IF Observing(p) /\ op[p].k = k
                             THEN seen[p] \cup {v} ELSE seen[p]]
  /\ UNCHANGED snap


-----------------------------------------------------------------------------
(* Insert.                                                                 *)

InsStart(p) ==
  /\ pc[p] = "idle" /\ ops < MaxOps
  /\ \E k \in Keys, v \in Vals : op' = [op EXCEPT ![p] = [kind |-> "insert", k |-> k, v |-> v]]
  /\ nd' = [nd EXCEPT ![p] = alloc]
  /\ alloc' = alloc + 1 /\ ops' = ops + 1
  /\ StartFind(p, "I_find")
  /\ UNCHANGED <<key, sval, lvl, del, nxt, head, length, preds, succs, lv, x, ret, kv, seen, snap>>

\* newNode := {key, value, level}; newNode.next[i].Store(succs[i]) for
\* i < level.  The node is not yet reachable.
\* (NewNodeSucc0 stores succs[0] at every level.)
NewNodeSucc0(p, l, sc) ==
  /\ key' = [key EXCEPT ![nd[p]] = op[p].k]
  /\ sval' = [sval EXCEPT ![nd[p]] = op[p].v]
  /\ lvl' = [lvl EXCEPT ![nd[p]] = l]
  /\ del' = [del EXCEPT ![nd[p]] = FALSE]
  /\ nxt' = [nxt EXCEPT ![nd[p]] = [i \in Levels |-> IF i < l THEN sc[0] ELSE Nil]]

NewNode(p, l, sc) ==
  /\ key' = [key EXCEPT ![nd[p]] = op[p].k]
  /\ sval' = [sval EXCEPT ![nd[p]] = op[p].v]
  /\ lvl' = [lvl EXCEPT ![nd[p]] = l]
  /\ del' = [del EXCEPT ![nd[p]] = FALSE]
  /\ nxt' = [nxt EXCEPT ![nd[p]] = [i \in Levels |-> IF i < l THEN sc[i] ELSE Nil]]

\* existing := m.find(key, &preds, &succs) has returned; if it found no
\* node, a new one.
InsFind(p) ==
  /\ pc[p] = "I_find"
  /\ IF Found(succs[p], op[p].k)
     THEN Goto(p, "I_check") /\ UNCHANGED <<key, sval, lvl, del, nxt>>
     ELSE \E l \in RandomLevels : NewNode(p, l, succs[p]) /\ Goto(p, "I_link0")
  /\ UNCHANGED <<head, length, alloc, op, nd, preds, succs, lv, x, ret, kv, seen, snap, ops, findVars>>

\* LoadUint32(&existing.deleted) == 0: existing.value = value, return nil.
\* A deleted node is passed by: a new node goes in before it.
\* (InsCheckIgnoresDeleted updates the node without the test;
\* InsCheckCounts goes on to the AddInt64 after an update.)
InsCheckIgnoresDeleted(p) ==
  /\ pc[p] = "I_check"
  /\ sval' = [sval EXCEPT ![succs[p][0]] = op[p].v]
  /\ Write(op[p].k, op[p].v)
  /\ Goto(p, "idle")
  /\ UNCHANGED <<key, lvl, del, nxt, head, length, alloc, op, nd, preds, succs, lv, x, ret, ops, findVars>>

InsCheckCounts(p) ==
  /\ pc[p] = "I_check"
  /\ LET e == succs[p][0] IN
       IF ~del[e]
       THEN /\ sval' = [sval EXCEPT ![e] = op[p].v]
            /\ Write(op[p].k, op[p].v)
            /\ Goto(p, "I_count")
            /\ UNCHANGED <<key, lvl, del, nxt>>
       ELSE /\ \E l \in RandomLevels : NewNode(p, l, succs[p])
            /\ Goto(p, "I_link0")
            /\ UNCHANGED <<kv, seen, snap>>
  /\ UNCHANGED <<head, length, alloc, op, nd, preds, succs, lv, x, ret, ops, findVars>>

InsCheck(p) ==
  /\ pc[p] = "I_check"
  /\ LET e == succs[p][0] IN
       IF ~del[e]
       THEN /\ sval' = [sval EXCEPT ![e] = op[p].v]
            /\ Write(op[p].k, op[p].v)
            /\ Goto(p, "idle")
            /\ UNCHANGED <<key, lvl, del, nxt>>
       ELSE /\ \E l \in RandomLevels : NewNode(p, l, succs[p])
            /\ Goto(p, "I_link0")
            /\ UNCHANGED <<kv, seen, snap>>
  /\ UNCHANGED <<head, length, alloc, op, nd, preds, succs, lv, x, ret, ops, findVars>>

\* preds[0].next[0].CompareAndSwap(succs[0], newNode); on failure retry
\* from find.  Success puts the key in the map.
InsLink0(p) ==
  /\ pc[p] = "I_link0"
  /\ IF nxt[preds[p][0]][0] = succs[p][0]
     THEN /\ nxt' = [nxt EXCEPT ![preds[p][0]][0] = nd[p]]
          /\ Write(op[p].k, op[p].v)
          /\ lv' = [lv EXCEPT ![p] = 1]
          /\ Goto(p, IF lvl[nd[p]] > 1 THEN "I_linkUp" ELSE "I_count")
          /\ UNCHANGED findVars
     ELSE /\ StartFind(p, "I_find")
          /\ UNCHANGED <<nxt, lv, kv, seen, snap>>
  /\ UNCHANGED <<key, sval, lvl, del, head, length, alloc, op, nd, preds, succs, x, ret, ops>>

\* for i := 1; i < level: preds[i].next[i].CompareAndSwap(succs[i],
\* newNode), and on failure m.find again.  newNode.next[i] keeps the
\* successor of the first find.
InsLinkUp(p) ==
  /\ pc[p] = "I_linkUp"
  /\ LET i == lv[p] IN
       IF nxt[preds[p][i]][i] = succs[p][i]
       THEN /\ nxt' = [nxt EXCEPT ![preds[p][i]][i] = nd[p]]
            /\ lv' = [lv EXCEPT ![p] = i + 1]
            /\ Goto(p, IF i + 1 < lvl[nd[p]] THEN "I_linkUp" ELSE "I_count")
       ELSE /\ Goto(p, "I_refind")
            /\ UNCHANGED <<nxt, lv>>
  /\ UNCHANGED <<key, sval, lvl, del, head, length, alloc, op, nd, preds, succs, x, ret, kv, seen, snap, ops, findVars>>

\* (InsRefindStale retries the CAS without searching again.)
InsRefindStale(p) ==
  /\ pc[p] = "I_refind"
  /\ Goto(p, "I_linkUp")
  /\ UNCHANGED <<key, sval, lvl, del, nxt, head, length, alloc, op, nd, preds, succs, lv, x, ret, kv, seen, snap, ops, findVars>>

InsRefind(p) ==
  /\ pc[p] = "I_refind"
  /\ StartFind(p, "I_linkUp")
  /\ UNCHANGED <<key, sval, lvl, del, nxt, head, length, alloc, op, nd, preds, succs, lv, x, ret, kv, seen, snap, ops>>

\* atomic.AddInt64(&m.length, 1); return nil
InsCount(p) ==
  /\ pc[p] = "I_count"
  /\ length' = length + 1
  /\ Goto(p, "idle")
  /\ UNCHANGED <<key, sval, lvl, del, nxt, head, alloc, op, nd, preds, succs, lv, x, ret, kv, seen, snap, ops, findVars>>

-----------------------------------------------------------------------------
(* Delete.                                                                 *)

DelStart(p) ==
  /\ pc[p] = "idle" /\ ops < MaxOps
  /\ \E k \in Keys :
       /\ op' = [op EXCEPT ![p] = [kind |-> "delete", k |-> k, v |-> NoVal]]
       /\ seen' = [seen EXCEPT ![p] = {kv[k]}]
  /\ ops' = ops + 1
  /\ StartFind(p, "D_find")
  /\ UNCHANGED <<key, sval, lvl, del, nxt, head, length, alloc, nd, preds, succs, lv, x, ret, kv, snap>>

\* target := m.find(key, ...) has returned; nil returns "key not found".
DelFind(p) ==
  /\ pc[p] = "D_find"
  /\ Goto(p, IF Found(succs[p], op[p].k) THEN "D_cas" ELSE "D_notFound")
  /\ UNCHANGED <<key, sval, lvl, del, nxt, head, length, alloc, op, nd, preds, succs, lv, x, ret, kv, seen, snap, ops, findVars>>

\* CompareAndSwapUint32(&target.deleted, 0, 1); failure returns "already
\* deleted".  Success takes the key out of the map.
DelCas(p) ==
  /\ pc[p] = "D_cas"
  /\ IF ~del[succs[p][0]]
     THEN /\ del' = [del EXCEPT ![succs[p][0]] = TRUE]
          /\ Write(op[p].k, NoVal)
          /\ Goto(p, "D_count")
     ELSE /\ Goto(p, "D_notFound")
          /\ UNCHANGED <<del, kv, seen, snap>>
  /\ UNCHANGED <<key, sval, lvl, nxt, head, length, alloc, op, nd, preds, succs, lv, x, ret, ops, findVars>>

\* atomic.AddInt64(&m.length, -1); return nil
DelCount(p) ==
  /\ pc[p] = "D_count"
  /\ length' = length - 1
  /\ Goto(p, "idle")
  /\ UNCHANGED <<key, sval, lvl, del, nxt, head, alloc, op, nd, preds, succs, lv, x, ret, kv, seen, snap, ops, findVars>>

\* return errors.New(...): the key was not there.
DelNotFound(p) ==
  /\ pc[p] = "D_notFound"
  /\ Goto(p, "idle")
  /\ UNCHANGED <<key, sval, lvl, del, nxt, head, length, alloc, op, nd, preds, succs, lv, x, ret, kv, seen, snap, ops, findVars>>

-----------------------------------------------------------------------------
(* Get.  The walk from the top level is left out: its result is dropped,  *)
(* and x restarts at m.head.next[0].                                       *)

GetStart(p) ==
  /\ pc[p] = "idle" /\ ops < MaxOps
  /\ \E k \in Keys :
       /\ op' = [op EXCEPT ![p] = [kind |-> "get", k |-> k, v |-> NoVal]]
       /\ seen' = [seen EXCEPT ![p] = {kv[k]}]
  /\ ops' = ops + 1
  /\ Goto(p, "G_first")
  /\ UNCHANGED <<key, sval, lvl, del, nxt, head, length, alloc, nd, preds, succs, lv, x, ret, kv, snap, findVars>>

\* x = m.head.next[0].Load()
GetFirst(p) ==
  /\ pc[p] = "G_first"
  /\ x' = [x EXCEPT ![p] = nxt[head][0]]
  /\ Goto(p, "G_walk")
  /\ UNCHANGED <<key, sval, lvl, del, nxt, head, length, alloc, op, nd, preds, succs, lv, ret, kv, seen, snap, ops, findVars>>

\* for x != nil && x.key < key { x = x.next[0].Load() }; then the value
\* if x holds the key and LoadUint32(&x.deleted) == 0, else not found.
GetWalk(p) ==
  /\ pc[p] = "G_walk"
  /\ LET c == x[p] IN
       IF c # Nil /\ key[c] < op[p].k
       THEN /\ x' = [x EXCEPT ![p] = nxt[c][0]]
            /\ UNCHANGED <<pc, ret>>
       ELSE /\ ret' = [ret EXCEPT ![p] =
                         IF c # Nil /\ key[c] = op[p].k /\ ~del[c] THEN sval[c] ELSE NoVal]
            /\ Goto(p, "G_ret")
            /\ UNCHANGED x
  /\ UNCHANGED <<key, sval, lvl, del, nxt, head, length, alloc, op, nd, preds, succs, lv, kv, seen, snap, ops, findVars>>

GetRet(p) ==
  /\ pc[p] = "G_ret"
  /\ Goto(p, "idle")
  /\ UNCHANGED <<key, sval, lvl, del, nxt, head, length, alloc, op, nd, preds, succs, lv, x, ret, kv, seen, snap, ops, findVars>>

-----------------------------------------------------------------------------
(* Swap and Reset replace m.head and m.length with plain stores; no caller *)
(* runs them beside other calls, so here they run when no call is in       *)
(* progress.                                                               *)

Quiescent == \A q \in Procs : pc[q] = "idle"

\* NewLFMemtable() for the new sentinel; StoreInt64(&m.length, 0);
\* m.head = newMT.head.  The new memtable is empty.
Renew ==
  /\ ops < MaxOps /\ Quiescent
  /\ head' = alloc
  /\ key' = [key EXCEPT ![alloc] = 0]
  /\ lvl' = [lvl EXCEPT ![alloc] = MaxLevel]
  /\ nxt' = [nxt EXCEPT ![alloc] = NilNexts]
  /\ alloc' = alloc + 1 /\ ops' = ops + 1
  /\ length' = 0
  /\ kv' = [k \in Keys |-> NoVal]
  /\ UNCHANGED <<sval, del, seen, procVars>>

\* Dump: walk level 0 and keep each node that is not deleted; a later
\* node of the same key overwrites an earlier one in the map.
RECURSIVE Chain(_, _)
Chain(n, i) == IF nxt[n][i] = Nil THEN <<>> ELSE <<nxt[n][i]>> \o Chain(nxt[n][i], i)

Dump ==
  [k \in Keys |-> LET c == Chain(head, 0)
                      j == SelectLastInSeq(c, LAMBDA n : key[n] = k /\ ~del[n])
                  IN IF j = 0 THEN NoVal ELSE sval[c[j]]]

\* Swap: snapshot := m.Dump(), then the reset; the snapshot is returned.
Swap == Renew /\ snap' = Dump

\* Reset: the reset alone.
Reset == Renew /\ UNCHANGED snap

-----------------------------------------------------------------------------

Step(p) ==
  \/ InsFind(p) \/ InsCheck(p) \/ InsLink0(p) \/ InsLinkUp(p) \/ InsRefind(p)
  \/ InsCount(p) \/ FindWalk(p) \/ FindSucc(p) \/ DelFind(p) \/ DelCas(p) \/ DelCount(p) \/ DelNotFound(p)
  \/ GetFirst(p) \/ GetWalk(p) \/ GetRet(p)

Done == ops = MaxOps /\ Quiescent /\ UNCHANGED vars

Next ==
  \/ \E p \in Procs : InsStart(p) \/ DelStart(p) \/ GetStart(p) \/ Step(p)
  \/ Swap \/ Reset
  \/ Done

\* A goroutine inside a call keeps being scheduled.
Spec == Init /\ [][Next]_vars /\ \A p \in Procs : WF_vars(Step(p))

-----------------------------------------------------------------------------
(* Properties.                                                             *)

Pcs == {"idle", "I_find", "I_check", "I_link0", "I_linkUp", "I_refind",
        "I_count", "F_walk", "F_succ", "D_find", "D_cas", "D_count", "D_notFound", "G_first",
        "G_walk", "G_ret"}

TypeOK ==
  /\ key \in [Nodes -> Keys \cup {0}] /\ sval \in [Nodes -> Vals \cup {NoVal}]
  /\ lvl \in [Nodes -> 1..MaxLevel] /\ del \in [Nodes -> BOOLEAN]
  /\ nxt \in [Nodes -> [Levels -> Nodes \cup {Nil}]]
  /\ head \in Nodes /\ alloc \in 1..MaxOps + 1
  /\ length \in -MaxOps..MaxOps
  /\ pc \in [Procs -> Pcs] /\ fi \in [Procs -> Levels]
  /\ kv \in [Keys -> Vals \cup {NoVal}] /\ ops \in 0..MaxOps

\* The nodes not deleted on level 0.
LiveNodes == {n \in ToSet(Chain(head, 0)) : ~del[n]}

\* Each level is a sorted list of nodes tall enough for it, all of them on
\* level 0: Insert links bottom-up and points a new node at the successors
\* find gave it.  Equal keys do occur: a key inserted again after a Delete
\* gets a new node in front of the deleted one (so spec 9's "strictly
\* greater" holds only between distinct keys).
SkipListShape ==
  \A i \in Levels :
    LET c == Chain(head, i) IN
      /\ \A j \in 1..Len(c) - 1 : key[c[j]] <= key[c[j + 1]]
      /\ \A j \in DOMAIN c : lvl[c[j]] > i /\ c[j] \in ToSet(Chain(head, 0))

\* Dump, and so Swap's snapshot, is the map the completed Inserts and
\* Deletes give: no insert is lost or doubled, a deleted key stays gone,
\* and an update is seen.
ListMatchesMap == Dump = kv

\* Get and Delete answer linearizably: Get returns a value its key held at
\* some instant between its call and its return (not found is NoVal), and
\* a Delete that fails ("key not found", "already deleted") found the key
\* absent at some instant of its call.
ResultsLinearizable ==
  \A p \in Procs : /\ pc[p] = "G_ret" => ret[p] \in seen[p]
                  /\ pc[p] = "D_notFound" => NoVal \in seen[p]

\* With no call in progress, m.length (Size) counts the nodes not deleted:
\* each increment and decrement follows one link or one deleted-flag CAS.
QuiescentSize == Quiescent => length = Cardinality(LiveNodes)

\* Every Insert, Delete and Get returns: the retry loops end.
OpsComplete == \A p \in Procs : pc[p] # "idle" ~> pc[p] = "idle"

=============================================================================
