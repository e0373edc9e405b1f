------------------------------ MODULE Database ------------------------------
(***************************************************************************)
(* The table registry (src/pkg/domain/database.go, Database).  It keeps   *)
(* the set of table names in memory (spec.Tables, status.TableCount) and  *)
(* on page 1 of the file (saveHeader / loadHeader), and stores row k of   *)
(* table t in the storage port under the key fmt.Sprintf("%s:%s", t, k).  *)
(*                                                                         *)
(* With ThreadSafe every method runs under db.mu, so each is one atomic   *)
(* step.  The storage port is the B-tree; here it is the map the port     *)
(* promises (Insert overwrites, Delete of a missing key fails with        *)
(* ErrKeyNotFound); the B-tree itself is checked in BTree.  Names, keys   *)
(* and prefixed keys are TLA+ strings, so the prefixing is the real       *)
(* concatenation.  Close ends the instance; NewDatabase on the same file  *)
(* (after Close or after the process died between two calls) reloads the *)
(* table list from page 1, while the B-tree pages keep the rows.          *)
(***************************************************************************)
EXTENDS Integers, Sequences, FiniteSets, FiniteSetsExt

CONSTANTS
  Tables,     \* table names (strings)
  DKeys,      \* row keys (strings)
  DValues,    \* row values
  MaxTables,  \* DatabaseConfig.MaxTables (> 0; NewDatabase turns <= 0 into 100)
  PageSize,   \* BtConfig.PageSize, the bytes of page 1
  NotFound,   \* the storage port's key-not-found
  MaxOps      \* calls in a behaviour

ASSUME MaxTables > 0

VARIABLES
  tables,     \* db.spec.Tables: the names the instance knows
  tableCount, \* db.status.TableCount
  header,     \* the names saved on page 1 of the file
  store,      \* the storage port: prefixed key -> value or NotFound
  open,       \* an instance is open (NewDatabase returned, Close not called)
  ref,        \* ghost: per table and key, what the table should hold
  lastGet,    \* ghost: the last Get's [got, exp]
  lastRet,    \* ghost: how the last call returned, "ok" or "err"
  ops         \* calls so far

vars == <<tables, tableCount, header, store, open, ref, lastGet, lastRet, ops>>

\* fmt.Sprintf("%s:%s", tableName, key)
Prefix(t, k) == t \o ":" \o k

PKeys == {Prefix(t, k) : t \in Tables, k \in DKeys}

NoGet == [got |-> NotFound, exp |-> NotFound]

\* saveHeader's buffer: a u32 count, then per name a u16 length and the name.
HeaderBytes(ts) == 4 + MapThenSumSet(LAMBDA n : 2 + Len(n), ts)

\* saveHeader: fails when the buffer exceeds the page, else writes page 1.
HeaderFits(ts) == HeaderBytes(ts) <= PageSize

SaveHeader(ts) ==
  /\ header' = IF HeaderFits(ts) THEN ts ELSE header
  /\ lastRet' = IF HeaderFits(ts) THEN "ok" ELSE "err"

\* A new file: NewDatabase extends it to two zero pages, loadHeader reads a
\* table count of 0, and the B-tree is empty.
Init ==
  /\ tables = {}
  /\ tableCount = 0
  /\ header = {}
  /\ store = [pk \in PKeys |-> NotFound]
  /\ open = TRUE
  /\ ref = [t \in Tables |-> [k \in DKeys |-> NotFound]]
  /\ lastGet = NoGet
  /\ lastRet = "ok"
  /\ ops = 0

Call == open /\ ops < MaxOps /\ ops' = ops + 1

\* A call that returns an error before it changes anything.
Fail == lastRet' = "err" /\ UNCHANGED <<tables, tableCount, header, store, ref, lastGet>>

\* CreateTable: the MaxTables check, the exists check, then the name goes
\* into memory before saveHeader, whose error is returned as is.  A new
\* table holds no rows.
CreateTable(t) ==
  /\ Call
  /\ \/ tableCount >= MaxTables /\ Fail
     \/ tableCount < MaxTables /\ t \in tables /\ Fail
     \/ /\ tableCount < MaxTables /\ t \notin tables
        /\ tables' = tables \cup {t}
        /\ tableCount' = tableCount + 1
        /\ SaveHeader(tables')
        /\ ref' = [ref EXCEPT ![t] = [k \in DKeys |-> NotFound]]
        /\ UNCHANGED <<store, lastGet>>
  /\ UNCHANGED open

\* DropTable: removes the name and saves the header; the rows stay in the
\* storage port.
DropTable(t) ==
  /\ Call
  /\ \/ t \notin tables /\ Fail
     \/ /\ t \in tables
        /\ tables' = tables \ {t}
        /\ tableCount' = tableCount - 1
        /\ SaveHeader(tables')
        /\ UNCHANGED <<store, ref, lastGet>>
  /\ UNCHANGED open

Insert(t, k, v) ==
  /\ Call
  /\ \/ t \notin tables /\ Fail
     \/ /\ t \in tables
        /\ store' = [store EXCEPT ![Prefix(t, k)] = v]
        /\ ref' = [ref EXCEPT ![t][k] = v]
        /\ lastRet' = "ok"
        /\ UNCHANGED <<tables, tableCount, header, lastGet>>
  /\ UNCHANGED open

Get(t, k) ==
  /\ Call
  /\ \/ t \notin tables /\ Fail
     \/ /\ t \in tables
        /\ lastGet' = [got |-> store[Prefix(t, k)], exp |-> ref[t][k]]
        /\ lastRet' = IF store[Prefix(t, k)] = NotFound THEN "err" ELSE "ok"
        /\ UNCHANGED <<tables, tableCount, header, store, ref>>
  /\ UNCHANGED open

Delete(t, k) ==
  /\ Call
  /\ \/ t \notin tables /\ Fail
     \/ t \in tables /\ store[Prefix(t, k)] = NotFound /\ Fail
     \/ /\ t \in tables /\ store[Prefix(t, k)] # NotFound
        /\ store' = [store EXCEPT ![Prefix(t, k)] = NotFound]
        /\ ref' = [ref EXCEPT ![t][k] = NotFound]
        /\ lastRet' = "ok"
        /\ UNCHANGED <<tables, tableCount, header, lastGet>>
  /\ UNCHANGED open

\* Close closes the file; the instance takes no more calls.
Close ==
  /\ open
  /\ open' = FALSE
  /\ lastRet' = "ok"
  /\ UNCHANGED <<tables, tableCount, header, store, ref, lastGet, ops>>

\* NewDatabase on the existing file, after Close or after the process died
\* between two calls: loadHeader reads the names saved on page 1.
Reopen ==
  /\ ops < MaxOps /\ ops' = ops + 1
  /\ tables' = header
  /\ tableCount' = Cardinality(header)
  /\ open' = TRUE
  /\ lastRet' = "ok"
  /\ UNCHANGED <<header, store, ref, lastGet>>

Next ==
  \/ \E t \in Tables : CreateTable(t) \/ DropTable(t)
  \/ \E t \in Tables, k \in DKeys :
       \/ \E v \in DValues : Insert(t, k, v)
       \/ Get(t, k)
       \/ Delete(t, k)
  \/ Close
  \/ Reopen

Spec == Init /\ [][Next]_vars

-----------------------------------------------------------------------------
TypeOK ==
  /\ tables \subseteq Tables /\ header \subseteq Tables
  /\ tableCount \in 0..MaxTables
  /\ store \in [PKeys -> DValues \cup {NotFound}]
  /\ ref \in [Tables -> [DKeys -> DValues \cup {NotFound}]]
  /\ lastGet \in [got : DValues \cup {NotFound}, exp : DValues \cup {NotFound}]
  /\ open \in BOOLEAN /\ lastRet \in {"ok", "err"} /\ ops \in 0..MaxOps

\* A table is a key namespace (spec.md: the registry "maps table name to a
\* key-namespace prefix"): Database.Get(t, k) returns the value last
\* inserted into row k of t since t was created and not deleted since, and
\* not-found otherwise, whatever other tables hold or held.
TablesIsolated == lastGet.got = lastGet.exp

=============================================================================
