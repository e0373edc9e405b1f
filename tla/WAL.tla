-------------------------------- MODULE WAL --------------------------------
(***************************************************************************)
(* The write-ahead log of the LSM backend (src/unnamed/part_003, package   *)
(* lsmtree): a bounded channel walCh, one worker goroutine that drains it  *)
(* into the file, Flush (wait until the channel is empty), Reset           *)
(* (truncate under w.mu) and Close (close the channel, join the worker).   *)
(*                                                                         *)
(* The module holds the WAL's state and one action fragment per operation; *)
(* LSMTree instantiates it and conjoins the fragments with the caller's    *)
(* program counter.  A WAL record is a model value of the caller's choice; *)
(* its byte encoding (op byte, big-endian lengths) is left out because no  *)
(* property reads bytes, and the atomic entryCount is left out because     *)
(* nothing in the repository reads it.                                     *)
(***************************************************************************)
EXTENDS Naturals, Sequences

CONSTANTS
  WalChCap,   \* capacity of walCh (30000 in NewWAL)
  NoEntry     \* the worker holds no entry

VARIABLES
  walCh,          \* entries sent on walCh and not yet received by the worker
  walHand,        \* the entry the worker has received and not yet written
  walFile,        \* records written to db.wal since it was last truncated
  walChClosed,    \* close(w.walCh) has happened
  walWorkerDone   \* the worker goroutine has returned (wg.Done)

walVars == <<walCh, walHand, walFile, walChClosed, walWorkerDone>>

\* NewWAL: the file is opened (O_APPEND, so earlier records stay) and the
\* worker is started with an empty channel.
WalInit(file) ==
  /\ walCh = <<>>
  /\ walHand = NoEntry
  /\ walFile = file
  /\ walChClosed = FALSE
  /\ walWorkerDone = FALSE

\* NewWAL after a restart: the process that held the channel and the
\* worker's entry is gone; the file keeps what was written to it.
Reopen ==
  /\ walCh' = <<>>
  /\ walHand' = NoEntry
  /\ walChClosed' = FALSE
  /\ walWorkerDone' = FALSE
  /\ UNCHANGED walFile

\* Append: w.walCh <- entry.  The send blocks while the channel is full.
\* Sending on the closed channel would panic; the LSM never appends after
\* Close, so the guard only records that.
AppendEntry(e) ==
  /\ ~walChClosed
  /\ Len(walCh) < WalChCap
  /\ walCh' = Append(walCh, e)
  /\ UNCHANGED <<walHand, walFile, walChClosed, walWorkerDone>>

\* worker: `for entry := range w.walCh` receives the next entry ...
WorkerRecv ==
  /\ walHand = NoEntry
  /\ walCh # <<>>
  /\ walHand' = Head(walCh)
  /\ walCh' = Tail(walCh)
  /\ UNCHANGED <<walFile, walChClosed, walWorkerDone>>

\* ... serialises it and, under w.mu, writes it to the file.
WorkerWrite ==
  /\ walHand # NoEntry
  /\ walFile' = Append(walFile, walHand)
  /\ walHand' = NoEntry
  /\ UNCHANGED <<walCh, walChClosed, walWorkerDone>>

\* The range loop ends once the channel is closed and drained.
WorkerExit ==
  /\ walChClosed
  /\ walCh = <<>>
  /\ walHand = NoEntry
  /\ ~walWorkerDone
  /\ walWorkerDone' = TRUE
  /\ UNCHANGED <<walCh, walHand, walFile, walChClosed>>

\* Flush: `for len(w.walCh) != 0 { sleep }`.  It looks at the channel only,
\* not at an entry the worker has received and not yet written.
Drained == Len(walCh) = 0

\* Reset: under w.mu, close the file and reopen it with O_TRUNC.
Reset ==
  /\ walFile' = <<>>
  /\ UNCHANGED <<walCh, walHand, walChClosed, walWorkerDone>>

\* Close, first half: close(w.walCh).
CloseChannel ==
  /\ ~walChClosed
  /\ walChClosed' = TRUE
  /\ UNCHANGED <<walCh, walHand, walFile, walWorkerDone>>

\* Close, second half: w.wg.Wait() returns once the worker is done; the file
\* is then closed.
WorkerJoined == walWorkerDone

WorkerNext == WorkerRecv \/ WorkerWrite \/ WorkerExit

=============================================================================
