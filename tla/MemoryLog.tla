----------------------------- MODULE MemoryLog ------------------------------
(***************************************************************************)
(* The log of MemoryLogManager (logging/test_log_manager.go), filled by    *)
(* several threads and flushed by PeriodicWALFlusher, and the LSN of a     *)
(* page (storage/page.go) that the threads raise to the LSN of the record  *)
(* they have appended.  An LSN is an offset into the log's bytes.          *)
(***************************************************************************)
EXTENDS Integers, Sequences

CONSTANTS
  Threads,
  Sizes,        \* sizes of records, in bytes
  MaxBytes      \* bound on the length of the log

VARIABLES
  buffer,       \* the length of the log
  flushedUntil, flushOnAppend,
  appendCountdown,  \* appends until the injected error, or -1
  durable,      \* history: the bytes that have been flushed
  tail,         \* what the flusher has read with Tail, until it is stored; else -1
  pageLSN,
  th            \* th[t]: [pc, lsn, size, seen]; seen is what the CompareAndSwap expects

logVars == <<buffer, flushedUntil, flushOnAppend, appendCountdown, durable, tail, pageLSN, th>>

Resting == [pc |-> "idle", lsn |-> 0, size |-> 0, seen |-> 0]

LogInit ==
  /\ buffer = 0 /\ flushedUntil = 0 /\ durable = 0 /\ tail = -1
  /\ flushOnAppend \in BOOLEAN /\ appendCountdown \in {-1, 1}
  /\ pageLSN = 0 /\ th = [t \in Threads |-> Resting]

AppendRecord(t, size) ==
  /\ th[t].pc = "idle" /\ appendCountdown # 0 /\ buffer + size <= MaxBytes
  /\ appendCountdown' = IF appendCountdown > 0 THEN appendCountdown - 1 ELSE appendCountdown
  /\ buffer' = buffer + size
  /\ IF flushOnAppend THEN flushedUntil' = buffer /\ durable' = buffer + size
     ELSE UNCHANGED <<flushedUntil, durable>>
  /\ th' = [th EXCEPT ![t] = [pc |-> "load", lsn |-> buffer, size |-> size, seen |-> 0]]
  /\ UNCHANGED <<flushOnAppend, tail, pageLSN>>

\* SetAppendErrorAfterN(-1, ...) takes the injected error back.
ClearAppendError ==
  /\ appendCountdown = 0 /\ appendCountdown' = -1
  /\ UNCHANGED <<buffer, flushedUntil, flushOnAppend, durable, tail, pageLSN, th>>

\* MonotonicallyUpdateLSN: read the LSN; a larger one stays; else try to replace it.
LoadLSN(t) ==
  /\ th[t].pc = "load"
  /\ th' = [th EXCEPT ![t].seen = pageLSN, ![t].pc = IF th[t].lsn <= pageLSN THEN "wait" ELSE "cas"]
  /\ UNCHANGED <<buffer, flushedUntil, flushOnAppend, appendCountdown, durable, tail, pageLSN>>

\* Variant: a store in place of the CompareAndSwap.
CompareAndSwapBlind(t) ==
  /\ th[t].pc = "cas" /\ pageLSN' = th[t].lsn /\ th' = [th EXCEPT ![t].pc = "wait"]
  /\ UNCHANGED <<buffer, flushedUntil, flushOnAppend, appendCountdown, durable, tail>>

CompareAndSwap(t) ==
  /\ th[t].pc = "cas"
  /\ IF pageLSN = th[t].seen
     THEN pageLSN' = th[t].lsn /\ th' = [th EXCEPT ![t].pc = "wait"]
     ELSE th' = [th EXCEPT ![t].pc = "load"] /\ UNCHANGED pageLSN
  /\ UNCHANGED <<buffer, flushedUntil, flushOnAppend, appendCountdown, durable, tail>>

\* Variant: the wait ends whatever has been flushed.
WaitNotAtAll(t) ==
  /\ th[t].pc = "wait" /\ th' = [th EXCEPT ![t].pc = "flushed"]
  /\ UNCHANGED <<buffer, flushedUntil, flushOnAppend, appendCountdown, durable, tail, pageLSN>>

WaitUntilFlushed(t) ==
  /\ th[t].pc = "wait" /\ flushedUntil >= th[t].lsn
  /\ th' = [th EXCEPT ![t].pc = "flushed"]
  /\ UNCHANGED <<buffer, flushedUntil, flushOnAppend, appendCountdown, durable, tail, pageLSN>>

Rest(t) ==
  /\ th[t].pc = "flushed" /\ th' = [th EXCEPT ![t] = Resting]
  /\ UNCHANGED <<buffer, flushedUntil, flushOnAppend, appendCountdown, durable, tail, pageLSN>>

\* PeriodicWALFlusher: the tail, and then SetFlushedLSN, which never goes back.
ReadTail ==
  /\ tail = -1 /\ tail' = buffer
  /\ UNCHANGED <<buffer, flushedUntil, flushOnAppend, appendCountdown, durable, pageLSN, th>>

SetFlushedLSN ==
  /\ tail # -1 /\ tail' = -1
  /\ flushedUntil' = IF tail > flushedUntil THEN tail ELSE flushedUntil
  /\ durable' = IF tail > durable THEN tail ELSE durable
  /\ UNCHANGED <<buffer, flushOnAppend, appendCountdown, pageLSN, th>>

LogNext ==
  \/ ReadTail \/ SetFlushedLSN \/ ClearAppendError
  \/ \E t \in Threads : \/ LoadLSN(t) \/ CompareAndSwap(t) \/ WaitUntilFlushed(t) \/ Rest(t)
                        \/ \E size \in Sizes : AppendRecord(t, size)

LogSpec == LogInit /\ [][LogNext]_logVars

-----------------------------------------------------------------------------
\* A thread whose MonotonicallyUpdateLSN has returned finds the page's LSN at least
\* as high as its record's, and flushedUntil and the LSN never go back, whatever
\* races for them: a page cannot look older than a change it has.
LSNsGrow ==
  [][/\ pageLSN' >= pageLSN /\ flushedUntil' >= flushedUntil
     /\ \A t \in Threads : th'[t].pc = "wait" => pageLSN' >= th'[t].lsn]_logVars

\* When WaitUntilFlushed returns, the record and all before it have been flushed,
\* with one exception: flushedUntil is the end of what was flushed, and the record
\* that begins just there passes for flushed as well.
FlushedIsDurable ==
  \A t \in Threads : th[t].pc = "flushed" =>
     th[t].lsn + th[t].size <= durable \/ th[t].lsn = durable
=============================================================================
