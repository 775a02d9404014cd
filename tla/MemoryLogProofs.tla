-------------------------- MODULE MemoryLogProofs ---------------------------
(* Theorems about MemoryLog, for every set of threads, and records and logs   *)
(* of any size.                                                               *)
EXTENDS MemoryLog, TLAPS

LogTypes ==
  /\ buffer \in Nat /\ flushedUntil \in Nat /\ durable \in Nat /\ pageLSN \in Nat
  /\ tail \in Nat \cup {-1}
  /\ th \in [Threads -> [pc : {"idle", "load", "cas", "wait", "flushed"}, lsn : Nat, size : Nat, seen : Nat]]

\* Offset n of the log is not in the middle of the record of thread t.
Boundary(t, n) == th[t].lsn + th[t].size <= n \/ n <= th[t].lsn

\* What has been flushed, or read as the tail, ends between two records; the LSN
\* a thread is about to install is above the one it compares with.
LogInv ==
  /\ LogTypes
  /\ flushedUntil <= durable /\ durable <= buffer /\ tail <= buffer
  /\ \A t \in Threads :
       /\ th[t].lsn + th[t].size <= buffer
       /\ Boundary(t, durable) /\ (tail # -1 => Boundary(t, tail))
       /\ th[t].pc = "cas" => th[t].seen < th[t].lsn
       /\ th[t].pc = "wait" => th[t].lsn <= pageLSN
       /\ th[t].pc = "flushed" => th[t].lsn <= durable

\* AppendRecord puts its record behind all there is, whole.
LEMMA AppendKeeps ==
  ASSUME Sizes \subseteq Nat, LogInv, NEW t \in Threads, NEW size \in Sizes, AppendRecord(t, size)
  PROVE  LogInv'
  <1> size \in Nat
    OBVIOUS
  <1>1. LogTypes'
    BY DEF LogInv, LogTypes, AppendRecord
  <1>2. flushedUntil' <= durable' /\ durable' <= buffer' /\ tail' <= buffer'
    BY DEF LogInv, LogTypes, AppendRecord
  <1>3. ASSUME NEW u \in Threads
        PROVE  /\ th'[u].lsn + th'[u].size <= buffer'
               /\ Boundary(u, durable)' /\ (tail' # -1 => Boundary(u, tail)')
               /\ th'[u].pc = "cas" => th'[u].seen < th'[u].lsn
               /\ th'[u].pc = "wait" => th'[u].lsn <= pageLSN'
               /\ th'[u].pc = "flushed" => th'[u].lsn <= durable'
    <2>1. CASE u = t
      BY <2>1 DEF LogInv, LogTypes, AppendRecord, Boundary
    <2>2. CASE u # t
      <3>1. th'[u] = th[u] /\ th[u].lsn \in Nat /\ th[u].size \in Nat
        BY <2>2 DEF LogInv, LogTypes, AppendRecord
      <3> QED
        BY <3>1 DEF LogInv, LogTypes, AppendRecord, Boundary
    <2> QED
      BY <2>1, <2>2
  <1> QED
    BY <1>1, <1>2, <1>3 DEF LogInv

\* A step of a thread that has appended its record.
LEMMA ThreadKeeps ==
  ASSUME LogInv, NEW t \in Threads,
         LoadLSN(t) \/ CompareAndSwap(t) \/ WaitUntilFlushed(t) \/ Rest(t)
  PROVE  LogInv'
  <1> USE DEF LoadLSN, CompareAndSwap, WaitUntilFlushed, Rest, Resting
  <1>1. LogTypes'
    BY DEF LogInv, LogTypes
  <1>2. flushedUntil' <= durable' /\ durable' <= buffer' /\ tail' <= buffer'
    BY DEF LogInv
  <1>3. pageLSN' >= pageLSN
    BY DEF LogInv, LogTypes
  <1>4. ASSUME NEW u \in Threads
        PROVE  /\ th'[u].lsn + th'[u].size <= buffer'
               /\ Boundary(u, durable)' /\ (tail' # -1 => Boundary(u, tail)')
               /\ th'[u].pc = "cas" => th'[u].seen < th'[u].lsn
               /\ th'[u].pc = "wait" => th'[u].lsn <= pageLSN'
               /\ th'[u].pc = "flushed" => th'[u].lsn <= durable'
    <2>1. CASE u = t
      <3> HIDE DEF LoadLSN, CompareAndSwap, WaitUntilFlushed, Rest
      <3>1. CASE LoadLSN(t)
        BY <2>1, <3>1 DEF LogInv, LogTypes, Boundary, LoadLSN
      <3>2. CASE CompareAndSwap(t)
        BY <2>1, <3>2 DEF LogInv, LogTypes, Boundary, CompareAndSwap
      <3>3. CASE WaitUntilFlushed(t)
        BY <2>1, <3>3 DEF LogInv, LogTypes, Boundary, WaitUntilFlushed
      <3>4. CASE Rest(t)
        BY <2>1, <3>4 DEF LogInv, LogTypes, Boundary, Rest
      <3> QED
        BY <3>1, <3>2, <3>3, <3>4
    <2>2. CASE u # t
      <3>1. th'[u] = th[u] /\ th[u].lsn \in Nat /\ th[u].size \in Nat
        BY <2>2 DEF LogInv, LogTypes
      <3> QED
        BY <1>1, <1>3, <3>1 DEF LogInv, LogTypes, Boundary
    <2> QED
      BY <2>1, <2>2
  <1> QED
    BY <1>1, <1>2, <1>4 DEF LogInv

LEMMA LogStep == ASSUME Sizes \subseteq Nat, LogInv, [LogNext]_logVars PROVE LogInv'
  <1>1. CASE ReadTail
    BY <1>1 DEF ReadTail, LogInv, LogTypes, Boundary
  <1>2. CASE SetFlushedLSN
    BY <1>2 DEF SetFlushedLSN, LogInv, LogTypes, Boundary
  <1>3. CASE ClearAppendError
    BY <1>3 DEF ClearAppendError, LogInv, LogTypes, Boundary
  <1>4. CASE UNCHANGED logVars
    BY <1>4 DEF logVars, LogInv, LogTypes, Boundary
  <1> QED
    BY <1>1, <1>2, <1>3, <1>4, AppendKeeps, ThreadKeeps DEF LogNext

LEMMA LogStart == LogInit => LogInv
  BY DEF LogInit, LogInv, LogTypes, Boundary, Resting

LEMMA LogInvariant == ASSUME Sizes \subseteq Nat PROVE LogSpec => []LogInv
  BY LogStart, LogStep, PTL DEF LogSpec

\* WaitUntilFlushed returns when the record has been flushed whole, or when what
\* has been flushed ends exactly where the record begins.
THEOREM WaitedForIsDurable == ASSUME Sizes \subseteq Nat PROVE LogSpec => []FlushedIsDurable
  <1>1. LogInv => FlushedIsDurable
    BY DEF LogInv, LogTypes, Boundary, FlushedIsDurable
  <1> QED
    BY <1>1, LogInvariant, PTL

\* MonotonicallyUpdateLSN and SetFlushedLSN never move an LSN back, and the page's
\* LSN has reached the record's when the former returns.
THEOREM LSNsNeverFall == ASSUME Sizes \subseteq Nat PROVE LogSpec => LSNsGrow
  <1>1. ASSUME LogInv, LogInv', [LogNext]_logVars
        PROVE  [/\ pageLSN' >= pageLSN /\ flushedUntil' >= flushedUntil
                /\ \A t \in Threads : th'[t].pc = "wait" => pageLSN' >= th'[t].lsn]_logVars
    <2>1. pageLSN' >= pageLSN /\ flushedUntil' >= flushedUntil
      <3> DEFINE Grown == pageLSN' >= pageLSN /\ flushedUntil' >= flushedUntil
      <3> USE <1>1 DEF LogInv, LogTypes
      <3>1. ASSUME NEW t \in Threads, CompareAndSwap(t) PROVE Grown
        BY <3>1 DEF CompareAndSwap
      <3>2. ASSUME NEW t \in Threads, NEW size \in Sizes, AppendRecord(t, size) PROVE Grown
        BY <3>2 DEF AppendRecord
      <3>3. ASSUME SetFlushedLSN PROVE Grown
        BY <3>3 DEF SetFlushedLSN
      <3>4. ASSUME NEW t \in Threads, LoadLSN(t) \/ WaitUntilFlushed(t) \/ Rest(t) PROVE Grown
        BY <3>4 DEF LoadLSN, WaitUntilFlushed, Rest
      <3>5. ASSUME ReadTail \/ ClearAppendError \/ UNCHANGED logVars PROVE Grown
        BY <3>5 DEF ReadTail, ClearAppendError, logVars
      <3> HIDE DEF Grown
      <3>6. Grown
        BY <1>1, <3>1, <3>2, <3>3, <3>4, <3>5 DEF LogNext
      <3> QED
        BY <3>6 DEF Grown
    <2>2. ASSUME NEW t \in Threads, th'[t].pc = "wait" PROVE pageLSN' >= th'[t].lsn
      BY <1>1, <2>2 DEF LogInv, LogTypes
    <2> QED
      BY <2>1, <2>2
  <1> QED
    BY <1>1, LogInvariant, PTL DEF LogSpec, LSNsGrow
=============================================================================
