----------------------------- MODULE MCServices -----------------------------
(***************************************************************************)
(* The indexes and the services below the tables, side by side: a          *)
(* behaviour is one of exactly one of them, the part Init picks.  The      *)
(* bitmap of a heap page and the string values are pure functions, checked *)
(* in the state of the part "functions" for every input of the given size. *)
(***************************************************************************)
EXTENDS Bitmap, Values

CONSTANTS
  Threads, Keys, Rids, MaxStatements, Free, Deleted,   \* Indexes
  Buckets, NoBucket, NoThread,                         \* HashIndex
  MaxPages, NoHandle,                                  \* DiskFiles
  Names, Columns, IndexTypes, MaxId, NoFile, NoTable,  \* Catalog
  TxnId, EndTypes, Capacity, MaxRecords,               \* LogRecords
  Sizes, MaxBytes,                                     \* MemoryLog
  MapBits                                              \* bits of the largest bitmap

VARIABLES
  part,
  heap, tree, hash, txn, commitActions, abortActions, panicked, begun, excuses, statements,
  m, bucket, call,
  size, fileCache, numPages, allocMu, closed, pc, file, ask, given,
  tables, NextId, tableMap, columnMap, stored, issued,
  mem, undo, undoOffsets, made, views, count,
  buffer, flushedUntil, flushOnAppend, appendCountdown, durable, tail, pageLSN, th

\* A catalog file, and the rows of two tables.
Files == {[nextId |-> 2, tables |-> <<[oid |-> 1, name |-> "t", columns |-> <<"a", "b">>,
            indexes |-> <<[oid |-> 2, name |-> "t", type |-> "btree", key |-> <<"b">>]>>]>>]}
Rows == {<<1>>, <<1, 2>>, <<2, 1>>}

I == INSTANCE Indexes
H == INSTANCE HashIndex WITH Keys <- {1}
D == INSTANCE DiskFiles
C == INSTANCE Catalog
R == INSTANCE LogRecords WITH Rids <- {1}, buffer <- undo, offsets <- undoOffsets
L == INSTANCE MemoryLog

indexVars == <<heap, tree, hash, txn, commitActions, abortActions, panicked, begun, excuses, statements>>
hashVars == <<m, bucket, call>>
fileVars == <<size, fileCache, numPages, allocMu, closed, pc, file, ask, given>>
catalogVars == <<tables, NextId, tableMap, columnMap, stored, issued>>
recordVars == <<mem, undo, undoOffsets, made, views, count>>
logVars == <<buffer, flushedUntil, flushOnAppend, appendCountdown, durable, tail, pageLSN, th>>

Init ==
  /\ part \in {"functions", "indexes", "hash", "files", "catalog", "records", "log"}
  /\ I!IndexInit /\ H!HashInit /\ D!FilesInit /\ C!CatalogInit /\ R!RecordsInit /\ L!LogInit
  \* only the part at work has a choice of initial states
  /\ part # "indexes" => heap = [r \in Rids |-> Free]
  /\ part # "files" => size = 0
  /\ part # "catalog" => stored = NoFile
  /\ part # "log" => ~flushOnAppend /\ appendCountdown = -1

Next ==
  /\ UNCHANGED part
  /\ \/ part = "indexes" /\ I!IndexNext
        /\ UNCHANGED <<hashVars, fileVars, catalogVars, recordVars, logVars>>
     \/ part = "hash" /\ H!HashNext
        /\ UNCHANGED <<indexVars, fileVars, catalogVars, recordVars, logVars>>
     \/ part = "files" /\ D!FilesNext
        /\ UNCHANGED <<indexVars, hashVars, catalogVars, recordVars, logVars>>
     \/ part = "catalog" /\ C!CatalogNext
        /\ UNCHANGED <<indexVars, hashVars, fileVars, recordVars, logVars>>
     \/ part = "records" /\ R!RecordsNext
        /\ UNCHANGED <<indexVars, hashVars, fileVars, catalogVars, logVars>>
     \/ part = "log" /\ L!LogNext
        /\ UNCHANGED <<indexVars, hashVars, fileVars, catalogVars, recordVars>>

vars == <<part, indexVars, hashVars, fileVars, catalogVars, recordVars, logVars>>
Spec == Init /\ [][Next]_vars /\ H!HashFairness
-----------------------------------------------------------------------------
\* Outside transactions the B-tree and the hash index hold exactly the rows of the
\* table (Indexes.IndexesAgree).
IndexesAgree == part = "indexes" => I!IndexesAgree



\* Abort takes back what a transaction did to the indexes (Indexes.AbortRestores).
AbortRestores == I!AbortRestores

\* Under concurrent callers MemHashIndex is one set of entries, although empty
\* buckets leave its map (HashIndex.IndexIsASet).
IndexIsASet == H!IndexIsASet

\* The retries of MemHashIndex do not go round for ever without anybody getting on
\* (HashIndex.SomeCallReturns).
SomeCallReturns == H!SomeCallReturns

\* AllocatePage gives no page out twice, over racing openers and restarts, and a
\* page that was given out, or passed a bounds check, is there
\* (DiskFiles.PagesGiven).
PagesGiven == part = "files" => D!PagesGiven


\* The undo records of a transaction read as they were made (LogRecords.RecordsKept).
RecordsKept == part = "records" => R!RecordsKept

\* Page LSN and flushedUntil never go back (MemoryLog.LSNsGrow).
LSNsGrow == L!LSNsGrow

\* WaitUntilFlushed returns for flushed records, and for the one that begins where
\* the flushed part ends (MemoryLog.FlushedIsDurable).
FlushedIsDurable == part = "log" => L!FlushedIsDurable

\* FindFirstZero, which FindFreeSlot rests on, finds the first free slot from the
\* hint on, for every content of bitmaps of up to MapBits bits and every hint.
FreeSlotFound ==
  part = "functions" =>
  \A numBits \in 1 .. MapBits : \A bits \in SUBSET (0 .. numBits - 1), hint \in 0 .. 2 * numBits :
     FindsFirstZero(bits, numBits, hint)

\* InitializeHeapPage lays out as many slots as fit into a page, for every row size.
PageLayout ==
  part = "functions" => \A rowSize \in 1 .. PageBytes - HeaderBytes - 2 * WordBytes : LayoutFits(rowSize)

\* Increment and Decrement of strings find the neighbours among the stored strings
\* that index ranges are made from (Values.IncrementIsNext, Values.BelowBoundExact).
StringBounds == part = "functions" => IncrementIsNext /\ BelowBoundExact
=============================================================================
