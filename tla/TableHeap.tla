----------------------------- MODULE TableHeap ------------------------------
(***************************************************************************)
(* A table's heap file (execution/table_heap.go over storage/heap_page.go) *)
(* under concurrent callers: inserts, reads, updates, deletes, vacuums,    *)
(* sequential scans, and INSERT ... SELECT over the table itself, which    *)
(* inserts while its scan is open.                                         *)
(*                                                                         *)
(* The buffer pool is what BufferPool shows it to be: GetPage pins a page  *)
(* and waits while every frame is pinned; contents survive eviction.  The  *)
(* page latch is a sync.RWMutex: a writer that waits keeps new readers     *)
(* out.  Writing a row takes a step of its own, and Torn is what the row   *)
(* is meanwhile.  VacuumPage and the filling of a new page use no latch.   *)
(***************************************************************************)
EXTENDS Integers, FiniteSets

CONSTANTS
  Threads, Values,
  MaxPages,     \* pages the disk has room for
  NumSlots,     \* slots of a page
  NumFrames,    \* frames of the buffer pool
  MaxCalls,     \* statements issued in all
  MaxRestarts,  \* how often the process may be restarted
  Operations,   \* the statements the threads issue
  Torn, NoThread

ASSUME HeapAssumption ==
  /\ {MaxPages, NumSlots, NumFrames} \subseteq Nat \ {0}
  /\ {MaxCalls, MaxRestarts} \subseteq Nat
  /\ Torn \notin Values /\ NoThread \notin Threads

VARIABLES
  file,     \* pages of the file (DiskDBFile.numPages)
  page,     \* page[p]: the contents every pin of p sees
  disk,     \* disk[p]: the contents a restart finds
  mu,       \* TableHeap.mu: its holder, or NoThread
  writer,   \* writer[p]: who holds p's latch or waits for its readers to leave
  readers,  \* readers[p]: who holds p's latch for reading
  pins,     \* pins[t][p]: how often t has p pinned
  thr,      \* thr[t]: where t is, and its locals
  iter,     \* iter[t]: t's TableHeapIterator; not in use when n is -1
  calls, restarts, panicked,
  must, seen  \* history of t's scan: rows there all along, rows returned

heap == <<file, page, disk>>
sync == <<mu, writer, readers, pins>>
bounds == <<calls, restarts, panicked>>
vars == <<heap, sync, thr, iter, bounds, must, seen>>

Pages == 0 .. MaxPages - 1
Slots == 0 .. NumSlots - 1
Bits == INSTANCE Bitmap WITH WordBits <- 2, PageBytes <- 64, WordBytes <- 8, HeaderBytes <- 16

\* A page of the extended file reads as zeros: no slots.
ZeroPage == [init |-> FALSE, alloc |-> {}, del |-> {}, row |-> [s \in Slots |-> Torn]]
HeapNumSlots(p) == IF page[p].init THEN NumSlots ELSE 0
Present(p, s) == Bits!LoadBit(page[p].alloc, s) /\ ~Bits!LoadBit(page[p].del, s)
\* The rows of the table; a slot VacuumPage is about to free is none.
Rows == {r \in Pages \X Slots :
           /\ r[1] < file /\ Present(r[1], r[2])
           /\ \A t \in Threads : thr[t].pc \in {"load", "store"} => <<thr[t].p, thr[t].s>> # r}

Idle == [pc |-> "idle", op |-> "none", p |-> 0, s |-> 0, v |-> Torn, word |-> 0, old |-> {},
         formatted |-> FALSE]
NoIter == [n |-> -1, p |-> 0, s |-> -1, frame |-> FALSE, formatted |-> FALSE, hasLock |-> FALSE]

\* An empty table, or one page with room in it, as an earlier load left it on disk.
HeapInit ==
  /\ file \in {0, 1}
  /\ \E v \in Values :
       page = [p \in Pages |-> IF p < file
                 THEN [init |-> TRUE, alloc |-> {0}, del |-> {}, row |-> [ZeroPage.row EXCEPT ![0] = v]]
                 ELSE ZeroPage]
  /\ disk = page
  /\ mu = NoThread
  /\ writer = [p \in Pages |-> NoThread] /\ readers = [p \in Pages |-> {}]
  /\ pins = [t \in Threads |-> [p \in Pages |-> 0]]
  /\ thr = [t \in Threads |-> Idle] /\ iter = [t \in Threads |-> NoIter]
  /\ calls = 0 /\ restarts = 0 /\ panicked = FALSE
  /\ must = [t \in Threads |-> {}] /\ seen = [t \in Threads |-> {}]
-----------------------------------------------------------------------------
At(t, label) == thr[t].pc = label /\ ~panicked
Goto(t, label) == thr' = [thr EXCEPT ![t].pc = label]

\* Rows that are gone are no longer owed to a scan.
KeepMust == must' = [t \in Threads |-> must[t] \cap Rows'] /\ UNCHANGED seen

Pinned == {p \in Pages : \E t \in Threads : pins[t][p] > 0}
CanPin(p) == p \in Pinned \/ Cardinality(Pinned) < NumFrames
Pin(t, p) == CanPin(p) /\ pins' = [pins EXCEPT ![t][p] = @ + 1]
UnpinPage(t, p) == pins' = [pins EXCEPT ![t][p] = @ - 1]

\* A statement is done; an INSERT ... SELECT goes on with its scan.
Finish(t) == thr' = [thr EXCEPT ![t] = IF iter[t].n = -1 THEN Idle
                                       ELSE [Idle EXCEPT !.pc = "next", !.op = thr[t].op]]
\* The same after an error, which ends the statement.
Fail(t) == thr' = [thr EXCEPT ![t] = IF iter[t].n = -1 THEN Idle
                                     ELSE [Idle EXCEPT !.pc = "close", !.op = thr[t].op]]

\* A page operation of t on thr[t].p: pin it, then take its latch.  The slots
\* an operation is called with are slots a row was once stored in.
Begin(t, op) ==
  /\ At(t, "idle") /\ op \in Operations /\ calls < MaxCalls
  /\ calls' = calls + 1
  /\ \/ /\ op = "insert"
        /\ \E v \in Values : thr' = [thr EXCEPT ![t] = [Idle EXCEPT !.pc = "mu", !.op = op, !.v = v]]
        /\ UNCHANGED <<iter, must, seen>>
     \/ /\ op \in {"read", "delete", "update"}
        /\ \E p \in Pages, s \in Slots, v \in Values :
             /\ p < file /\ page[p].init /\ page[p].row[s] # Torn
             /\ op = "update" \/ v = CHOOSE w \in Values : TRUE
             /\ thr' = [thr EXCEPT ![t] = [Idle EXCEPT !.pc = "get", !.op = op, !.p = p, !.s = s,
                                                       !.v = IF op = "update" THEN v ELSE Torn]]
        /\ UNCHANGED <<iter, must, seen>>
     \/ /\ op = "vacuum"
        /\ \E p \in Pages : /\ p < file
                            /\ thr' = [thr EXCEPT ![t] = [Idle EXCEPT !.pc = "get", !.op = op, !.p = p]]
        /\ UNCHANGED <<iter, must, seen>>
     \/ /\ op \in {"scan", "insert_select"}
        /\ thr' = [thr EXCEPT ![t] = [Idle EXCEPT !.pc = "next", !.op = op]]
        /\ iter' = [iter EXCEPT ![t] = [NoIter EXCEPT !.n = file]]
        /\ must' = [must EXCEPT ![t] = Rows] /\ seen' = [seen EXCEPT ![t] = {}]
  /\ UNCHANGED <<heap, sync, restarts, panicked>>

LatchForReading(t) == thr[t].op = "read"

GetPage(t) ==
  /\ At(t, "get") /\ Pin(t, thr[t].p)
  /\ thr' = [thr EXCEPT ![t].formatted = page[thr[t].p].init,
                        ![t].pc = CASE thr[t].op = "vacuum" -> "vacuum"
                                    [] LatchForReading(t) -> "rlock"
                                    [] OTHER -> "lock"]
  /\ UNCHANGED <<heap, mu, writer, readers, iter, bounds, must, seen>>

\* GetPage fails to read a page that nobody has pinned (or GetDBFile fails at the
\* head of InsertTuple), and the statement returns the error.
GetPageFails(t) ==
  /\ \/ At(t, "mu")
     \/ (At(t, "get") \/ At(t, "last") \/ At(t, "new")) /\ thr[t].p \notin Pinned
     \/ At(t, "fetch") /\ iter[t].p \notin Pinned
  /\ Fail(t) /\ mu' = IF mu = t THEN NoThread ELSE mu
  /\ UNCHANGED <<heap, writer, readers, pins, iter, bounds, must, seen>>

\* PageLatch.Lock: new readers are kept out, then the readers there are leave.
Lock(t) ==
  /\ At(t, "lock") /\ writer[thr[t].p] = NoThread
  /\ writer' = [writer EXCEPT ![thr[t].p] = t] /\ Goto(t, "locked")
  /\ UNCHANGED <<heap, mu, readers, pins, iter, bounds, must, seen>>

Drained(t) == writer[thr[t].p] = t /\ readers[thr[t].p] = {}
CanRLock(p) == writer[p] = NoThread

\* The deferred PageLatch.Unlock and UnpinPage.
UnlockAndUnpin(t) ==
  /\ writer' = [writer EXCEPT ![thr[t].p] = IF @ = t THEN NoThread ELSE @]
  /\ readers' = [readers EXCEPT ![thr[t].p] = @ \ {t}]
  /\ UnpinPage(t, thr[t].p)
-----------------------------------------------------------------------------
(***************************************************************************)
(* ReadTuple, DeleteTuple, UpdateTuple.                                    *)
(***************************************************************************)
\* ReadTuple copies the row, or finds it deleted.
ReadTuple(t) ==
  /\ At(t, "rlock") /\ CanRLock(thr[t].p) /\ thr[t].op = "read"
  /\ thr' = [thr EXCEPT ![t].pc = "done",
                        ![t].v = IF Present(thr[t].p, thr[t].s) THEN page[thr[t].p].row[thr[t].s] ELSE @]
  /\ UnpinPage(t, thr[t].p)
  /\ UNCHANGED <<heap, mu, writer, readers, iter, bounds, must, seen>>

\* The buffer is the caller's again.
Answer(t) == At(t, "done") /\ Finish(t) /\ UNCHANGED <<heap, sync, iter, bounds, must, seen>>

\* ErrTupleDeleted.
TupleDeleted(t) ==
  /\ At(t, "locked") /\ Drained(t) /\ thr[t].op \in {"delete", "update"}
  /\ ~Present(thr[t].p, thr[t].s)
  /\ UnlockAndUnpin(t) /\ Finish(t)
  /\ UNCHANGED <<heap, mu, iter, bounds, must, seen>>

DeleteTuple(t) ==
  /\ At(t, "locked") /\ Drained(t) /\ thr[t].op = "delete"
  /\ Present(thr[t].p, thr[t].s)
  /\ page' = [page EXCEPT ![thr[t].p].del = Bits!SetBit(@, thr[t].s, TRUE)]
  /\ UnlockAndUnpin(t) /\ Finish(t)
  /\ UNCHANGED <<file, disk, mu, iter, bounds>>
  /\ KeepMust

\* Variant: the latch is not waited for.
UpdateUnlatched(t) ==
  /\ At(t, "lock") \/ At(t, "locked")
  /\ thr[t].op = "update"
  /\ Present(thr[t].p, thr[t].s)
  /\ page' = [page EXCEPT ![thr[t].p].row[thr[t].s] = Torn] /\ Goto(t, "copy")
  /\ UNCHANGED <<file, disk, sync, iter, bounds, must, seen>>

UpdateTuple(t) ==
  /\ At(t, "locked") /\ Drained(t) /\ thr[t].op = "update"
  /\ Present(thr[t].p, thr[t].s)
  /\ page' = [page EXCEPT ![thr[t].p].row[thr[t].s] = Torn] /\ Goto(t, "copy")
  /\ UNCHANGED <<file, disk, sync, iter, bounds, must, seen>>

\* copy(rawTuple, row) has reached the end, for an update or an insert.
CopyRow(t) ==
  /\ At(t, "copy")
  /\ page' = [page EXCEPT ![thr[t].p].row[thr[t].s] = thr[t].v]
  /\ UnlockAndUnpin(t) /\ Finish(t)
  /\ mu' = IF mu = t THEN NoThread ELSE mu
  /\ UNCHANGED <<file, disk, iter, bounds, must, seen>>
-----------------------------------------------------------------------------
(***************************************************************************)
(* InsertTuple.                                                            *)
(***************************************************************************)
\* TableHeap.mu makes inserts take turns; the last page is tried first.
InsertTuple(t) ==
  /\ At(t, "mu") /\ mu = NoThread /\ mu' = t
  /\ thr' = [thr EXCEPT ![t].pc = IF file > 0 THEN "last" ELSE "alloc",
                        ![t].p = IF file > 0 THEN file - 1 ELSE 0]
  /\ UNCHANGED <<heap, writer, readers, pins, iter, bounds, must, seen>>

GetLastPage(t) ==
  /\ At(t, "last") /\ Pin(t, thr[t].p) /\ Goto(t, "lock")
  /\ UNCHANGED <<heap, mu, writer, readers, iter, bounds, must, seen>>

Inserting(t) == thr[t].op \in {"insert", "insert_select"}

\* A free slot: it is allocated, and the row copied into it.
InsertIntoLast(t) ==
  /\ At(t, "locked") /\ Drained(t) /\ Inserting(t) /\ page[thr[t].p].init
  /\ LET slot == Bits!FindFirstZero(page[thr[t].p].alloc, NumSlots, 0)
     IN  /\ slot # -1
         /\ page' = [page EXCEPT ![thr[t].p].alloc = Bits!SetBit(@, slot, TRUE),
                                 ![thr[t].p].del = Bits!SetBit(@, slot, FALSE),
                                 ![thr[t].p].row[slot] = Torn]
         /\ thr' = [thr EXCEPT ![t].pc = "copy", ![t].s = slot]
  /\ UNCHANGED <<file, disk, sync, iter, bounds, must, seen>>

\* Variant: the full page stays pinned.
LastIsFullPinned(t) ==
  /\ At(t, "locked") /\ Drained(t) /\ Inserting(t) /\ page[thr[t].p].init
  /\ Bits!FindFirstZero(page[thr[t].p].alloc, NumSlots, 0) = -1
  /\ writer' = [writer EXCEPT ![thr[t].p] = NoThread] /\ Goto(t, "alloc")
  /\ UNCHANGED <<heap, mu, readers, pins, iter, bounds, must, seen>>

LastIsFull(t) ==
  /\ At(t, "locked") /\ Drained(t) /\ Inserting(t) /\ page[thr[t].p].init
  /\ Bits!FindFirstZero(page[thr[t].p].alloc, NumSlots, 0) = -1
  /\ UnlockAndUnpin(t) /\ Goto(t, "alloc")
  /\ UNCHANGED <<heap, mu, iter, bounds, must, seen>>

\* A page without slots has no bitmap to take the address of: AsBitmap panics,
\* which ends the process.
LastIsUnformatted(t) ==
  /\ At(t, "locked") /\ Drained(t) /\ Inserting(t) /\ ~page[thr[t].p].init
  /\ panicked' = TRUE
  /\ UNCHANGED <<heap, sync, thr, iter, calls, restarts, must, seen>>

\* AllocatePage extends the file, or Truncate fails.
AllocatePage(t) ==
  /\ At(t, "alloc")
  /\ \/ /\ file < MaxPages /\ file' = file + 1
        /\ thr' = [thr EXCEPT ![t].pc = "new", ![t].p = file]
        /\ UNCHANGED mu
     \/ Fail(t) /\ mu' = NoThread /\ UNCHANGED file
  /\ UNCHANGED <<page, disk, writer, readers, pins, iter, bounds, must, seen>>

GetNewPage(t) ==
  /\ At(t, "new") /\ Pin(t, thr[t].p) /\ Goto(t, "format")
  /\ UNCHANGED <<heap, mu, writer, readers, iter, bounds, must, seen>>

\* InitializeHeapPage, with the page's latch not held.
InitializeHeapPage(t) ==
  /\ At(t, "format")
  /\ page' = [page EXCEPT ![thr[t].p] = [ZeroPage EXCEPT !.init = TRUE]] /\ Goto(t, "mark")
  /\ UNCHANGED <<file, disk, sync, iter, bounds, must, seen>>

\* MarkAllocated of slot 0; its row is copied next.
MarkAllocated(t) ==
  /\ At(t, "mark")
  /\ page' = [page EXCEPT ![thr[t].p].alloc = Bits!SetBit(@, 0, TRUE),
                          ![thr[t].p].del = Bits!SetBit(@, 0, FALSE)]
  /\ thr' = [thr EXCEPT ![t].pc = "copy", ![t].s = 0]
  /\ UNCHANGED <<file, disk, sync, iter, bounds, must, seen>>
-----------------------------------------------------------------------------
(***************************************************************************)
(* VacuumPage.  Clearing a bit is a load and a store of the bitmap's word, *)
(* and no latch keeps a writer of the same word out in between.            *)
(***************************************************************************)
\* Variant: slots in use are freed as well.
ReclaimableAny(p, s) == TRUE

Reclaimable(p, s) == s \in page[p].del \/ s \notin page[p].alloc

\* MarkDeleted(rid, false), then MarkAllocated(rid, false), which ends with
\* MarkDeleted(rid, false).
VacuumWords == <<"del", "alloc", "del">>

\* Variant: a slot in use is not stepped over.
VacuumSlotStays(t) ==
  /\ At(t, "vacuum")
  /\ IF thr[t].s >= HeapNumSlots(thr[t].p)
     THEN UnpinPage(t, thr[t].p) /\ Finish(t)
     ELSE /\ thr[t].formatted /\ Reclaimable(thr[t].p, thr[t].s)
          /\ thr' = [thr EXCEPT ![t].pc = "load", ![t].word = 1]
          /\ UNCHANGED pins
  /\ UNCHANGED <<heap, mu, writer, readers, iter, bounds, must, seen>>

VacuumSlot(t) ==
  /\ At(t, "vacuum")
  /\ IF thr[t].s >= HeapNumSlots(thr[t].p)
     THEN UnpinPage(t, thr[t].p) /\ Finish(t)
     ELSE /\ thr[t].formatted
          /\ thr' = IF Reclaimable(thr[t].p, thr[t].s)
                    THEN [thr EXCEPT ![t].pc = "load", ![t].word = 1]
                    ELSE [thr EXCEPT ![t].s = @ + 1]
          /\ UNCHANGED pins
  /\ UNCHANGED <<heap, mu, writer, readers, iter, bounds, must, seen>>

\* AsHeapPage saw a page without slots, which has been formatted since.
VacuumUnformatted(t) ==
  /\ At(t, "vacuum") /\ thr[t].s < HeapNumSlots(thr[t].p) /\ ~thr[t].formatted
  /\ panicked' = TRUE
  /\ UNCHANGED <<heap, sync, thr, iter, calls, restarts, must, seen>>

VacuumLoad(t) ==
  /\ At(t, "load")
  /\ thr' = [thr EXCEPT ![t].pc = "store", ![t].old = page[thr[t].p][VacuumWords[thr[t].word]]]
  /\ UNCHANGED <<heap, sync, iter, bounds, must, seen>>

VacuumStore(t) ==
  /\ At(t, "store")
  /\ LET bits == Bits!SetBit(thr[t].old, thr[t].s, FALSE)
     IN  page' = IF thr[t].word = 2 THEN [page EXCEPT ![thr[t].p].alloc = bits]
                                    ELSE [page EXCEPT ![thr[t].p].del = bits]
  /\ thr' = [thr EXCEPT ![t].old = {}, ![t].pc = IF thr[t].word = 3 THEN "vacuum" ELSE "load",
                        ![t].word = IF thr[t].word = 3 THEN 0 ELSE @ + 1,
                        ![t].s = IF thr[t].word = 3 THEN @ + 1 ELSE @]
  /\ UNCHANGED <<file, disk, sync, iter, bounds>>
  /\ KeepMust
-----------------------------------------------------------------------------
(***************************************************************************)
(* TableHeapIterator.  The latch of the page of the current row stays held *)
(* until the next call of Next or Close.                                   *)
(***************************************************************************)
DropReadLatch(t) ==
  readers' = IF iter[t].hasLock THEN [readers EXCEPT ![iter[t].p] = @ \ {t}] ELSE readers

\* The head of Next and of its loop.
NextSlot(t) ==
  /\ At(t, "next") /\ DropReadLatch(t)
  /\ iter' = [iter EXCEPT ![t].s = @ + 1, ![t].hasLock = FALSE]
  /\ Goto(t, IF iter[t].p >= iter[t].n THEN "close" ELSE IF iter[t].frame THEN "slot" ELSE "fetch")
  /\ UNCHANGED <<heap, mu, writer, pins, bounds, must, seen>>

\* GetPage, and AsHeapPage with the number of slots the page has now.
FetchPage(t) ==
  /\ At(t, "fetch") /\ Pin(t, iter[t].p)
  /\ iter' = [iter EXCEPT ![t].frame = TRUE, ![t].formatted = page[iter[t].p].init]
  /\ Goto(t, "slot")
  /\ UNCHANGED <<heap, mu, writer, readers, bounds, must, seen>>

\* Variant: the next page is entered at its second slot.
LeavePageAtZero(t) ==
  /\ UnpinPage(t, iter[t].p) /\ Goto(t, "next")
  /\ iter' = [iter EXCEPT ![t].frame = FALSE, ![t].p = @ + 1, ![t].s = 0]

LeavePage(t) ==
  /\ UnpinPage(t, iter[t].p) /\ Goto(t, "next")
  /\ iter' = [iter EXCEPT ![t].frame = FALSE, ![t].p = @ + 1, ![t].s = -1]

CheckSlot(t) ==
  /\ At(t, "slot")
  /\ IF iter[t].s >= HeapNumSlots(iter[t].p) THEN LeavePage(t)
     ELSE Goto(t, "row") /\ UNCHANGED <<iter, pins>>
  /\ UNCHANGED <<heap, mu, writer, readers, bounds, must, seen>>

\* Under RLock the slot holds a row, which is current until Next is called
\* again, or the loop goes on.
VisitSlot(t) ==
  /\ At(t, "row") /\ CanRLock(iter[t].p) /\ iter[t].formatted
  /\ IF Present(iter[t].p, iter[t].s)
     THEN /\ readers' = [readers EXCEPT ![iter[t].p] = @ \cup {t}]
          /\ iter' = [iter EXCEPT ![t].hasLock = TRUE]
          /\ seen' = [seen EXCEPT ![t] = @ \cup {<<iter[t].p, iter[t].s>>}]
          /\ thr' = [thr EXCEPT ![t].pc = "current", ![t].v = page[iter[t].p].row[iter[t].s]]
     ELSE Goto(t, "next") /\ UNCHANGED <<readers, iter, seen>>
  /\ UNCHANGED <<heap, mu, writer, pins, bounds, must>>

\* The offsets are those of a page without slots: the bitmap is too small for
\* the slots the page has by now, and AsBitmap's assertion panics.
VisitUnformatted(t) ==
  /\ At(t, "row") /\ CanRLock(iter[t].p) /\ ~iter[t].formatted
  /\ panicked' = TRUE
  /\ UNCHANGED <<heap, sync, thr, iter, calls, restarts, must, seen>>

\* The consumer is done with the row: the next one, the insertion of this one,
\* or (a LIMIT is reached, an error elsewhere) the end of the statement.
UseRow(t) ==
  /\ At(t, "current")
  /\ \/ thr[t].op = "scan" /\ thr' = [thr EXCEPT ![t].pc = "next", ![t].v = Torn]
     \/ thr[t].op = "insert_select" /\ Goto(t, "mu")
     \/ thr' = [thr EXCEPT ![t].pc = "close", ![t].v = Torn]
  /\ UNCHANGED <<heap, sync, iter, bounds, must, seen>>

CloseIterator(t) ==
  /\ At(t, "close") /\ DropReadLatch(t)
  /\ IF iter[t].frame THEN UnpinPage(t, iter[t].p) ELSE UNCHANGED pins
  /\ thr' = [thr EXCEPT ![t] = Idle] /\ iter' = [iter EXCEPT ![t] = NoIter]
  /\ must' = [must EXCEPT ![t] = {}] /\ seen' = [seen EXCEPT ![t] = {}]
  /\ UNCHANGED <<heap, mu, writer, bounds>>
-----------------------------------------------------------------------------
\* A page reaches the disk: it is evicted, or written by the FlushAllPages that
\* ends a load; either way no statement has it pinned.
WriteBack(p) ==
  /\ ~panicked /\ disk[p] # page[p] /\ p \notin Pinned /\ restarts < MaxRestarts
  /\ disk' = [disk EXCEPT ![p] = page[p]]
  /\ UNCHANGED <<file, page, sync, thr, iter, bounds, must, seen>>

\* The process ends, by exit or panic, and is started again: what was not
\* written back is lost, but the file keeps the pages it was extended by.
Restart ==
  /\ restarts < MaxRestarts /\ restarts' = restarts + 1
  /\ page' = disk /\ panicked' = FALSE
  /\ mu' = NoThread
  /\ writer' = [p \in Pages |-> NoThread] /\ readers' = [p \in Pages |-> {}]
  /\ pins' = [t \in Threads |-> [p \in Pages |-> 0]]
  /\ thr' = [t \in Threads |-> Idle] /\ iter' = [t \in Threads |-> NoIter]
  /\ must' = [t \in Threads |-> {}] /\ seen' = [t \in Threads |-> {}]
  /\ UNCHANGED <<file, disk, calls>>

Step(t) ==
  \/ GetPage(t) \/ GetPageFails(t) \/ Lock(t) \/ ReadTuple(t) \/ Answer(t) \/ TupleDeleted(t)
  \/ DeleteTuple(t) \/ UpdateTuple(t) \/ CopyRow(t)
  \/ InsertTuple(t) \/ GetLastPage(t) \/ InsertIntoLast(t) \/ LastIsFull(t)
  \/ LastIsUnformatted(t) \/ AllocatePage(t) \/ GetNewPage(t)
  \/ InitializeHeapPage(t) \/ MarkAllocated(t)
  \/ VacuumSlot(t) \/ VacuumUnformatted(t) \/ VacuumLoad(t) \/ VacuumStore(t)
  \/ NextSlot(t) \/ FetchPage(t) \/ CheckSlot(t) \/ VisitSlot(t) \/ VisitUnformatted(t)
  \/ UseRow(t) \/ CloseIterator(t)

HeapNext ==
  \/ \E t \in Threads : Step(t) \/ \E op \in Operations : Begin(t, op)
  \/ \E p \in Pages : WriteBack(p)
  \/ Restart

\* A goroutine that can run does run; nobody has to call, write back or restart.
HeapSpec == HeapInit /\ [][HeapNext]_vars /\ \A t \in Threads : WF_vars(Step(t))
-----------------------------------------------------------------------------
(***************************************************************************)
(* Properties.                                                             *)
(***************************************************************************)
\* A read or a scan never hands out a row that is half written: the latch
\* covers every copy, except that of the first row of a new page, which
\* InsertTuple fills with no latch held.
RowsReadWhole ==
  [][\A t \in Threads :
       (thr'[t].pc \in {"done", "current"} /\ thr'[t].pc # thr[t].pc /\ thr'[t].v = Torn)
         => \/ thr[t].op = "read" /\ ~Present(thr[t].p, thr[t].s)
            \/ \E u \in Threads : /\ thr[u].pc = "copy" /\ Inserting(u) /\ thr[u].s = 0
                                  /\ writer[thr[u].p] # u
                                  /\ iter[t].n = -1 => thr[u].p = thr[t].p
                                  /\ iter[t].n # -1 => thr[u].p = iter[t].p]_vars

\* A scan that ran to its end returned every row that was in the table from its
\* first call to its last: pages and slots are left out at no boundary.
ScanComplete ==
  \A t \in Threads :
    (thr[t].pc = "close" /\ iter[t].p >= iter[t].n) => must[t] \subseteq seen[t]

\* A thread between two statements has no page pinned, no latch and not mu,
\* whichever way its last statement ended.
NothingHeldWhenIdle ==
  \A t \in Threads : thr[t].pc = "idle" =>
    /\ mu # t
    /\ \A p \in Pages : pins[t][p] = 0 /\ writer[p] # t /\ t \notin readers[p]

\* A row goes away only when it is deleted or the process is restarted, unless
\* its page is being vacuumed: only VacuumPage, which takes no latch, can undo
\* an insert that runs at the same time.
RowsStay ==
  [][\A r \in Rows \ Rows' :
       \/ restarts' # restarts
       \/ \E t \in Threads : thr[t].op = "delete" /\ <<thr[t].p, thr[t].s>> = r /\ thr'[t].pc = "idle"
       \/ \E t \in Threads : thr[t].op = "vacuum" /\ thr[t].p = r[1] /\ r[2] # thr[t].s]_vars

\* An insert that waits, for mu, a latch or a frame, while its own scan keeps a
\* page latched or pinned.
WaitsWithScanOpen(t) == iter[t].frame /\ thr[t].pc \in {"mu", "last", "lock", "locked", "new"}

\* Every statement ends, unless the process panics or some INSERT ... SELECT
\* waits with its scan open: the only hold-and-wait there is.
StatementsEnd ==
  \A t \in Threads :
    (thr[t].pc # "idle") ~> (thr[t].pc = "idle" \/ panicked \/ \E u \in Threads : WaitsWithScanOpen(u))
=============================================================================
