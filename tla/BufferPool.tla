---------------------------- MODULE BufferPool -----------------------------
(***************************************************************************)
(* The buffer pool of storage/buffer_pool.go under concurrent callers.     *)
(*                                                                         *)
(* A step of a thread ends where another thread can get in between: at     *)
(* the loads of the concurrent page table, where a latch is taken, and     *)
(* around each access to the disk.  What a thread does to a frame whose    *)
(* metaLatch it holds, with no such point in between, is one step.         *)
(*                                                                         *)
(* A caller has one page pinned at a time; a page's contents are one       *)
(* value, written under the pin (the page latch makes a write atomic) and  *)
(* reported with UnpinPage(frame, true).                                   *)
(***************************************************************************)
EXTENDS Naturals, FiniteSets

CONSTANTS
  Threads,    \* goroutines that call the pool
  Pages,      \* the pages on disk
  NumFrames,  \* numPages of NewBufferPool
  Values,     \* what a page can contain
  Failures,   \* the disk accesses that may fail: a subset of {"read", "write"}
  NoPage,     \* common.PageID{}: object 0 is reserved, it is no page
  NoFrame,    \* absent from pageTable, or an unset local
  NoThread,   \* a latch nobody holds
  MaxCalls    \* the calls each thread makes, or 0 for as many as it likes

ASSUME PoolAssumption ==
  /\ NumFrames \in Nat \ {0}
  /\ Failures \subseteq {"read", "write"}
  /\ NoPage \notin Pages
  /\ NoFrame \notin 0 .. NumFrames - 1
  /\ NoThread \notin Threads
  /\ MaxCalls \in Nat

Frames == 0 .. NumFrames - 1
maxRefCount == 2

VARIABLES
  pageTable,  \* pageTable[page]: the frame, or NoFrame
  clockHand,
  poolLatch,  \* the thread that holds it, or NoThread
  frames,     \* frames[f]: the PageFrame; metaLatch is its holder or NoThread
  disk,       \* disk[page]: what is stored; disk[NoPage] is page 0 of object 0
  local       \* local[t]: where the thread is, and its local variables

vars == <<pageTable, clockHand, poolLatch, frames, disk, local>>

-----------------------------------------------------------------------------
Idle == [pc |-> "idle", page |-> NoPage, frame |-> NoFrame, old |-> NoPage,
         pass |-> 0, i |-> 0, wrote |-> FALSE, calls |-> 0]

\* NewBufferPool over a disk that holds some contents already.
PoolInit ==
  /\ pageTable = [p \in Pages |-> NoFrame]
  /\ clockHand = 0
  /\ poolLatch = NoThread
  /\ disk \in [Pages \cup {NoPage} -> Values]
  /\ frames = [f \in Frames |-> [pageID |-> NoPage, pinCount |-> 0, isDirty |-> FALSE,
                                 refCount |-> 0, metaLatch |-> NoThread, bytes |-> disk[NoPage]]]
  /\ local = [t \in Threads |-> Idle]

At(t, label) == local[t].pc = label
Goto(t, label) == local' = [local EXCEPT ![t].pc = label]
Return(t) == local' = [local EXCEPT ![t] = [Idle EXCEPT !.calls = local[t].calls]]

MayCall(t) == At(t, "idle") /\ (MaxCalls = 0 \/ local[t].calls < MaxCalls)
Counted(n) == IF MaxCalls = 0 THEN n ELSE n + 1

Unlatched(f) == frames[f].metaLatch = NoThread

Delete(table, p) == IF p = NoPage THEN table ELSE [table EXCEPT ![p] = NoFrame]
-----------------------------------------------------------------------------
(***************************************************************************)
(* GetPage: the lookups.                                                   *)
(***************************************************************************)
CallGetPage(t, p) ==
  /\ MayCall(t)
  /\ local' = [local EXCEPT ![t].pc = "lookup", ![t].page = p, ![t].calls = Counted(@)]
  /\ UNCHANGED <<pageTable, clockHand, poolLatch, frames, disk>>

\* pageTable.Load finds the page: next, its frame has to be latched.
Found(t) ==
  /\ pageTable[local[t].page] # NoFrame
  /\ local' = [local EXCEPT ![t].pc = "hit", ![t].frame = pageTable[local[t].page]]

\* Variant: the lookup under the pool latch is left out.
StillMissingAny(t) == TRUE

StillMissing(t) == pageTable[local[t].page] = NoFrame

\* The first Load, without any latch.
Lookup(t) ==
  /\ At(t, "lookup")
  /\ Found(t) \/ (pageTable[local[t].page] = NoFrame /\ Goto(t, "pool"))
  /\ UNCHANGED <<pageTable, clockHand, poolLatch, frames, disk>>

\* The pool latch is taken and the page looked up again.
TakePool(t) ==
  /\ At(t, "pool")
  /\ poolLatch = NoThread
  /\ \/ Found(t) /\ UNCHANGED poolLatch
     \/ StillMissing(t) /\ Goto(t, "sweep") /\ poolLatch' = t
  /\ UNCHANGED <<pageTable, clockHand, frames, disk>>

StillNamed(t) == frames[local[t].frame].pageID = local[t].page
Touched(n) == IF n < maxRefCount THEN n + 1 ELSE n

\* The frame's latch is taken, and the frame still has the page: it is pinned.
HitPin(t) ==
  /\ At(t, "hit")
  /\ Unlatched(local[t].frame)
  /\ StillNamed(t)
  /\ frames' = [frames EXCEPT ![local[t].frame].pinCount = @ + 1,
                              ![local[t].frame].refCount = Touched(@)]
  /\ Goto(t, "using")
  /\ UNCHANGED <<pageTable, clockHand, poolLatch, disk>>

\* The frame was given to another page meanwhile: GetPage starts over.
HitStale(t) ==
  /\ At(t, "hit")
  /\ Unlatched(local[t].frame)
  /\ ~StillNamed(t)
  /\ local' = [local EXCEPT ![t].pc = "lookup", ![t].frame = NoFrame]
  /\ UNCHANGED <<pageTable, clockHand, poolLatch, frames, disk>>
-----------------------------------------------------------------------------
(***************************************************************************)
(* GetPage: the clock sweep, under the pool latch.                         *)
(***************************************************************************)
Tick == clockHand' = (clockHand + 1) % NumFrames

passesAllowed == IF NumFrames > 1000 THEN 1 ELSE 2

\* Variant: a sweep that finds nothing keeps the pool latch.
GiveUpSweepLatched(t) ==
  /\ local' = [local EXCEPT ![t].pc = "lookup", ![t].i = 0, ![t].pass = 0]
  /\ UNCHANGED poolLatch

\* No victim: the latch is released, the thread yields and starts over.
GiveUpSweep(t) ==
  /\ local' = [local EXCEPT ![t].pc = "lookup", ![t].i = 0, ![t].pass = 0]
  /\ poolLatch' = NoThread

\* The loops go on to the next frame or the next pass, or end.
Advance(t) ==
  /\ Tick
  /\ IF local[t].i + 1 < NumFrames
       THEN local' = [local EXCEPT ![t].pc = "sweep", ![t].i = @ + 1] /\ UNCHANGED poolLatch
       ELSE IF local[t].pass + 1 < passesAllowed
         THEN /\ local' = [local EXCEPT ![t].pc = "sweep", ![t].i = 0, ![t].pass = @ + 1]
              /\ UNCHANGED poolLatch
         ELSE GiveUpSweep(t)

\* The unlatched read of pinCount at the hand: it may see what another thread
\* is about to change, and is repeated under the latch.
SweepRead(t) ==
  /\ At(t, "sweep")
  /\ \/ frames[clockHand].pinCount # 0 /\ Advance(t)
     \/ frames[clockHand].pinCount = 0 /\ Goto(t, "latch") /\ UNCHANGED <<clockHand, poolLatch>>
  /\ UNCHANGED <<pageTable, frames, disk>>

\* What the sweep leaves of the reference count of an unpinned frame.
Aged(t, f) ==
  IF frames[f].refCount # 0 /\ local[t].pass = 0 /\ NumFrames <= 1000
    THEN frames[f].refCount - 1 ELSE 0

\* Variant: the pin count read without the latch is trusted.
UnpinnedAny(f) == TRUE

Unpinned(f) == frames[f].pinCount = 0

\* With the frame's latch: it was pinned meanwhile, or is aged and spared.
SweepSpare(t) ==
  /\ At(t, "latch")
  /\ Unlatched(clockHand)
  /\ \/ ~Unpinned(clockHand) /\ UNCHANGED frames
     \/ /\ Unpinned(clockHand)
        /\ Aged(t, clockHand) # 0
        /\ frames' = [frames EXCEPT ![clockHand].refCount = Aged(t, clockHand)]
  /\ Advance(t)
  /\ UNCHANGED <<pageTable, disk>>

\* The page table once frame f is to hold p; its old page stays in the table.
Renamed(f, p) == [pageTable EXCEPT ![p] = f]

\* With the frame's latch, which is kept: the victim takes the new page's name,
\* then the pool latch is released.
SweepVictim(t) ==
  /\ At(t, "latch")
  /\ Unlatched(clockHand)
  /\ Unpinned(clockHand)
  /\ Aged(t, clockHand) = 0
  /\ frames' = [frames EXCEPT ![clockHand].metaLatch = t, ![clockHand].refCount = 0,
                              ![clockHand].pinCount = 1, ![clockHand].pageID = local[t].page]
  /\ pageTable' = Renamed(clockHand, local[t].page)
  /\ local' = [local EXCEPT ![t].pc = "writeBack", ![t].frame = clockHand, ![t].i = 0,
                            ![t].pass = 0, ![t].old = frames[clockHand].pageID]
  /\ Tick
  /\ poolLatch' = NoThread
  /\ UNCHANGED disk
-----------------------------------------------------------------------------
(***************************************************************************)
(* GetPage: write-back and read, under the victim's latch only.            *)
(***************************************************************************)
WriteBack(t) ==
  LET f == local[t].frame
  IN  /\ At(t, "writeBack")
      /\ disk' = IF frames[f].isDirty THEN [disk EXCEPT ![local[t].old] = frames[f].bytes] ELSE disk
      /\ frames' = [frames EXCEPT ![f].isDirty = FALSE]
      /\ Goto(t, "forget")
      /\ UNCHANGED <<pageTable, clockHand, poolLatch>>

\* Variant: the failing call leaves its pin behind.
VacatedPinned(fr) == [fr EXCEPT !.pageID = NoPage, !.metaLatch = NoThread]

\* What an error return leaves of the frame: whether it is dirty is untouched.
Vacated(fr) == [fr EXCEPT !.pinCount = 0, !.pageID = NoPage, !.metaLatch = NoThread]

\* GetDBFile or WritePage fails: both pages leave the page table.  From here on
\* another caller may load them, while this one still has the frame.
WriteBackFails(t) ==
  /\ At(t, "writeBack")
  /\ frames[local[t].frame].isDirty
  /\ "write" \in Failures
  /\ pageTable' = Delete(Delete(pageTable, local[t].page), local[t].old)
  /\ local' = [local EXCEPT ![t].pc = "vacate", ![t].old = NoPage]
  /\ UNCHANGED <<clockHand, poolLatch, frames, disk>>

\* Only from here on can the old page be loaded again.
ForgetOld(t) ==
  /\ At(t, "forget")
  /\ pageTable' = Delete(pageTable, local[t].old)
  /\ frames' = [frames EXCEPT ![local[t].frame].refCount = 1]
  /\ local' = [local EXCEPT ![t].pc = "read", ![t].old = NoPage]
  /\ UNCHANGED <<clockHand, poolLatch, disk>>

ReadIn(t) ==
  /\ At(t, "read")
  /\ frames' = [frames EXCEPT ![local[t].frame].bytes = disk[local[t].page],
                              ![local[t].frame].metaLatch = NoThread]
  /\ Goto(t, "using")
  /\ UNCHANGED <<pageTable, clockHand, poolLatch, disk>>

\* GetDBFile or ReadPage fails; a failed read may have scribbled on the frame.
ReadFails(t) ==
  /\ At(t, "read")
  /\ "read" \in Failures
  /\ pageTable' = Delete(pageTable, local[t].page)
  /\ \E v \in Values : frames' = [frames EXCEPT ![local[t].frame].bytes = v]
  /\ Goto(t, "vacate")
  /\ UNCHANGED <<clockHand, poolLatch, disk>>

\* The end of an error return: the frame is given up, then its latch.
Vacate(t) ==
  /\ At(t, "vacate")
  /\ frames' = [frames EXCEPT ![local[t].frame] = Vacated(@)]
  /\ Return(t)
  /\ UNCHANGED <<pageTable, clockHand, poolLatch, disk>>

GetPage(t) ==
  \/ Lookup(t) \/ TakePool(t) \/ HitPin(t) \/ HitStale(t)
  \/ SweepRead(t) \/ SweepSpare(t) \/ SweepVictim(t)
  \/ WriteBack(t) \/ WriteBackFails(t) \/ ForgetOld(t)
  \/ ReadIn(t) \/ ReadFails(t) \/ Vacate(t)
-----------------------------------------------------------------------------
(***************************************************************************)
(* The caller writes to the pinned page, and unpins it.                    *)
(***************************************************************************)
WriteBytes(t, v) ==
  /\ At(t, "using")
  /\ frames' = [frames EXCEPT ![local[t].frame].bytes = v]
  /\ local' = [local EXCEPT ![t].wrote = TRUE]
  /\ UNCHANGED <<pageTable, clockHand, poolLatch, disk>>

\* Variant: the last unpin decides.
DirtiedLast(fr, setDirty) == setDirty

\* A page that is dirty stays dirty.
Dirtied(fr, setDirty) == fr.isDirty \/ setDirty

UnpinPage(t) ==
  LET f == local[t].frame
  IN  /\ At(t, "using")
      /\ Unlatched(f)
      /\ frames' = [frames EXCEPT ![f].pinCount = IF @ # 0 THEN @ - 1 ELSE @,
                                  ![f].isDirty = Dirtied(frames[f], local[t].wrote)]
      /\ Return(t)
      /\ UNCHANGED <<pageTable, clockHand, poolLatch, disk>>
-----------------------------------------------------------------------------
(***************************************************************************)
(* FlushAllPages: frame by frame, whatever is pinned.                      *)
(***************************************************************************)
FlushAllPages(t) ==
  /\ MayCall(t)
  /\ local' = [local EXCEPT ![t].pc = "flush", ![t].calls = Counted(@)]
  /\ UNCHANGED <<pageTable, clockHand, poolLatch, frames, disk>>

FlushNext(t) ==
  \/ local[t].i + 1 < NumFrames /\ local' = [local EXCEPT ![t].pc = "flush", ![t].i = @ + 1]
  \/ local[t].i + 1 = NumFrames /\ Return(t)

FlushSkip(t) ==
  /\ At(t, "flush")
  /\ Unlatched(local[t].i)
  /\ ~frames[local[t].i].isDirty
  /\ FlushNext(t)
  /\ UNCHANGED <<pageTable, clockHand, poolLatch, frames, disk>>

\* WritePage copies the frame; its users may go on writing to it.
FlushWrite(t) ==
  LET f == local[t].i
  IN  /\ At(t, "flush")
      /\ Unlatched(f)
      /\ frames[f].isDirty
      /\ disk' = [disk EXCEPT ![frames[f].pageID] = frames[f].bytes]
      /\ frames' = [frames EXCEPT ![f].metaLatch = t]
      /\ Goto(t, "clean")
      /\ UNCHANGED <<pageTable, clockHand, poolLatch>>

FlushFails(t) ==
  /\ At(t, "flush")
  /\ Unlatched(local[t].i)
  /\ frames[local[t].i].isDirty
  /\ "write" \in Failures
  /\ Return(t)
  /\ UNCHANGED <<pageTable, clockHand, poolLatch, frames, disk>>

FlushClean(t) ==
  /\ At(t, "clean")
  /\ frames' = [frames EXCEPT ![local[t].i].isDirty = FALSE, ![local[t].i].metaLatch = NoThread]
  /\ FlushNext(t)
  /\ UNCHANGED <<pageTable, clockHand, poolLatch, disk>>

Flush(t) == FlushSkip(t) \/ FlushWrite(t) \/ FlushFails(t) \/ FlushClean(t)

PoolNext ==
  \E t \in Threads :
    \/ \E p \in Pages : CallGetPage(t, p)
    \/ GetPage(t)
    \/ \E v \in Values : WriteBytes(t, v)
    \/ UnpinPage(t)
    \/ FlushAllPages(t)
    \/ Flush(t)

PoolSpec == PoolInit /\ [][PoolNext]_vars
-----------------------------------------------------------------------------
\* The thread is in the part of GetPage that holds its victim's latch.
Loading(t) == local[t].pc \in {"writeBack", "forget", "read", "vacate"}

\* A page a caller holds stays in its frame, under its name, until it is
\* unpinned: no sweep renames a frame between another caller's lookup, latch
\* and pin.
PinnedStays ==
  \A t \in Threads : At(t, "using") => StillNamed(t) /\ pageTable[local[t].page] = local[t].frame

\* pinCount is the number of callers that hold or load the frame, on every
\* path including the failing ones: no pin is lost and none is leaked.
PinsCounted ==
  \A f \in Frames : frames[f].pinCount =
    Cardinality({t \in Threads : local[t].frame = f /\ (At(t, "using") \/ Loading(t))})

\* A frame that has a page's name, unless a failing GetPage is giving it up, is
\* the frame the page table gives for it: a page never has two frames, however
\* many callers miss it at once.
OneFramePerPage ==
  \A f \in Frames :
    (frames[f].pageID # NoPage /\ \A t \in Threads : local[t].frame = f => ~At(t, "vacate"))
      => pageTable[frames[f].pageID] = f

\* The frames with the current contents of page p: the one of its name, or the
\* one that is being evicted and not yet written back.
Owner(p) ==
  {f \in Frames :
     \/ frames[f].pageID = p /\ \A t \in Threads : ~(Loading(t) /\ local[t].frame = f)
     \/ \E t \in Threads : At(t, "writeBack") /\ local[t].frame = f /\ local[t].old = p}

Contents ==
  [p \in Pages |-> IF Owner(p) # {} THEN frames[CHOOSE f \in Owner(p) : TRUE].bytes ELSE disk[p]]

Pinned == [t \in Threads |-> IF At(t, "using") THEN local[t].page ELSE NoPage]

Store == INSTANCE PageStore WITH store <- Contents, pin <- Pinned

\* The pool is a store of pages: eviction, write-back, reload and flushing,
\* interleaved in any way, never show an old value or lose a written one.
ImplementsPageStore == Store!StoreSpec

\* UnpinPage's promise: a page marked dirty is written back before its frame is
\* given to another page or forgotten.
DirtyWrittenBack ==
  [][\A f \in Frames, p \in Pages :
       (f \in Owner(p) /\ frames[f].isDirty /\ f \notin Owner(p)') => disk'[p] = frames[f].bytes]_vars
=============================================================================
