----------------------------- MODULE DiskFiles ------------------------------
(***************************************************************************)
(* DiskDBFileManager and DiskDBFile (storage/disk_storage.go): threads     *)
(* open one file, race for its place in fileCache, and grow it.  Sizes are *)
(* counted in pages.  DeleteDBFile is left out: its caller has to rule out *)
(* every concurrent use of the file.                                       *)
(***************************************************************************)
EXTENDS Naturals, FiniteSets

CONSTANTS
  Threads,
  MaxPages,        \* bound on the size of the file
  NoHandle

Handles == Threads \* the DiskDBFile a thread makes is known by the thread's name

VARIABLES
  size,       \* size of the file on disk
  fileCache,  \* the handle in the cache, or NoHandle
  numPages,   \* numPages[h] of the DiskDBFile h
  allocMu,    \* allocMu[h]: who holds it, or NoHandle
  closed,     \* the handles that have been closed
  pc, file,   \* file[t]: the handle thread t works with
  ask,        \* ask[t]: pages AllocatePage is called for, or the page ReadPage is for
  given       \* history: given[p]: how often AllocatePage has returned page p

fileVars == <<size, fileCache, numPages, allocMu, closed, pc, file, ask, given>>

FilesInit ==
  /\ size \in 0 .. 1
  /\ fileCache = NoHandle /\ closed = {}
  /\ numPages = [h \in Handles |-> 0] /\ allocMu = [h \in Handles |-> NoHandle]
  /\ pc = [t \in Threads |-> "out"] /\ file = [t \in Threads |-> NoHandle]
  /\ ask = [t \in Threads |-> 0] /\ given = [p \in 0 .. MaxPages - 1 |-> 0]

At(t, label) == pc[t] = label
Goto(t, label) == pc' = [pc EXCEPT ![t] = label]

\* GetDBFile: a hit, or a file of one's own (NewDiskDBFile takes its size) ...
GetDBFile(t) ==
  /\ At(t, "out")
  /\ IF fileCache # NoHandle
     THEN Goto(t, "have") /\ file' = [file EXCEPT ![t] = fileCache]
     ELSE Goto(t, "open") /\ UNCHANGED file
  /\ UNCHANGED <<size, fileCache, numPages, allocMu, closed, ask, given>>

NewDiskDBFile(t) ==
  /\ At(t, "open") /\ Goto(t, "opened")
  /\ numPages' = [numPages EXCEPT ![t] = size]
  /\ UNCHANGED <<size, fileCache, allocMu, closed, file, ask, given>>

\* Variant: the loser of the race goes on with its own file.
LoadOrStoreOwn(t) ==
  /\ At(t, "opened") /\ Goto(t, "have")
  /\ file' = [file EXCEPT ![t] = t]
  /\ fileCache' = IF fileCache = NoHandle THEN t ELSE fileCache
  /\ UNCHANGED <<size, numPages, allocMu, closed, ask, given>>

\* ... which the loser of the race for the cache closes again.
LoadOrStore(t) ==
  /\ At(t, "opened") /\ Goto(t, "have")
  /\ IF fileCache = NoHandle
     THEN fileCache' = t /\ file' = [file EXCEPT ![t] = t] /\ UNCHANGED closed
     ELSE file' = [file EXCEPT ![t] = fileCache] /\ closed' = closed \cup {t} /\ UNCHANGED fileCache
  /\ UNCHANGED <<size, numPages, allocMu, ask, given>>

\* AllocatePage: the lock, the Truncate (which may fail), the new count.
AllocatePage(t, n) ==
  /\ At(t, "have") /\ allocMu[file[t]] = NoHandle
  /\ allocMu' = [allocMu EXCEPT ![file[t]] = t]
  /\ ask' = [ask EXCEPT ![t] = n] /\ Goto(t, "truncate")
  /\ UNCHANGED <<size, fileCache, numPages, closed, file, given>>

Truncate(t) ==
  /\ At(t, "truncate") /\ numPages[file[t]] + ask[t] <= MaxPages
  /\ size' = numPages[file[t]] + ask[t] /\ Goto(t, "store")
  /\ UNCHANGED <<fileCache, numPages, allocMu, closed, file, ask, given>>

TruncateFails(t) ==
  /\ At(t, "truncate") /\ Goto(t, "have")
  /\ allocMu' = [allocMu EXCEPT ![file[t]] = NoHandle] /\ ask' = [ask EXCEPT ![t] = 0]
  /\ UNCHANGED <<size, fileCache, numPages, closed, file, given>>

StorePages(t) ==
  /\ At(t, "store") /\ Goto(t, "have")
  /\ LET old == numPages[file[t]]
     IN  /\ numPages' = [numPages EXCEPT ![file[t]] = old + ask[t]]
         /\ given' = [p \in DOMAIN given |-> given[p] + IF p \in old .. old + ask[t] - 1 THEN 1 ELSE 0]
  /\ allocMu' = [allocMu EXCEPT ![file[t]] = NoHandle] /\ ask' = [ask EXCEPT ![t] = 0]
  /\ UNCHANGED <<size, fileCache, closed, file>>

\* ReadPage and WritePage compare with numPages and then go to the file, at a
\* page the thread has been given or has found below NumPages.
CheckBounds(t, p) ==
  /\ At(t, "have") /\ p < numPages[file[t]]
  /\ ask' = [ask EXCEPT ![t] = p] /\ Goto(t, "io")
  /\ UNCHANGED <<size, fileCache, numPages, allocMu, closed, file, given>>

TransferPage(t) ==
  /\ At(t, "io") /\ Goto(t, "have") /\ ask' = [ask EXCEPT ![t] = 0]
  /\ UNCHANGED <<size, fileCache, numPages, allocMu, closed, file, given>>

\* A crash: the file stays as long as it is, all else is gone.
Restart ==
  /\ fileCache # NoHandle
  /\ fileCache' = NoHandle /\ closed' = {}
  /\ numPages' = [h \in Handles |-> 0] /\ allocMu' = [h \in Handles |-> NoHandle]
  /\ pc' = [t \in Threads |-> "out"] /\ file' = [t \in Threads |-> NoHandle]
  /\ ask' = [t \in Threads |-> 0]
  /\ UNCHANGED <<size, given>>

FilesStep(t) ==
  \/ GetDBFile(t) \/ NewDiskDBFile(t) \/ LoadOrStore(t)
  \/ Truncate(t) \/ TruncateFails(t) \/ StorePages(t) \/ TransferPage(t)
  \/ \E n \in 1 .. 2 : AllocatePage(t, n)
  \/ \E p \in 0 .. MaxPages - 1 : CheckBounds(t, p)

FilesNext == Restart \/ \E t \in Threads : FilesStep(t)
FilesSpec == FilesInit /\ [][FilesNext]_fileVars
-----------------------------------------------------------------------------
\* AllocatePage gives no page to two callers, whichever way they came by the
\* file and however often the system was restarted: in particular the page of a
\* committed row is never handed out as a new page.
GivenOnce == \A p \in DOMAIN given : given[p] <= 1

\* No growth of the file ever cuts off a page that has been given out, and a page
\* that passed the bounds check of ReadPage or WritePage is there when the file is
\* accessed, through a handle nobody has closed.
GivenPagesStay ==
  /\ \A p \in DOMAIN given : given[p] > 0 => p < size
  /\ \A t \in Threads : At(t, "io") => ask[t] < size /\ file[t] \notin closed

\* Both: what the callers of AllocatePage, ReadPage and WritePage rely on.
PagesGiven == GivenOnce /\ GivenPagesStay
=============================================================================
