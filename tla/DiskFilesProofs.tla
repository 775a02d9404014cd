-------------------------- MODULE DiskFilesProofs ---------------------------
(* Theorems about DiskFiles, for every set of threads and every bound.       *)
EXTENDS DiskFiles, TLAPS

FilesTypes ==
  /\ size \in Nat
  /\ fileCache \in Threads \cup {NoHandle}
  /\ numPages \in [Threads -> Nat]
  /\ allocMu \in [Threads -> Threads \cup {NoHandle}]
  /\ pc \in [Threads -> {"out", "open", "opened", "have", "truncate", "store", "io"}]
  /\ file \in [Threads -> Threads \cup {NoHandle}]
  /\ ask \in [Threads -> Nat]
  /\ given \in [0 .. MaxPages - 1 -> Nat]

Opening(t) == pc[t] \in {"out", "open", "opened"}
Cached == fileCache # NoHandle

\* Whoever has the file has the one of the cache, which nobody closes.
OneHandle ==
  /\ Cached => fileCache \notin closed /\ ~Opening(fileCache)
  /\ \A t \in Threads : IF Opening(t) THEN t \notin closed ELSE Cached /\ file[t] = fileCache

\* One thread at a time is between the Lock and the Unlock of AllocatePage.
OneAllocates ==
  \A t \in Threads : pc[t] \in {"truncate", "store"} => allocMu[fileCache] = t

\* The count of the cached handle never exceeds the size of the file, and while
\* no handle is cached the size is the one every opener has taken.
CountsFit ==
  /\ \A t \in Threads : pc[t] = "opened" /\ ~Cached => numPages[t] = size
  /\ Cached => numPages[fileCache] <= size
  /\ \A t \in Threads : pc[t] = "store" => size = numPages[fileCache] + ask[t]
  /\ \A t \in Threads : pc[t] = "io" => ask[t] < numPages[fileCache]

\* What has been given out lies below the count.
GivenBelow ==
  \A p \in 0 .. MaxPages - 1 :
    /\ given[p] <= 1
    /\ given[p] > 0 => p < size /\ (Cached => p < numPages[fileCache])

FilesInv == FilesTypes /\ OneHandle /\ OneAllocates /\ CountsFit /\ GivenBelow

\* The two constants are what they are named for.
FilesConstants == MaxPages \in Nat /\ NoHandle \notin Threads

LEMMA FilesStart == FilesConstants /\ FilesInit => FilesInv
  BY DEF FilesConstants, FilesInit, FilesInv, FilesTypes, OneHandle, OneAllocates, CountsFit, GivenBelow,
         Opening, Cached, Handles

\* GetDBFile and what it calls: only a thread without a handle takes part.
LEMMA OpenKeeps ==
  ASSUME FilesConstants, FilesInv, NEW t \in Threads,
         GetDBFile(t) \/ NewDiskDBFile(t) \/ LoadOrStore(t)
  PROVE  FilesInv'
  <1> USE DEF FilesConstants, FilesInv, At, Goto
  <1>1. CASE GetDBFile(t)
    <2>1. pc[t] = "out" /\ UNCHANGED <<size, fileCache, numPages, allocMu, closed, ask, given>>
      BY <1>1 DEF GetDBFile
    <2>2. \/ Cached /\ pc' = [pc EXCEPT ![t] = "have"] /\ file' = [file EXCEPT ![t] = fileCache]
          \/ ~Cached /\ pc' = [pc EXCEPT ![t] = "open"] /\ file' = file
      BY <1>1 DEF GetDBFile, Cached
    <2>3. FilesTypes'
      <3>1. /\ pc' \in [Threads -> {"out", "open", "opened", "have", "truncate", "store", "io"}]
            /\ file' \in [Threads -> Threads \cup {NoHandle}]
        <4>1. CASE pc' = [pc EXCEPT ![t] = "have"] /\ file' = [file EXCEPT ![t] = fileCache]
          BY <4>1 DEF FilesTypes
        <4>2. CASE pc' = [pc EXCEPT ![t] = "open"] /\ file' = file
          BY <4>2 DEF FilesTypes
        <4> QED
          BY <2>2, <4>1, <4>2
      <3> QED
        BY <2>1, <3>1 DEF FilesTypes
    <2>4. OneHandle'
      BY <2>1, <2>2 DEF FilesTypes, OneHandle, Opening, Cached
    <2>5. OneAllocates'
      BY <2>1, <2>2 DEF FilesTypes, OneAllocates
    <2>6. CountsFit' /\ GivenBelow'
      BY <2>1, <2>2 DEF FilesTypes, CountsFit, GivenBelow, Cached
    <2> QED
      BY <2>3, <2>4, <2>5, <2>6
  <1>2. CASE NewDiskDBFile(t)
    <2>1. t # fileCache
      BY <1>2 DEF NewDiskDBFile, OneHandle, Opening, Cached, FilesTypes
    <2>2. FilesTypes'
      BY <1>2, <2>1 DEF NewDiskDBFile, FilesTypes
    <2>3. OneHandle'
      BY <1>2, <2>1 DEF NewDiskDBFile, FilesTypes, OneHandle, Opening, Cached
    <2>4. OneAllocates'
      BY <1>2, <2>1 DEF NewDiskDBFile, FilesTypes, OneHandle, OneAllocates, Opening
    <2>5. CountsFit'
      BY <1>2, <2>1 DEF NewDiskDBFile, FilesTypes, OneHandle, CountsFit, Opening, Cached
    <2>6. GivenBelow'
      BY <1>2, <2>1 DEF NewDiskDBFile, FilesTypes, OneHandle, CountsFit, GivenBelow, Opening, Cached
    <2> QED
      BY <2>2, <2>3, <2>4, <2>5, <2>6
  <1>3. CASE LoadOrStore(t) /\ Cached
    <2>1. t # fileCache
      BY <1>3 DEF LoadOrStore, OneHandle, Opening
    <2>2. /\ file' = [file EXCEPT ![t] = fileCache] /\ pc' = [pc EXCEPT ![t] = "have"]
          /\ closed' = closed \cup {t} /\ UNCHANGED <<fileCache, size, numPages, allocMu, ask, given>>
      BY <1>3 DEF LoadOrStore, Cached
    <2>3. FilesTypes'
      BY <2>2 DEF FilesTypes
    <2>4. OneHandle'
      BY <1>3, <2>1, <2>2 DEF FilesTypes, OneHandle, Opening, Cached
    <2>5. OneAllocates' /\ CountsFit' /\ GivenBelow'
      BY <1>3, <2>1, <2>2 DEF FilesTypes, OneAllocates, CountsFit, GivenBelow, Cached
    <2> QED
      BY <2>3, <2>4, <2>5
  <1>4. CASE LoadOrStore(t) /\ ~Cached
    <2>1. \A u \in Threads : Opening(u)
      BY <1>4 DEF OneHandle
    <2>2. fileCache' = t /\ file' = [file EXCEPT ![t] = t] /\ closed' = closed /\ pc' = [pc EXCEPT ![t] = "have"]
      BY <1>4 DEF LoadOrStore, Cached
    <2>3. numPages[t] = size /\ UNCHANGED <<numPages, size, given, ask, allocMu>>
      BY <1>4 DEF LoadOrStore, CountsFit
    <2>4. FilesTypes'
      BY <2>2, <2>3 DEF FilesTypes
    <2>5. \A u \in Threads : u # t => Opening(u)'
      BY <2>1, <2>2 DEF FilesTypes, Opening
    <2>6. Cached' /\ ~Opening(t)' /\ pc'[t] = "have"
      BY <2>2 DEF FilesTypes, Opening, Cached
    <2>7. OneHandle'
      BY <2>1, <2>2, <2>5, <2>6 DEF FilesTypes, OneHandle
    <2>8. \A u \in Threads : pc'[u] \notin {"truncate", "store", "io"}
      BY <2>5, <2>6 DEF Opening
    <2>9. OneAllocates' /\ CountsFit' /\ GivenBelow'
      BY <2>2, <2>3, <2>6, <2>8 DEF FilesTypes, OneAllocates, CountsFit, GivenBelow
    <2> QED
      BY <2>4, <2>7, <2>9
  <1> QED
    BY <1>1, <1>2, <1>3, <1>4

\* AllocatePage: the thread that has the lock is the only one that moves the size
\* and the count, and it moves them up.
LEMMA AllocateKeeps ==
  ASSUME FilesConstants, FilesInv, NEW t \in Threads,
         Truncate(t) \/ TruncateFails(t) \/ StorePages(t) \/ \E n \in 1 .. 2 : AllocatePage(t, n)
  PROVE  FilesInv'
  <1> USE DEF FilesConstants, FilesInv, At, Goto
  <1>1. pc[t] \in {"have", "truncate", "store"} /\ Cached /\ file[t] = fileCache /\ fileCache \in Threads
    BY DEF Truncate, TruncateFails, StorePages, AllocatePage, OneHandle, Opening, FilesTypes, Cached
  <1>2. /\ UNCHANGED <<fileCache, closed, file>> /\ Cached'
        /\ \E label \in {"have", "truncate", "store"} : pc' = [pc EXCEPT ![t] = label]
    BY <1>1 DEF Truncate, TruncateFails, StorePages, AllocatePage, Cached
  <1>3. OneHandle'
    BY <1>1, <1>2 DEF OneHandle, Opening, FilesTypes, Cached
  <1>4. pc[t] \in {"truncate", "store"} =>
          \A u \in Threads : u # t => pc[u] \notin {"truncate", "store"}
    BY <1>1 DEF OneAllocates
  <1>5. ASSUME NEW n \in 1 .. 2, AllocatePage(t, n)
        PROVE  FilesInv'
    <2>1. allocMu[fileCache] = NoHandle /\ allocMu' = [allocMu EXCEPT ![fileCache] = t] /\ n \in Nat
      BY <1>1, <1>5 DEF AllocatePage
    <2>2. /\ pc' = [pc EXCEPT ![t] = "truncate"] /\ ask' = [ask EXCEPT ![t] = n]
          /\ UNCHANGED <<size, numPages, given>>
      BY <1>5 DEF AllocatePage
    <2>3. \A u \in Threads : pc[u] \notin {"truncate", "store"}
      BY <2>1 DEF OneAllocates
    <2>4. FilesTypes'
      BY <1>2, <2>1, <2>2 DEF FilesTypes
    <2>5. OneAllocates'
      BY <1>1, <1>2, <2>1, <2>2, <2>3 DEF FilesTypes, OneAllocates
    <2>6. CountsFit' /\ GivenBelow'
      BY <1>1, <1>2, <2>2, <2>3 DEF FilesTypes, CountsFit, GivenBelow
    <2> QED
      BY <1>3, <2>4, <2>5, <2>6
  <1>6. CASE Truncate(t)
    <2>1. /\ pc[t] = "truncate" /\ pc' = [pc EXCEPT ![t] = "store"] /\ size' = numPages[fileCache] + ask[t]
          /\ UNCHANGED <<numPages, allocMu, ask, given>>
      BY <1>1, <1>6 DEF Truncate
    <2>2. FilesTypes' /\ OneAllocates'
      BY <1>1, <1>2, <2>1 DEF FilesTypes, OneAllocates
    <2>3. CountsFit'
      BY <1>1, <1>2, <1>4, <2>1 DEF FilesTypes, CountsFit
    <2>4. GivenBelow'
      BY <1>1, <1>2, <2>1 DEF FilesTypes, GivenBelow
    <2> QED
      BY <1>3, <2>2, <2>3, <2>4
  <1>7. CASE TruncateFails(t)
    <2>1. /\ pc[t] = "truncate" /\ pc' = [pc EXCEPT ![t] = "have"]
          /\ allocMu' = [allocMu EXCEPT ![fileCache] = NoHandle] /\ ask' = [ask EXCEPT ![t] = 0]
          /\ UNCHANGED <<size, numPages, given>>
      BY <1>1, <1>7 DEF TruncateFails
    <2>2. FilesTypes'
      BY <1>2, <2>1 DEF FilesTypes
    <2>3. OneAllocates'
      BY <1>1, <1>2, <1>4, <2>1 DEF FilesTypes, OneAllocates
    <2>4. CountsFit' /\ GivenBelow'
      BY <1>1, <1>2, <1>4, <2>1 DEF FilesTypes, CountsFit, GivenBelow
    <2> QED
      BY <1>3, <2>2, <2>3, <2>4
  <1>8. CASE StorePages(t)
    <2> DEFINE old == numPages[fileCache]
    <2>1. /\ pc[t] = "store" /\ pc' = [pc EXCEPT ![t] = "have"]
          /\ allocMu' = [allocMu EXCEPT ![fileCache] = NoHandle] /\ ask' = [ask EXCEPT ![t] = 0]
          /\ numPages' = [numPages EXCEPT ![fileCache] = old + ask[t]] /\ UNCHANGED size
          /\ given' = [p \in DOMAIN given |-> given[p] + IF p \in old .. old + ask[t] - 1 THEN 1 ELSE 0]
      BY <1>1, <1>8 DEF StorePages
    <2>2. old \in Nat /\ ask[t] \in Nat /\ size = old + ask[t]
      BY <1>1, <2>1 DEF FilesTypes, CountsFit
    <2>3. FilesTypes'
      <3>1. given' \in [0 .. MaxPages - 1 -> Nat]
        BY <2>1 DEF FilesTypes
      <3>2. numPages' \in [Threads -> Nat]
        BY <2>1, <2>2 DEF FilesTypes
      <3> QED
        BY <1>2, <2>1, <3>1, <3>2 DEF FilesTypes
    <2>4. OneAllocates'
      BY <1>1, <1>2, <1>4, <2>1 DEF FilesTypes, OneAllocates
    <2>5. CountsFit'
      BY <1>1, <1>2, <1>4, <2>1, <2>2 DEF FilesTypes, CountsFit
    <2>6. GivenBelow'
      <3> SUFFICES ASSUME NEW p \in 0 .. MaxPages - 1
                   PROVE  given'[p] <= 1 /\ (given'[p] > 0 => p < size /\ p < old + ask[t])
        BY <1>1, <1>2, <2>1 DEF GivenBelow, FilesTypes
      <3>1. given[p] \in Nat /\ given[p] <= 1 /\ (given[p] > 0 => p < size /\ p < old)
        BY <1>1 DEF GivenBelow, FilesTypes
      <3>2. given'[p] = given[p] + IF p \in old .. old + ask[t] - 1 THEN 1 ELSE 0
        BY <2>1 DEF FilesTypes
      <3> QED
        BY <2>2, <3>1, <3>2
    <2> QED
      BY <1>3, <2>3, <2>4, <2>5, <2>6
  <1> QED
    BY <1>5, <1>6, <1>7, <1>8

\* ReadPage and WritePage.
LEMMA TransferKeeps ==
  ASSUME FilesConstants, FilesInv, NEW t \in Threads,
         TransferPage(t) \/ \E p \in 0 .. MaxPages - 1 : CheckBounds(t, p)
  PROVE  FilesInv'
  <1> USE DEF FilesConstants, FilesInv, At, Goto
  <1>1. pc[t] \in {"have", "io"} /\ Cached /\ file[t] = fileCache
    BY DEF TransferPage, CheckBounds, OneHandle, Opening
  <1>2. UNCHANGED <<size, fileCache, numPages, allocMu, closed, file, given>>
    BY DEF TransferPage, CheckBounds
  <1>3. ASSUME NEW label \in {"have", "io"}, NEW p \in Nat, label = "io" => p < numPages[fileCache],
               pc' = [pc EXCEPT ![t] = label], ask' = [ask EXCEPT ![t] = p]
        PROVE  FilesInv'
    <2>1. FilesTypes'
      BY <1>2, <1>3 DEF FilesTypes
    <2>2. OneHandle'
      BY <1>1, <1>2, <1>3 DEF FilesTypes, OneHandle, Opening, Cached
    <2>3. OneAllocates'
      BY <1>1, <1>2, <1>3 DEF FilesTypes, OneAllocates
    <2>4. GivenBelow'
      BY <1>2 DEF GivenBelow, Cached
    <2>5. CountsFit'
      BY <1>1, <1>2, <1>3 DEF FilesTypes, CountsFit, Cached
    <2> QED
      BY <2>1, <2>2, <2>3, <2>4, <2>5
  <1>4. CASE TransferPage(t)
    BY <1>3, <1>4 DEF TransferPage
  <1>5. ASSUME NEW p \in 0 .. MaxPages - 1, CheckBounds(t, p) PROVE FilesInv'
    <2>1. p \in Nat /\ p < numPages[fileCache]
      BY <1>1, <1>5 DEF CheckBounds
    <2> QED
      BY <1>3, <1>5, <2>1 DEF CheckBounds
  <1> QED
    BY <1>4, <1>5

LEMMA FilesStepKeeps ==
  ASSUME FilesConstants, FilesInv, [FilesNext]_fileVars
  PROVE  FilesInv'
  <1>1. CASE Restart
    BY <1>1 DEF Restart, FilesConstants, FilesInv, FilesTypes, OneHandle, OneAllocates, CountsFit, GivenBelow,
                Opening, Cached, Handles
  <1>2. CASE UNCHANGED fileVars
    BY <1>2 DEF fileVars, FilesInv, FilesTypes, OneHandle, OneAllocates, CountsFit, GivenBelow, Opening, Cached
  <1>3. ASSUME NEW t \in Threads, FilesStep(t) PROVE FilesInv'
    BY <1>3, OpenKeeps, AllocateKeeps, TransferKeeps DEF FilesStep
  <1> QED
    BY <1>1, <1>2, <1>3 DEF FilesNext

\* AllocatePage never gives one page out twice, and no page that was given out, or
\* that passed the bounds check of ReadPage or WritePage, is missing from the file:
\* for any number of racing openers, of failing Truncates and of restarts.
THEOREM PagesGivenOnce == ASSUME FilesConstants PROVE FilesSpec => []PagesGiven
  <1>1. FilesInit => FilesInv
    BY FilesStart
  <1>2. FilesInv /\ [FilesNext]_fileVars => FilesInv'
    BY FilesStepKeeps
  <1>3. FilesInv => PagesGiven
    <2> SUFFICES ASSUME FilesInv PROVE PagesGiven
      OBVIOUS
    <2>1. GivenOnce
      BY DEF FilesInv, FilesTypes, GivenBelow, GivenOnce
    <2>2. GivenPagesStay
      <3>1. \A p \in DOMAIN given : given[p] > 0 => p < size
        BY DEF FilesInv, FilesTypes, GivenBelow
      <3>2. ASSUME NEW t \in Threads, pc[t] = "io" PROVE ask[t] < size /\ file[t] \notin closed
        <4>1. Cached /\ file[t] = fileCache /\ fileCache \in Threads /\ fileCache \notin closed
          BY <3>2 DEF FilesInv, FilesTypes, OneHandle, Opening, Cached
        <4>2. ask[t] < numPages[fileCache] /\ numPages[fileCache] <= size
          BY <3>2, <4>1 DEF FilesInv, CountsFit
        <4> QED
          BY <4>1, <4>2 DEF FilesInv, FilesTypes
      <3> QED
        BY <3>1, <3>2 DEF GivenPagesStay, At
    <2> QED
      BY <2>1, <2>2 DEF PagesGiven
  <1> QED
    BY <1>1, <1>2, <1>3, PTL DEF FilesSpec
=============================================================================
