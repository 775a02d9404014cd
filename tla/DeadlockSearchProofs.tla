----------------------- MODULE DeadlockSearchProofs ------------------------
(***************************************************************************)
(* The lock manager that searches step by step implements the one that     *)
(* asks for reachability, for any number of transactions and tags.         *)
(***************************************************************************)
EXTENDS DeadlockSearch, LockManagerProofs

\* What a transaction that queued is doing.
QueuedWaits ==
  \A tid \in Txns, tag \in Tags :
    tid \in waitqueue[tag] => \/ ~Idle(tid) /\ request[tid].tag = tag
                              \/ Searching /\ call.tid = tid /\ call.tag = tag

\* The caller of hasDeadLock: it gave its mode up, queued and still conflicts.
CallerQueued ==
  Searching =>
    /\ Idle(call.tid)
    /\ locks[call.tag][call.tid] = NotHeld
    /\ call.tid \in waitqueue[call.tag]
    /\ call.had # call.mode
    /\ Conflict(locks, call.tid, call.tag, call.mode)

\* The stack starts with the caller and holds visited transactions only.
StackShape ==
  /\ Searching => Len(stack) >= 1 /\ stack[1] = call.tid
  /\ ~Searching => stack = <<>>
  /\ \A i \in 1 .. Len(stack) : stack[i] \in visited

SearchInv ==
  /\ SearchTypeOK
  /\ QueuedWaits
  /\ CallerQueued
  /\ StackShape
  /\ SearchSound
  /\ SearchComplete
  /\ PendingOnStack

\* Appending to and popping the stack of activations.
LEMMA StackFacts ==
  ASSUME NEW s \in Seq(Txns), NEW t \in Txns
  PROVE  /\ Append(s, t) \in Seq(Txns)
         /\ Len(Append(s, t)) = Len(s) + 1
         /\ \A i \in 1 .. Len(s) : Append(s, t)[i] = s[i]
         /\ Append(s, t)[Len(s) + 1] = t
         /\ Len(s) > 1 => /\ SubSeq(s, 1, Len(s) - 1) \in Seq(Txns)
                          /\ Len(SubSeq(s, 1, Len(s) - 1)) = Len(s) - 1
                          /\ \A i \in 1 .. Len(s) - 1 : SubSeq(s, 1, Len(s) - 1)[i] = s[i]
OBVIOUS

\* Only transactions are waited for.
LEMMA WaitsForType ==
  ASSUME NEW tid \in Txns, NEW table, NEW queue
  PROVE  WaitsFor(table, queue, tid) \in SUBSET Txns
BY DEF WaitsFor

\* The innermost activation belongs to a visited transaction.
LEMMA CurrentVisited ==
  ASSUME SearchInv, Searching
  PROVE  Current \in visited /\ Current \in Txns /\ call \in Calls
BY DEF SearchInv, SearchTypeOK, StackShape, Searching, Current
-----------------------------------------------------------------------------
(* The invariant. *)
LEMMA SearchInvInit == SearchInit => SearchInv
BY DEF SearchInit, Init, SearchInv, SearchTypeOK, TypeOK, QueuedWaits, CallerQueued,
       StackShape, SearchSound, SearchComplete, PendingOnStack, Searching, NothingPending, Idle

\* Calls that do not search keep the invariant.
LEMMA DirectKeeps ==
  ASSUME SearchInv, ~Searching, NEW tid \in Txns, Direct(tid)
  PROVE  SearchInv'
<1> USE DEF SearchInv, SearchTypeOK
<1>1. call' = NoCall /\ ~Searching' /\ UNCHANGED searchVars
  BY DEF Direct, searchVars, Searching
<1>2. TypeOK'
  <2>1. Next
    BY DEF Direct, Next, Lock
  <2> QED
    BY <2>1, TypeStep
<1>3. QueuedWaits'
  <2>1. CASE UNCHANGED <<waitqueue, request>>
    BY <1>1, <2>1 DEF QueuedWaits, Idle
  <2>2. CASE WakeGrant(tid)
    <3>1. request[tid].tag \in Tags
      BY <2>2, PendingIsRequest DEF WakeGrant
    <3> QED
      BY <1>1, <2>2, <3>1 DEF QueuedWaits, Idle, WakeGrant, removeFromWaitQueue, TypeOK
  <2> QED
    BY <2>1, <2>2 DEF Direct, LockSame, LockGrant, Unlock, UnlockHeld, UnlockNotFound,
       Wake, WakeRetry, vars
<1>4. PendingOnStack'
  <2>1. stack = <<>> /\ 1 .. Len(stack) = {}
    BY DEF StackShape
  <2>2. \A t \in Txns : pending[t] = {}
    BY <2>1 DEF PendingOnStack
  <2> QED
    BY <1>1, <2>2 DEF PendingOnStack, searchVars
<1> QED
  BY <1>1, <1>2, <1>3, <1>4 DEF CallerQueued, StackShape, SearchSound, SearchComplete, searchVars

\* The start of a search establishes its part of the invariant.
LEMMA LockSearchKeeps ==
  ASSUME SearchInv, ~Searching, NEW tid \in Txns, NEW tag \in Tags, NEW mode \in Modes,
         LockSearch(tid, tag, mode)
  PROVE  SearchInv'
<1> USE DEF SearchInv, SearchTypeOK
<1> DEFINE succ == WaitsFor(locks', waitqueue', tid)
<1>1. /\ call' \in Calls
      /\ call'.tid = tid /\ call'.tag = tag /\ call'.mode = mode /\ call'.had = locks[tag][tid]
      /\ Searching'
  BY CallAssumption DEF LockSearch, Calls, TypeOK, Searching
<1>2. TypeOK'
  BY DEF TypeOK, LockSearch, GiveUp, Enqueue, Idle
<1>3. /\ succ \in SUBSET Txns
      /\ pending' \in [Txns -> SUBSET Txns]
      /\ pending'[tid] = succ
      /\ \A t \in Txns \ {tid} : pending'[t] = {}
  BY WaitsForType DEF LockSearch, NothingPending
<1>4. /\ stack' \in Seq(Txns) /\ Len(stack') = 1 /\ stack'[1] = tid
      /\ visited' = {tid}
  BY DEF LockSearch
<1>5. QueuedWaits'
  BY <1>1 DEF QueuedWaits, LockSearch, Enqueue, TypeOK, Idle, Searching
<1>6. CallerQueued'
  BY <1>1 DEF CallerQueued, LockSearch, GiveUp, Enqueue, TypeOK, Idle
<1>7. StackShape'
  BY <1>1, <1>4 DEF StackShape
<1>8. SearchSound'
  BY <1>1, <1>4 DEF SearchSound
<1>9. SearchComplete'
  BY <1>1, <1>3, <1>4 DEF SearchComplete
<1>10. PendingOnStack'
  BY <1>3, <1>4 DEF PendingOnStack
<1> QED
  BY <1>1, <1>2, <1>3, <1>4, <1>5, <1>6, <1>7, <1>8, <1>9, <1>10

\* A step of dfs that leaves the lock table alone.
LEMMA DfsFrame ==
  ASSUME SearchInv, Searching, UNCHANGED <<vars, call>>
  PROVE  /\ TypeOK' /\ QueuedWaits' /\ CallerQueued' /\ Searching'
         /\ \A t \in Txns : WaitsFor(locks, waitqueue, t)' = WaitsFor(locks, waitqueue, t)
BY DEF SearchInv, SearchTypeOK, TypeOK, QueuedWaits, CallerQueued, Searching, vars, Idle,
       WaitsFor, Conflict

\* A recursive call of dfs on a transaction not yet visited.
LEMMA VisitNewKeeps ==
  ASSUME SearchInv, Searching, NEW holder \in Txns, VisitNew(holder)
  PROVE  SearchInv'
<1> USE DEF SearchInv, SearchTypeOK
<1> DEFINE Succ(t) == WaitsFor(locks, waitqueue, t)
<1>1. /\ TypeOK' /\ QueuedWaits' /\ CallerQueued' /\ Searching'
      /\ call' = call
      /\ \A t \in Txns : WaitsFor(locks, waitqueue, t)' = Succ(t)
  BY DfsFrame DEF VisitNew
<1>2. Current \in visited /\ Current \in Txns /\ holder \notin visited /\ holder \in pending[Current]
      /\ call \in Calls
  BY CurrentVisited DEF VisitNew
<1>3. /\ pending' \in [Txns -> SUBSET Txns]
      /\ pending'[holder] = Succ(holder)
      /\ pending'[Current] = pending[Current] \ {holder}
      /\ \A t \in Txns \ {holder, Current} : pending'[t] = pending[t]
  BY <1>2, WaitsForType DEF VisitNew
<1>4. /\ stack' \in Seq(Txns) /\ Len(stack') = Len(stack) + 1
      /\ \A i \in 1 .. Len(stack) : stack'[i] = stack[i]
      /\ stack'[Len(stack) + 1] = holder
      /\ visited' = visited \cup {holder}
      /\ Len(stack) \in Nat
  BY StackFacts DEF VisitNew
<1>5. StackShape'
  BY <1>1, <1>4 DEF StackShape
<1>6. SearchSound'
  <2> SUFFICES ASSUME NEW R \in SUBSET Txns, Succ(call.tid) \subseteq R,
                      \A t \in R : Succ(t) \subseteq R
               PROVE  holder \in R
    BY <1>1, <1>2, <1>4 DEF SearchSound, Calls
  <2>1. Current \in R \cup {call.tid}
    BY <1>2 DEF SearchSound
  <2>2. holder \in Succ(Current)
    BY <1>2 DEF PendingOnStack
  <2> QED
    BY <2>1, <2>2
<1>7. SearchComplete'
  <2>1. holder # call.tid
    BY <1>2 DEF SearchComplete
  <2> SUFFICES ASSUME NEW t \in visited', NEW u \in Succ(t) \ pending'[t]
               PROVE  u \in visited' \ {call.tid}
    BY <1>1, <1>2, <1>4 DEF SearchComplete
  <2>2. t # holder /\ t \in visited /\ t \in Txns
    BY <1>2, <1>3, <1>4
  <2>3. u = holder \/ u \in Succ(t) \ pending[t]
    BY <1>3, <2>2
  <2> QED
    BY <1>4, <2>1, <2>2, <2>3 DEF SearchComplete
<1>8. PendingOnStack'
  <2> SUFFICES ASSUME NEW t \in Txns
               PROVE  /\ pending'[t] \subseteq Succ(t)
                      /\ pending'[t] # {} => \E i \in 1 .. Len(stack') : stack'[i] = t
    BY <1>1 DEF PendingOnStack
  <2>1. CASE t = holder
    BY <1>3, <1>4, <2>1
  <2>2. CASE t # holder
    <3>1. pending'[t] \subseteq pending[t]
      BY <1>3, <2>2
    <3> QED
      BY <1>4, <3>1 DEF PendingOnStack
  <2> QED
    BY <2>1, <2>2
<1> QED
  BY <1>1, <1>2, <1>3, <1>4, <1>5, <1>6, <1>7, <1>8

\* A recursive call of dfs that returns at once.
LEMMA VisitSeenKeeps ==
  ASSUME SearchInv, Searching, NEW holder \in Txns, VisitSeen(holder)
  PROVE  SearchInv'
<1> USE DEF SearchInv, SearchTypeOK
<1>1. /\ TypeOK' /\ QueuedWaits' /\ CallerQueued' /\ Searching'
      /\ UNCHANGED <<call, visited, stack>>
      /\ \A t \in Txns : WaitsFor(locks, waitqueue, t)' = WaitsFor(locks, waitqueue, t)
  BY DfsFrame DEF VisitSeen
<1>2. Current \in Txns /\ call \in Calls
  BY CurrentVisited
<1>3. /\ pending' \in [Txns -> SUBSET Txns]
      /\ pending'[Current] = pending[Current] \ {holder}
      /\ \A t \in Txns \ {Current} : pending'[t] = pending[t]
      /\ holder \in visited \ {call.tid}
  BY <1>2 DEF VisitSeen
<1>4. StackShape' /\ SearchSound'
  BY <1>1, <1>2 DEF StackShape, SearchSound, Calls
<1>5. SearchComplete'
  BY <1>1, <1>3 DEF SearchComplete
<1>6. PendingOnStack'
  BY <1>1, <1>3 DEF PendingOnStack
<1> QED
  BY <1>1, <1>2, <1>3, <1>4, <1>5, <1>6

\* An activation of dfs that has no successor left returns FALSE.
LEMMA BacktrackKeeps ==
  ASSUME SearchInv, Searching, Backtrack
  PROVE  SearchInv'
<1> USE DEF SearchInv, SearchTypeOK
<1>1. /\ TypeOK' /\ QueuedWaits' /\ CallerQueued' /\ Searching'
      /\ UNCHANGED <<call, visited, pending>>
      /\ \A t \in Txns : WaitsFor(locks, waitqueue, t)' = WaitsFor(locks, waitqueue, t)
  BY DfsFrame DEF Backtrack
<1>2. Current \in Txns /\ call \in Calls
  BY CurrentVisited
<1>3. /\ stack' \in Seq(Txns) /\ Len(stack') = Len(stack) - 1 /\ Len(stack) > 1
      /\ \A i \in 1 .. Len(stack) - 1 : stack'[i] = stack[i]
      /\ Len(stack) \in Nat
  BY <1>2, StackFacts DEF Backtrack
<1>4. StackShape'
  BY <1>1, <1>3 DEF StackShape
<1>5. SearchSound' /\ SearchComplete'
  BY <1>1, <1>2 DEF SearchSound, SearchComplete, Calls
<1>6. PendingOnStack'
  <2> SUFFICES ASSUME NEW t \in Txns, pending[t] # {}
               PROVE  \E i \in 1 .. Len(stack') : stack'[i] = t
    BY <1>1 DEF PendingOnStack
  <2>1. PICK i \in 1 .. Len(stack) : stack[i] = t
    BY DEF PendingOnStack
  <2>2. i # Len(stack)
    BY <2>1 DEF Backtrack, Current
  <2> QED
    BY <1>3, <2>1, <2>2
<1> QED
  BY <1>1, <1>2, <1>3, <1>4, <1>5, <1>6

\* Between searches nothing is visited, stacked or pending.
LEMMA EndSearchShape ==
  ASSUME EndSearch
  PROVE  /\ call' = NoCall /\ ~Searching'
         /\ visited' \subseteq Txns /\ stack' \in Seq(Txns)
         /\ pending' \in [Txns -> SUBSET Txns]
         /\ StackShape' /\ SearchSound' /\ SearchComplete' /\ PendingOnStack'
BY DEF EndSearch, Searching, NothingPending, StackShape, SearchSound, SearchComplete,
       PendingOnStack

\* dfs is back at its start: Lock is refused.
LEMMA VisitStartKeeps ==
  ASSUME SearchInv, Searching, NEW holder \in Txns, VisitStart(holder)
  PROVE  SearchInv'
<1> USE DEF SearchInv, SearchTypeOK
<1>1. call \in Calls /\ call.tid \in Txns /\ call.tag \in Tags
  BY CurrentVisited DEF Calls
<1>2. TypeOK'
  BY <1>1 DEF VisitStart, TypeOK, removeFromWaitQueue
<1>3. EndSearch
  BY DEF VisitStart
<1>4. QueuedWaits'
  BY <1>1, <1>3, EndSearchShape DEF VisitStart, QueuedWaits, TypeOK, removeFromWaitQueue, Idle
<1> QED
  BY <1>2, <1>3, <1>4, EndSearchShape DEF CallerQueued

\* dfs has run dry: Lock suspends.
LEMMA NoCycleKeeps ==
  ASSUME SearchInv, Searching, NoCycle
  PROVE  SearchInv'
<1> USE DEF SearchInv, SearchTypeOK
<1>1. call \in Calls /\ call.tid \in Txns /\ call.tag \in Tags /\ call.mode \in Modes
  BY CurrentVisited DEF Calls
<1>2. TypeOK'
  BY <1>1 DEF NoCycle, TypeOK
<1>3. EndSearch
  BY DEF NoCycle
<1>4. request'[call.tid] = [tag |-> call.tag, mode |-> call.mode]
      /\ request'[call.tid] # NoRequest
  BY <1>1, RequestAssumption DEF NoCycle, TypeOK
<1>5. QueuedWaits'
  <2> SUFFICES ASSUME NEW tid \in Txns, NEW tag \in Tags, tid \in waitqueue[tag]
               PROVE  ~Idle(tid)' /\ request'[tid].tag = tag
    BY DEF NoCycle, QueuedWaits
  <2>1. CASE tid = call.tid
    <3>1. call.tag = tag
      BY <2>1 DEF QueuedWaits, CallerQueued
    <3> QED
      BY <1>4, <2>1, <3>1 DEF Idle
  <2>2. CASE tid # call.tid
    <3>1. request'[tid] = request[tid]
      BY <1>1, <2>2 DEF NoCycle, TypeOK
    <3> QED
      BY <2>2, <3>1 DEF QueuedWaits, Idle
  <2> QED
    BY <2>1, <2>2
<1> QED
  BY <1>2, <1>3, <1>5, EndSearchShape DEF CallerQueued

\* Every step keeps the invariant of the search.
LEMMA SearchInvStep == SearchInv /\ [SearchNext]_fineVars => SearchInv'
<1> SUFFICES ASSUME SearchInv, [SearchNext]_fineVars
             PROVE  SearchInv'
  OBVIOUS
<1>1. CASE ~Searching /\ SearchNext
  BY <1>1, DirectKeeps, LockSearchKeeps DEF SearchNext
<1>2. CASE Searching /\ SearchNext
  BY <1>2, VisitNewKeeps, VisitSeenKeeps, VisitStartKeeps, BacktrackKeeps, NoCycleKeeps
     DEF SearchNext, Dfs
<1>3. CASE UNCHANGED fineVars
  <2>1. /\ UNCHANGED vars /\ UNCHANGED <<locks, waitqueue, request, asleep>>
        /\ UNCHANGED <<call, visited, stack, pending>>
    BY <1>3 DEF fineVars, vars, searchVars
  <2>2. TypeOK' /\ SearchTypeOK' /\ QueuedWaits' /\ StackShape'
    BY <2>1 DEF SearchInv, SearchTypeOK, TypeOK, QueuedWaits, StackShape, Searching, Idle
  <2>3. CallerQueued'
    BY <2>1 DEF SearchInv, CallerQueued, Searching, Idle, Conflict
  <2>4. SearchSound' /\ SearchComplete' /\ PendingOnStack'
    BY <2>1 DEF SearchInv, SearchSound, SearchComplete, PendingOnStack, Searching, WaitsFor
  <2> QED
    BY <2>2, <2>3, <2>4 DEF SearchInv
<1> QED
  BY <1>1, <1>2, <1>3

\* The search keeps its books: what dfs has visited is reachable from the
\* caller, and what it has not visited is still pending somewhere on its stack.
THEOREM SearchInvariant == SearchSpec => []SearchInv
BY SearchInvInit, SearchInvStep, PTL DEF SearchSpec
-----------------------------------------------------------------------------
(* The answer of the search. *)

\* dfs meets the caller again only if the caller waits for itself.
LEMMA StartReached ==
  ASSUME SearchInv, Searching, NEW holder \in Txns, VisitStart(holder)
  PROVE  hasDeadLock(locks, waitqueue, call.tid)
<1> SUFFICES ASSUME NEW R \in SUBSET Txns,
                    WaitsFor(locks, waitqueue, call.tid) \subseteq R,
                    \A tid \in R : WaitsFor(locks, waitqueue, tid) \subseteq R
             PROVE  call.tid \in R
  BY DEF hasDeadLock
<1>1. Current \in R \cup {call.tid} /\ Current \in Txns
  BY CurrentVisited DEF SearchInv, SearchSound
<1>2. call.tid \in WaitsFor(locks, waitqueue, Current)
  BY <1>1 DEF SearchInv, PendingOnStack, VisitStart
<1> QED
  BY <1>1, <1>2

\* When dfs runs dry, the visited transactions are closed without the caller.
LEMMA StartNotReached ==
  ASSUME SearchInv, Searching, NoCycle
  PROVE  ~hasDeadLock(locks, waitqueue, call.tid)
<1> USE DEF SearchInv, SearchTypeOK
<1>1. \A tid \in Txns : pending[tid] = {}
  <2>1. \A i \in 1 .. Len(stack) : stack[i] = Current
    BY DEF NoCycle, Current
  <2> QED
    BY <2>1 DEF PendingOnStack, NoCycle
<1>2. \A tid \in visited : WaitsFor(locks, waitqueue, tid) \subseteq visited \ {call.tid}
  BY <1>1 DEF SearchComplete
<1>3. call.tid \in visited
  BY DEF SearchComplete
<1> QED
  BY <1>2, <1>3 DEF hasDeadLock
-----------------------------------------------------------------------------
(* The refinement. *)

\* Seen from outside, the caller that searches has not moved yet; giving up
\* its mode and queueing lead to the table and the queues the search works on.
LEMMA CallerBefore ==
  ASSUME SearchInv, Searching
  PROVE  /\ call.tid \in Txns /\ call.tag \in Tags /\ call.mode \in Modes
         /\ AbsLocks[call.tag][call.tid] = call.had
         /\ LM!GiveUp(call.tid, call.tag) = locks
         /\ LM!Enqueue(call.tid, call.tag) = waitqueue
         /\ removeFromWaitQueue(waitqueue, call.tid, call.tag) = AbsQueue
<1> USE DEF SearchInv, SearchTypeOK
<1>1. call \in Calls /\ call.tid \in Txns /\ call.tag \in Tags /\ call.mode \in Modes
  BY CurrentVisited DEF Calls
<1>2. AbsLocks = [locks EXCEPT ![call.tag][call.tid] = call.had]
  BY DEF AbsLocks
<1>3. AbsLocks[call.tag][call.tid] = call.had
  BY <1>1, <1>2 DEF TypeOK
<1>4. [AbsLocks EXCEPT ![call.tag][call.tid] = NotHeld] = locks
  BY <1>1, <1>2 DEF TypeOK, CallerQueued
<1>5. AbsQueue = [waitqueue EXCEPT ![call.tag] = @ \ {call.tid}]
  BY DEF AbsQueue, removeFromWaitQueue
<1>6. [AbsQueue EXCEPT ![call.tag] = @ \cup {call.tid}] = waitqueue
  BY <1>1, <1>5 DEF TypeOK, CallerQueued
<1> QED
  BY <1>1, <1>3, <1>4, <1>5, <1>6 DEF LM!GiveUp, LM!Enqueue, LM!NotHeld, NotHeld, removeFromWaitQueue

\* The two modules mean the same by a conflict and by a deadlock.
LEMMA SameTests ==
  ASSUME NEW l, NEW q, NEW tid, NEW tag, NEW mode
  PROVE  /\ LM!Conflict(l, tid, tag, mode) <=> Conflict(l, tid, tag, mode)
         /\ LM!hasDeadLock(l, q, tid) <=> hasDeadLock(l, q, tid)
         /\ LM!removeFromWaitQueue(q, tid, tag) = removeFromWaitQueue(q, tid, tag)
<1>1. LM!Conflict(l, tid, tag, mode) <=> Conflict(l, tid, tag, mode)
  BY DEF LM!Conflict, Conflict, LM!isCompatible, isCompatible, LM!NotHeld, NotHeld
<1>2. LM!hasDeadLock(l, q, tid) <=> hasDeadLock(l, q, tid)
  BY DEF LM!hasDeadLock, hasDeadLock, LM!WaitsFor, WaitsFor, LM!NotHeld, NotHeld
<1>3. LM!removeFromWaitQueue(q, tid, tag) = removeFromWaitQueue(q, tid, tag)
  BY DEF LM!removeFromWaitQueue, removeFromWaitQueue
<1> QED
  BY <1>1, <1>2, <1>3

\* The end of a search is the step that LockManager takes at once.
LEMMA RefusedIsLockDeadlock ==
  ASSUME SearchInv, Searching, NEW holder \in Txns, VisitStart(holder)
  PROVE  LM!LockDeadlock(call.tid, call.tag, call.mode)
<1>1. hasDeadLock(locks, waitqueue, call.tid)
  BY StartReached
<1>2. /\ AbsLocks' = locks
      /\ AbsQueue' = removeFromWaitQueue(waitqueue, call.tid, call.tag)
  BY DEF VisitStart, EndSearch, AbsLocks, AbsQueue, Searching
<1>3. Idle(call.tid) /\ call.had # call.mode /\ Conflict(locks, call.tid, call.tag, call.mode)
  BY DEF SearchInv, CallerQueued
<1> QED
  BY <1>1, <1>2, <1>3, CallerBefore, SameTests DEF LM!LockDeadlock, LM!Idle, Idle, VisitStart

\* A search that runs dry is the LockWait step.
LEMMA DryIsLockWait ==
  ASSUME SearchInv, Searching, NoCycle
  PROVE  LM!LockWait(call.tid, call.tag, call.mode)
<1>1. ~hasDeadLock(locks, waitqueue, call.tid)
  BY StartNotReached
<1>2. AbsLocks' = locks /\ AbsQueue' = waitqueue
  BY DEF NoCycle, EndSearch, AbsLocks, AbsQueue, Searching
<1>3. Idle(call.tid) /\ call.had # call.mode /\ Conflict(locks, call.tid, call.tag, call.mode)
  BY DEF SearchInv, CallerQueued
<1> QED
  BY <1>1, <1>2, <1>3, CallerBefore, SameTests DEF LM!LockWait, LM!Idle, Idle, NoCycle

\* The start of a search does not show.
LEMMA SearchStartHidden ==
  ASSUME SearchInv, ~Searching, NEW tid \in Txns, NEW tag \in Tags, NEW mode \in Modes,
         LockSearch(tid, tag, mode)
  PROVE  UNCHANGED LM!vars
<1> USE DEF SearchInv, SearchTypeOK
<1>1. /\ Searching'
      /\ call'.tid = tid /\ call'.tag = tag /\ call'.had = locks[tag][tid]
  BY CallAssumption DEF LockSearch, Searching, Calls, TypeOK
<1>2. AbsLocks = locks /\ AbsQueue = waitqueue
  BY DEF AbsLocks, AbsQueue
<1>3. AbsLocks' = locks
  <2>1. AbsLocks' = [locks' EXCEPT ![tag][tid] = locks[tag][tid]]
    BY <1>1 DEF AbsLocks
  <2> QED
    BY <2>1 DEF LockSearch, GiveUp, TypeOK
<1>4. AbsQueue' = waitqueue
  <2>1. tid \notin waitqueue[tag]
    BY DEF QueuedWaits, LockSearch
  <2>2. AbsQueue' = [waitqueue' EXCEPT ![tag] = @ \ {tid}]
    BY <1>1 DEF AbsQueue, removeFromWaitQueue
  <2> QED
    BY <2>1, <2>2 DEF LockSearch, Enqueue, TypeOK
<1> QED
  BY <1>2, <1>3, <1>4 DEF LM!vars, LockSearch

\* A call that does not search is the same call of LockManager.
LEMMA DirectIsStep ==
  ASSUME SearchInv, ~Searching, NEW tid \in Txns, Direct(tid)
  PROVE  LM!Next \/ UNCHANGED LM!vars
<1>1. /\ AbsLocks = locks /\ AbsQueue = waitqueue
      /\ AbsLocks' = locks' /\ AbsQueue' = waitqueue'
  BY DEF Direct, searchVars, AbsLocks, AbsQueue, Searching
<1>2. CASE UNCHANGED vars
  BY <1>1, <1>2 DEF vars, LM!vars
<1>3. ASSUME NEW tag \in Tags, NEW mode \in Modes, LockGrant(tid, tag, mode)
      PROVE  LM!LockGrant(tid, tag, mode)
  BY <1>1, <1>3 DEF LockGrant, LM!LockGrant, Idle, LM!Idle, Conflict, LM!Conflict, GiveUp, LM!GiveUp,
     isCompatible, LM!isCompatible, NotHeld, LM!NotHeld
<1>4. ASSUME NEW tag \in Tags, UnlockHeld(tid, tag)
      PROVE  LM!UnlockHeld(tid, tag)
  BY <1>1, <1>4 DEF UnlockHeld, LM!UnlockHeld, Idle, LM!Idle, NotHeld, LM!NotHeld
<1>5. ASSUME WakeGrant(tid)
      PROVE  LM!WakeGrant(tid)
  BY <1>1, <1>5 DEF WakeGrant, LM!WakeGrant, Idle, LM!Idle, Conflict, LM!Conflict,
     isCompatible, LM!isCompatible, NotHeld, LM!NotHeld, removeFromWaitQueue, LM!removeFromWaitQueue
<1>6. ASSUME WakeRetry(tid)
      PROVE  LM!WakeRetry(tid)
  BY <1>1, <1>6 DEF WakeRetry, LM!WakeRetry, Idle, LM!Idle, Conflict, LM!Conflict,
     isCompatible, LM!isCompatible, NotHeld, LM!NotHeld
<1> QED
  BY <1>2, <1>3, <1>4, <1>5, <1>6
     DEF Direct, LockSame, Unlock, UnlockNotFound, Wake, LM!Next, LM!Lock, LM!Unlock, LM!Wake

\* Every step of the search is a lock-manager step or a stutter.
LEMMA RefinementStep == SearchInv /\ [SearchNext]_fineVars => [LM!Next]_(LM!vars)
<1> SUFFICES ASSUME SearchInv, [SearchNext]_fineVars
             PROVE  LM!Next \/ UNCHANGED LM!vars
  OBVIOUS
<1>1. CASE ~Searching /\ SearchNext
  BY <1>1, DirectIsStep, SearchStartHidden DEF SearchNext
<1>2. ASSUME Searching, NEW holder \in Txns, VisitStart(holder)
      PROVE  LM!Next
  BY <1>2, RefusedIsLockDeadlock, CallerBefore DEF LM!Next, LM!Lock
<1>3. ASSUME Searching, NoCycle
      PROVE  LM!Next
  BY <1>3, DryIsLockWait, CallerBefore DEF LM!Next, LM!Lock
<1>4. CASE UNCHANGED <<vars, call>>
  BY <1>4 DEF vars, LM!vars, AbsLocks, AbsQueue, Searching, removeFromWaitQueue
<1>5. CASE Searching /\ SearchNext
  BY <1>2, <1>3, <1>4, <1>5 DEF SearchNext, Dfs, VisitNew, VisitSeen, Backtrack
<1> QED
  BY <1>1, <1>4, <1>5 DEF fineVars, searchVars

\* dfs decides what LockManager asks: seen from outside lm.mu, a Lock that
\* searches is one LockDeadlock or LockWait step, and every other step of the
\* search is invisible.
THEOREM SearchImplements == SearchSpec => ImplementsLockManager
<1>1. SearchInit => LM!Init
  BY DEF SearchInit, Init, LM!Init, AbsLocks, AbsQueue, Searching, NotHeld, LM!NotHeld
<1> QED
  BY <1>1, RefinementStep, SearchInvariant, PTL DEF SearchSpec, ImplementsLockManager, LM!Spec
=============================================================================
