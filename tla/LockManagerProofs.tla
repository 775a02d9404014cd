------------------------- MODULE LockManagerProofs -------------------------
(* Theorems about LockManager, for every set of transactions, tags and modes. *)
EXTENDS LockManager, TLAPS

USE ModesAssumption, RequestAssumption

\* NotHeld is no lock mode.
LEMMA NotHeldIsNoMode == NotHeld \notin Modes
  BY DEF NotHeld

\* The compatibility matrix of isCompatible is symmetric.
LEMMA CompatibleSymmetric ==
  ASSUME NEW m1, NEW m2, isCompatible(m1, m2)
  PROVE  isCompatible(m2, m1)
  <1>1. {m1, m2} = {m2, m1}
    OBVIOUS
  <1> QED
    BY <1>1 DEF isCompatible

\* Type correctness of the tables that Lock, Unlock and the wait loop maintain.
LEMMA TypeStep == TypeOK /\ [Next]_vars => TypeOK'
  <1> SUFFICES ASSUME TypeOK, [Next]_vars
               PROVE  TypeOK'
    OBVIOUS
  <1> USE DEF TypeOK
  <1>1. ASSUME NEW tid \in Txns, NEW tag \in Tags, NEW mode \in Modes,
               Lock(tid, tag, mode)
        PROVE  TypeOK'
    <2>1. CASE LockSame(tid, tag, mode)
      BY <2>1 DEF LockSame, vars
    <2>2. CASE LockGrant(tid, tag, mode)
      BY <2>2 DEF LockGrant
    <2>3. CASE LockDeadlock(tid, tag, mode)
      BY <2>3 DEF LockDeadlock, GiveUp, Enqueue, removeFromWaitQueue
    <2>4. CASE LockWait(tid, tag, mode)
      BY <2>4 DEF LockWait, GiveUp, Enqueue
    <2> QED
      BY <1>1, <2>1, <2>2, <2>3, <2>4 DEF Lock
  <1>2. ASSUME NEW tid \in Txns, NEW tag \in Tags, Unlock(tid, tag)
        PROVE  TypeOK'
    <2>1. CASE UnlockHeld(tid, tag)
      BY <2>1 DEF UnlockHeld
    <2>2. CASE UnlockNotFound(tid, tag)
      BY <2>2 DEF UnlockNotFound, vars
    <2> QED
      BY <1>2, <2>1, <2>2 DEF Unlock
  <1>3. ASSUME NEW tid \in Txns, Wake(tid)
        PROVE  TypeOK'
    <2>1. request[tid] # NoRequest => request[tid] \in [tag : Tags, mode : Modes]
      OBVIOUS
    <2>2. CASE WakeGrant(tid)
      BY <2>1, <2>2 DEF WakeGrant, Idle, removeFromWaitQueue
    <2>3. CASE WakeRetry(tid)
      BY <2>3 DEF WakeRetry
    <2> QED
      BY <1>3, <2>2, <2>3 DEF Wake
  <1>4. CASE UNCHANGED vars
    BY <1>4 DEF vars
  <1> QED
    BY <1>1, <1>2, <1>3, <1>4 DEF Next

\* Every reachable state of the lock manager is well typed.
THEOREM TypeCorrect == Spec => []TypeOK
  <1>1. Init => TypeOK
    BY DEF Init, TypeOK
  <1> QED
    BY <1>1, TypeStep, PTL DEF Spec
-----------------------------------------------------------------------------
(* Mutual exclusion. *)

\* Entering one mode that conflicts with no other holder keeps the table compatible.
LEMMA GrantKeepsCompatible ==
  ASSUME TypeOK, GrantedCompatible,
         NEW tid \in Txns, NEW tag \in Tags, NEW mode \in Modes,
         \A other \in Txns \ {tid} :
           locks[tag][other] # NotHeld => isCompatible(mode, locks[tag][other]),
         locks' = [locks EXCEPT ![tag][tid] = mode]
  PROVE  GrantedCompatible'
  <1> SUFFICES ASSUME NEW g \in Tags, NEW t1 \in Txns, NEW t2 \in Txns,
                      t1 # t2, locks'[g][t1] # NotHeld, locks'[g][t2] # NotHeld
               PROVE  isCompatible(locks'[g][t1], locks'[g][t2])
    BY DEF GrantedCompatible
  <1>1. locks'[tag][tid] = mode
    BY DEF TypeOK
  <1>2. \A h \in Tags, t \in Txns : (h # tag \/ t # tid) => locks'[h][t] = locks[h][t]
    BY DEF TypeOK
  <1>3. CASE g # tag \/ (t1 # tid /\ t2 # tid)
    BY <1>2, <1>3 DEF GrantedCompatible
  <1>4. CASE g = tag /\ t1 = tid
    BY <1>1, <1>2, <1>4
  <1>5. CASE g = tag /\ t2 = tid
    BY <1>1, <1>2, <1>5, CompatibleSymmetric
  <1> QED
    BY <1>3, <1>4, <1>5

\* Removing an entry keeps the table compatible.
LEMMA RemovalKeepsCompatible ==
  ASSUME TypeOK, GrantedCompatible, NEW tid \in Txns, NEW tag \in Tags,
         locks' = [locks EXCEPT ![tag][tid] = NotHeld]
  PROVE  GrantedCompatible'
  <1>1. \A g \in Tags, t \in Txns : locks'[g][t] # NotHeld => locks'[g][t] = locks[g][t]
    BY DEF TypeOK
  <1> QED
    BY <1>1 DEF GrantedCompatible

\* A request that is pending is a pair of a tag and a mode.
LEMMA PendingIsRequest ==
  ASSUME TypeOK, NEW tid \in Txns, ~Idle(tid)
  PROVE  request[tid].tag \in Tags /\ request[tid].mode \in Modes
  <1>1. request[tid] \in [tag : Tags, mode : Modes]
    BY DEF TypeOK, Idle
  <1> QED
    BY <1>1

\* No step of the lock manager makes two granted modes incompatible.
LEMMA CompatibleStep == TypeOK /\ GrantedCompatible /\ [Next]_vars => GrantedCompatible'
  <1> SUFFICES ASSUME TypeOK, GrantedCompatible, [Next]_vars
               PROVE  GrantedCompatible'
    OBVIOUS
  <1>1. ASSUME NEW tid \in Txns, NEW tag \in Tags, NEW mode \in Modes,
               Lock(tid, tag, mode)
        PROVE  GrantedCompatible'
    <2>1. CASE LockSame(tid, tag, mode)
      BY <2>1 DEF LockSame, vars, GrantedCompatible
    <2>2. CASE LockGrant(tid, tag, mode)
      <3>1. \A other \in Txns \ {tid} : GiveUp(tid, tag)[tag][other] = locks[tag][other]
        BY DEF GiveUp, TypeOK
      <3>2. \A other \in Txns \ {tid} :
              locks[tag][other] # NotHeld => isCompatible(mode, locks[tag][other])
        BY <2>2, <3>1 DEF LockGrant, Conflict
      <3> QED
        BY <2>2, <3>2, GrantKeepsCompatible DEF LockGrant
    <2>3. CASE LockDeadlock(tid, tag, mode)
      BY <2>3, RemovalKeepsCompatible DEF LockDeadlock, GiveUp
    <2>4. CASE LockWait(tid, tag, mode)
      BY <2>4, RemovalKeepsCompatible DEF LockWait, GiveUp
    <2> QED
      BY <1>1, <2>1, <2>2, <2>3, <2>4 DEF Lock
  <1>2. ASSUME NEW tid \in Txns, NEW tag \in Tags, Unlock(tid, tag)
        PROVE  GrantedCompatible'
    <2>1. CASE UnlockHeld(tid, tag)
      BY <2>1, RemovalKeepsCompatible DEF UnlockHeld
    <2>2. CASE UnlockNotFound(tid, tag)
      BY <2>2 DEF UnlockNotFound, vars, GrantedCompatible
    <2> QED
      BY <1>2, <2>1, <2>2 DEF Unlock
  <1>3. ASSUME NEW tid \in Txns, Wake(tid)
        PROVE  GrantedCompatible'
    <2>1. CASE WakeGrant(tid)
      <3> DEFINE req == request[tid]
      <3>1. req.tag \in Tags /\ req.mode \in Modes
        BY <2>1, PendingIsRequest DEF WakeGrant
      <3>2. \A other \in Txns \ {tid} :
              locks[req.tag][other] # NotHeld
                => isCompatible(req.mode, locks[req.tag][other])
        BY <2>1 DEF WakeGrant, Conflict
      <3>3. locks' = [locks EXCEPT ![req.tag][tid] = req.mode]
        BY <2>1 DEF WakeGrant
      <3> HIDE DEF req
      <3> QED
        BY <3>1, <3>2, <3>3, GrantKeepsCompatible
    <2>2. CASE WakeRetry(tid)
      BY <2>2 DEF WakeRetry, GrantedCompatible
    <2> QED
      BY <1>3, <2>1, <2>2 DEF Wake
  <1>4. CASE UNCHANGED vars
    BY <1>4 DEF vars, GrantedCompatible
  <1> QED
    BY <1>1, <1>2, <1>3, <1>4 DEF Next

\* Mutual exclusion: the modes granted on a tag are always pairwise compatible.
THEOREM MutualExclusion == Spec => []GrantedCompatible
  <1>1. Init => GrantedCompatible
    BY DEF Init, GrantedCompatible
  <1> QED
    BY <1>1, CompatibleStep, TypeCorrect, PTL DEF Spec
-----------------------------------------------------------------------------
(* The wait queues. *)

\* Every step keeps the queues equal to the pending requests.
LEMMA QueueStep == TypeOK /\ QueueIsPending /\ [Next]_vars => QueueIsPending'
  <1> SUFFICES ASSUME TypeOK, QueueIsPending, [Next]_vars
               PROVE  QueueIsPending'
    OBVIOUS
  <1> USE DEF QueueIsPending, Idle
  <1>1. ASSUME NEW tid \in Txns, NEW tag \in Tags, NEW mode \in Modes,
               Lock(tid, tag, mode)
        PROVE  QueueIsPending'
    <2>1. CASE LockSame(tid, tag, mode)
      BY <2>1 DEF LockSame, vars
    <2>2. CASE LockGrant(tid, tag, mode)
      BY <2>2 DEF LockGrant
    <2>3. CASE LockDeadlock(tid, tag, mode)
      <3>1. tid \notin waitqueue[tag]
        BY <2>3 DEF LockDeadlock
      <3>2. waitqueue' = waitqueue /\ request' = request
        BY <2>3, <3>1 DEF LockDeadlock, Enqueue, removeFromWaitQueue, TypeOK
      <3> QED
        BY <3>2
    <2>4. CASE LockWait(tid, tag, mode)
      <3>1. [tag |-> tag, mode |-> mode] # NoRequest
        OBVIOUS
      <3>2. /\ request'[tid] = [tag |-> tag, mode |-> mode]
            /\ \A t \in Txns \ {tid} : request'[t] = request[t]
        BY <2>4 DEF LockWait, TypeOK
      <3>3. /\ waitqueue'[tag] = waitqueue[tag] \cup {tid}
            /\ \A g \in Tags \ {tag} : waitqueue'[g] = waitqueue[g]
        BY <2>4 DEF LockWait, Enqueue, TypeOK
      <3>4. \A g \in Tags : tid \notin waitqueue[g]
        BY <2>4 DEF LockWait
      <3> QED
        BY <3>1, <3>2, <3>3, <3>4
    <2> QED
      BY <1>1, <2>1, <2>2, <2>3, <2>4 DEF Lock
  <1>2. ASSUME NEW tid \in Txns, NEW tag \in Tags, Unlock(tid, tag)
        PROVE  QueueIsPending'
    BY <1>2 DEF Unlock, UnlockHeld, UnlockNotFound, vars
  <1>3. ASSUME NEW tid \in Txns, Wake(tid)
        PROVE  QueueIsPending'
    <2>1. CASE WakeGrant(tid)
      <3>1. request[tid].tag \in Tags
        BY <2>1, PendingIsRequest DEF WakeGrant
      <3>2. /\ request'[tid] = NoRequest
            /\ \A t \in Txns \ {tid} : request'[t] = request[t]
        BY <2>1 DEF WakeGrant, TypeOK
      <3>3. /\ waitqueue'[request[tid].tag] = waitqueue[request[tid].tag] \ {tid}
            /\ \A g \in Tags \ {request[tid].tag} : waitqueue'[g] = waitqueue[g]
        BY <2>1, <3>1 DEF WakeGrant, removeFromWaitQueue, TypeOK
      <3> QED
        BY <3>1, <3>2, <3>3
    <2>2. CASE WakeRetry(tid)
      BY <2>2 DEF WakeRetry
    <2> QED
      BY <1>3, <2>1, <2>2 DEF Wake
  <1>4. CASE UNCHANGED vars
    BY <1>4 DEF vars
  <1> QED
    BY <1>1, <1>2, <1>3, <1>4 DEF Next

\* The wait queues are exactly the pending requests.
THEOREM QueuesExact == Spec => []QueueIsPending
  <1>1. Init => QueueIsPending
    BY DEF Init, QueueIsPending, Idle
  <1> QED
    BY <1>1, QueueStep, TypeCorrect, PTL DEF Spec
-----------------------------------------------------------------------------
(* Deadlock freedom.  The waits-for graph changes in three ways. *)

\* (1) Losing edges leaves it free of cycles.
LEMMA FewerEdges ==
  ASSUME NoUndetectedDeadlock,
         \A t \in Txns : WaitsFor(locks, waitqueue, t)' \subseteq WaitsFor(locks, waitqueue, t)
  PROVE  NoUndetectedDeadlock'
  BY DEF NoUndetectedDeadlock

\* (2) New edges that all lead to a transaction that waits for nobody close no cycle.
LEMMA EdgesToRunning ==
  ASSUME NoUndetectedDeadlock, NEW tid \in Txns,
         WaitsFor(locks, waitqueue, tid)' = {},
         \A t \in Txns : WaitsFor(locks, waitqueue, t)'
                            \subseteq WaitsFor(locks, waitqueue, t) \cup {tid}
  PROVE  NoUndetectedDeadlock'
  <1> SUFFICES ASSUME NEW S \in SUBSET Txns, S # {}
               PROVE  \E t \in S : WaitsFor(locks, waitqueue, t)' \cap S = {}
    BY DEF NoUndetectedDeadlock
  <1>1. CASE tid \in S
    BY <1>1
  <1>2. CASE tid \notin S
    <2>1. PICK t \in S : WaitsFor(locks, waitqueue, t) \cap S = {}
      BY DEF NoUndetectedDeadlock
    <2> QED
      BY <1>2, <2>1
  <1> QED
    BY <1>1, <1>2

\* (3) When tid starts to wait and the search from tid does not come back to
\* tid, no cycle is closed: the part of a would-be cycle that is reachable from
\* tid would be a cycle without tid, which was there before.
LEMMA SearchFindsCycle ==
  ASSUME NoUndetectedDeadlock, NEW tid \in Txns,
         ~hasDeadLock(locks, waitqueue, tid)',
         \A t \in Txns \ {tid} : WaitsFor(locks, waitqueue, t)'
                                    \subseteq WaitsFor(locks, waitqueue, t)
  PROVE  NoUndetectedDeadlock'
  <1> DEFINE After(t) == WaitsFor(locks, waitqueue, t)'
  <1>1. PICK R \in SUBSET Txns :
          /\ After(tid) \subseteq R
          /\ \A t \in R : After(t) \subseteq R
          /\ tid \notin R
    BY DEF hasDeadLock
  <1>2. SUFFICES ASSUME NEW S \in SUBSET Txns, S # {},
                        \A t \in S : After(t) \cap S # {}
                 PROVE  FALSE
    BY DEF NoUndetectedDeadlock
  <1>3. \A t \in Txns \ {tid} : After(t) \subseteq WaitsFor(locks, waitqueue, t)
    OBVIOUS
  <1> HIDE DEF After
  <1>4. CASE tid \in S
    <2> DEFINE C == R \cap S
    <2>1. C # {}
      BY <1>1, <1>2, <1>4
    <2>2. \A t \in C : After(t) \cap C # {}
      BY <1>1, <1>2
    <2>3. C \in SUBSET Txns /\ tid \notin C
      BY <1>1
    <2>4. PICK t \in C : WaitsFor(locks, waitqueue, t) \cap C = {}
      BY <2>1, <2>3 DEF NoUndetectedDeadlock
    <2> QED
      BY <1>3, <2>2, <2>3, <2>4
  <1>5. CASE tid \notin S
    <2>1. PICK t \in S : WaitsFor(locks, waitqueue, t) \cap S = {}
      BY <1>2 DEF NoUndetectedDeadlock
    <2> QED
      BY <1>2, <1>3, <1>5, <2>1
  <1> QED
    BY <1>4, <1>5

\* No step of the lock manager closes a cycle of waiting transactions.
LEMMA DeadlockStep ==
  TypeOK /\ QueueIsPending /\ NoUndetectedDeadlock /\ [Next]_vars => NoUndetectedDeadlock'
  <1> SUFFICES ASSUME TypeOK, QueueIsPending, NoUndetectedDeadlock, [Next]_vars
               PROVE  NoUndetectedDeadlock'
    OBVIOUS
  <1>0. QueueIsPending'
    BY QueueStep
  <1>1. ASSUME NEW tid \in Txns, NEW tag \in Tags, NEW mode \in Modes,
               Lock(tid, tag, mode)
        PROVE  NoUndetectedDeadlock'
    <2>1. CASE LockSame(tid, tag, mode)
      <3>1. UNCHANGED <<locks, waitqueue>>
        BY <2>1 DEF LockSame, vars
      <3> QED
        BY <3>1, FewerEdges DEF WaitsFor
    <2>2. CASE LockGrant(tid, tag, mode)
      <3>1. Idle(tid)'
        BY <2>2 DEF LockGrant, Idle
      <3>2. WaitsFor(locks, waitqueue, tid)' = {}
        BY <1>0, <3>1 DEF QueueIsPending, WaitsFor
      <3>3. \A g \in Tags, t \in Txns \ {tid} : locks'[g][t] = locks[g][t]
        BY <2>2 DEF LockGrant, TypeOK
      <3>4. waitqueue' = waitqueue
        BY <2>2 DEF LockGrant
      <3>5. \A t \in Txns : WaitsFor(locks, waitqueue, t)'
                               \subseteq WaitsFor(locks, waitqueue, t) \cup {tid}
        BY <3>3, <3>4 DEF WaitsFor
      <3> QED
        BY <3>2, <3>5, EdgesToRunning
    <2>3. CASE LockDeadlock(tid, tag, mode)
      <3>1. \A g \in Tags, t \in Txns : locks'[g][t] # NotHeld => locks[g][t] # NotHeld
        BY <2>3 DEF LockDeadlock, GiveUp, TypeOK
      <3>2. \A g \in Tags : waitqueue'[g] \subseteq waitqueue[g]
        BY <2>3 DEF LockDeadlock, Enqueue, removeFromWaitQueue, TypeOK
      <3>3. \A t \in Txns : WaitsFor(locks, waitqueue, t)' \subseteq WaitsFor(locks, waitqueue, t)
        BY <3>1, <3>2 DEF WaitsFor
      <3> QED
        BY <3>3, FewerEdges
    <2>4. CASE LockWait(tid, tag, mode)
      <3>1. ~hasDeadLock(locks, waitqueue, tid)'
        BY <2>4 DEF LockWait, hasDeadLock, WaitsFor
      <3>2. \A g \in Tags, t \in Txns : locks'[g][t] # NotHeld => locks[g][t] # NotHeld
        BY <2>4 DEF LockWait, GiveUp, TypeOK
      <3>3. \A g \in Tags : waitqueue'[g] \subseteq waitqueue[g] \cup {tid}
        BY <2>4 DEF LockWait, Enqueue, TypeOK
      <3>4. \A t \in Txns \ {tid} : WaitsFor(locks, waitqueue, t)'
                                      \subseteq WaitsFor(locks, waitqueue, t)
        BY <3>2, <3>3 DEF WaitsFor
      <3> QED
        BY <3>1, <3>4, SearchFindsCycle
    <2> QED
      BY <1>1, <2>1, <2>2, <2>3, <2>4 DEF Lock
  <1>2. ASSUME NEW tid \in Txns, NEW tag \in Tags, Unlock(tid, tag)
        PROVE  NoUndetectedDeadlock'
    <2>1. \A g \in Tags, t \in Txns : locks'[g][t] # NotHeld => locks[g][t] # NotHeld
      BY <1>2 DEF Unlock, UnlockHeld, UnlockNotFound, vars, TypeOK
    <2>2. waitqueue' = waitqueue
      BY <1>2 DEF Unlock, UnlockHeld, UnlockNotFound, vars
    <2>3. \A t \in Txns : WaitsFor(locks, waitqueue, t)' \subseteq WaitsFor(locks, waitqueue, t)
      BY <2>1, <2>2 DEF WaitsFor
    <2> QED
      BY <2>3, FewerEdges
  <1>3. ASSUME NEW tid \in Txns, Wake(tid)
        PROVE  NoUndetectedDeadlock'
    <2>1. CASE WakeGrant(tid)
      <3>1. request[tid].tag \in Tags
        BY <2>1, PendingIsRequest DEF WakeGrant
      <3>2. Idle(tid)'
        BY <2>1 DEF WakeGrant, Idle, TypeOK
      <3>3. WaitsFor(locks, waitqueue, tid)' = {}
        BY <1>0, <3>2 DEF QueueIsPending, WaitsFor
      <3>4. \A g \in Tags, t \in Txns \ {tid} : locks'[g][t] = locks[g][t]
        BY <2>1, <3>1 DEF WakeGrant, TypeOK
      <3>5. \A g \in Tags : waitqueue'[g] \subseteq waitqueue[g]
        BY <2>1, <3>1 DEF WakeGrant, removeFromWaitQueue, TypeOK
      <3>6. \A t \in Txns : WaitsFor(locks, waitqueue, t)'
                               \subseteq WaitsFor(locks, waitqueue, t) \cup {tid}
        BY <3>4, <3>5 DEF WaitsFor
      <3> QED
        BY <3>3, <3>6, EdgesToRunning
    <2>2. CASE WakeRetry(tid)
      <3>1. UNCHANGED <<locks, waitqueue>>
        BY <2>2 DEF WakeRetry
      <3> QED
        BY <3>1, FewerEdges DEF WaitsFor
    <2> QED
      BY <1>3, <2>1, <2>2 DEF Wake
  <1>4. CASE UNCHANGED vars
    <2>1. UNCHANGED <<locks, waitqueue>>
      BY <1>4 DEF vars
    <2> QED
      BY <2>1, FewerEdges DEF WaitsFor
  <1> QED
    BY <1>1, <1>2, <1>3, <1>4 DEF Next

\* Deadlock freedom: at no time does a set of transactions wait only for itself.
THEOREM DeadlockFree == Spec => []NoUndetectedDeadlock
  <1>1. Init => NoUndetectedDeadlock
    BY DEF Init, NoUndetectedDeadlock, WaitsFor
  <1> QED
    BY <1>1, DeadlockStep, QueuesExact, TypeCorrect, PTL DEF Spec
-----------------------------------------------------------------------------
(* Wake-ups. *)

\* A conflict is with some other holder.
LEMMA ConflictHasHolder ==
  ASSUME NEW table, NEW tid, NEW tag, NEW mode, Conflict(table, tid, tag, mode)
  PROVE  \E other \in Txns \ {tid} : table[tag][other] # NotHeld
  BY DEF Conflict

\* Every step keeps a waiting transaction off the tag it waits for.
LEMMA WaiterStep == TypeOK /\ WaiterHoldsNothing /\ [Next]_vars => WaiterHoldsNothing'
  <1> SUFFICES ASSUME TypeOK, WaiterHoldsNothing, [Next]_vars
               PROVE  WaiterHoldsNothing'
    OBVIOUS
  <1>0. ASSUME NEW t \in Txns, ~Idle(t)
        PROVE  request[t].tag \in Tags /\ locks[request[t].tag][t] = NotHeld
    BY <1>0, PendingIsRequest DEF WaiterHoldsNothing
  <1>1. ASSUME NEW tid \in Txns, NEW tag \in Tags, NEW mode \in Modes,
               Lock(tid, tag, mode)
        PROVE  WaiterHoldsNothing'
    <2>1. CASE LockSame(tid, tag, mode)
      BY <2>1 DEF LockSame, vars, WaiterHoldsNothing, Idle
    <2>2. CASE LockGrant(tid, tag, mode)
      <3>1. \A g \in Tags, t \in Txns \ {tid} : locks'[g][t] = locks[g][t]
        BY <2>2 DEF LockGrant, TypeOK
      <3> QED
        BY <1>0, <2>2, <3>1 DEF LockGrant, WaiterHoldsNothing, Idle
    <2>3. CASE LockDeadlock(tid, tag, mode)
      <3>1. \A g \in Tags, t \in Txns : locks[g][t] = NotHeld => locks'[g][t] = NotHeld
        BY <2>3 DEF LockDeadlock, GiveUp, TypeOK
      <3> QED
        BY <1>0, <2>3, <3>1 DEF LockDeadlock, WaiterHoldsNothing, Idle
    <2>4. CASE LockWait(tid, tag, mode)
      <3>1. \A g \in Tags, t \in Txns : locks[g][t] = NotHeld => locks'[g][t] = NotHeld
        BY <2>4 DEF LockWait, GiveUp, TypeOK
      <3>2. locks'[tag][tid] = NotHeld
        BY <2>4 DEF LockWait, GiveUp, TypeOK
      <3>3. /\ request'[tid] = [tag |-> tag, mode |-> mode]
            /\ \A t \in Txns \ {tid} : request'[t] = request[t]
        BY <2>4 DEF LockWait, TypeOK
      <3> QED
        BY <1>0, <3>1, <3>2, <3>3 DEF WaiterHoldsNothing, Idle
    <2> QED
      BY <1>1, <2>1, <2>2, <2>3, <2>4 DEF Lock
  <1>2. ASSUME NEW tid \in Txns, NEW tag \in Tags, Unlock(tid, tag)
        PROVE  WaiterHoldsNothing'
    <2>1. \A g \in Tags, t \in Txns : locks[g][t] = NotHeld => locks'[g][t] = NotHeld
      BY <1>2 DEF Unlock, UnlockHeld, UnlockNotFound, vars, TypeOK
    <2>2. request' = request
      BY <1>2 DEF Unlock, UnlockHeld, UnlockNotFound, vars
    <2> QED
      BY <1>0, <2>1, <2>2 DEF WaiterHoldsNothing, Idle
  <1>3. ASSUME NEW tid \in Txns, Wake(tid)
        PROVE  WaiterHoldsNothing'
    <2>1. CASE WakeGrant(tid)
      <3>1. request[tid].tag \in Tags
        BY <1>0, <2>1 DEF WakeGrant
      <3>2. \A g \in Tags, t \in Txns \ {tid} : locks'[g][t] = locks[g][t]
        BY <2>1, <3>1 DEF WakeGrant, TypeOK
      <3>3. /\ request'[tid] = NoRequest
            /\ \A t \in Txns \ {tid} : request'[t] = request[t]
        BY <2>1 DEF WakeGrant, TypeOK
      <3> QED
        BY <1>0, <3>2, <3>3 DEF WaiterHoldsNothing, Idle
    <2>2. CASE WakeRetry(tid)
      BY <2>2 DEF WakeRetry, WaiterHoldsNothing, Idle
    <2> QED
      BY <1>3, <2>1, <2>2 DEF Wake
  <1>4. CASE UNCHANGED vars
    BY <1>4 DEF vars, WaiterHoldsNothing, Idle
  <1> QED
    BY <1>1, <1>2, <1>3, <1>4 DEF Next

\* A transaction that waits to upgrade a lock no longer holds it.
THEOREM WaitersGaveUp == Spec => []WaiterHoldsNothing
  <1>1. Init => WaiterHoldsNothing
    BY DEF Init, WaiterHoldsNothing, Idle
  <1> QED
    BY <1>1, WaiterStep, TypeCorrect, PTL DEF Spec

\* Every step leaves each suspended transaction a holder of its tag.
LEMMA SleeperStep ==
  TypeOK /\ QueueIsPending /\ WaiterHoldsNothing /\ SleeperHasHolder /\ [Next]_vars
    => SleeperHasHolder'
  <1> SUFFICES ASSUME TypeOK, QueueIsPending, WaiterHoldsNothing, SleeperHasHolder,
                      [Next]_vars
               PROVE  SleeperHasHolder'
    OBVIOUS
  <1>0. ASSUME NEW t \in asleep
        PROVE  /\ t \in Txns /\ ~Idle(t) /\ request[t].tag \in Tags
               /\ \E other \in Txns \ {t} : locks[request[t].tag][other] # NotHeld
    BY PendingIsRequest DEF SleeperHasHolder, TypeOK
  <1>1. ASSUME NEW tid \in Txns, NEW tag \in Tags, NEW mode \in Modes,
               Lock(tid, tag, mode)
        PROVE  SleeperHasHolder'
    <2>1. CASE LockSame(tid, tag, mode)
      BY <2>1 DEF LockSame, vars, SleeperHasHolder, Idle
    <2>2. CASE LockGrant(tid, tag, mode)
      <3>1. \A g \in Tags, t \in Txns : locks[g][t] # NotHeld => locks'[g][t] # NotHeld
        BY <2>2, NotHeldIsNoMode DEF LockGrant, TypeOK
      <3> QED
        BY <1>0, <2>2, <3>1 DEF LockGrant, SleeperHasHolder, Idle
    <2>3. ASSUME Conflict(GiveUp(tid, tag), tid, tag, mode), locks' = GiveUp(tid, tag), Idle(tid),
                 NEW t \in asleep
          PROVE  \E other \in Txns \ {t} : locks'[request[t].tag][other] # NotHeld
      <3>1. PICK other \in Txns \ {tid} : GiveUp(tid, tag)[tag][other] # NotHeld
        BY <2>3, ConflictHasHolder
      <3>2. \A g \in Tags : g # tag => locks'[g] = locks[g]
        BY <2>3 DEF GiveUp, TypeOK
      <3>3. \A u \in Txns \ {tid} : locks'[tag][u] = locks[tag][u]
        BY <2>3 DEF GiveUp, TypeOK
      <3>4. t # tid
        BY <1>0, <2>3
      <3>5. CASE request[t].tag # tag
        BY <1>0, <3>2, <3>5
      <3>6. CASE request[t].tag = tag /\ other # t
        BY <2>3, <3>1, <3>6
      <3>7. CASE request[t].tag = tag /\ other = t
        BY <1>0, <2>3, <3>1, <3>3, <3>7 DEF WaiterHoldsNothing
      <3> QED
        BY <3>5, <3>6, <3>7
    <2>4. CASE LockDeadlock(tid, tag, mode)
      BY <1>0, <2>3, <2>4 DEF LockDeadlock, SleeperHasHolder, Idle
    <2>5. CASE LockWait(tid, tag, mode)
      <3>1. Conflict(GiveUp(tid, tag), tid, tag, mode) /\ locks' = GiveUp(tid, tag) /\ Idle(tid)
        BY <2>5 DEF LockWait
      <3>2. /\ request'[tid] = [tag |-> tag, mode |-> mode]
            /\ \A t \in Txns \ {tid} : request'[t] = request[t]
            /\ asleep' = asleep \cup {tid}
        BY <2>5 DEF LockWait, TypeOK
      <3>3. \E other \in Txns \ {tid} : locks'[tag][other] # NotHeld
        BY <3>1, ConflictHasHolder
      <3>4. [tag |-> tag, mode |-> mode] # NoRequest
        OBVIOUS
      <3> QED
        BY <1>0, <2>3, <3>1, <3>2, <3>3, <3>4 DEF SleeperHasHolder, Idle
    <2> QED
      BY <1>1, <2>1, <2>2, <2>4, <2>5 DEF Lock
  <1>2. ASSUME NEW tid \in Txns, NEW tag \in Tags, Unlock(tid, tag)
        PROVE  SleeperHasHolder'
    <2>1. CASE UnlockHeld(tid, tag)
      <3>1. CASE waitqueue[tag] # {}
        BY <2>1, <3>1 DEF UnlockHeld, SleeperHasHolder
      <3>2. CASE waitqueue[tag] = {}
        <4>1. asleep' = asleep /\ request' = request
          BY <2>1, <3>2 DEF UnlockHeld
        <4>2. \A t \in asleep : request[t].tag # tag
          BY <1>0, <3>2 DEF QueueIsPending
        <4>3. \A g \in Tags : g # tag => locks'[g] = locks[g]
          BY <2>1 DEF UnlockHeld, TypeOK
        <4> QED
          BY <1>0, <4>1, <4>2, <4>3 DEF SleeperHasHolder, Idle
      <3> QED
        BY <3>1, <3>2
    <2>2. CASE UnlockNotFound(tid, tag)
      BY <2>2 DEF UnlockNotFound, vars, SleeperHasHolder, Idle
    <2> QED
      BY <1>2, <2>1, <2>2 DEF Unlock
  <1>3. ASSUME NEW tid \in Txns, Wake(tid)
        PROVE  SleeperHasHolder'
    <2>1. CASE WakeGrant(tid)
      <3>1. request[tid].tag \in Tags /\ request[tid].mode \in Modes
        BY <2>1, PendingIsRequest DEF WakeGrant
      <3>2. \A g \in Tags, t \in Txns : locks[g][t] # NotHeld => locks'[g][t] # NotHeld
        BY <2>1, <3>1, NotHeldIsNoMode DEF WakeGrant, TypeOK
      <3>3. /\ asleep' = asleep /\ tid \notin asleep
            /\ \A t \in Txns \ {tid} : request'[t] = request[t]
        BY <2>1 DEF WakeGrant, TypeOK
      <3> QED
        BY <1>0, <3>2, <3>3 DEF SleeperHasHolder, Idle
    <2>2. CASE WakeRetry(tid)
      <3>1. /\ locks' = locks /\ request' = request
            /\ ~Idle(tid)
            /\ asleep' = asleep \cup {tid}
        BY <2>2 DEF WakeRetry
      <3>2. \E other \in Txns \ {tid} : locks[request[tid].tag][other] # NotHeld
        BY <2>2, ConflictHasHolder DEF WakeRetry
      <3> QED
        BY <1>0, <3>1, <3>2 DEF SleeperHasHolder, Idle
    <2> QED
      BY <1>3, <2>1, <2>2 DEF Wake
  <1>4. CASE UNCHANGED vars
    BY <1>4 DEF vars, SleeperHasHolder, Idle
  <1> QED
    BY <1>1, <1>2, <1>3, <1>4 DEF Next

\* No lost wake-up: a suspended transaction always has a holder of its tag,
\* whose Unlock will broadcast.
THEOREM NoLostWakeup == Spec => []SleeperHasHolder
  <1>1. Init => SleeperHasHolder
    BY DEF Init, SleeperHasHolder
  <1> QED
    BY <1>1, SleeperStep, WaitersGaveUp, QueuesExact, TypeCorrect, PTL DEF Spec
=============================================================================
