---------------------------- MODULE LockManager ----------------------------
(***************************************************************************)
(* The lock manager of transaction/lock.go: a table of granted locks, a    *)
(* wait queue per lock tag and one condition variable shared by all tags.  *)
(*                                                                         *)
(* Every call runs under lm.mu, so a call is one atomic step up to the     *)
(* point where it returns or suspends in lm.cond.Wait().  A transaction    *)
(* that suspends is in asleep; a Broadcast empties asleep, and each woken  *)
(* transaction re-enters the critical section in a step of its own.        *)
(*                                                                         *)
(* Each transaction is driven by one goroutine: it issues no call while    *)
(* its previous Lock is still waiting.                                     *)
(***************************************************************************)

CONSTANTS
  Txns,      \* transaction identifiers
  Tags,      \* lock tags: tables and tuples
  Modes,     \* the lock modes that clients request
  NoRequest  \* not a request

ASSUME ModesAssumption == Modes \subseteq {"S", "X", "IS", "IX", "SIX"}
ASSUME RequestAssumption == NoRequest \notin [tag : Tags, mode : Modes]

VARIABLES
  locks,      \* locks[tag][tid]: the granted mode, or NotHeld
  waitqueue,  \* waitqueue[tag]: the transactions queued on tag
  request,    \* request[tid]: what the Lock call that waits asked for, or NoRequest
  asleep      \* the transactions suspended in lm.cond.Wait()

vars == <<locks, waitqueue, request, asleep>>

NotHeld == "none"

\* The lock table, the wait queues and the waiting calls are well formed.
TypeOK ==
  /\ locks \in [Tags -> [Txns -> Modes \cup {NotHeld}]]
  /\ waitqueue \in [Tags -> SUBSET Txns]
  /\ request \in [Txns -> [tag : Tags, mode : Modes] \cup {NoRequest}]
  /\ asleep \in SUBSET Txns
-----------------------------------------------------------------------------
\* Variant: S is taken to be compatible with IX.
isCompatibleLoose(requestedMode, existingMode) ==
  LET pair == {requestedMode, existingMode}
  IN  /\ "X" \notin pair
      /\ "S" \in pair => pair \subseteq {"S", "IS", "IX", "SIX"}
      /\ "SIX" \in pair => pair \in {{"SIX", "IS"}, {"SIX", "S"}}

\* isCompatible is symmetric, so it is stated on the pair of modes.
isCompatible(requestedMode, existingMode) ==
  LET pair == {requestedMode, existingMode}
  IN  /\ "X" \notin pair
      /\ "S" \in pair => pair \subseteq {"S", "IS", "SIX"}
      /\ "IX" \in pair => pair \subseteq {"IS", "IX"}
      /\ "SIX" \in pair => pair \in {{"SIX", "IS"}, {"SIX", "S"}}

\* The loop over the other holders of a tag that sets the local conflict.
Conflict(table, tid, tag, mode) ==
  \E other \in Txns \ {tid} :
    /\ table[tag][other] # NotHeld
    /\ ~isCompatible(mode, table[tag][other])

\* The successors dfs visits from currentId: every other holder of every tag
\* it is queued on, whatever the modes are.
WaitsFor(table, queue, currentId) ==
  {holder \in Txns \ {currentId} :
     \E tag \in Tags : currentId \in queue[tag] /\ table[tag][holder] # NotHeld}

\* Variant: only cycles of two transactions are seen.
hasDeadLockDirect(table, queue, startID) ==
  \E tid \in WaitsFor(table, queue, startID) : startID \in WaitsFor(table, queue, tid)

\* dfs answers TRUE exactly when it gets back to startID: startID is in every
\* set that holds its successors and is closed under the successor relation.
\* DeadlockSearch.tla is the search itself, step by step.
hasDeadLock(table, queue, startID) ==
  \A R \in SUBSET Txns :
    (/\ WaitsFor(table, queue, startID) \subseteq R
     /\ \A tid \in R : WaitsFor(table, queue, tid) \subseteq R)
    => startID \in R

\* Variant: the queue entry stays.
removeNothing(queue, tid, tag) == queue

removeFromWaitQueue(queue, tid, tag) == [queue EXCEPT ![tag] = @ \ {tid}]
-----------------------------------------------------------------------------
Init ==
  /\ locks = [tag \in Tags |-> [tid \in Txns |-> NotHeld]]
  /\ waitqueue = [tag \in Tags |-> {}]
  /\ request = [tid \in Txns |-> NoRequest]
  /\ asleep = {}

Idle(tid) == request[tid] = NoRequest

\* A lock held in another mode is given up before the new mode is considered.
GiveUp(tid, tag) == [locks EXCEPT ![tag][tid] = NotHeld]

Enqueue(tid, tag) == [waitqueue EXCEPT ![tag] = @ \cup {tid}]

\* Lock finds the requested mode already granted, and returns nil.
LockSame(tid, tag, mode) ==
  /\ Idle(tid)
  /\ locks[tag][tid] = mode
  /\ UNCHANGED vars

\* Lock meets no conflict and grants the mode.
LockGrant(tid, tag, mode) ==
  /\ Idle(tid)
  /\ locks[tag][tid] # mode
  /\ ~Conflict(GiveUp(tid, tag), tid, tag, mode)
  /\ locks' = [locks EXCEPT ![tag][tid] = mode]
  /\ UNCHANGED <<waitqueue, request, asleep>>

\* Lock meets a conflict, finds that waiting closes a cycle, leaves the queue
\* again and returns DeadlockError.  The lock given up is not restored.
LockDeadlock(tid, tag, mode) ==
  /\ Idle(tid)
  /\ locks[tag][tid] # mode
  /\ Conflict(GiveUp(tid, tag), tid, tag, mode)
  /\ hasDeadLock(GiveUp(tid, tag), Enqueue(tid, tag), tid)
  /\ locks' = GiveUp(tid, tag)
  /\ waitqueue' = removeFromWaitQueue(Enqueue(tid, tag), tid, tag)
  /\ UNCHANGED <<request, asleep>>

\* Lock meets a conflict, finds no cycle and suspends in cond.Wait.
LockWait(tid, tag, mode) ==
  /\ Idle(tid)
  /\ locks[tag][tid] # mode
  /\ Conflict(GiveUp(tid, tag), tid, tag, mode)
  /\ ~hasDeadLock(GiveUp(tid, tag), Enqueue(tid, tag), tid)
  /\ locks' = GiveUp(tid, tag)
  /\ waitqueue' = Enqueue(tid, tag)
  /\ request' = [request EXCEPT ![tid] = [tag |-> tag, mode |-> mode]]
  /\ asleep' = asleep \cup {tid}

Lock(tid, tag, mode) ==
  \/ LockSame(tid, tag, mode)
  \/ LockGrant(tid, tag, mode)
  \/ LockDeadlock(tid, tag, mode)
  \/ LockWait(tid, tag, mode)

\* Variant: the conflict is not looked for again after cond.Wait.
WakeGrantUnchecked(tid) ==
  LET req == request[tid]
  IN  /\ ~Idle(tid)
      /\ tid \notin asleep
      /\ waitqueue' = removeFromWaitQueue(waitqueue, tid, req.tag)
      /\ locks' = [locks EXCEPT ![req.tag][tid] = req.mode]
      /\ request' = [request EXCEPT ![tid] = NoRequest]
      /\ UNCHANGED asleep

\* cond.Wait returns: the loop finds no conflict left, and Lock is granted.
WakeGrant(tid) ==
  LET req == request[tid]
  IN  /\ ~Idle(tid)
      /\ tid \notin asleep
      /\ ~Conflict(locks, tid, req.tag, req.mode)
      /\ waitqueue' = removeFromWaitQueue(waitqueue, tid, req.tag)
      /\ locks' = [locks EXCEPT ![req.tag][tid] = req.mode]
      /\ request' = [request EXCEPT ![tid] = NoRequest]
      /\ UNCHANGED asleep

\* cond.Wait returns: the loop finds a conflict and waits again.
WakeRetry(tid) ==
  LET req == request[tid]
  IN  /\ ~Idle(tid)
      /\ tid \notin asleep
      /\ Conflict(locks, tid, req.tag, req.mode)
      /\ asleep' = asleep \cup {tid}
      /\ UNCHANGED <<locks, waitqueue, request>>

Wake(tid) == WakeGrant(tid) \/ WakeRetry(tid)

\* Variant: no one is woken.
UnlockHeldSilent(tid, tag) ==
  /\ Idle(tid)
  /\ locks[tag][tid] # NotHeld
  /\ locks' = [locks EXCEPT ![tag][tid] = NotHeld]
  /\ UNCHANGED <<waitqueue, request, asleep>>

\* Variant: Signal in place of Broadcast wakes one sleeper, of whatever tag.
UnlockHeldSignal(tid, tag) ==
  /\ Idle(tid)
  /\ locks[tag][tid] # NotHeld
  /\ locks' = [locks EXCEPT ![tag][tid] = NotHeld]
  /\ \/ waitqueue[tag] # {} /\ \E woken \in asleep : asleep' = asleep \ {woken}
     \/ (waitqueue[tag] = {} \/ asleep = {}) /\ UNCHANGED asleep
  /\ UNCHANGED <<waitqueue, request>>

\* Unlock of a lock that is held: it broadcasts when the tag has waiters.
UnlockHeld(tid, tag) ==
  /\ Idle(tid)
  /\ locks[tag][tid] # NotHeld
  /\ locks' = [locks EXCEPT ![tag][tid] = NotHeld]
  /\ asleep' = IF waitqueue[tag] # {} THEN {} ELSE asleep
  /\ UNCHANGED <<waitqueue, request>>

\* Unlock of a lock that is not held returns LockNotFoundError.
UnlockNotFound(tid, tag) ==
  /\ Idle(tid)
  /\ locks[tag][tid] = NotHeld
  /\ UNCHANGED vars

Unlock(tid, tag) == UnlockHeld(tid, tag) \/ UnlockNotFound(tid, tag)

Next ==
  \E tid \in Txns :
    \/ \E tag \in Tags, mode \in Modes : Lock(tid, tag, mode)
    \/ \E tag \in Tags : Unlock(tid, tag)
    \/ Wake(tid)

Spec == Init /\ [][Next]_vars
-----------------------------------------------------------------------------
(***************************************************************************)
(* Safety.                                                                 *)
(***************************************************************************)

\* Two transactions never hold incompatible modes on one tag, whatever
\* sequence of grants, upgrades, late wake-ups and newcomers led here.
GrantedCompatible ==
  \A tag \in Tags : \A t1, t2 \in Txns :
    (t1 # t2 /\ locks[tag][t1] # NotHeld /\ locks[tag][t2] # NotHeld)
      => isCompatible(locks[tag][t1], locks[tag][t2])

\* The wait queues hold exactly the transactions whose Lock call waits, each on
\* the one tag it waits for: dfs never follows a stale edge or misses one.
QueueIsPending ==
  \A tid \in Txns, tag \in Tags :
    tid \in waitqueue[tag] <=> (~Idle(tid) /\ request[tid].tag = tag)

\* No set of transactions is waiting only on itself.  The cycle check runs
\* once, when a transaction starts to wait; grants made later add edges to the
\* waits-for graph and must not close a cycle behind its back.
NoUndetectedDeadlock ==
  \A S \in SUBSET Txns :
    S # {} => \E tid \in S : WaitsFor(locks, waitqueue, tid) \cap S = {}

\* A transaction that waits for a tag holds nothing on that tag: Lock gave up
\* the weaker mode before queueing, so no waiter waits for another waiter's
\* leftover entry.
WaiterHoldsNothing ==
  \A tid \in Txns : ~Idle(tid) => locks[request[tid].tag][tid] = NotHeld

\* A suspended transaction always has a holder of its tag left to wait for, so
\* an Unlock that broadcasts is still to come: although Lock drops and changes
\* entries without a Broadcast, no wake-up is lost.
SleeperHasHolder ==
  \A tid \in asleep :
    /\ ~Idle(tid)
    /\ \E other \in Txns \ {tid} : locks[request[tid].tag][other] # NotHeld
=============================================================================
