-------------------------- MODULE DeadlockSearch ---------------------------
(***************************************************************************)
(* The lock manager with hasDeadLock taken apart: Lock releases the mode   *)
(* it converts, enters the wait queue and runs dfs call by call, all under *)
(* lm.mu, before it suspends or gives up.  LockManager.tla does this in    *)
(* one step, by reachability; this module implements it.                   *)
(*                                                                         *)
(* The recursion of dfs is a stack of transactions.  pending[tid] holds    *)
(* the holders that the loops of tid's activation have still to visit;     *)
(* they range over maps, so they are visited in any order.                 *)
(***************************************************************************)
EXTENDS LockManager, Sequences, Naturals

CONSTANT NoCall  \* not a call

VARIABLES
  call,     \* the Lock call that runs hasDeadLock (and has lm.mu), or NoCall
  visited,  \* the map visited of dfs
  stack,    \* the activations of dfs, outermost first
  pending   \* pending[tid]: holders that tid's activation has still to visit

searchVars == <<call, visited, stack, pending>>
fineVars == <<vars, searchVars>>

\* had is the local currentMode: the mode the caller gave up, if it held one.
Calls == [tid : Txns, tag : Tags, mode : Modes, had : Modes \cup {NotHeld}]

ASSUME CallAssumption == NoCall \notin Calls

\* The call that searches, its visited set and its activations are well formed.
SearchTypeOK ==
  /\ TypeOK
  /\ call \in Calls \cup {NoCall}
  /\ visited \subseteq Txns
  /\ stack \in Seq(Txns)
  /\ pending \in [Txns -> SUBSET Txns]
-----------------------------------------------------------------------------
Searching == call # NoCall

NothingPending == [tid \in Txns |-> {}]

\* Every search starts from fresh locals; between searches they are reset.
SearchInit ==
  /\ Init
  /\ call = NoCall
  /\ visited = {}
  /\ stack = <<>>
  /\ pending = NothingPending

EndSearch ==
  /\ call' = NoCall
  /\ visited' = {}
  /\ stack' = <<>>
  /\ pending' = NothingPending

\* Lock meets a conflict: it queues and calls hasDeadLock, which calls dfs.
LockSearch(tid, tag, mode) ==
  /\ Idle(tid)
  /\ locks[tag][tid] # mode
  /\ Conflict(GiveUp(tid, tag), tid, tag, mode)
  /\ locks' = GiveUp(tid, tag)
  /\ waitqueue' = Enqueue(tid, tag)
  /\ call' = [tid |-> tid, tag |-> tag, mode |-> mode, had |-> locks[tag][tid]]
  /\ visited' = {tid}
  /\ stack' = <<tid>>
  /\ pending' = [NothingPending EXCEPT ![tid] = WaitsFor(locks', waitqueue', tid)]
  /\ UNCHANGED <<request, asleep>>

Current == stack[Len(stack)]

\* dfs(holder) is a first visit: a new activation.
VisitNew(holder) ==
  /\ holder \in pending[Current] \ visited
  /\ visited' = visited \cup {holder}
  /\ stack' = Append(stack, holder)
  /\ pending' = [pending EXCEPT ![Current] = @ \ {holder},
                                ![holder] = WaitsFor(locks, waitqueue, holder)]
  /\ UNCHANGED <<vars, call>>

\* dfs(holder) returns false at once: seen before, and not startId.
VisitSeen(holder) ==
  /\ holder \in pending[Current] \cap visited
  /\ holder # call.tid
  /\ pending' = [pending EXCEPT ![Current] = @ \ {holder}]
  /\ UNCHANGED <<vars, call, visited, stack>>

\* Variant: any transaction met twice counts as a cycle.
VisitStartAny(holder) ==
  /\ holder \in pending[Current] \cap visited
  /\ waitqueue' = removeFromWaitQueue(waitqueue, call.tid, call.tag)
  /\ EndSearch
  /\ UNCHANGED <<locks, request, asleep>>

\* dfs(startId) returns true, every activation returns true, and Lock leaves
\* the queue with DeadlockError.
VisitStart(holder) ==
  /\ holder \in pending[Current] \cap visited
  /\ holder = call.tid
  /\ waitqueue' = removeFromWaitQueue(waitqueue, call.tid, call.tag)
  /\ EndSearch
  /\ UNCHANGED <<locks, request, asleep>>

\* The loops of an inner activation are over: it returns false to its caller.
Backtrack ==
  /\ Len(stack) > 1
  /\ pending[Current] = {}
  /\ stack' = SubSeq(stack, 1, Len(stack) - 1)
  /\ UNCHANGED <<vars, call, visited, pending>>

\* The outermost activation returns false: Lock suspends in cond.Wait.
NoCycle ==
  /\ Len(stack) = 1
  /\ pending[Current] = {}
  /\ request' = [request EXCEPT ![call.tid] = [tag |-> call.tag, mode |-> call.mode]]
  /\ asleep' = asleep \cup {call.tid}
  /\ EndSearch
  /\ UNCHANGED <<locks, waitqueue>>

\* The calls that take lm.mu and never search.
Direct(tid) ==
  /\ \/ \E tag \in Tags, mode \in Modes :
          LockSame(tid, tag, mode) \/ LockGrant(tid, tag, mode)
     \/ \E tag \in Tags : Unlock(tid, tag)
     \/ Wake(tid)
  /\ UNCHANGED searchVars

Dfs ==
  \/ \E holder \in Txns : VisitNew(holder) \/ VisitSeen(holder) \/ VisitStart(holder)
  \/ Backtrack
  \/ NoCycle

SearchNext ==
  \/ ~Searching /\ \E tid \in Txns :
       Direct(tid) \/ \E tag \in Tags, mode \in Modes : LockSearch(tid, tag, mode)
  \/ Searching /\ Dfs

SearchSpec == SearchInit /\ [][SearchNext]_fineVars
-----------------------------------------------------------------------------
\* What the search has established.  Nothing visited is out of the reach of
\* the caller's successors, and what a visited transaction waits for is
\* pending, or was visited and is not the caller.
SearchSound ==
  Searching =>
    \A R \in SUBSET Txns :
      (/\ WaitsFor(locks, waitqueue, call.tid) \subseteq R
       /\ \A tid \in R : WaitsFor(locks, waitqueue, tid) \subseteq R)
      => visited \subseteq R \cup {call.tid}

SearchComplete ==
  Searching =>
    /\ call.tid \in visited
    /\ \A tid \in visited :
         WaitsFor(locks, waitqueue, tid) \ pending[tid] \subseteq visited \ {call.tid}

\* Only activations on the stack have work left, and only on their successors.
PendingOnStack ==
  \A tid \in Txns :
    /\ pending[tid] \subseteq WaitsFor(locks, waitqueue, tid)
    /\ pending[tid] # {} => \E i \in 1 .. Len(stack) : stack[i] = tid

\* While it searches, the caller is still where Lock found it, seen from
\* outside lm.mu: it has its old mode back and has not queued.
AbsLocks ==
  IF Searching THEN [locks EXCEPT ![call.tag][call.tid] = call.had] ELSE locks
AbsQueue ==
  IF Searching THEN removeFromWaitQueue(waitqueue, call.tid, call.tag) ELSE waitqueue

LM == INSTANCE LockManager WITH locks <- AbsLocks, waitqueue <- AbsQueue

\* dfs refuses a request exactly when waiting would close a cycle through the
\* caller, in whatever order it meets the holders and whatever its visited set
\* cuts off: with the search step by step, Lock and Unlock behave as in
\* LockManager.tla.
ImplementsLockManager == LM!Spec
=============================================================================
