----------------------- MODULE TransactionProgress -------------------------
(* TransactionContext with a bounded number of lock calls.  Without the bound *)
(* a waiter can be passed over by newcomers, which look at the holders only;  *)
(* with it, what keeps a waiter from returning would be a lost wake-up or a   *)
(* deadlock.                                                                  *)
EXTENDS TransactionContext, Naturals

CONSTANT MaxCalls  \* AcquireLock calls each context makes in its life

ASSUME MaxCallsAssumption == MaxCalls \in Nat

VARIABLE calls     \* calls[tid]: AcquireLock calls made so far

boundedVars == <<allVars, calls>>

BoundedInit == TxnInit /\ calls = [tid \in Txns |-> 0]

BoundedAcquire(tid) ==
  /\ calls[tid] < MaxCalls
  /\ \E tag \in Tags, mode \in Modes : AcquireLock(tid, tag, mode)
  /\ calls' = [calls EXCEPT ![tid] = @ + 1]

Unbounded(tid) ==
  /\ Resume(tid) \/ ReleaseAllLocks(tid) \/ Reset(tid)
  /\ UNCHANGED calls

BoundedNext == \E tid \in Txns : BoundedAcquire(tid) \/ Unbounded(tid)

\* A woken goroutine gets lm.mu, and a transaction that is not waiting ends:
\* it calls ReleaseAllLocks and runs it to its end.
BoundedSpec ==
  /\ BoundedInit
  /\ [][BoundedNext]_boundedVars
  /\ \A tid \in Txns :
       /\ WF_boundedVars(Resume(tid) /\ UNCHANGED calls)
       /\ WF_boundedVars(ReleaseAllLocks(tid) /\ UNCHANGED calls)

\* Every AcquireLock call that waits returns in the end: no wake-up is lost to
\* an entry that Lock dropped or changed without a Broadcast, no cycle goes
\* unnoticed, and a refused transaction gets out of the way of the others.
RequestAnswered == \A tid \in Txns : ~Idle(tid) ~> Idle(tid)
=============================================================================
