------------------------ MODULE TransactionContext -------------------------
(***************************************************************************)
(* The lock side of transaction/transaction_context.go on top of the lock  *)
(* manager: each context remembers in heldLocks what its transaction was   *)
(* granted, elides requests that a held mode covers, and gives everything  *)
(* back in ReleaseAllLocks, one Unlock call at a time.                     *)
(*                                                                         *)
(* An element of Txns is a context together with the transaction it        *)
(* currently serves.  Reset gives the context a fresh identifier; the old  *)
(* identifier owns nothing by then (AllReleased), so the model keeps the   *)
(* same element for the new transaction.                                   *)
(***************************************************************************)
EXTENDS LockManager

VARIABLES
  heldLocks,   \* heldLocks[tid][tag]: the mode the context remembers, or NotHeld
  phase,       \* phase[tid]: where the transaction is in its life
  unreleased   \* unreleased[tid]: tags the loop of ReleaseAllLocks has still to visit

txnVars == <<heldLocks, phase, unreleased>>
allVars == <<vars, txnVars>>

\* "refused": an AcquireLock call of this transaction returned DeadlockError.
Phases == {"active", "refused", "releasing", "ended"}

\* The contexts are well formed: what a context remembers are modes of tags.
TxnTypeOK ==
  /\ TypeOK
  /\ heldLocks \in [Txns -> [Tags -> Modes \cup {NotHeld}]]
  /\ phase \in [Txns -> Phases]
  /\ unreleased \in [Txns -> SUBSET Tags]
-----------------------------------------------------------------------------
\* A NewTestTransactionContext for every transaction.
TxnInit ==
  /\ Init
  /\ heldLocks = [tid \in Txns |-> [tag \in Tags |-> NotHeld]]
  /\ phase = [tid \in Txns |-> "active"]
  /\ unreleased = [tid \in Txns |-> {}]

\* The early returns of AcquireLock: the held mode covers the requested one.
Covers(currentMode, mode) ==
  \/ currentMode = "X"
  \/ currentMode = "SIX" /\ mode \in {"S", "IS", "IX"}
  \/ currentMode \in {"S", "IX"} /\ mode = "IS"

Running(tid) == phase[tid] \in {"active", "refused"}

AcquireCovered(tid, tag, mode) ==
  /\ Running(tid) /\ Idle(tid)
  /\ Covers(heldLocks[tid][tag], mode)
  /\ UNCHANGED allVars

\* Variant: a conversion leaves the remembered mode as it was.
AcquireGrantedKeepsOld(tid, tag, mode) ==
  /\ Running(tid)
  /\ ~Covers(heldLocks[tid][tag], mode)
  /\ LockSame(tid, tag, mode) \/ LockGrant(tid, tag, mode)
  /\ heldLocks' = [heldLocks EXCEPT ![tid][tag] = IF @ = NotHeld THEN mode ELSE @]
  /\ UNCHANGED <<phase, unreleased>>

\* lm.Lock returned nil without waiting.
AcquireGranted(tid, tag, mode) ==
  /\ Running(tid)
  /\ ~Covers(heldLocks[tid][tag], mode)
  /\ LockSame(tid, tag, mode) \/ LockGrant(tid, tag, mode)
  /\ heldLocks' = [heldLocks EXCEPT ![tid][tag] = mode]
  /\ UNCHANGED <<phase, unreleased>>

\* lm.Lock returned DeadlockError: heldLocks stays as it was.
AcquireRefused(tid, tag, mode) ==
  /\ Running(tid)
  /\ ~Covers(heldLocks[tid][tag], mode)
  /\ LockDeadlock(tid, tag, mode)
  /\ phase' = [phase EXCEPT ![tid] = "refused"]
  /\ UNCHANGED <<heldLocks, unreleased>>

AcquireWaits(tid, tag, mode) ==
  /\ Running(tid)
  /\ ~Covers(heldLocks[tid][tag], mode)
  /\ LockWait(tid, tag, mode)
  /\ UNCHANGED txnVars

AcquireLock(tid, tag, mode) ==
  \/ AcquireCovered(tid, tag, mode)
  \/ AcquireGranted(tid, tag, mode)
  \/ AcquireRefused(tid, tag, mode)
  \/ AcquireWaits(tid, tag, mode)

\* The waiting lm.Lock returns nil and AcquireLock records the mode.
ResumeGranted(tid) ==
  /\ WakeGrant(tid)
  /\ heldLocks' = [heldLocks EXCEPT ![tid][request[tid].tag] = request[tid].mode]
  /\ UNCHANGED <<phase, unreleased>>

ResumeWaits(tid) == WakeRetry(tid) /\ UNCHANGED txnVars

Resume(tid) == ResumeGranted(tid) \/ ResumeWaits(tid)

\* Variant: intention locks are left out.
BeginReleaseData(tid) ==
  /\ Running(tid) /\ Idle(tid)
  /\ phase' = [phase EXCEPT ![tid] = "releasing"]
  /\ unreleased' = [unreleased EXCEPT ![tid] = {tag \in Tags : heldLocks[tid][tag] \in {"S", "X"}}]
  /\ UNCHANGED <<vars, heldLocks>>

\* ReleaseAllLocks starts to range over heldLocks.
BeginRelease(tid) ==
  /\ Running(tid) /\ Idle(tid)
  /\ phase' = [phase EXCEPT ![tid] = "releasing"]
  /\ unreleased' = [unreleased EXCEPT ![tid] = {tag \in Tags : heldLocks[tid][tag] # NotHeld}]
  /\ UNCHANGED <<vars, heldLocks>>

\* One iteration, in any order: Unlock, its error ignored.
ReleaseOne(tid, tag) ==
  /\ phase[tid] = "releasing"
  /\ tag \in unreleased[tid]
  /\ Unlock(tid, tag)
  /\ unreleased' = [unreleased EXCEPT ![tid] = @ \ {tag}]
  /\ UNCHANGED <<heldLocks, phase>>

\* The loop is over and heldLocks is replaced by an empty map.
EndRelease(tid) ==
  /\ phase[tid] = "releasing"
  /\ unreleased[tid] = {}
  /\ heldLocks' = [heldLocks EXCEPT ![tid] = [tag \in Tags |-> NotHeld]]
  /\ phase' = [phase EXCEPT ![tid] = "ended"]
  /\ UNCHANGED <<vars, unreleased>>

\* The context is recycled for a new transaction.
Reset(tid) ==
  /\ phase[tid] = "ended"
  /\ heldLocks' = [heldLocks EXCEPT ![tid] = [tag \in Tags |-> NotHeld]]
  /\ phase' = [phase EXCEPT ![tid] = "active"]
  /\ UNCHANGED <<vars, unreleased>>

ReleaseAllLocks(tid) ==
  BeginRelease(tid) \/ (\E tag \in Tags : ReleaseOne(tid, tag)) \/ EndRelease(tid)

TxnNext ==
  \E tid \in Txns :
    \/ \E tag \in Tags, mode \in Modes : AcquireLock(tid, tag, mode)
    \/ Resume(tid)
    \/ ReleaseAllLocks(tid)
    \/ Reset(tid)

TxnSpec == TxnInit /\ [][TxnNext]_allVars
-----------------------------------------------------------------------------
\* Whatever the lock manager has granted to a transaction, its context knows
\* of, in the same mode: nothing is out of the reach of ReleaseAllLocks.
LocksTracked ==
  \A tid \in Txns, tag \in Tags :
    locks[tag][tid] # NotHeld => heldLocks[tid][tag] = locks[tag][tid]

\* While no call was refused and none is in flight, HeldLock answers exactly
\* what the lock manager has granted, so eliding a covered request is sound.
HeldLocksExact ==
  \A tid \in Txns : (phase[tid] = "active" /\ Idle(tid)) =>
    \A tag \in Tags : heldLocks[tid][tag] = locks[tag][tid]

\* When ReleaseAllLocks has returned, the transaction holds no lock and waits
\* in no queue, even if other transactions ran between its Unlock calls and
\* even if one of its upgrades was refused.
AllReleased ==
  \A tid \in Txns : phase[tid] = "ended" =>
    \A tag \in Tags : locks[tag][tid] = NotHeld /\ tid \notin waitqueue[tag]

\* The contexts use the lock manager as LockManager.tla describes it: every
\* step of theirs is a lock-manager step or leaves the lock manager alone.
LockManagerSpec == Spec
-----------------------------------------------------------------------------
(* What the documentation and the tests say, and the code does not do. *)

\* What holding a mode entitles to.
Rights(mode) == {m \in {"S", "X", "IS", "IX", "SIX"} : m = mode \/ Covers(mode, m)}

\* lab3.md on SS2PL: transactions accumulate locks but only release them when
\* they commit or abort.  What is granted to a running transaction is not
\* taken away by its own further requests.
LocksAccumulate ==
  [][\A tid \in Txns, tag \in Tags : phase[tid] = "active" =>
       Rights(locks[tag][tid]) \subseteq Rights(locks[tag][tid]')]_allVars
=============================================================================
