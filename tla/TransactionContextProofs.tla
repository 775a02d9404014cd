---------------------- MODULE TransactionContextProofs ---------------------
(***************************************************************************)
(* The transaction contexts use the lock manager as its own specification  *)
(* says, keep track of everything it grants, and give everything back.     *)
(***************************************************************************)
EXTENDS TransactionContext, LockManagerProofs

\* A step of a context is a step of the lock manager or does not touch it.
LEMMA TxnStepIsStep == [TxnNext]_allVars => [Next]_vars
<1> SUFFICES ASSUME TxnNext PROVE Next \/ UNCHANGED vars
  BY DEF allVars
<1>1. PICK tid \in Txns :
        \/ \E tag \in Tags, mode \in Modes : AcquireLock(tid, tag, mode)
        \/ Resume(tid) \/ ReleaseAllLocks(tid) \/ Reset(tid)
  BY DEF TxnNext
<1>2. ASSUME NEW tag \in Tags, NEW mode \in Modes, AcquireLock(tid, tag, mode)
      PROVE  Next \/ UNCHANGED vars
  BY <1>2 DEF AcquireLock, AcquireCovered, AcquireGranted, AcquireRefused, AcquireWaits, allVars, Next, Lock
<1>3. CASE Resume(tid)
  BY <1>3 DEF Resume, ResumeGranted, ResumeWaits, Next, Wake
<1>4. CASE ReleaseAllLocks(tid) \/ Reset(tid)
  BY <1>4 DEF ReleaseAllLocks, BeginRelease, ReleaseOne, EndRelease, Reset, Next
<1> QED
  BY <1>1, <1>2, <1>3, <1>4

\* AcquireLock and ReleaseAllLocks only reach the lock manager through Lock and
\* Unlock, one call at a time.
THEOREM ContextsUseManager == TxnSpec => LockManagerSpec
<1>1. TxnInit => Init
  BY DEF TxnInit
<1> QED
  BY <1>1, TxnStepIsStep, PTL DEF TxnSpec, LockManagerSpec, Spec
-----------------------------------------------------------------------------
(* The inductive invariant. *)
ContextTypeOK ==
  /\ heldLocks \in [Txns -> [Tags -> Modes \cup {NotHeld}]]
  /\ phase \in [Txns -> Phases]
  /\ unreleased \in [Txns -> SUBSET Tags]

\* While a request waits, the context is exact on every other tag.
ExactElsewhere ==
  \A tid \in Txns, tag \in Tags :
    (phase[tid] = "active" /\ (Idle(tid) \/ request[tid].tag # tag))
      => heldLocks[tid][tag] = locks[tag][tid]

\* ReleaseAllLocks never runs while a request waits, and what it has not
\* visited covers what is still granted.
StillGranted ==
  \A tid \in Txns :
    /\ phase[tid] \in {"releasing", "ended"} => Idle(tid)
    /\ phase[tid] = "releasing" =>
         \A tag \in Tags : locks[tag][tid] # NotHeld => tag \in unreleased[tid]
    /\ phase[tid] = "ended" => \A tag \in Tags : locks[tag][tid] = NotHeld

TxnInv == ContextTypeOK /\ LocksTracked /\ ExactElsewhere /\ StillGranted

\* The invariant speaks of one transaction at a time.
TxnInvOf(tid) ==
  /\ \A tag \in Tags :
       /\ locks[tag][tid] # NotHeld => heldLocks[tid][tag] = locks[tag][tid]
       /\ (phase[tid] = "active" /\ (Idle(tid) \/ request[tid].tag # tag))
            => heldLocks[tid][tag] = locks[tag][tid]
  /\ phase[tid] \in {"releasing", "ended"} => Idle(tid)
  /\ phase[tid] = "releasing" =>
       \A tag \in Tags : locks[tag][tid] # NotHeld => tag \in unreleased[tid]
  /\ phase[tid] = "ended" => \A tag \in Tags : locks[tag][tid] = NotHeld

\* The invariant, taken apart by transaction.
LEMMA TxnInvSplit == TxnInv <=> ContextTypeOK /\ \A tid \in Txns : TxnInvOf(tid)
BY DEF TxnInv, LocksTracked, ExactElsewhere, StillGranted, TxnInvOf

\* A step of another transaction.
LEMMA TxnInvFrame ==
  ASSUME NEW tid \in Txns, TxnInvOf(tid),
         \A tag \in Tags : locks'[tag][tid] = locks[tag][tid],
         request'[tid] = request[tid], heldLocks'[tid] = heldLocks[tid],
         phase'[tid] = phase[tid], unreleased'[tid] = unreleased[tid]
  PROVE  TxnInvOf(tid)'
BY DEF TxnInvOf, Idle

\* What a step of tid changes of the lock manager belongs to tid.
OnlyOwn(tid) ==
  \A t \in Txns \ {tid} :
    request'[t] = request[t] /\ \A tag \in Tags : locks'[tag][t] = locks[tag][t]

\* A lock-manager step of tid changes the entries of tid only.
LEMMA TxnStepOwn ==
  ASSUME TypeOK, NEW tid \in Txns,
         \/ UNCHANGED vars
         \/ \E tag \in Tags, mode \in Modes : Lock(tid, tag, mode)
         \/ \E tag \in Tags : Unlock(tid, tag)
         \/ Wake(tid)
  PROVE  OnlyOwn(tid)
<1> USE DEF OnlyOwn, TypeOK
<1>1. CASE UNCHANGED vars
  BY <1>1 DEF vars
<1>2. CASE \E tag \in Tags, mode \in Modes : Lock(tid, tag, mode)
  BY <1>2 DEF Lock, LockSame, LockGrant, LockDeadlock, LockWait, GiveUp, vars
<1>3. CASE \E tag \in Tags : Unlock(tid, tag)
  BY <1>3 DEF Unlock, UnlockHeld, UnlockNotFound, vars
<1>4. CASE WakeGrant(tid)
  <2>1. request[tid].tag \in Tags
    BY <1>4, PendingIsRequest DEF WakeGrant
  <2> QED
    BY <1>4, <2>1 DEF WakeGrant
<1>5. CASE WakeRetry(tid)
  BY <1>5 DEF WakeRetry
<1> QED
  BY <1>1, <1>2, <1>3, <1>4, <1>5 DEF Wake

\* A step of tid that keeps its own part of the invariant keeps all of it.
LEMMA OwnStep ==
  ASSUME TxnInv, NEW tid \in Txns, OnlyOwn(tid), TxnInvOf(tid)', ContextTypeOK',
         \A t \in Txns \ {tid} : /\ heldLocks'[t] = heldLocks[t]
                                 /\ phase'[t] = phase[t]
                                 /\ unreleased'[t] = unreleased[t]
  PROVE  TxnInv'
<1>1. \A t \in Txns \ {tid} : TxnInvOf(t)'
  BY TxnInvSplit, TxnInvFrame DEF OnlyOwn
<1>2. \A t \in Txns : TxnInvOf(t)'
  BY <1>1
<1>3. TxnInv' <=> ContextTypeOK' /\ \A t \in Txns : TxnInvOf(t)'
  BY DEF TxnInv, LocksTracked, ExactElsewhere, StillGranted, TxnInvOf
<1> QED
  BY <1>2, <1>3

\* AcquireLock, on each of its ways out, keeps the invariant.
LEMMA AcquireKeeps ==
  ASSUME TypeOK, TypeOK', TxnInv, NEW tid \in Txns, NEW tag \in Tags, NEW mode \in Modes,
         AcquireLock(tid, tag, mode)
  PROVE  TxnInv'
<1> USE NotHeldIsNoMode
<1>1. OnlyOwn(tid)
  BY TxnStepOwn DEF AcquireLock, AcquireCovered, AcquireGranted, AcquireRefused, AcquireWaits, Lock, allVars
<1>2. TxnInvOf(tid) /\ ContextTypeOK /\ Running(tid) /\ Idle(tid)
  BY TxnInvSplit DEF AcquireLock, AcquireCovered, AcquireGranted, AcquireRefused, AcquireWaits,
     LockSame, LockGrant, LockDeadlock, LockWait
<1>3. CASE AcquireCovered(tid, tag, mode)
  BY <1>3 DEF AcquireCovered, allVars, vars, txnVars, TxnInv, ContextTypeOK, LocksTracked,
     ExactElsewhere, StillGranted, Idle
<1>4. CASE AcquireGranted(tid, tag, mode)
  <2>1. /\ locks'[tag][tid] = mode
        /\ \A g \in Tags \ {tag} : locks'[g][tid] = locks[g][tid]
        /\ request' = request
    BY <1>4 DEF AcquireGranted, LockSame, LockGrant, TypeOK, vars
  <2>2. /\ heldLocks'[tid][tag] = mode
        /\ \A g \in Tags \ {tag} : heldLocks'[tid][g] = heldLocks[tid][g]
        /\ \A t \in Txns \ {tid} : heldLocks'[t] = heldLocks[t]
        /\ UNCHANGED <<phase, unreleased>>
        /\ ContextTypeOK'
    BY <1>2, <1>4 DEF AcquireGranted, ContextTypeOK
  <2>3. TxnInvOf(tid)'
    BY <1>2, <2>1, <2>2 DEF TxnInvOf, Running, Idle
  <2> QED
    BY <1>1, <2>2, <2>3, OwnStep
<1>5. CASE AcquireRefused(tid, tag, mode)
  <2>1. /\ locks'[tag][tid] = NotHeld
        /\ \A g \in Tags \ {tag} : locks'[g][tid] = locks[g][tid]
    BY <1>5 DEF AcquireRefused, LockDeadlock, GiveUp, TypeOK
  <2>2. /\ phase'[tid] = "refused"
        /\ \A t \in Txns \ {tid} : phase'[t] = phase[t]
        /\ UNCHANGED <<heldLocks, unreleased>>
        /\ ContextTypeOK'
    BY <1>2, <1>5 DEF AcquireRefused, ContextTypeOK, Phases
  <2>3. TxnInvOf(tid)'
    BY <1>2, <2>1, <2>2 DEF TxnInvOf
  <2> QED
    BY <1>1, <2>2, <2>3, OwnStep
<1>6. CASE AcquireWaits(tid, tag, mode)
  <2>1. /\ locks'[tag][tid] = NotHeld
        /\ \A g \in Tags \ {tag} : locks'[g][tid] = locks[g][tid]
        /\ request'[tid] = [tag |-> tag, mode |-> mode]
        /\ request'[tid] # NoRequest
    BY <1>6, RequestAssumption DEF AcquireWaits, LockWait, GiveUp, TypeOK
  <2>2. UNCHANGED <<heldLocks, phase, unreleased>> /\ ContextTypeOK'
    BY <1>2, <1>6 DEF AcquireWaits, txnVars, ContextTypeOK
  <2>3. TxnInvOf(tid)'
    BY <1>2, <2>1, <2>2 DEF TxnInvOf, Running, Idle
  <2> QED
    BY <1>1, <2>2, <2>3, OwnStep
<1> QED
  BY <1>3, <1>4, <1>5, <1>6 DEF AcquireLock

\* A call that was waiting keeps the invariant when it goes on.
LEMMA ResumeKeeps ==
  ASSUME TypeOK, TxnInv, NEW tid \in Txns, Resume(tid)
  PROVE  TxnInv'
<1>1. OnlyOwn(tid)
  BY TxnStepOwn DEF Resume, ResumeGranted, ResumeWaits, Wake
<1>2. TxnInvOf(tid) /\ ContextTypeOK /\ ~Idle(tid)
  BY TxnInvSplit DEF Resume, ResumeGranted, ResumeWaits, WakeGrant, WakeRetry
<1>3. PICK tag \in Tags, mode \in Modes : request[tid].tag = tag /\ request[tid].mode = mode
  BY <1>2, PendingIsRequest
<1>4. CASE ResumeGranted(tid)
  <2>1. /\ locks'[tag][tid] = mode
        /\ \A g \in Tags \ {tag} : locks'[g][tid] = locks[g][tid]
    BY <1>3, <1>4 DEF ResumeGranted, WakeGrant, TypeOK
  <2>2. /\ heldLocks'[tid][tag] = mode
        /\ \A g \in Tags \ {tag} : heldLocks'[tid][g] = heldLocks[tid][g]
        /\ \A t \in Txns \ {tid} : heldLocks'[t] = heldLocks[t]
        /\ UNCHANGED <<phase, unreleased>>
        /\ ContextTypeOK'
    BY <1>2, <1>3, <1>4 DEF ResumeGranted, ContextTypeOK
  <2>3. TxnInvOf(tid)'
    BY <1>2, <1>3, <2>1, <2>2 DEF TxnInvOf
  <2> QED
    BY <1>1, <2>2, <2>3, OwnStep
<1>5. CASE ResumeWaits(tid)
  BY <1>5 DEF ResumeWaits, WakeRetry, txnVars, TxnInv, ContextTypeOK, LocksTracked, ExactElsewhere,
     StillGranted, Idle
<1> QED
  BY <1>4, <1>5 DEF Resume

\* ReleaseAllLocks starts with all the tags that are granted.
LEMMA BeginReleaseKeeps ==
  ASSUME TxnInv, NEW tid \in Txns, BeginRelease(tid)
  PROVE  TxnInv'
<1>1. TxnInvOf(tid) /\ ContextTypeOK
  BY TxnInvSplit
<1>2. /\ phase'[tid] = "releasing"
      /\ unreleased'[tid] = {tag \in Tags : heldLocks[tid][tag] # NotHeld}
      /\ \A t \in Txns \ {tid} : phase'[t] = phase[t] /\ unreleased'[t] = unreleased[t]
      /\ UNCHANGED <<locks, request, heldLocks>>
      /\ ContextTypeOK'
  BY <1>1 DEF BeginRelease, ContextTypeOK, Phases, vars
<1>3. TxnInvOf(tid)'
  BY <1>1, <1>2 DEF TxnInvOf, BeginRelease, Idle
<1> QED
  BY <1>2, <1>3, OwnStep DEF OnlyOwn

\* One Unlock of the release loop keeps the invariant.
LEMMA ReleaseOneKeeps ==
  ASSUME TypeOK, TxnInv, NEW tid \in Txns, NEW tag \in Tags, ReleaseOne(tid, tag)
  PROVE  TxnInv'
<1>1. TxnInvOf(tid) /\ ContextTypeOK
  BY TxnInvSplit
<1>2. OnlyOwn(tid)
  BY TxnStepOwn DEF ReleaseOne
<1>3. /\ locks'[tag][tid] = NotHeld
      /\ \A g \in Tags \ {tag} : locks'[g][tid] = locks[g][tid]
      /\ request' = request
  BY DEF ReleaseOne, Unlock, UnlockHeld, UnlockNotFound, TypeOK, vars
<1>4. /\ unreleased'[tid] = unreleased[tid] \ {tag}
      /\ \A t \in Txns \ {tid} : unreleased'[t] = unreleased[t]
      /\ UNCHANGED <<heldLocks, phase>>
      /\ ContextTypeOK'
  BY <1>1 DEF ReleaseOne, ContextTypeOK
<1>5. TxnInvOf(tid)'
  BY <1>1, <1>3, <1>4 DEF TxnInvOf, ReleaseOne, Idle
<1> QED
  BY <1>2, <1>4, <1>5, OwnStep

\* EndRelease and Reset both leave an empty heldLocks behind.
LEMMA EmptyContextKeeps ==
  ASSUME TxnInv, NEW tid \in Txns, EndRelease(tid) \/ Reset(tid)
  PROVE  TxnInv'
<1>1. TxnInvOf(tid) /\ ContextTypeOK
  BY TxnInvSplit
<1>2. \A tag \in Tags : locks[tag][tid] = NotHeld
  BY <1>1 DEF TxnInvOf, EndRelease, Reset
<1>3. /\ \A tag \in Tags : heldLocks'[tid][tag] = NotHeld
      /\ phase'[tid] \in {"ended", "active"}
      /\ \A t \in Txns \ {tid} : heldLocks'[t] = heldLocks[t] /\ phase'[t] = phase[t]
      /\ UNCHANGED <<locks, request, unreleased>>
      /\ ContextTypeOK'
  BY <1>1 DEF EndRelease, Reset, ContextTypeOK, Phases, vars
<1>4. Idle(tid)
  BY <1>1 DEF TxnInvOf, EndRelease, Reset
<1>5. TxnInvOf(tid)'
  BY <1>2, <1>3, <1>4 DEF TxnInvOf, Idle
<1> QED
  BY <1>3, <1>5, OwnStep DEF OnlyOwn

\* Every step of the contexts keeps the invariant.
LEMMA TxnInvStep == TypeOK /\ TypeOK' /\ TxnInv /\ [TxnNext]_allVars => TxnInv'
<1> SUFFICES ASSUME TypeOK, TypeOK', TxnInv, [TxnNext]_allVars
             PROVE  TxnInv'
  OBVIOUS
<1>1. CASE UNCHANGED allVars
  BY <1>1 DEF allVars, vars, txnVars, TxnInv, ContextTypeOK, LocksTracked, ExactElsewhere,
     StillGranted, Idle
<1>2. CASE TxnNext
  BY <1>2, AcquireKeeps, ResumeKeeps, BeginReleaseKeeps, ReleaseOneKeeps, EmptyContextKeeps
     DEF TxnNext, ReleaseAllLocks
<1> QED
  BY <1>1, <1>2

\* The invariant the other theorems are read off.
THEOREM TxnInvariant == TxnSpec => [](TypeOK /\ QueueIsPending /\ TxnInv)
<1>1. TxnInit => TxnInv
  BY DEF TxnInit, Init, TxnInv, ContextTypeOK, LocksTracked, ExactElsewhere, StillGranted, Phases, Idle
<1> QED
  BY <1>1, TxnInvStep, ContextsUseManager, TypeCorrect, QueuesExact, PTL DEF TxnSpec, LockManagerSpec
-----------------------------------------------------------------------------
\* The contexts and the lock manager keep to their types.
THEOREM TxnTypeCorrect == TxnSpec => []TxnTypeOK
<1>1. TypeOK /\ TxnInv => TxnTypeOK
  BY DEF TxnTypeOK, TxnInv, ContextTypeOK
<1> QED
  BY <1>1, TxnInvariant, PTL

\* Nothing the lock manager has granted to a transaction is unknown to its
\* context, so ReleaseAllLocks reaches it.
THEOREM NothingForgotten == TxnSpec => []LocksTracked
<1>1. TxnInv => LocksTracked
  BY DEF TxnInv
<1> QED
  BY <1>1, TxnInvariant, PTL

\* Until a request of the transaction is refused, HeldLock answers what the
\* lock manager has granted, so the requests AcquireLock elides are covered.
THEOREM ContextExact == TxnSpec => []HeldLocksExact
<1>1. TxnInv => HeldLocksExact
  BY DEF TxnInv, ExactElsewhere, HeldLocksExact
<1> QED
  BY <1>1, TxnInvariant, PTL

\* After ReleaseAllLocks the transaction holds nothing and waits nowhere,
\* whatever the other transactions did between its Unlock calls.
THEOREM EverythingReleased == TxnSpec => []AllReleased
<1>1. QueueIsPending /\ TxnInv => AllReleased
  BY DEF TxnInv, StillGranted, QueueIsPending, AllReleased
<1> QED
  BY <1>1, TxnInvariant, PTL
=============================================================================
