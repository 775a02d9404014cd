--------------------- MODULE HierarchicalLockingProofs ---------------------
(***************************************************************************)
(* Scanners of a table are isolated from tuple writers, but for a scanner  *)
(* under S beside a writer under SIX, for any number of transactions and   *)
(* tuples and any of the modes.                                            *)
(***************************************************************************)
EXTENDS HierarchicalLocking, LockManagerProofs

\* Every step of the protocol is a lock-manager step.
LEMMA HierarchicalIsStep == HierarchicalNext => Next
BY TableAssumption DEF HierarchicalNext, LockTable, LockTuple, UnlockTuple, UnlockTable, Next, Unlock, Tuples

\* The protocol only restricts the calls that reach the lock manager.
THEOREM ProtocolUsesManager == HierarchicalSpec => Spec
<1>1. [HierarchicalNext]_vars => [Next]_vars
  BY HierarchicalIsStep
<1> QED
  BY <1>1, PTL DEF HierarchicalSpec, Spec

\* The step of WriterAnnounced, seen from one transaction and one tuple.
LEMMA AnnouncedStep ==
  TypeOK /\ WaiterHoldsNothing /\ WriterAnnounced /\ [HierarchicalNext]_vars => WriterAnnounced'
<1> SUFFICES ASSUME TypeOK, WaiterHoldsNothing, WriterAnnounced, [HierarchicalNext]_vars,
                    NEW w \in Txns, NEW tup \in Tuples,
                    \/ locks'[tup][w] = "X"
                    \/ ~Idle(w)' /\ request'[w] = [tag |-> tup, mode |-> "X"]
             PROVE  locks'[Table][w] \in Announces("X")
  BY DEF WriterAnnounced
<1> USE TableAssumption
<1>1. tup \in Tags /\ tup # Table
  BY DEF Tuples
<1>2. ASSUME NEW tid \in Txns, tid # w, locks'[tup][w] = locks[tup][w],
             locks'[Table][w] = locks[Table][w], request'[w] = request[w]
      PROVE  locks'[Table][w] \in Announces("X")
  BY <1>2 DEF WriterAnnounced, Idle
<1>3. ASSUME NEW mode \in Modes, LockTable(w, mode)
      PROVE  FALSE
  <2>1. locks[tup][w] # "X"
    BY <1>3 DEF LockTable, NoTupleHeld, NotHeld
  <2>2. locks'[tup][w] = locks[tup][w]
    BY <1>1, <1>3 DEF LockTable, Lock, LockSame, LockGrant, LockDeadlock, LockWait, GiveUp, TypeOK, vars
  <2>3. request'[w] = NoRequest \/ request'[w] = [tag |-> Table, mode |-> mode]
    BY <1>3 DEF LockTable, Lock, LockSame, LockGrant, LockDeadlock, LockWait, TypeOK, vars, Idle
  <2> QED
    BY <1>1, <2>1, <2>2, <2>3 DEF Idle
<1>4. ASSUME NEW t2 \in Tuples, NEW mode \in Modes \cap {"S", "X"}, LockTuple(w, t2, mode)
      PROVE  locks'[Table][w] \in Announces("X")
  <2>0. t2 \in Tags /\ t2 # Table
    BY DEF Tuples
  <2>1. locks'[Table][w] = locks[Table][w] /\ (t2 # tup => locks'[tup][w] = locks[tup][w])
    BY <1>1, <1>4, <2>0 DEF LockTuple, Lock, LockSame, LockGrant, LockDeadlock, LockWait, GiveUp, TypeOK, vars
  <2>2. /\ request[w] = NoRequest
        /\ request'[w] = NoRequest \/ request'[w] = [tag |-> t2, mode |-> mode]
    BY <1>4 DEF LockTuple, Lock, LockSame, LockGrant, LockDeadlock, LockWait, TypeOK, vars, Idle
  <2>3. CASE mode = "X"
    BY <1>4, <2>1, <2>3 DEF LockTuple
  <2>4. CASE mode = "S"
    <3>1. request'[w] # [tag |-> tup, mode |-> "X"] \/ Idle(w)'
      BY <2>2, <2>4 DEF Idle
    <3>2. t2 = tup => locks'[tup][w] # "X"
      BY <1>1, <1>4, <2>4 DEF LockTuple, Lock, LockSame, LockGrant, LockDeadlock, LockWait, GiveUp,
         TypeOK, vars, NotHeld
    <3> QED
      BY <2>1, <3>1, <3>2 DEF WriterAnnounced
  <2> QED
    BY <2>3, <2>4
<1>5. ASSUME NEW t2 \in Tuples, UnlockTuple(w, t2)
      PROVE  locks'[Table][w] \in Announces("X")
  <2>0. t2 \in Tags /\ t2 # Table
    BY DEF Tuples
  <2> QED
    BY <1>1, <1>5, <2>0 DEF UnlockTuple, UnlockHeld, TypeOK, WriterAnnounced, Idle, NotHeld
<1>6. ASSUME UnlockTable(w)
      PROVE  FALSE
  BY <1>1, <1>6 DEF UnlockTable, NoTupleHeld, UnlockHeld, TypeOK, Idle, NotHeld
<1>7. ASSUME WakeGrant(w)
      PROVE  locks'[Table][w] \in Announces("X")
  <2>1. request[w].tag \in Tags /\ request[w].mode \in Modes
        /\ request[w] \in [tag : Tags, mode : Modes]
    BY <1>7, PendingIsRequest DEF WakeGrant, TypeOK, Idle
  <2>2. request'[w] = NoRequest
    BY <1>7 DEF WakeGrant, TypeOK
  <2>3. locks'[tup][w] = "X"
    BY <2>2 DEF Idle
  <2>4. CASE request[w].tag = Table
    BY <1>1, <1>7, <2>1, <2>3, <2>4 DEF WakeGrant, TypeOK, WriterAnnounced, WaiterHoldsNothing, Announces, NotHeld
  <2>5. CASE request[w].tag = tup
    <3>1. request[w] = [tag |-> tup, mode |-> "X"]
      BY <1>1, <1>7, <2>1, <2>3, <2>5 DEF WakeGrant, TypeOK
    <3> QED
      BY <1>1, <1>7, <2>1, <2>5, <3>1 DEF WakeGrant, TypeOK, WriterAnnounced
  <2>6. CASE request[w].tag \notin {Table, tup}
    BY <1>1, <1>7, <2>1, <2>3, <2>6 DEF WakeGrant, TypeOK, WriterAnnounced
  <2> QED
    BY <2>4, <2>5, <2>6
<1>8. ASSUME UNCHANGED <<locks, request>>
      PROVE  locks'[Table][w] \in Announces("X")
  BY <1>8 DEF WriterAnnounced, Idle
<1>9. ASSUME NEW tid \in Txns, tid # w,
             \/ \E tag \in Tags, mode \in Modes : Lock(tid, tag, mode)
             \/ \E tag \in Tags : UnlockHeld(tid, tag)
             \/ Wake(tid)
      PROVE  locks'[Table][w] \in Announces("X")
  <2>1. /\ locks'[tup][w] = locks[tup][w] /\ locks'[Table][w] = locks[Table][w]
        /\ request'[w] = request[w]
    <3>1. CASE \E tag \in Tags, mode \in Modes : Lock(tid, tag, mode)
      BY <1>1, <1>9, <3>1 DEF Lock, LockSame, LockGrant, LockDeadlock, LockWait, GiveUp, TypeOK, vars
    <3>2. CASE \E tag \in Tags : UnlockHeld(tid, tag)
      BY <1>1, <1>9, <3>2 DEF UnlockHeld, TypeOK
    <3>3. CASE WakeGrant(tid)
      <4>1. request[tid].tag \in Tags
        BY <3>3, PendingIsRequest DEF WakeGrant
      <4> QED
        BY <1>1, <1>9, <3>3, <4>1 DEF WakeGrant, TypeOK
    <3>4. CASE WakeRetry(tid)
      BY <3>4 DEF WakeRetry
    <3> QED
      BY <1>9, <3>1, <3>2, <3>3, <3>4 DEF Wake
  <2> QED
    BY <1>2, <1>9, <2>1
<1> QED
  <2>1. CASE UNCHANGED vars
    BY <1>8, <2>1 DEF vars
  <2>2. ASSUME NEW tid \in Txns, tid # w,
               \/ \E mode \in Modes : LockTable(tid, mode)
               \/ \E t2 \in Tuples, mode \in Modes \cap {"S", "X"} : LockTuple(tid, t2, mode)
               \/ \E t2 \in Tuples : UnlockTuple(tid, t2)
               \/ UnlockTable(tid)
               \/ Wake(tid)
        PROVE  locks'[Table][w] \in Announces("X")
    BY <1>9, <2>2 DEF LockTable, LockTuple, UnlockTuple, UnlockTable, Tuples
  <2> QED
    BY <1>3, <1>4, <1>5, <1>6, <1>7, <1>8, <2>1, <2>2 DEF HierarchicalNext, Wake, WakeRetry

\* Whoever writes a tuple, or waits to write it, has announced it on the table.
THEOREM WritersAnnounce == HierarchicalSpec => []WriterAnnounced
<1>1. Init => WriterAnnounced
  BY DEF Init, WriterAnnounced, Idle, NotHeld, Tuples
<1> QED
  BY <1>1, AnnouncedStep, ProtocolUsesManager, TypeCorrect, WaitersGaveUp, PTL DEF HierarchicalSpec

\* A table S, SIX or X lock keeps every tuple writer out, although the writer
\* never asks for the tag the scanner holds; only S beside SIX does not.
THEOREM ScannersIsolated == HierarchicalSpec => []ScanIsolation
<1>1. TypeOK /\ GrantedCompatible /\ WriterAnnounced => ScanIsolation
  <2> SUFFICES ASSUME TypeOK, GrantedCompatible, WriterAnnounced,
                      NEW t1 \in Txns, NEW t2 \in Txns, NEW tup \in Tuples,
                      t1 # t2, locks[Table][t1] \in {"S", "SIX", "X"}, locks[tup][t2] = "X"
               PROVE  locks[Table][t1] = "S" /\ locks[Table][t2] = "SIX"
    BY DEF ScanIsolation
  <2>1. locks[Table][t2] \in {"IX", "SIX", "X"}
    BY Zenon DEF WriterAnnounced, Announces
  <2>2. isCompatible(locks[Table][t1], locks[Table][t2])
    BY <2>1, TableAssumption DEF GrantedCompatible, NotHeld
  <2> QED
    BY <2>1, <2>2 DEF isCompatible
<1> QED
  BY <1>1, ProtocolUsesManager, TypeCorrect, MutualExclusion, WritersAnnounce, PTL
=============================================================================
