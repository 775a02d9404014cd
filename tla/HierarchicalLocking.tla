------------------------ MODULE HierarchicalLocking ------------------------
(***************************************************************************)
(* Multi-granularity locking: clients of the lock manager that lock one    *)
(* table and its tuples by the protocol of lab3.md, as the actors of       *)
(* TestLock_Stress_Mixed_ScannerUpdater do.  A tuple is locked only under  *)
(* a table lock that announces it, tuple locks are given back before the   *)
(* table lock, and a table lock is only converted (IS to S) before tuples  *)
(* are locked under it.                                                    *)
(***************************************************************************)
EXTENDS LockManager

CONSTANT Table  \* the tag of the table; all other tags are tuples of it

ASSUME TableAssumption == Table \in Tags

Tuples == Tags \ {Table}

\* Table modes that announce a lock of mode m on a tuple.
Announces(m) == IF m = "X" THEN {"IX", "SIX", "X"} ELSE {"IS", "IX", "S", "SIX", "X"}

NoTupleHeld(tid) == \A tup \in Tuples : locks[tup][tid] = NotHeld

LockTable(tid, mode) ==
  /\ NoTupleHeld(tid)
  /\ Lock(tid, Table, mode)

LockTuple(tid, tup, mode) ==
  /\ locks[Table][tid] \in Announces(mode)
  /\ locks[tup][tid] = NotHeld
  /\ Lock(tid, tup, mode)

UnlockTuple(tid, tup) == UnlockHeld(tid, tup)

UnlockTable(tid) ==
  /\ NoTupleHeld(tid)
  /\ UnlockHeld(tid, Table)

HierarchicalNext ==
  \E tid \in Txns :
    \/ \E mode \in Modes : LockTable(tid, mode)
    \/ \E tup \in Tuples, mode \in Modes \cap {"S", "X"} : LockTuple(tid, tup, mode)
    \/ \E tup \in Tuples : UnlockTuple(tid, tup)
    \/ UnlockTable(tid)
    \/ Wake(tid)

HierarchicalSpec == Init /\ [][HierarchicalNext]_vars
-----------------------------------------------------------------------------
\* A transaction that may read the whole table under its table lock alone (S,
\* SIX or X) overlaps no tuple writer, although the two lock different tags,
\* except a writer that holds SIX while the scanner holds S: isCompatible lets
\* these two coexist.
ScanIsolation ==
  \A t1, t2 \in Txns : \A tup \in Tuples :
    (t1 # t2 /\ locks[Table][t1] \in {"S", "SIX", "X"} /\ locks[tup][t2] = "X")
      => locks[Table][t1] = "S" /\ locks[Table][t2] = "SIX"

\* A tuple writer has, and keeps, a table lock that announces it.
WriterAnnounced ==
  \A tid \in Txns, tup \in Tuples :
    (locks[tup][tid] = "X" \/ (~Idle(tid) /\ request[tid] = [tag |-> tup, mode |-> "X"]))
      => locks[Table][tid] \in Announces("X")
=============================================================================
