----------------------------- MODULE HashIndex ------------------------------
(***************************************************************************)
(* MemHashIndex (indexing/mem_hash_index.go) under concurrent callers: the *)
(* map from keys to buckets is a concurrent map, a bucket has a lock of    *)
(* its own, and the bucket a thread has loaded may be removed from the map *)
(* before the thread has locked it.                                        *)
(***************************************************************************)
EXTENDS Naturals, FiniteSets

CONSTANTS
  Threads, Keys, Rids,
  Buckets,      \* the memory buckets are allocated from
  NoBucket, NoThread

VARIABLES
  m,         \* m[k]: the bucket of k, or NoBucket
  bucket,    \* bucket[b]: [rids, removed, lock]
  call       \* call[t]: the operation t is in

hashVars == <<m, bucket, call>>

Idle == [pc |-> "idle", op |-> "none", key |-> NoBucket, rid |-> NoBucket, b |-> NoBucket, out |-> {}]

HashInit ==
  /\ m = [k \in Keys |-> NoBucket]
  /\ bucket = [b \in Buckets |-> [rids |-> {}, removed |-> FALSE, lock |-> NoThread]]
  /\ call = [t \in Threads |-> Idle]

Entries == {e \in Keys \X Rids : m[e[1]] # NoBucket /\ e[2] \in bucket[m[e[1]]].rids}
InUse(r) == \E t \in Threads : call[t].rid = r

\* A bucket nobody can reach any more is garbage, and new to the next allocation.
Fresh == {b \in Buckets : (\A k \in Keys : m[k] # b) /\ \A t \in Threads : call[t].b # b}

\* The row of rid is locked by its transaction: one operation at a time on it,
\* inserted when it has no entry, deleted when it has the entry.
CallInsert(t, k, r) ==
  /\ call[t].pc = "idle" /\ ~InUse(r) /\ \A e \in Entries : e[2] # r
  /\ call' = [call EXCEPT ![t] = [Idle EXCEPT !.pc = "load", !.op = "insert", !.key = k, !.rid = r]]
  /\ UNCHANGED <<m, bucket>>

CallDelete(t, k, r) ==
  /\ call[t].pc = "idle" /\ ~InUse(r) /\ <<k, r>> \in Entries
  /\ call' = [call EXCEPT ![t] = [Idle EXCEPT !.pc = "load", !.op = "delete", !.key = k, !.rid = r]]
  /\ UNCHANGED <<m, bucket>>

CallScan(t, k) ==
  /\ call[t].pc = "idle"
  /\ call' = [call EXCEPT ![t] = [Idle EXCEPT !.pc = "load", !.op = "scan", !.key = k]]
  /\ UNCHANGED <<m, bucket>>

\* m.Load: without a bucket, an insert goes on to make one; the others are done.
Load(t) ==
  /\ call[t].pc = "load"
  /\ LET b == m[call[t].key]
     IN  call' = [call EXCEPT ![t].b = b,
                              ![t].pc = IF b # NoBucket THEN "lock"
                                        ELSE IF call[t].op = "insert" THEN "store" ELSE "done"]
  /\ UNCHANGED <<m, bucket>>

\* LoadOrStore of a new bucket, for which there is memory.
LoadOrStore(t) ==
  /\ call[t].pc = "store"
  /\ LET k == call[t].key
     IN  IF m[k] # NoBucket
         THEN call' = [call EXCEPT ![t].b = m[k], ![t].pc = "lock"] /\ UNCHANGED <<m, bucket>>
         ELSE LET b == CHOOSE b \in Fresh : TRUE
              IN  /\ Fresh # {}
                  /\ m' = [m EXCEPT ![k] = b]
                  /\ bucket' = [bucket EXCEPT ![b] = [rids |-> {}, removed |-> FALSE, lock |-> NoThread]]
                  /\ call' = [call EXCEPT ![t].b = b, ![t].pc = "lock"]

LockBucket(t) ==
  /\ call[t].pc = "lock" /\ bucket[call[t].b].lock = NoThread
  /\ bucket' = [bucket EXCEPT ![call[t].b].lock = t]
  /\ call' = [call EXCEPT ![t].pc = "locked"]
  /\ UNCHANGED m

Unlocked(b) == [bucket EXCEPT ![b].lock = NoThread]
Return(t) == call' = [call EXCEPT ![t].pc = "done"]

Removed(t) == bucket[call[t].b].removed

\* An insert or a scan has lost the race with a removal, and starts over.
Retry(t) ==
  /\ call[t].pc = "locked" /\ call[t].op \in {"insert", "scan"} /\ Removed(t)
  /\ bucket' = Unlocked(call[t].b)
  /\ call' = [call EXCEPT ![t].pc = "load", ![t].b = NoBucket]
  /\ UNCHANGED m

InsertEntry(t) ==
  /\ call[t].pc = "locked" /\ call[t].op = "insert" /\ ~Removed(t)
  /\ bucket' = [Unlocked(call[t].b) EXCEPT ![call[t].b].rids = @ \cup {call[t].rid}]
  /\ Return(t) /\ UNCHANGED m

\* Variant: the empty bucket leaves the map without being marked.
DeleteEntryUnmarked(t) ==
  /\ call[t].pc = "locked" /\ call[t].op = "delete"
  /\ LET b == call[t].b
         left == bucket[b].rids \ {call[t].rid}
         emptied == left = {} /\ call[t].rid \in bucket[b].rids
     IN  /\ bucket' = [Unlocked(b) EXCEPT ![b].rids = left]
         /\ m' = IF emptied THEN [m EXCEPT ![call[t].key] = NoBucket] ELSE m
  /\ Return(t)

\* Variant: the empty bucket is marked and stays in the map.
DeleteEntryKept(t) ==
  /\ call[t].pc = "locked" /\ call[t].op = "delete"
  /\ LET b == call[t].b
         left == bucket[b].rids \ {call[t].rid}
     IN  bucket' = [Unlocked(b) EXCEPT ![b].rids = left, ![b].removed = @ \/ left = {}]
  /\ Return(t) /\ UNCHANGED m

\* A bucket that becomes empty is marked and leaves the map, under its lock.
DeleteEntry(t) ==
  /\ call[t].pc = "locked" /\ call[t].op = "delete"
  /\ LET b == call[t].b
         left == bucket[b].rids \ {call[t].rid}
         emptied == left = {} /\ call[t].rid \in bucket[b].rids
     IN  /\ bucket' = [Unlocked(b) EXCEPT ![b].rids = left, ![b].removed = @ \/ emptied]
         /\ m' = IF emptied THEN [m EXCEPT ![call[t].key] = NoBucket] ELSE m
  /\ Return(t)

ScanKey(t) ==
  /\ call[t].pc = "locked" /\ call[t].op = "scan" /\ ~Removed(t)
  /\ bucket' = Unlocked(call[t].b)
  /\ call' = [call EXCEPT ![t].pc = "done", ![t].out = bucket[call[t].b].rids]
  /\ UNCHANGED m

Done(t) ==
  /\ call[t].pc = "done" /\ call' = [call EXCEPT ![t] = Idle]
  /\ UNCHANGED <<m, bucket>>

Step(t) == Load(t) \/ LoadOrStore(t) \/ LockBucket(t) \/ Retry(t) \/ InsertEntry(t)
             \/ DeleteEntry(t) \/ ScanKey(t) \/ Done(t)

HashNext ==
  \E t \in Threads :
    \/ Step(t)
    \/ \E k \in Keys, r \in Rids : CallInsert(t, k, r) \/ CallDelete(t, k, r)
    \/ \E k \in Keys : CallScan(t, k)

HashFairness == \A t \in Threads : WF_hashVars(Step(t)) /\ SF_hashVars(LockBucket(t))
HashSpec == HashInit /\ [][HashNext]_hashVars /\ HashFairness
-----------------------------------------------------------------------------
\* The index is one set of entries: an insert that returns has its entry in the
\* index, a delete that returns has it out, and a scan returns what the index has
\* for the key when it looks.  No insert ends up in a bucket the map has lost.
IndexIsASet ==
  [][\A t \in Threads : (call[t].pc = "locked" /\ call'[t].pc = "done") =>
       CASE call[t].op = "insert" -> <<call[t].key, call[t].rid>> \in Entries'
         [] call[t].op = "delete" -> <<call[t].key, call[t].rid>> \notin Entries'
         [] OTHER -> {<<call[t].key, r>> : r \in call'[t].out} = {e \in Entries : e[1] = call[t].key}]_hashVars

\* Retries cannot go round for ever without anybody getting on: while a call is
\* under way, some call completes.  (A single insert may lose the race any number
\* of times.)
SomeCallReturns ==
  \A t \in Threads : call[t].pc # "idle" ~> \E u \in Threads : call[u].pc = "done"
=============================================================================
