-------------------------- MODULE HashIndexProofs ---------------------------
(* Theorems about HashIndex, for every set of threads, keys, rows and        *)
(* buckets.                                                                  *)
EXTENDS HashIndex, TLAPS

\* The absent bucket is no bucket and no row.
HashConstants == NoBucket \notin Buckets /\ NoBucket \notin Rids

BucketTypes == [rids : SUBSET Rids, removed : BOOLEAN, lock : Threads \cup {NoThread}]
CallTypes ==
  [pc : {"idle", "load", "store", "lock", "locked", "done"}, op : {"none", "insert", "delete", "scan"},
   key : Keys \cup {NoBucket}, rid : Rids \cup {NoBucket}, b : Buckets \cup {NoBucket}, out : SUBSET Rids]

HashTypes ==
  /\ m \in [Keys -> Buckets \cup {NoBucket}]
  /\ bucket \in [Buckets -> BucketTypes]
  /\ call \in [Threads -> CallTypes]

\* A call is about a key; a call that changes the index also about a row.
CallTyped(c) ==
  /\ c.pc # "idle" => c.key \in Keys
  /\ c.pc # "idle" /\ c.op \in {"insert", "delete"} => c.rid \in Rids
  /\ c.pc = "store" => c.op = "insert"

\* The buckets of the map are not removed, and no two keys share one.
MapSound ==
  /\ \A k \in Keys : m[k] # NoBucket => ~bucket[m[k]].removed
  /\ \A j, k \in Keys : m[k] = m[j] /\ m[k] # NoBucket => k = j

\* The bucket a thread has found is still the one of its key, or is marked.
FoundSound(c) ==
  c.pc \in {"lock", "locked"} => c.b \in Buckets /\ (m[c.key] = c.b \/ bucket[c.b].removed)

\* No two calls are about one row.
RowsApart ==
  \A t, u \in Threads : t # u /\ call[t].rid # NoBucket => call[t].rid # call[u].rid

\* The entry a call is to delete is there until it does so: the bucket cannot
\* become empty, and be removed, under the call.
DeleteSound(c) ==
  c.op = "delete" /\ c.pc \in {"load", "lock", "locked"} =>
    /\ m[c.key] # NoBucket /\ c.rid \in bucket[m[c.key]].rids
    /\ c.pc # "load" => c.b = m[c.key]

CallSound(c) == CallTyped(c) /\ FoundSound(c) /\ DeleteSound(c)

HashInv == HashTypes /\ MapSound /\ RowsApart /\ \A t \in Threads : CallSound(call[t])

LEMMA HashStart == HashConstants /\ HashInit => HashInv
  BY DEF HashConstants, HashInit, HashInv, HashTypes, CallTypes, BucketTypes, Idle, MapSound, RowsApart, CallSound,
         CallTyped, FoundSound, DeleteSound

\* A step of t that leaves the map and the buckets alone.
LEMMA LocalStepKeeps ==
  ASSUME HashInv, NEW t \in Threads, NEW c \in CallTypes, CallSound(c),
         c.rid = call[t].rid \/ c.rid = NoBucket \/ ~InUse(c.rid),
         call' = [call EXCEPT ![t] = c], UNCHANGED <<m, bucket>>
  PROVE  HashInv'
  <1>1. HashTypes' /\ MapSound'
    BY DEF HashInv, HashTypes, BucketTypes, MapSound
  <1>2. RowsApart'
    BY DEF HashInv, HashTypes, RowsApart, InUse
  <1>3. ASSUME NEW u \in Threads PROVE CallSound(call[u])'
    <2>1. CallSound(call'[u])
      BY DEF HashInv, HashTypes
    <2> QED
      BY <2>1 DEF CallSound, CallTyped, FoundSound, DeleteSound
  <1> QED
    BY <1>1, <1>2, <1>3 DEF HashInv

\* The calls, and the steps that only read.
LEMMA ReadersKeep ==
  ASSUME HashConstants, HashInv, NEW t \in Threads,
         \/ Load(t) \/ Done(t)
         \/ \E k \in Keys, r \in Rids : CallInsert(t, k, r) \/ CallDelete(t, k, r)
         \/ \E k \in Keys : CallScan(t, k)
  PROVE  HashInv'
  <1> USE DEF HashConstants, CallSound, CallTyped, FoundSound, DeleteSound
  <1> call[t] \in CallTypes /\ CallSound(call[t])
    BY DEF HashInv, HashTypes
  <1>1. ASSUME NEW k \in Keys, NEW r \in Rids, CallInsert(t, k, r) PROVE HashInv'
    <2> DEFINE c == [Idle EXCEPT !.pc = "load", !.op = "insert", !.key = k, !.rid = r]
    <2>1. c \in CallTypes /\ CallSound(c) /\ c.rid = r
      BY DEF Idle, CallTypes
    <2>2. ~InUse(r) /\ call' = [call EXCEPT ![t] = c] /\ UNCHANGED <<m, bucket>>
      BY <1>1 DEF CallInsert
    <2> HIDE DEF c
    <2> QED
      BY <2>1, <2>2, LocalStepKeeps
  <1>2. ASSUME NEW k \in Keys, NEW r \in Rids, CallDelete(t, k, r) PROVE HashInv'
    <2> DEFINE c == [Idle EXCEPT !.pc = "load", !.op = "delete", !.key = k, !.rid = r]
    <2>1. m[k] # NoBucket /\ r \in bucket[m[k]].rids
      BY <1>2 DEF CallDelete, Entries
    <2>2. c \in CallTypes /\ CallSound(c) /\ c.rid = r
      BY <2>1 DEF Idle, CallTypes
    <2>3. ~InUse(r) /\ call' = [call EXCEPT ![t] = c] /\ UNCHANGED <<m, bucket>>
      BY <1>2 DEF CallDelete
    <2> HIDE DEF c
    <2> QED
      BY <2>2, <2>3, LocalStepKeeps
  <1>3. ASSUME NEW k \in Keys, CallScan(t, k) PROVE HashInv'
    <2> DEFINE c == [Idle EXCEPT !.pc = "load", !.op = "scan", !.key = k]
    <2>1. c \in CallTypes /\ CallSound(c) /\ c.rid = NoBucket
      BY DEF Idle, CallTypes
    <2>2. call' = [call EXCEPT ![t] = c] /\ UNCHANGED <<m, bucket>>
      BY <1>3 DEF CallScan
    <2> HIDE DEF c
    <2> QED
      BY <2>1, <2>2, LocalStepKeeps
  <1>4. CASE Load(t)
    <2> DEFINE b == m[call[t].key]
               c == [call[t] EXCEPT !.b = b, !.pc = IF b # NoBucket THEN "lock"
                                                    ELSE IF call[t].op = "insert" THEN "store" ELSE "done"]
    <2>1. call[t].pc = "load" /\ call[t].key \in Keys /\ b \in Buckets \cup {NoBucket}
      BY <1>4 DEF Load, HashInv, HashTypes
    <2>2. c \in CallTypes /\ c.rid = call[t].rid
      BY <2>1 DEF CallTypes
    <2>3. CallSound(c)
      BY <2>1 DEF CallTypes
    <2>4. call' = [call EXCEPT ![t] = c] /\ UNCHANGED <<m, bucket>>
      BY <1>4 DEF Load, HashInv, HashTypes, CallTypes
    <2> HIDE DEF c
    <2> QED
      BY <2>2, <2>3, <2>4, LocalStepKeeps
  <1>5. CASE Done(t)
    <2>1. Idle \in CallTypes /\ CallSound(Idle) /\ Idle.rid = NoBucket
      BY DEF Idle, CallTypes
    <2> QED
      BY <1>5, <2>1, LocalStepKeeps DEF Done
  <1> QED
    BY <1>1, <1>2, <1>3, <1>4, <1>5

\* A step of t that takes nothing out of any bucket, and marks none.
LEMMA BucketStepKeeps ==
  ASSUME HashInv, NEW t \in Threads, NEW c \in CallTypes, CallSound(c), c.rid = call[t].rid,
         call' = [call EXCEPT ![t] = c], UNCHANGED m,
         bucket' \in [Buckets -> BucketTypes],
         \A b \in Buckets : bucket'[b].removed = bucket[b].removed /\ bucket[b].rids \subseteq bucket'[b].rids
  PROVE  HashInv'
  <1>1. HashTypes' /\ MapSound'
    BY DEF HashInv, HashTypes, BucketTypes, MapSound
  <1>2. RowsApart'
    BY DEF HashInv, HashTypes, RowsApart
  <1>3. ASSUME NEW u \in Threads PROVE CallSound(call[u])'
    <2>1. CallSound(call'[u])
      BY DEF HashInv, HashTypes
    <2>2. CallTyped(call'[u]) /\ FoundSound(call[u])'
      BY <2>1 DEF CallSound, CallTyped, FoundSound
    <2>3. DeleteSound(call[u])'
      <3> SUFFICES ASSUME call'[u].op = "delete", call'[u].pc \in {"load", "lock", "locked"}
                   PROVE  call'[u].rid \in bucket'[m[call'[u].key]].rids
        BY <2>1 DEF CallSound, DeleteSound
      <3>1. call'[u].key \in Keys /\ m[call'[u].key] \in Buckets
        BY <2>1 DEF CallSound, CallTyped, DeleteSound, HashInv, HashTypes
      <3> QED
        BY <2>1, <3>1 DEF CallSound, DeleteSound
    <2> QED
      BY <2>2, <2>3 DEF CallSound, CallTyped
  <1> QED
    BY <1>1, <1>2, <1>3 DEF HashInv

\* LockBucket, and the steps under the lock that take no entry out.
LEMMA LockedKeep ==
  ASSUME HashConstants, HashInv, NEW t \in Threads,
         LockBucket(t) \/ Retry(t) \/ InsertEntry(t) \/ ScanKey(t)
  PROVE  HashInv'
  <1> USE DEF HashConstants, CallSound, CallTyped, FoundSound, DeleteSound
  <1> DEFINE b == call[t].b
  <1>1. call[t] \in CallTypes /\ CallSound(call[t]) /\ b \in Buckets /\ call[t].pc \in {"lock", "locked"}
    BY DEF HashInv, HashTypes, LockBucket, Retry, InsertEntry, ScanKey
  <1>2. bucket \in [Buckets -> BucketTypes]
    BY DEF HashInv, HashTypes
  <1>3. CASE LockBucket(t)
    <2> DEFINE c == [call[t] EXCEPT !.pc = "locked"]
    <2>1. c \in CallTypes /\ CallSound(c) /\ c.rid = call[t].rid
      BY <1>1, <1>3 DEF CallTypes, LockBucket
    <2>2. call' = [call EXCEPT ![t] = c] /\ m' = m
      BY <1>3 DEF LockBucket, HashInv, HashTypes
    <2>3. /\ bucket' \in [Buckets -> BucketTypes]
          /\ \A a \in Buckets : bucket'[a].removed = bucket[a].removed /\ bucket[a].rids \subseteq bucket'[a].rids
      BY <1>1, <1>2, <1>3 DEF LockBucket, BucketTypes
    <2> HIDE DEF c
    <2> QED
      BY <2>1, <2>2, <2>3, BucketStepKeeps
  <1>4. CASE Retry(t)
    <2> DEFINE c == [call[t] EXCEPT !.pc = "load", !.b = NoBucket]
    <2>1. c \in CallTypes /\ CallSound(c) /\ c.rid = call[t].rid
      BY <1>1, <1>4 DEF CallTypes, Retry
    <2>2. call' = [call EXCEPT ![t] = c] /\ m' = m
      BY <1>4 DEF Retry, HashInv, HashTypes
    <2>3. /\ bucket' \in [Buckets -> BucketTypes]
          /\ \A a \in Buckets : bucket'[a].removed = bucket[a].removed /\ bucket[a].rids \subseteq bucket'[a].rids
      BY <1>1, <1>2, <1>4 DEF Retry, Unlocked, BucketTypes
    <2> HIDE DEF c
    <2> QED
      BY <2>1, <2>2, <2>3, BucketStepKeeps
  <1>5. CASE InsertEntry(t)
    <2> DEFINE c == [call[t] EXCEPT !.pc = "done"]
    <2>1. c \in CallTypes /\ CallSound(c) /\ c.rid = call[t].rid /\ call[t].rid \in Rids
      BY <1>1, <1>5 DEF CallTypes, InsertEntry
    <2>2. call' = [call EXCEPT ![t] = c] /\ m' = m
      BY <1>5 DEF InsertEntry, Return, HashInv, HashTypes
    <2>3. bucket' = [Unlocked(b) EXCEPT ![b].rids = @ \cup {call[t].rid}]
      BY <1>5 DEF InsertEntry
    <2>4. /\ bucket' \in [Buckets -> BucketTypes]
          /\ \A a \in Buckets : bucket'[a].removed = bucket[a].removed /\ bucket[a].rids \subseteq bucket'[a].rids
      <3> DEFINE new == [bucket[b] EXCEPT !.lock = NoThread, !.rids = @ \cup {call[t].rid}]
      <3>1. new \in BucketTypes /\ new.removed = bucket[b].removed /\ bucket[b].rids \subseteq new.rids
        BY <1>1, <1>2, <2>1 DEF BucketTypes
      <3>2. [[bucket[b] EXCEPT !.lock = NoThread] EXCEPT !.rids = @ \cup {call[t].rid}] = new
        BY <1>1, <1>2 DEF BucketTypes
      <3> HIDE DEF new
      <3>3. bucket' = [bucket EXCEPT ![b] = new]
        BY <1>1, <1>2, <2>3, <3>2 DEF Unlocked
      <3> QED
        BY <1>1, <1>2, <3>1, <3>3
    <2> HIDE DEF c
    <2> QED
      BY <2>1, <2>2, <2>4, BucketStepKeeps
  <1>6. CASE ScanKey(t)
    <2> DEFINE c == [call[t] EXCEPT !.pc = "done", !.out = bucket[b].rids]
    <2>1. c \in CallTypes /\ CallSound(c) /\ c.rid = call[t].rid
      BY <1>1, <1>2, <1>6 DEF CallTypes, ScanKey, BucketTypes
    <2>2. call' = [call EXCEPT ![t] = c] /\ m' = m
      BY <1>6 DEF ScanKey, HashInv, HashTypes
    <2>3. /\ bucket' \in [Buckets -> BucketTypes]
          /\ \A a \in Buckets : bucket'[a].removed = bucket[a].removed /\ bucket[a].rids \subseteq bucket'[a].rids
      BY <1>1, <1>2, <1>6 DEF ScanKey, Unlocked, BucketTypes
    <2> HIDE DEF c
    <2> QED
      BY <2>1, <2>2, <2>3, BucketStepKeeps
  <1> QED
    BY <1>3, <1>4, <1>5, <1>6

\* LoadOrStore: the bucket that came first, or a new one that nobody knows yet.
LEMMA StoreKeeps ==
  ASSUME HashConstants, HashInv, NEW t \in Threads, LoadOrStore(t)
  PROVE  HashInv'
  <1> DEFINE k == call[t].key
  <1>1. call[t] \in CallTypes /\ call[t].pc = "store" /\ call[t].op = "insert" /\ k \in Keys /\ call[t].rid \in Rids
    BY DEF LoadOrStore, HashInv, HashTypes, CallSound, CallTyped
  <1>2. CASE m[k] # NoBucket
    <2> DEFINE c == [call[t] EXCEPT !.b = m[k], !.pc = "lock"]
    <2>1. c \in CallTypes /\ CallSound(c) /\ c.rid = call[t].rid
      BY <1>1, <1>2 DEF CallTypes, HashInv, HashTypes, CallSound, CallTyped, FoundSound, DeleteSound
    <2>2. call' = [call EXCEPT ![t] = c] /\ UNCHANGED <<m, bucket>>
      BY <1>2 DEF LoadOrStore, HashInv, HashTypes
    <2> HIDE DEF c
    <2> QED
      BY <2>1, <2>2, LocalStepKeeps
  <1>3. CASE m[k] = NoBucket
    <2> DEFINE b == CHOOSE b \in Fresh : TRUE
               c == [call[t] EXCEPT !.b = b, !.pc = "lock"]
               new == [rids |-> {}, removed |-> FALSE, lock |-> NoThread]
    <2>1. /\ Fresh # {} /\ m' = [m EXCEPT ![k] = b] /\ bucket' = [bucket EXCEPT ![b] = new]
          /\ call' = [call EXCEPT ![t] = c]
      BY <1>3 DEF LoadOrStore, HashInv, HashTypes
    <2>2. b \in Fresh
      BY <2>1
    <2> HIDE DEF b
    <2>3. b \in Buckets /\ (\A j \in Keys : m[j] # b) /\ \A u \in Threads : call[u].b # b
      BY <2>2 DEF Fresh
    <2>4. c \in CallTypes /\ c.rid = call[t].rid /\ c.key = k /\ c.b = b /\ c.op = "insert" /\ c.pc = "lock"
      BY <1>1, <2>3 DEF CallTypes
    <2> HIDE DEF c
    <2>5. HashTypes'
      BY <1>1, <2>1, <2>3, <2>4 DEF HashInv, HashTypes, BucketTypes
    <2>6. MapSound'
      BY <1>1, <2>1, <2>3 DEF HashInv, HashTypes, BucketTypes, MapSound
    <2>7. RowsApart'
      BY <2>1, <2>4 DEF HashInv, HashTypes, RowsApart
    <2>8. ASSUME NEW u \in Threads PROVE CallSound(call[u])'
      <3>1. CASE u = t
        BY <1>1, <2>1, <2>3, <2>4, <3>1 DEF HashInv, HashTypes, CallSound, CallTyped, FoundSound, DeleteSound
      <3>2. CASE u # t
        <4>1. call'[u] = call[u] /\ CallSound(call[u]) /\ call[u] \in CallTypes
          BY <2>1, <3>2 DEF HashInv, HashTypes
        <4>2. CallTyped(call'[u])
          BY <4>1 DEF CallSound
        <4>3. FoundSound(call[u])'
          BY <1>1, <1>3, <2>1, <2>3, <4>1 DEF HashConstants, CallSound, CallTyped, FoundSound, HashInv, HashTypes
        <4>4. DeleteSound(call[u])'
          BY <1>1, <1>3, <2>1, <2>3, <4>1 DEF CallSound, CallTyped, DeleteSound, HashInv, HashTypes
        <4> QED
          BY <4>2, <4>3, <4>4 DEF CallSound, CallTyped
      <3> QED
        BY <3>1, <3>2
    <2> QED
      BY <2>5, <2>6, <2>7, <2>8 DEF HashInv
  <1> QED
    BY <1>2, <1>3

\* DeleteEntry: the bucket is the one of its key in the map.  If it becomes empty,
\* no other call has an entry in it to delete.
LEMMA DeleteKeeps ==
  ASSUME HashConstants, HashInv, NEW t \in Threads, DeleteEntry(t)
  PROVE  HashInv'
  <1> DEFINE k == call[t].key
             b == call[t].b
             r == call[t].rid
             left == bucket[b].rids \ {r}
             c == [call[t] EXCEPT !.pc = "done"]
  <1>1. call[t] \in CallTypes /\ call[t].pc = "locked" /\ call[t].op = "delete" /\ k \in Keys /\ r \in Rids
    BY DEF DeleteEntry, HashInv, HashTypes, CallSound, CallTyped
  <1>2. b \in Buckets /\ m[k] = b /\ r \in bucket[b].rids
    BY <1>1 DEF HashInv, CallSound, FoundSound, DeleteSound
  <1>3. /\ bucket' = [Unlocked(b) EXCEPT ![b].rids = left, ![b].removed = @ \/ left = {}]
        /\ m' = IF left = {} THEN [m EXCEPT ![k] = NoBucket] ELSE m
        /\ call' = [call EXCEPT ![t] = c]
    BY <1>2 DEF DeleteEntry, Return, HashInv, HashTypes
  <1>4. /\ bucket' \in [Buckets -> BucketTypes]
        /\ bucket'[b].rids = left /\ (bucket'[b].removed <=> bucket[b].removed \/ left = {})
        /\ \A a \in Buckets : a # b => bucket'[a] = bucket[a]
    <2> DEFINE new == [[bucket[b] EXCEPT !.lock = NoThread] EXCEPT !.rids = left, !.removed = @ \/ left = {}]
    <2>1. bucket \in [Buckets -> BucketTypes] /\ bucket[b] \in BucketTypes
      BY <1>2 DEF HashInv, HashTypes
    <2>2. new.rids = left /\ (new.removed <=> bucket[b].removed \/ left = {})
      BY <2>1 DEF BucketTypes
    <2>3. new \in BucketTypes
      BY <2>1 DEF BucketTypes
    <2>4. bucket' = [bucket EXCEPT ![b] = new]
      BY <1>2, <1>3, <2>1 DEF Unlocked
    <2> HIDE DEF new
    <2> QED
      BY <1>2, <2>1, <2>2, <2>3, <2>4
  <1>5. c \in CallTypes /\ c.rid = r /\ c.pc = "done" /\ c.key = k /\ c.op = "delete"
    BY <1>1 DEF CallTypes
  <1> HIDE DEF c, left
  <1>6. HashTypes'
    BY <1>1, <1>3, <1>4, <1>5 DEF HashInv, HashTypes
  <1>7. MapSound'
    <2>1. ASSUME NEW j \in Keys, m'[j] # NoBucket PROVE ~bucket'[m'[j]].removed /\ m'[j] = m[j]
      <3>1. m'[j] = m[j] /\ m[j] \in Buckets /\ (j = k => left # {})
        BY <1>1, <1>3, <2>1 DEF HashInv, HashTypes
      <3>2. m[j] = b => j = k
        BY <1>1, <1>2, <3>1, <2>1 DEF HashInv, MapSound
      <3> QED
        BY <1>2, <1>4, <3>1, <3>2, <2>1 DEF HashInv, MapSound
    <2> QED
      BY <2>1 DEF HashInv, MapSound
  <1>8. RowsApart'
    BY <1>3, <1>5 DEF HashInv, HashTypes, RowsApart
  <1>9. ASSUME NEW u \in Threads PROVE CallSound(call[u])'
    <2>1. CASE u = t
      BY <1>1, <1>3, <1>5, <2>1 DEF HashInv, HashTypes, CallSound, CallTyped, FoundSound, DeleteSound
    <2>2. CASE u # t
      <3>1. call'[u] = call[u] /\ CallSound(call[u]) /\ call[u] \in CallTypes
        BY <1>3, <2>2 DEF HashInv, HashTypes
      <3>2. FoundSound(call[u])'
        <4> SUFFICES ASSUME call[u].pc \in {"lock", "locked"}
                     PROVE  call[u].b \in Buckets /\ (m'[call[u].key] = call[u].b \/ bucket'[call[u].b].removed)
          BY <3>1 DEF FoundSound
        <4>1. call[u].b \in Buckets /\ call[u].key \in Keys /\ (m[call[u].key] = call[u].b \/ bucket[call[u].b].removed)
          BY <3>1 DEF CallSound, CallTyped, FoundSound
        <4>2. call[u].b = b \/ bucket'[call[u].b] = bucket[call[u].b]
          BY <1>4, <4>1
        <4>3. m'[call[u].key] = m[call[u].key] \/ (left = {} /\ call[u].key = k)
          BY <1>1, <1>3, <4>1 DEF HashInv, HashTypes
        <4> QED
          BY <1>2, <1>4, <4>1, <4>2, <4>3
      <3>3. DeleteSound(call[u])'
        <4> SUFFICES ASSUME call[u].op = "delete", call[u].pc \in {"load", "lock", "locked"}
                     PROVE  /\ m'[call[u].key] # NoBucket /\ call[u].rid \in bucket'[m'[call[u].key]].rids
                            /\ call[u].pc # "load" => call[u].b = m'[call[u].key]
          BY <3>1 DEF DeleteSound
        <4>1. /\ call[u].key \in Keys /\ m[call[u].key] \in Buckets
              /\ m[call[u].key] # NoBucket /\ call[u].rid \in bucket[m[call[u].key]].rids
              /\ call[u].pc # "load" => call[u].b = m[call[u].key]
          BY <3>1 DEF CallSound, CallTyped, DeleteSound, HashInv, HashTypes
        <4>2. call[u].rid # r
          BY <1>1, <2>2 DEF HashConstants, HashInv, RowsApart
        <4>3. m[call[u].key] = b => call[u].rid \in left
          BY <4>1, <4>2 DEF left
        <4>4. m'[call[u].key] = m[call[u].key]
          BY <1>1, <1>2, <1>3, <4>1, <4>3 DEF HashInv, HashTypes
        <4> QED
          BY <1>4, <4>1, <4>3, <4>4
      <3> QED
        BY <3>1, <3>2, <3>3 DEF CallSound, CallTyped
    <2> QED
      BY <2>1, <2>2
  <1> QED
    BY <1>6, <1>7, <1>8, <1>9 DEF HashInv

LEMMA HashStepKeeps == ASSUME HashConstants, HashInv, [HashNext]_hashVars PROVE HashInv'
  <1>1. CASE UNCHANGED hashVars
    BY <1>1 DEF hashVars, HashInv, HashTypes, MapSound, RowsApart, CallSound, CallTyped, FoundSound, DeleteSound
  <1>2. ASSUME NEW t \in Threads, Step(t) PROVE HashInv'
    BY <1>2, ReadersKeep, LockedKeep, StoreKeeps, DeleteKeeps DEF Step
  <1> QED
    BY <1>1, <1>2, ReadersKeep DEF HashNext

\* The three ways to return from under a bucket's lock.
ReturnSound(t) ==
  (call[t].pc = "locked" /\ call'[t].pc = "done") =>
       CASE call[t].op = "insert" -> <<call[t].key, call[t].rid>> \in Entries'
         [] call[t].op = "delete" -> <<call[t].key, call[t].rid>> \notin Entries'
         [] OTHER -> {<<call[t].key, r>> : r \in call'[t].out} = {e \in Entries : e[1] = call[t].key}

LEMMA ReturnStep ==
  ASSUME HashConstants, HashInv, HashInv', HashNext, NEW t \in Threads, call[t].pc = "locked", call'[t].pc = "done"
  PROVE  ReturnSound(t)
  <1> DEFINE k == call[t].key
             b == call[t].b
  <1>1. /\ call[t] \in CallTypes /\ k \in Keys /\ b \in Buckets
        /\ bucket \in [Buckets -> BucketTypes] /\ m \in [Keys -> Buckets \cup {NoBucket}]
    BY DEF HashInv, HashTypes, CallSound, CallTyped, FoundSound
  <1>2. InsertEntry(t) \/ DeleteEntry(t) \/ ScanKey(t)
    <2>1. PICK u \in Threads :
            \/ Step(u)
            \/ \E j \in Keys, r \in Rids : CallInsert(u, j, r) \/ CallDelete(u, j, r)
            \/ \E j \in Keys : CallScan(u, j)
      BY DEF HashNext
    <2>2. u = t
      BY <2>1 DEF Step, Load, LoadOrStore, LockBucket, Retry, InsertEntry, DeleteEntry, ScanKey, Done, Return,
                  CallInsert, CallDelete, CallScan, HashInv, HashTypes
    <2>3. ~Retry(t)
      BY DEF Retry, HashInv, HashTypes, CallTypes
    <2> QED
      BY <2>1, <2>2, <2>3 DEF Step, Load, LoadOrStore, LockBucket, Done, CallInsert, CallDelete, CallScan
  <1>3. CASE InsertEntry(t)
    <2>1. m[k] = b /\ m' = m /\ call[t].op = "insert" /\ call[t].rid \in Rids /\ b # NoBucket
      BY <1>1, <1>3 DEF InsertEntry, Removed, HashConstants, HashInv, CallSound, CallTyped, FoundSound
    <2>2. call[t].rid \in bucket'[b].rids
      BY <1>1, <1>3 DEF InsertEntry, Unlocked, BucketTypes
    <2>3. <<k, call[t].rid>> \in Entries'
      BY <1>1, <2>1, <2>2 DEF Entries
    <2> QED
      BY <2>1, <2>3 DEF ReturnSound
  <1>4. CASE DeleteEntry(t)
    <2>1. m[k] = b /\ call[t].op = "delete" /\ call[t].rid \in bucket[b].rids
      BY <1>4 DEF DeleteEntry, HashInv, CallSound, DeleteSound
    <2>2. m'[k] = NoBucket \/ m' = m
      BY <1>1, <1>4 DEF DeleteEntry
    <2>3. call[t].rid \notin bucket'[b].rids
      BY <1>1, <1>4 DEF DeleteEntry, Unlocked, BucketTypes
    <2>4. <<k, call[t].rid>> \notin Entries'
      BY <2>1, <2>2, <2>3 DEF Entries
    <2> QED
      BY <2>1, <2>4 DEF ReturnSound
  <1>5. CASE ScanKey(t)
    <2>1. m[k] = b /\ b # NoBucket /\ call[t].op = "scan"
      BY <1>1, <1>5 DEF ScanKey, Removed, HashConstants, HashInv, CallSound, FoundSound
    <2>2. call'[t].out = bucket[b].rids /\ bucket[b].rids \subseteq Rids
      BY <1>1, <1>5 DEF ScanKey, HashInv, HashTypes, CallTypes, BucketTypes
    <2>3. {<<k, r>> : r \in bucket[b].rids} = {e \in Entries : e[1] = k}
      <3>1. ASSUME NEW r \in bucket[b].rids PROVE <<k, r>> \in Entries
        BY <1>1, <2>1, <2>2 DEF Entries
      <3>2. ASSUME NEW e \in Entries, e[1] = k PROVE e = <<k, e[2]>> /\ e[2] \in bucket[b].rids
        BY <2>1, <3>2 DEF Entries
      <3> QED
        BY <3>1, <3>2
    <2> QED
      BY <2>1, <2>2, <2>3 DEF ReturnSound
  <1> QED
    BY <1>2, <1>3, <1>4, <1>5

\* However its callers race with the removal of empty buckets, MemHashIndex is one
\* set: an insert that returns is in it, a delete that returns is out of it, and a
\* scan returns what it has for the key.
THEOREM HashIndexIsASet == ASSUME HashConstants PROVE HashSpec => IndexIsASet
  <1>1. HashInit => HashInv
    BY HashStart
  <1>2. HashInv /\ [HashNext]_hashVars => HashInv'
    BY HashStepKeeps
  <1>3. HashInv /\ HashInv' /\ [HashNext]_hashVars => [\A t \in Threads : ReturnSound(t)]_hashVars
    BY ReturnStep DEF ReturnSound
  <1>4. HashSpec => [][\A t \in Threads : ReturnSound(t)]_hashVars
    BY <1>1, <1>2, <1>3, PTL DEF HashSpec
  <1> QED
    BY <1>4, PTL DEF ReturnSound, IndexIsASet
=============================================================================
