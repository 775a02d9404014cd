------------------------------ MODULE Indexes -------------------------------
(***************************************************************************)
(* A table with a B-tree and a hash index on the same column: what the     *)
(* insert, delete and update executors do to table and indexes, the index  *)
(* tasks a transaction collects for its end (indexing/, transaction/), the *)
(* answers of index lookups and scans, and the rebuilding of the indexes   *)
(* by recovery.  Statements run one at a time, each on one row, with a     *)
(* transaction or (txn = nil) without.                                     *)
(*                                                                         *)
(* Keys and record identifiers are numbers, in their order.                *)
(***************************************************************************)
EXTENDS Integers, FiniteSets, SequencesExt

CONSTANTS
  Keys, Rids,
  MaxStatements,  \* statements between two recoveries
  Free, Deleted   \* heap[r] of a slot never used, and of a deleted row

VARIABLES
  heap,           \* heap[r]: the key of the row, Free or Deleted
  tree,           \* the B-tree: a set of <<key, rid>>
  hash,           \* hash[k]: the rids of the bucket; empty when k has none
  txn,            \* "none", "open", or "failed": a statement of it failed
  commitActions, abortActions,
  panicked,
  begun,          \* history: both indexes when the transaction began
  excuses,        \* history: why table and indexes may disagree
  statements

vars == <<heap, tree, hash, txn, commitActions, abortActions, panicked, begun, excuses, statements>>

Indices == {"btree", "hash"}
Task(ix, k, r) == [target |-> ix, key |-> k, rid |-> r]
Live == {r \in Rids : heap[r] \in Keys}
HashEntries(h) == UNION {{<<k, h[k][i]>> : i \in DOMAIN h[k]} : k \in Keys}

\* NewIndexManager makes empty indexes; recovery fills them from the table.
Rebuilt(h) ==
  [tree |-> {<<h[r], r>> : r \in {q \in Rids : h[q] \in Keys}},
   hash |-> [k \in Keys |-> SetToSortSeq({r \in Rids : h[r] = k}, <)]]

IndexInit ==
  /\ heap \in [Rids -> Keys \cup {Free}]
  /\ tree = Rebuilt(heap).tree /\ hash = Rebuilt(heap).hash
  /\ txn = "none" /\ commitActions = <<>> /\ abortActions = <<>>
  /\ panicked = FALSE /\ begun = [tree |-> {}, hash |-> {}] /\ excuses = {} /\ statements = 0
-----------------------------------------------------------------------------
(***************************************************************************)
(* The two indexes.  An index state is [tree, hash, commit, abort,         *)
(* panicked]; the executors thread it through their calls.                 *)
(***************************************************************************)
Index == [tree |-> tree, hash |-> hash, commit |-> commitActions, abort |-> abortActions,
          panicked |-> panicked]
HasTxn == txn # "none"

\* The loop of MemHashIndex.DeleteEntry: it walks the slice as it was, while
\* the bucket shrinks under it.
SwapDelete(rids, rid) ==
  LET visit(acc, i) ==
        IF acc.panicked \/ acc.arr[i] # rid THEN acc
        ELSE IF i > acc.len THEN [acc EXCEPT !.panicked = TRUE]
        ELSE [acc EXCEPT !.arr[i] = acc.arr[acc.len], !.len = @ - 1]
      end == FoldLeft(visit, [arr |-> rids, len |-> Len(rids), panicked |-> FALSE],
                      [i \in 1 .. Len(rids) |-> i])
  IN  [rids |-> SubSeq(end.arr, 1, end.len), panicked |-> end.panicked]

\* Variant: no task to undo the insertion.
InsertEntryNoUndo(ix, k, r, s) ==
  IF ix = "btree" THEN [s EXCEPT !.tree = @ \cup {<<k, r>>}]
                  ELSE [s EXCEPT !.hash[k] = Append(@, r)]

\* InsertEntry of both kinds of index.
InsertEntry(ix, k, r, s) ==
  LET t == IF HasTxn THEN [s EXCEPT !.abort = Append(@, Task(ix, k, r))] ELSE s
  IN  IF ix = "btree" THEN [t EXCEPT !.tree = @ \cup {<<k, r>>}]
                      ELSE [t EXCEPT !.hash[k] = Append(@, r)]

\* DeleteEntry with txn = nil, as the tasks use it as well.
DeleteNow(ix, k, r, s) ==
  IF ix = "btree" THEN [s EXCEPT !.tree = @ \ {<<k, r>>}]
  ELSE LET d == SwapDelete(s.hash[k], r)
       IN  [s EXCEPT !.hash[k] = d.rids, !.panicked = @ \/ d.panicked]


\* Within a transaction the deletion is deferred: the B-tree defers it if it has
\* the entry, the hash index if it has a bucket for the key.
DeleteEntry(ix, k, r, s) ==
  IF ~HasTxn THEN DeleteNow(ix, k, r, s)
  ELSE IF (ix = "btree" /\ <<k, r>> \in s.tree) \/ (ix = "hash" /\ s.hash[k] # <<>>)
  THEN [s EXCEPT !.commit = Append(@, Task(ix, k, r))]
  ELSE s

InsertEntries(k, r, s) == InsertEntry("hash", k, r, InsertEntry("btree", k, r, s))
DeleteEntries(k, r, s) == DeleteEntry("hash", k, r, DeleteEntry("btree", k, r, s))

\* Variant: an update leaves the old entries.
MoveEntriesKeepOld(old, new, r, s) == InsertEntries(new, r, s)

\* The update executor's loop over the indexes, when the key changes.
MoveEntries(old, new, r, s) ==
  LET move(ix, u) == InsertEntry(ix, new, r, DeleteEntry(ix, old, r, u))
  IN  move("hash", move("btree", s))

Invoke(s, task) == IF s.panicked THEN s ELSE DeleteNow(task.target, task.key, task.rid, s)

Becomes(s) ==
  /\ tree' = s.tree /\ hash' = s.hash /\ panicked' = s.panicked
  /\ commitActions' = s.commit /\ abortActions' = s.abort
-----------------------------------------------------------------------------
(***************************************************************************)
(* Statements.                                                             *)
(***************************************************************************)
Statement == ~panicked /\ txn # "failed" /\ statements < MaxStatements /\ statements' = statements + 1

Insert(k, r) ==
  /\ Statement /\ heap[r] = Free
  /\ heap' = [heap EXCEPT ![r] = k]
  /\ Becomes(InsertEntries(k, r, Index))
  /\ UNCHANGED <<txn, begun, excuses>>

Delete(r) ==
  /\ Statement /\ r \in Live
  /\ heap' = [heap EXCEPT ![r] = Deleted]
  /\ Becomes(DeleteEntries(heap[r], r, Index))
  /\ UNCHANGED <<txn, begun, excuses>>

\* The delete executor has been through the indexes when DeleteTuple fails.
DeleteFails(r) ==
  /\ Statement /\ r \in Live
  /\ Becomes(DeleteEntries(heap[r], r, Index))
  /\ txn' = IF HasTxn THEN "failed" ELSE txn
  /\ excuses' = IF HasTxn THEN excuses ELSE excuses \cup {"failed"}
  /\ UNCHANGED <<heap, begun>>

\* The heap is updated first; an index whose key stays is left alone.  The
\* update may bring back a key whose deletion is pending.
Update(r, k) ==
  /\ Statement /\ r \in Live
  /\ heap' = [heap EXCEPT ![r] = k]
  /\ Becomes(IF k = heap[r] THEN Index ELSE MoveEntries(heap[r], k, r, Index))
  /\ excuses' = IF HasTxn /\ \E a \in ToSet(commitActions) : a.key = k /\ a.rid = r /\ k # heap[r]
                THEN excuses \cup {"revisited"} ELSE excuses
  /\ UNCHANGED <<txn, begun>>

\* TransactionContext.Reset: the context of the last transaction is used again.
Begin ==
  /\ ~panicked /\ txn = "none" /\ txn' = "open"
  /\ commitActions' = <<>> /\ abortActions' = <<>>
  /\ begun' = [tree |-> tree, hash |-> HashEntries(hash)]
  /\ UNCHANGED <<heap, tree, hash, panicked, excuses, statements>>

\* The tasks are run in order, and stay in the context.  An error of a statement
\* makes the client abort.
Commit ==
  /\ ~panicked /\ txn = "open" /\ txn' = "none"
  /\ Becomes(FoldLeft(Invoke, Index, commitActions))
  /\ UNCHANGED <<heap, begun, excuses, statements>>

\* The tasks are run last to first; the rows of the table are not rolled back.
Abort ==
  /\ ~panicked /\ HasTxn /\ txn' = "none"
  /\ Becomes(FoldLeft(Invoke, Index, Reverse(abortActions)))
  /\ excuses' = excuses \cup (IF abortActions = <<>> /\ commitActions = <<>> THEN {} ELSE {"aborted"})
  /\ UNCHANGED <<heap, begun, statements>>

\* The process is restarted: NewIndexManager, then NoLogRecoveryManager.Recover.
Recover ==
  /\ txn' = "none" /\ commitActions' = <<>> /\ abortActions' = <<>> /\ panicked' = FALSE
  /\ tree' = Rebuilt(heap).tree /\ hash' = Rebuilt(heap).hash
  /\ begun' = [tree |-> {}, hash |-> {}] /\ excuses' = {} /\ statements' = 0
  /\ UNCHANGED heap

IndexNext ==
  \/ \E r \in Rids, k \in Keys : Insert(k, r) \/ Update(r, k)
  \/ \E r \in Rids : Delete(r) \/ DeleteFails(r)
  \/ Begin \/ Commit \/ Abort \/ Recover

IndexSpec == IndexInit /\ [][IndexNext]_vars
-----------------------------------------------------------------------------
(***************************************************************************)
(* Reading through an index.                                               *)
(***************************************************************************)
\* ScanKey: the B-tree's entries of the key in the order of their rids.
ScanKey(ix, k) ==
  IF ix = "btree" THEN SetToSortSeq({r \in Rids : <<k, r>> \in tree}, <) ELSE hash[k]

\* IndexLookupExecutor: ReadTuple of each rid, up to the first that fails.
Lookup(ix, k) ==
  LET rids == ScanKey(ix, k)
      gone == {i \in DOMAIN rids : rids[i] \notin Live}
      n == IF gone = {} THEN Len(rids) ELSE Min(gone) - 1
  IN  [rows |-> {rids[i] : i \in 1 .. n}, error |-> gone # {}]

Before(a, b) == a[1] < b[1] \/ (a[1] = b[1] /\ a[2] < b[2])
Entries == SetToSortSeq(tree, Before)


\* MemBTreeIndex.Scan: where the iterator starts; Seek finds the first entry
\* whose key is at least the start.
Position(start, direction) ==
  LET n == Len(Entries)
      seek == {i \in 1 .. n : Entries[i][1] >= start}
  IN  IF direction = "forward" THEN (IF seek = {} THEN n + 1 ELSE Min(seek))
      ELSE IF seek = {} THEN n
      ELSE IF Entries[Min(seek)][1] > start THEN Min(seek) - 1 ELSE Min(seek)

\* The entries the iterator then yields.
Scan(start, direction) ==
  IF direction = "forward" THEN SubSeq(Entries, Position(start, direction), Len(Entries))
                           ELSE Reverse(SubSeq(Entries, 1, Position(start, direction)))
-----------------------------------------------------------------------------
(***************************************************************************)
(* Properties.                                                             *)
(***************************************************************************)
\* Whenever no transaction is open, both indexes have exactly the entries of the
\* rows of the table, each once: after statements without a transaction, after
\* commits, and after recovery.  The histories under which the code does not
\* achieve this are named: an abort (rows are not rolled back), a delete that
\* fails after its index entries went, a key that returns within a transaction.
IndexesAgree ==
  (txn = "none" /\ excuses = {}) =>
    /\ tree = {<<heap[r], r>> : r \in Live}
    /\ HashEntries(hash) = tree
    /\ \A k \in Keys : Cardinality(ToSet(hash[k])) = Len(hash[k])


\* Abort takes both indexes back to what they were when the transaction began,
\* unless a key came back within it.
AbortRestores ==
  [][(excuses = {} /\ "aborted" \in excuses') =>
       /\ tree' = begun.tree /\ HashEntries(hash') = begun.hash]_vars


\* A row of the table has its entries, always: a deletion deferred to the commit
\* never removes the entry of a row that is there.
LiveRowsIndexed ==
  \A r \in Live : <<heap[r], r>> \in tree /\ <<heap[r], r>> \in HashEntries(hash)

\* The same, where statements end in commits.
CommitKeepsEntries == excuses \subseteq {"revisited"} => LiveRowsIndexed
=============================================================================
