----------------------------- MODULE LogRecords -----------------------------
(***************************************************************************)
(* The layout of log records (storage/log_record.go) and the stack of undo *)
(* records a transaction keeps (logRecordBuffer and the New...Record       *)
(* methods of transaction/transaction_context.go).                         *)
(*                                                                         *)
(* A record is a view into an array that later records share and that is   *)
(* abandoned for a larger one when it is full, as Go slices are.  Memory   *)
(* is counted in cells: one for each of size with checksum, type, txnID    *)
(* and RID, and as many as the row has for an image.                       *)
(***************************************************************************)
EXTENDS Naturals, Sequences, SequencesExt

CONSTANTS
  TxnId, Rids,
  EndTypes,    \* types of the records that have a transaction and nothing else
  Rows,        \* rows of tables: sequences of non-zero cells
  Capacity,    \* cells of the first array
  MaxRecords   \* bound on the records ever made

VARIABLES
  mem,      \* mem[a]: the cells of array a
  buffer,   \* [a, len]: the slice buffer
  offsets,
  made,     \* history: what each record of the stack was made from
  views,    \* history: the views handed out for records of the stack, [at, v]
  count     \* records made so far

recordVars == <<mem, buffer, offsets, made, views, count>>

TypeAt == 2
TxnAt == 3
RidAt == 4
Header == 4   \* cells before the images of a record that has a RID
Zeros(n) == [i \in 1 .. n |-> 0]

RecordsInit ==
  /\ mem = <<Zeros(Capacity)>> /\ buffer = [a |-> 1, len |-> 0]
  /\ offsets = <<>> /\ made = <<>> /\ views = {} /\ count = 0
-----------------------------------------------------------------------------
(* Reading a record r, a sequence of cells.                                *)

RecordType(r) == r[TypeAt]
Half(r) == (Len(r) - Header) \div 2
AfterImage(r) == IF RecordType(r) = "update" THEN SubSeq(r, Header + 1, Header + Half(r))
                 ELSE SubSeq(r, Header + 1, Len(r))
BeforeImage(r) == IF RecordType(r) = "update" THEN SubSeq(r, Header + Half(r) + 1, Len(r)) ELSE <<>>
RID(r) == IF Len(r) >= RidAt THEN r[RidAt] ELSE 0

AsLogRecord(r) == [type |-> RecordType(r), txn |-> r[TxnAt], rid |-> RID(r),
                   after |-> AfterImage(r), before |-> BeforeImage(r)]

Cells(m, v) == SubSeq(m[v.a], v.off + 1, v.off + v.len)

\* logRecordBuffer.get; its views are the same cells for as long as the array lives.
get(i) ==
  LET end == IF i = Len(offsets) THEN buffer.len ELSE offsets[i + 1]
  IN  [a |-> buffer.a, off |-> offsets[i], len |-> end - offsets[i]]
-----------------------------------------------------------------------------
(* Making one.  Push(n, cells, ...) is allocate(n), and then the cells that *)
(* the constructor writes.                                                 *)

Fits(n) == buffer.len + n <= Len(mem[buffer.a])

\* allocate: append clears the cells, in this array or in a new one.
Allocated(n) ==
  IF Fits(n) THEN [mem EXCEPT ![buffer.a] = [i \in DOMAIN @ |-> IF i \in buffer.len + 1 .. buffer.len + n THEN 0 ELSE @[i]]]
  ELSE Append(mem, SubSeq(mem[buffer.a], 1, buffer.len) \o
                   Zeros(IF 2 * Len(mem[buffer.a]) >= buffer.len + n THEN 2 * Len(mem[buffer.a]) - buffer.len ELSE n))

Push(n, cells, record) ==
  LET a == IF Fits(n) THEN buffer.a ELSE Len(mem) + 1
  IN  /\ count < MaxRecords /\ count' = count + 1
      /\ mem' = [Allocated(n) EXCEPT ![a] = [i \in DOMAIN @ |->
                  IF i \in buffer.len + 1 .. buffer.len + n THEN cells[i - buffer.len] ELSE @[i]]]
      /\ offsets' = Append(offsets, buffer.len)
      /\ buffer' = [a |-> a, len |-> buffer.len + n]
      /\ made' = Append(made, record)
      /\ views' = views \cup {[at |-> Len(made) + 1, v |-> [a |-> a, off |-> buffer.len, len |-> n]]}

Made(type, rid, after, before) == [type |-> type, txn |-> TxnId, rid |-> rid, after |-> after, before |-> before]

\* Begin, commit and abort records have a transaction and nothing else.
NewTransactionRecord(type) ==
  Push(TxnAt, <<0, type, TxnId>>, Made(type, 0, <<>>, <<>>))

NewInsertRecord(rid, row) ==
  Push(Header + Len(row), <<0, "insert", TxnId, rid>> \o row, Made("insert", rid, row, <<>>))

NewDeleteRecord(rid) ==
  Push(Header, <<0, "delete", TxnId, rid>>, Made("delete", rid, <<>>, <<>>))

NewUpdateRecord(rid, before, after) ==
  /\ Len(before) = Len(after)
  /\ Push(Header + 2 * Len(after), <<0, "update", TxnId, rid>> \o after \o before,
          Made("update", rid, after, before))

\* Compensation for record w.at, which the caller has a view of.  The view is read
\* when the new record has been allocated.
NewInsertCLR(w) ==
  /\ made[w.at].type = "insert"
  /\ Push(Header, <<0, "insertCLR">> \o SubSeq(Cells(Allocated(Header), w.v), TxnAt, RidAt),
          Made("insertCLR", made[w.at].rid, <<>>, <<>>))

NewDeleteCLR(w) ==
  /\ made[w.at].type = "delete"
  /\ Push(Header, [Cells(Allocated(Header), w.v) EXCEPT ![TypeAt] = "deleteCLR"],
          Made("deleteCLR", made[w.at].rid, <<>>, <<>>))

NewUpdateCLR(w) ==
  LET n == Header + Half(Cells(mem, w.v))
      r == Cells(Allocated(n), w.v)
  IN  /\ made[w.at].type = "update"
      /\ Push(n, <<0, "updateCLR">> \o SubSeq(r, TxnAt, RidAt) \o BeforeImage(r),
              Made("updateCLR", made[w.at].rid, made[w.at].before, <<>>))

\* The caller looks at a record again.
GetRecord(i) ==
  /\ views' = views \cup {[at |-> i, v |-> get(i)]}
  /\ UNCHANGED <<mem, buffer, offsets, made, count>>

\* Variant: the bytes of the record stay in the buffer.
popOffset ==
  /\ offsets # <<>> /\ offsets' = Front(offsets) /\ UNCHANGED buffer
  /\ made' = Front(made) /\ views' = {w \in views : w.at < Len(made)}
  /\ UNCHANGED <<mem, count>>

\* What the views of a record that is popped show is not promised any more.
pop ==
  /\ offsets # <<>> /\ offsets' = Front(offsets)
  /\ buffer' = [buffer EXCEPT !.len = Last(offsets)]
  /\ made' = Front(made) /\ views' = {w \in views : w.at < Len(made)}
  /\ UNCHANGED <<mem, count>>

reset ==
  /\ offsets' = <<>> /\ buffer' = [buffer EXCEPT !.len = 0]
  /\ made' = <<>> /\ views' = {}
  /\ UNCHANGED <<mem, count>>

RecordsNext ==
  \/ \E type \in EndTypes : NewTransactionRecord(type)
  \/ \E rid \in Rids : \/ NewDeleteRecord(rid)
                       \/ \E row \in Rows : NewInsertRecord(rid, row)
                       \/ \E before, after \in Rows : NewUpdateRecord(rid, before, after)
  \/ \E w \in views : NewInsertCLR(w) \/ NewDeleteCLR(w) \/ NewUpdateCLR(w)
  \/ \E i \in DOMAIN offsets : GetRecord(i)
  \/ pop \/ reset

RecordsSpec == RecordsInit /\ [][RecordsNext]_recordVars
-----------------------------------------------------------------------------
\* Every record of the stack reads as it was made, through get and through every
\* view handed out earlier, whatever was pushed, popped or moved to a larger array
\* in between; and a compensation record has the row to restore as its after image.
RecordsKept ==
  /\ \A i \in DOMAIN offsets : AsLogRecord(Cells(mem, get(i))) = made[i]
  /\ \A w \in views : AsLogRecord(Cells(mem, w.v)) = made[w.at]
=============================================================================
