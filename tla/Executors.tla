----------------------------- MODULE Executors ------------------------------
(***************************************************************************)
(* The executors (execution/*_executor.go) as state machines with Init and *)
(* Next, over a physical plan.  An executor is a record                    *)
(*   p     its plan node            kids  the executors below it           *)
(*   buf   buffered rows            pos   a cursor or a counter            *)
(*   flag  loaded, done, or "the right side has a current row"             *)
(*   err   "" or "error" or "panic" row   the current row                  *)
(*   pass  how often it was initialised   end  the slots a scan covers     *)
(* A row is [rid, vals]; rid is the slot of the table row it is, or 0.     *)
(* ctx is [db, fault]: the stored tables, and the scan position at which a *)
(* page cannot be fetched.                                                 *)
(***************************************************************************)
EXTENDS PhysicalPlans, FiniteSetsExt

CONSTANTS BlockRows,     \* left rows a block nested loop join buffers
          SlotsPerPage

NoRow == [rid |-> 0, vals |-> <<>>]
Scans == {"seqscan", "idxscan", "idxlookup"}
Writes == {"pinsert", "pdelete", "pupdate"}
Unimplemented == {"mat", "topn", "hashjoin", "smj", "inlj"}

\* The executors that are only stubs panic when they are made, and so does
\* binding a key that is shorter than the keys of its index.
RECURSIVE BuildPanics(_)
BuildPanics(p) ==
  \/ p.k \in Unimplemented
  \/ p.k \in {"idxscan", "idxlookup"} /\ Len(p.key) < Len(IndexesOf[p.table][p.idx].key)
  \/ \E i \in DOMAIN p.kids : BuildPanics(p.kids[i])

RECURSIVE BuildExecutorTree(_)
BuildExecutorTree(p) ==
  [p |-> p, kids |-> [i \in DOMAIN p.kids |-> BuildExecutorTree(p.kids[i])],
   buf |-> <<>>, pos |-> 0, flag |-> FALSE, err |-> "", row |-> NoRow, pass |-> 0, end |-> 0]
-----------------------------------------------------------------------------
(* Rows and keys.                                                          *)

LiveRows(table, db) ==
  LET rids == SelectSeq([i \in DOMAIN db[table] |-> i], LAMBDA i : db[table][i].live)
  IN  [i \in DOMAIN rids |-> [rid |-> rids[i], vals |-> db[table][rids[i]].vals]]

Pages(table, db) == (Len(db[table]) + SlotsPerPage - 1) \div SlotsPerPage

\* DeepCopy and WriteToBuffer: values of other types than the layout's panic.
Fits(vals, types) == Len(vals) = Len(types) /\ \A i \in DOMAIN vals : vals[i].t = types[i]
StoredRow(vals) == [i \in DOMAIN vals |-> Stored(vals[i])]

CompareKeys(k, l) ==
  LET differ == {i \in DOMAIN k : Compare(k[i], l[i]) # 0}
  IN  IF differ = {} THEN 0
      ELSE LET i == CHOOSE i \in differ : \A j \in differ : i <= j IN Compare(k[i], l[i])

KeyOf(row, p) == LET cols == IndexesOf[p.table][p.idx].key IN [i \in DOMAIN cols |-> row.vals[cols[i]]]

\* less of SortExecutor: the first column that differs decides.
CompareBy(x, y, by) == LET c == Compare(Eval(by.e, x.vals), Eval(by.e, y.vals)) IN IF by.desc THEN -c ELSE c
SortsBefore(x, y, order) ==
  LET cmp == [i \in DOMAIN order |-> CompareBy(x, y, order[i])]
  IN  \E i \in DOMAIN cmp : cmp[i] < 0 /\ \A j \in 1 .. (i - 1) : cmp[j] = 0

\* sort.SliceStable.
StableSort(rows, less(_, _)) ==
  LET lower == [i \in DOMAIN rows |-> {j \in DOMAIN rows : less(rows[j], rows[i])}]
      rank(i) == Cardinality(lower[i] \cup {j \in 1 .. i : i \notin lower[j]})
  IN  [n \in DOMAIN rows |-> rows[CHOOSE i \in DOMAIN rows : rank(i) = n]]
-----------------------------------------------------------------------------
(* What the executors compute.                                             *)

\* The entries of an index, and the ones an index executor visits, fixed when it is
\* initialised.  A backward scan takes the first only of the entries with the start
\* key.
Entries(p, db) == StableSort(LiveRows(p.table, db), LAMBDA x, y : CompareKeys(KeyOf(x, p), KeyOf(y, p)) < 0)
Visited(p, rows) ==
  LET side(c) == SelectSeq(rows, LAMBDA r : CompareKeys(KeyOf(r, p), p.key) = c)
  IN  IF p.k = "idxlookup" THEN side(0)
      ELSE IF ~p.back THEN side(0) \o side(1)
      ELSE SubSeq(side(0), 1, IF side(0) = <<>> THEN 0 ELSE 1) \o Reverse(side(-1))
IndexRows(p, db) == Visited(p, Entries(p, db))

\* The aggregates of rows: the groups in the order they are first seen; two keys
\* are the same group if they are stored alike; NULLs are skipped.
AggregateOver(f, vals) ==
  LET better(x, y) == IF f = "min" THEN Compare(x, y) < 0 ELSE Compare(x, y) > 0
  IN  CASE f = "count" -> NewIntValue(Len(vals))
        [] vals = <<>> -> NewNull("int")
        [] f = "sum" -> IF Len(vals) = 1 THEN vals[1]
                        ELSE NewIntValue(Wrap(FoldLeft(LAMBDA n, x : n + x.v, 0, vals)))
        [] OTHER -> FoldLeft(LAMBDA m, x : IF better(x, m) THEN x ELSE m, vals[1], vals)
AggregateOf(a, rows) ==
  AggregateOver(a.f, SelectSeq([i \in DOMAIN rows |-> Eval(a.e, rows[i].vals)], LAMBDA x : ~x.null))

GroupKeys(p, rows) == [n \in DOMAIN rows |-> [i \in DOMAIN p.group |-> Eval(p.group[i], rows[n].vals)]]
Grouped(p, rows, keys) ==
  LET members(i) == {j \in DOMAIN rows : StoredRow(keys[j]) = StoredRow(keys[i])}
      first == SelectSeq([i \in DOMAIN rows |-> i], LAMBDA i : \A j \in members(i) : i <= j)
  IN  [n \in DOMAIN first |->
        LET group == SelectSeq([i \in DOMAIN rows |-> i], LAMBDA i : i \in members(first[n]))
        IN  [rid |-> 0, vals |-> keys[first[n]] \o
              [j \in DOMAIN p.aggs |-> AggregateOf(p.aggs[j], [m \in DOMAIN group |-> rows[group[m]]])]]]
Aggregate(p, rows) == Grouped(p, rows, GroupKeys(p, rows))
-----------------------------------------------------------------------------
(* Init and Next.  Both return the executor after the call; Next also      *)
(* leaves the current row in it, and returns whether there is one.         *)

\* Variant: an executor reports its own error only.
ErrorOfOwn(x) == x.err

\* Error.
RECURSIVE ErrorOf(_)
ErrorOf(x) ==
  CASE x.p.k \in {"pfilter", "pproj", "plimit"} -> ErrorOf(x.kids[1])
    [] x.p.k \in Writes -> IF x.err # "" THEN x.err ELSE ErrorOf(x.kids[1])
    [] OTHER -> x.err

Found(x, row) == [ok |-> TRUE, x |-> [x EXCEPT !.row = row]]
NotFound(x) == [ok |-> FALSE, x |-> x]

Fails(x, ctx, n) == ctx.fault.table = x.p.table /\ ctx.fault.pass = x.pass /\ ctx.fault.at = n

\* TableHeapIterator.Next.  A page that cannot be fetched costs its first slot: the
\* cursor has moved on when the call is repeated.
NextOfSeqScan(x, ctx) ==
  LET slots == {i \in (x.pos + 1) .. Min({x.end, Len(ctx.db[x.p.table])}) : ctx.db[x.p.table][i].live}
      stop == IF slots = {} THEN x.end ELSE Min(slots)
      lost == {i \in (x.pos + 1) .. stop : i % SlotsPerPage = 1 /\ Fails(x, ctx, i)}
  IN  IF lost # {} THEN NotFound([x EXCEPT !.pos = Min(lost), !.err = "error", !.row = NoRow])
      ELSE IF slots = {} THEN NotFound([x EXCEPT !.pos = stop, !.row = NoRow])
      ELSE Found([x EXCEPT !.pos = stop], [rid |-> stop, vals |-> ctx.db[x.p.table][stop].vals])

NextOfIndex(x, ctx) ==
  LET y == [x EXCEPT !.pos = @ + 1]
  IN  IF x.pos >= Len(x.buf) THEN NotFound(x)
      ELSE IF Fails(x, ctx, y.pos) THEN NotFound([y EXCEPT !.err = "error"])
      ELSE Found(y, x.buf[y.pos])

\* The rows a buffering executor keeps, copied; values of other types than the
\* layout's do not fit.
Copied(rows) == [i \in DOMAIN rows |-> [rows[i] EXCEPT !.vals = StoredRow(@)]]
Clash(rows, p) == \E i \in DOMAIN rows : ~Fits(rows[i].vals, Types(p))

FromBuffer(x) ==
  IF x.err # "" \/ x.pos >= Len(x.buf) THEN NotFound(x) ELSE Found([x EXCEPT !.pos = @ + 1], x.buf[x.pos + 1])

RECURSIVE NextRow(_, _), Init(_, _), Drain(_, _, _, _), NextJoined(_, _)

\* Drain(x, ctx, n, rows): rows and at most n more of x, and x after them.
Gather(r, ctx, n, rows) ==
  IF r.ok THEN Drain(r.x, ctx, n - 1, Append(rows, r.x.row)) ELSE [x |-> r.x, rows |-> rows]
Drain(x, ctx, n, rows) ==
  IF n = 0 THEN [x |-> x, rows |-> rows] ELSE Gather(NextRow(x, ctx), ctx, n, rows)

All == 99   \* more rows than any executor produces

LeftBlock(x, d) == [x EXCEPT !.kids[1] = d.x, !.err = IF Clash(d.rows, x.p.kids[1]) THEN "panic" ELSE @,
                             !.buf = Copied(d.rows)]

\* Variant: a row is read and dropped when the block is full.
FullBlock(x) == [x EXCEPT !.buf = SubSeq(@, 1, Min({BlockRows, Len(@)}))]
loadLeftBlockLosing(x, ctx) == FullBlock(LeftBlock(x, Drain(x.kids[1], ctx, BlockRows + 1, <<>>)))

\* The left side's error is not looked at: a failed scan looks exhausted.
loadLeftBlock(x, ctx) == LeftBlock(x, Drain(x.kids[1], ctx, BlockRows, <<>>))

\* The loop in BlockNestedLoopJoinExecutor.Next: the right side starts over for the
\* next block of the left, gives a row or ends; its row meets the rows of the block.
Rescanned(x, right, ctx) ==
  IF right.err # "" THEN NotFound([x EXCEPT !.err = right.err])
  ELSE NextJoined([x EXCEPT !.kids[2] = right.x], ctx)
NextBlock(x, ctx) ==
  IF x.buf = <<>> \/ x.err # "" THEN NotFound(x) ELSE Rescanned(x, Init(x.kids[2], ctx), ctx)
NextRight(x, right, ctx) ==
  LET y == [x EXCEPT !.kids[2] = right.x]
  IN  IF right.ok THEN NextJoined([y EXCEPT !.flag = TRUE, !.pos = 0], ctx)
      ELSE IF ErrorOf(right.x) # "" THEN NotFound([y EXCEPT !.err = ErrorOf(right.x)])
      ELSE NextBlock(loadLeftBlock(y, ctx), ctx)
NextPair(x, joined, ctx) ==
  IF ExprIsTrue(Eval(x.p.pred, joined)) THEN Found(x, [rid |-> 0, vals |-> joined]) ELSE NextJoined(x, ctx)
NextJoined(x, ctx) ==
  IF x.buf = <<>> THEN NotFound(x)
  ELSE IF ~x.flag THEN NextRight(x, NextRow(x.kids[2], ctx), ctx)
  ELSE IF x.pos >= Len(x.buf) THEN NextJoined([x EXCEPT !.flag = FALSE], ctx)
  ELSE NextPair([x EXCEPT !.pos = @ + 1], StoredRow(x.buf[x.pos + 1].vals \o x.kids[2].row.vals), ctx)

\* SortExecutor reads its input when the first row is asked for.
SortLoaded(x, d) ==
  LET problem == IF Clash(d.rows, x.p.kids[1]) THEN "panic" ELSE ErrorOf(d.x)
  IN  [x EXCEPT !.kids[1] = d.x, !.err = problem, !.flag = problem = "",
                !.buf = IF problem # "" THEN @
                        ELSE StableSort(Copied(d.rows), LAMBDA a, b : SortsBefore(a, b, x.p.order))]
NextOfSort(x, ctx) ==
  FromBuffer(IF x.flag \/ x.err # "" THEN x ELSE SortLoaded(x, Drain(x.kids[1], ctx, All, <<>>)))

\* ValuesExecutor: a row that is too short leaves the rest of the last one.
NextOfValues(x) ==
  LET exprs == x.p.rows[x.pos + 1]
      vals == [i \in DOMAIN x.p.types |-> IF i \in DOMAIN exprs THEN Eval(exprs[i], <<>>) ELSE x.row.vals[i]]
  IN  IF x.pos >= Len(x.p.rows) \/ x.err # "" THEN NotFound(x)
      ELSE IF Len(exprs) > Len(x.p.types) THEN NotFound([x EXCEPT !.err = "panic"])
      ELSE Found([x EXCEPT !.pos = @ + 1], [rid |-> 0, vals |-> vals])

\* Filter, projection and limit, given the next row of the child.
NextOfChild(x, r, ctx) ==
  LET y == [x EXCEPT !.kids[1] = r.x]
  IN  IF ~r.ok THEN NotFound(y)
      ELSE CASE x.p.k = "pfilter" ->
                  IF ExprIsTrue(Eval(x.p.pred, r.x.row.vals)) THEN Found(y, r.x.row) ELSE NextRow(y, ctx)
             [] x.p.k = "pproj" ->
                  Found(y, [rid |-> 0, vals |-> [i \in DOMAIN x.p.exprs |-> Eval(x.p.exprs[i], r.x.row.vals)]])
             [] x.p.k = "plimit" -> Found([y EXCEPT !.pos = @ + 1], r.x.row)

NextRow(x, ctx) ==
  CASE x.p.k = "seqscan" -> NextOfSeqScan(x, ctx)
    [] x.p.k \in {"idxscan", "idxlookup"} -> NextOfIndex(x, ctx)
    [] x.p.k = "pvalues" -> NextOfValues(x)
    [] x.p.k = "bnlj" -> NextJoined(x, ctx)
    [] x.p.k = "psort" -> NextOfSort(x, ctx)
    [] x.p.k = "pagg" -> FromBuffer(x)
    [] x.p.k = "plimit" /\ x.pos >= x.p.n -> NotFound(x)
    [] OTHER -> NextOfChild(x, NextRow(x.kids[1], ctx), ctx)

\* Init re-initialises what is below; a scan of a hash index is an error, and an
\* aggregate and a join read their input already.
Ready(x) == [x |-> x, err |-> x.err]
AggLoaded(x, d) ==
  [x EXCEPT !.kids[1] = d.x, !.err = ErrorOf(d.x), !.buf = IF ErrorOf(d.x) = "" THEN Aggregate(x.p, d.rows) ELSE @]
InitNode(x, ctx) ==
  CASE x.p.k = "seqscan" ->
         Ready([x EXCEPT !.end = SlotsPerPage * Pages(x.p.table, ctx.db), !.err = "", !.row = NoRow])
    [] x.p.k \in {"idxscan", "idxlookup"} ->
         IF x.p.k = "idxscan" /\ IndexesOf[x.p.table][x.p.idx].type = "hash" THEN [x |-> x, err |-> "error"]
         ELSE [x |-> [x EXCEPT !.buf = IndexRows(x.p, ctx.db)], err |-> ""]
    [] x.p.k = "bnlj" -> Ready(loadLeftBlock(x, ctx))
    [] x.p.k = "psort" -> Ready([x EXCEPT !.buf = <<>>, !.err = ""])
    [] x.p.k = "pagg" -> Ready(AggLoaded(x, Drain(x.kids[1], ctx, All, <<>>)))
    [] OTHER -> [x |-> x, err |-> ""]
InitOver(x, kids, ctx) ==
  LET bad == SelectInSeq(kids, LAMBDA r : r.err # "")
  IN  IF bad # 0
      THEN [x |-> [x EXCEPT !.kids = [i \in DOMAIN @ |-> IF i <= bad THEN kids[i].x ELSE @[i]]], err |-> kids[bad].err]
      ELSE InitNode([x EXCEPT !.kids = [i \in DOMAIN @ |-> kids[i].x], !.pos = 0, !.flag = FALSE, !.pass = @ + 1], ctx)
Init(x, ctx) == InitOver(x, [i \in DOMAIN x.kids |-> Init(x.kids[i], ctx)], ctx)
-----------------------------------------------------------------------------
(* Writing executors.  The result is [x, ok, db, hang]; hang says that a   *)
(* write waits for the latch of a page that its own scan stands on.        *)

\* The pages that the sequential scans below x have latched.
RECURSIVE LatchedPages(_)
LatchedPages(x) ==
  IF x.p.k = "seqscan"
  THEN IF x.row = NoRow THEN {} ELSE {<<x.p.table, (x.row.rid - 1) \div SlotsPerPage>>}
  ELSE UNION {LatchedPages(x.kids[i]) : i \in DOMAIN x.kids}

Wrote(x, db) == [x |-> x, ok |-> x.err = "", db |-> db, hang |-> FALSE]
Hangs(x, db) == [x |-> x, ok |-> FALSE, db |-> db, hang |-> TRUE]

\* InsertExecutor.Next: the child is read between the writes.
RECURSIVE InsertRows(_, _)
InsertRow(x, r, ctx) ==
  LET y == [x EXCEPT !.kids[1] = r.x, !.flag = TRUE]
      table == x.p.table
      db == [ctx.db EXCEPT ![table] = Append(@, [live |-> TRUE, vals |-> StoredRow(r.x.row.vals)])]
  IN  IF ~r.ok THEN IF ErrorOf(r.x) = "panic" THEN Wrote([y EXCEPT !.err = "panic"], ctx.db)
                    ELSE Wrote([y EXCEPT !.row = [rid |-> 0, vals |-> <<NewIntValue(y.pos)>>]], ctx.db)
      ELSE IF ~Fits(r.x.row.vals, ColumnTypes(table)) THEN Wrote([y EXCEPT !.err = "panic"], ctx.db)
      ELSE IF <<table, Pages(table, ctx.db) - 1>> \in LatchedPages(y) THEN Hangs(y, ctx.db)
      ELSE InsertRows([y EXCEPT !.pos = @ + 1], [ctx EXCEPT !.db = db])
InsertRows(x, ctx) == InsertRow(x, NextRow(x.kids[1], ctx), ctx)

\* DeleteExecutor.Next and UpdateExecutor.Next: the child is read to its end first.
RECURSIVE WriteRows(_, _, _)
WriteRows(x, rows, db) ==
  LET row == Head(rows)
      vals == [c \in DOMAIN x.p.exprs |-> Eval(x.p.exprs[c], row.vals)]
      written == IF x.p.k = "pdelete" THEN [db[x.p.table][row.rid] EXCEPT !.live = FALSE]
                 ELSE [live |-> TRUE, vals |-> StoredRow(vals)]
  IN  IF rows = <<>> THEN Wrote([x EXCEPT !.row = [rid |-> 0, vals |-> <<NewIntValue(x.pos)>>]], db)
      ELSE IF x.p.k = "pupdate" /\ ~Fits(vals, ColumnTypes(x.p.table)) THEN Wrote([x EXCEPT !.err = "panic"], db)
      ELSE IF <<x.p.table, (row.rid - 1) \div SlotsPerPage>> \in LatchedPages(x) THEN Hangs(x, db)
      ELSE WriteRows([x EXCEPT !.pos = @ + 1], Tail(rows), [db EXCEPT ![x.p.table][row.rid] = written])

WriteDrained(x, d, db) == WriteRows([x EXCEPT !.kids[1] = d.x, !.flag = TRUE], d.rows, db)

\* Variant: DELETE and UPDATE write a row while their scan is open.
RunWriteRowwise(x, ctx) ==
  IF x.flag THEN [x |-> x, ok |-> FALSE, db |-> ctx.db, hang |-> FALSE]
  ELSE IF x.p.k = "pinsert" THEN InsertRows(x, ctx)
  ELSE WriteDrained(x, Drain(x.kids[1], ctx, 1, <<>>), ctx.db)

RunWrite(x, ctx) ==
  IF x.flag THEN [x |-> x, ok |-> FALSE, db |-> ctx.db, hang |-> FALSE]
  ELSE IF x.p.k = "pinsert" THEN InsertRows(x, ctx)
  ELSE WriteDrained(x, Drain(x.kids[1], ctx, All, <<>>), ctx.db)
=============================================================================
