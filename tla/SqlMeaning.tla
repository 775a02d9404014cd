----------------------------- MODULE SqlMeaning -----------------------------
(***************************************************************************)
(* What a statement means, independently of the planner: the reference the *)
(* plans and the executors are compared with.  A row in scope is an        *)
(* environment, a sequence of [q, name, val]; a group is a sequence of     *)
(* environments.  db[table] is a sequence of [live, vals].                 *)
(***************************************************************************)
EXTENDS Executors

\* Three-valued logic as numbers: false 0, unknown 1, true 2.
Degree(x) == IF x.null THEN 1 ELSE IF x.v = 0 THEN 0 ELSE 2
OfDegree(d) == IF d = 1 THEN NewNull("int") ELSE NewIntValue(d \div 2)

RECURSIVE SqlEval(_, _)
SqlEval(e, group) ==
  LET env == group[1]
      arg(i) == SqlEval(e.args[i], group)
      vals == SelectSeq([i \in DOMAIN group |-> SqlEval(e.args[1], <<group[i]>>)], LAMBDA x : ~x.null)
      extreme(above) == CHOOSE x \in ToSet(vals) : \A y \in ToSet(vals) : IF above THEN y.v <= x.v ELSE x.v <= y.v
  IN  CASE e.k = "name" -> env[SelectInSeq(env, LAMBDA b : b.name = e.name /\ e.q \in {"", b.q})].val
        [] e.k = "val" -> e.val
        [] e.k = "paren" -> arg(1)
        [] e.k = "cmp" -> EvalComparison(e.op, arg(1), arg(2))
        [] e.k = "arith" -> EvalArithmetic(e.op, arg(1), arg(2))
        [] e.k = "not" -> OfDegree(2 - Degree(arg(1)))
        [] e.k = "logic" -> OfDegree(IF e.op = "and" THEN Min({Degree(arg(1)), Degree(arg(2))})
                                     ELSE Max({Degree(arg(1)), Degree(arg(2))}))
        [] e.k = "func" ->
             CASE e.star -> NewIntValue(Len(group))
               [] ~e.star /\ e.f = "count" -> NewIntValue(Len(vals))
               [] ~e.star /\ e.f # "count" /\ vals = <<>> -> NewNull("int")
               [] ~e.star /\ e.f # "count" /\ vals # <<>> ->
                    IF e.f = "sum" THEN NewIntValue(Wrap(FoldLeft(LAMBDA n, x : n + x.v, 0, vals)))
                    ELSE extreme(e.f = "max")

Holds(conds, env) == \A i \in DOMAIN conds : ExprIsTrue(SqlEval(conds[i], <<env>>))

\* The environments of the rows of a table.
TableEnvs(table, alias, db) ==
  LET rows == LiveRows(table, db)
  IN  [i \in DOMAIN rows |-> [c \in DOMAIN Tables[table] |->
         [q |-> alias, name |-> Tables[table][c].name[1], val |-> rows[i].vals[c]]]]

Pairs(ls, rs) == FlattenSeq([i \in DOMAIN ls |-> [j \in DOMAIN rs |-> ls[i] \o rs[j]]])
Aggregates(sel) == sel.group # <<>> \/ \E i \in DOMAIN sel.cols : findAggs(sel.cols[i].e) # <<>>
                   \/ (sel.having # <<>> /\ findAggs(sel.having[1]) # <<>>)

RECURSIVE FromTable(_, _), FromList(_, _), SelectRows(_, _)

\* USING compares the columns of that name of both sides.
UsingHolds(names, l, r) ==
  \A i \in DOMAIN names : LET of(env) == env[SelectInSeq(env, LAMBDA b : b.name = names[i])].val
                          IN  ExprIsTrue(EvalComparison("=", of(l), of(r)))

\* An outer join counts as an inner one: no join node of a plan says which it is.
FromTable(te, db) ==
  CASE te.k = "table" -> TableEnvs(te.name, IF te.as = "" THEN te.name ELSE te.as, db)
    [] te.k = "sub" ->
         LET rows == SelectRows(te.select, db)
             name(i) == LET c == te.select.cols[i] IN IF c.as # "" THEN c.as ELSE c.e.name
         IN  [i \in DOMAIN rows |-> [j \in DOMAIN rows[i] |-> [q |-> te.as, name |-> name(j), val |-> rows[i][j]]]]
    [] te.k = "parenexpr" -> FromList(te.list, db)
    [] te.k = "joinexpr" ->
         LET ls == FromTable(te.left, db) rs == FromTable(te.right, db)
             matches(l, r) == UsingHolds(te.using, l, r) /\ Holds(te.on, l \o r)
         IN  FlattenSeq([i \in DOMAIN ls |-> LET hit == SelectSeq(rs, LAMBDA r : matches(ls[i], r))
                                             IN  [j \in DOMAIN hit |-> ls[i] \o hit[j]]])

FromList(list, db) ==
  IF Len(list) = 1 THEN FromTable(list[1], db) ELSE Pairs(FromList(Front(list), db), FromTable(Last(list), db))

\* Groups in the order of their first rows; no group for no rows.
GroupsOf(sel, envs) ==
  LET key(env) == [i \in DOMAIN sel.group |-> SqlEval(sel.group[i], <<env>>)]
      first == SelectSeq([i \in DOMAIN envs |-> i], LAMBDA i : \A j \in 1 .. (i - 1) : key(envs[j]) # key(envs[i]))
  IN  [n \in DOMAIN first |-> SelectSeq(envs, LAMBDA env : key(env) = key(envs[first[n]]))]

Precedes(g, h, order) ==
  LET cmp(i) == LET c == Compare(SqlEval(order[i].e, g), SqlEval(order[i].e, h)) IN IF order[i].desc THEN -c ELSE c
  IN  \E i \in DOMAIN order : cmp(i) < 0 /\ \A j \in 1 .. (i - 1) : cmp(j) = 0

Window(s, limit) ==
  IF limit = <<>> THEN s
  ELSE LET first == limit[1].off.val.v + 1 IN SubSeq(s, first, Min({Len(s), first + limit[1].n.val.v - 1}))

\* The groups a SELECT is about, each of one environment unless it aggregates.
SelectGroups(sel, db) ==
  LET envs == SelectSeq(FromList(sel.from, db), LAMBDA env : Holds(sel.where, env))
      groups == IF Aggregates(sel) THEN GroupsOf(sel, envs) ELSE [i \in DOMAIN envs |-> <<envs[i]>>]
      kept == SelectSeq(groups, LAMBDA g : \A i \in DOMAIN sel.having : ExprIsTrue(SqlEval(sel.having[i], g)))
  IN  StableSort(kept, LAMBDA g, h : Precedes(g, h, sel.order))

Projected(sel, groups) ==
  LET of(c, g) == IF c.e.k = "star" THEN [i \in DOMAIN g[1] |-> g[1][i].val] ELSE <<SqlEval(c.e, g)>>
  IN  [n \in DOMAIN groups |-> FlattenSeq([i \in DOMAIN sel.cols |-> of(sel.cols[i], groups[n])])]

SelectRows(sel, db) == Projected(sel, Window(SelectGroups(sel, db), sel.limit))
-----------------------------------------------------------------------------
(* What a writing statement leaves in the table it names.                  *)

Source(ins, db) ==
  IF ins.rows.k = "select" THEN SelectRows(ins.rows, db)
  ELSE [i \in DOMAIN ins.rows.rows |-> [j \in DOMAIN ins.rows.rows[i] |-> SqlEval(ins.rows.rows[i][j], <<<<>>>>)]]

InTableOrder(ins, rows) ==
  LET at(c) == IF ins.cols = <<>> THEN c ELSE SelectInSeq(ins.cols, LAMBDA n : n = Tables[ins.table][c].name[1])
  IN  [i \in DOMAIN rows |-> [c \in DOMAIN Tables[ins.table] |->
         IF at(c) = 0 THEN NewNull(Tables[ins.table][c].type) ELSE rows[i][at(c)]]]
InsertedRows(ins, db) == InTableOrder(ins, Source(ins, db))

\* The rows, with the numbers of their slots, that DELETE and UPDATE are about.
Affected(stmt, db) ==
  LET table == stmt.from[1].name
      alias == IF stmt.from[1].as = "" THEN table ELSE stmt.from[1].as
      rows == LiveRows(table, db)
      envs == TableEnvs(table, alias, db)
      order == IF stmt.k = "delete" THEN stmt.order ELSE <<>>
      limit == IF stmt.k = "delete" THEN stmt.limit ELSE <<>>
      hit == SelectSeq([i \in DOMAIN rows |-> i], LAMBDA i : Holds(stmt.where, envs[i]))
  IN  Window(StableSort([n \in DOMAIN hit |-> [rid |-> rows[hit[n]].rid, env |-> envs[hit[n]]]],
                        LAMBDA x, y : Precedes(<<x.env>>, <<y.env>>, order)), limit)

UpdatedRow(upd, hit) ==
  LET table == upd.from[1].name
      set(c) == SelectInSeq(upd.sets, LAMBDA s : s.c = Tables[table][c].name[1])
  IN  [c \in DOMAIN Tables[table] |->
        IF set(c) = 0 THEN hit.env[c].val ELSE SqlEval(upd.sets[set(c)].e, <<hit.env>>)]
-----------------------------------------------------------------------------
(* What a physical plan means, the operators without executors included.   *)

JoinedBy(ls, rs, lk, rk) ==
  LET equal(l, r) == \A i \in DOMAIN lk : ExprIsTrue(EvalComparison("=", Eval(lk[i], l), Eval(rk[i], r)))
  IN  FlattenSeq([i \in DOMAIN ls |-> LET hit == SelectSeq(rs, LAMBDA r : equal(ls[i], r))
                                      IN  [j \in DOMAIN hit |-> ls[i] \o hit[j]]])

KeyRows(p, db, Takes(_)) ==
  LET rows == SelectSeq(LiveRows(p.table, db), LAMBDA r : Takes(CompareKeys(KeyOf(r, p), p.key)))
  IN  [i \in DOMAIN rows |-> rows[i].vals]

RECURSIVE PlanRows(_, _)
PlanRows(p, db) ==
  LET below(i) == PlanRows(p.kids[i], db)
      asRows(s) == [i \in DOMAIN s |-> [rid |-> 0, vals |-> s[i]]]
      sorted == StableSort(asRows(below(1)), LAMBDA x, y : SortsBefore(x, y, p.order))
      values(rows) == [i \in DOMAIN rows |-> rows[i].vals]
  IN  CASE p.k = "seqscan" -> values(LiveRows(p.table, db))
        [] p.k = "idxlookup" -> KeyRows(p, db, LAMBDA c : c = 0)
        [] p.k = "idxscan" -> KeyRows(p, db, LAMBDA c : c = 0 \/ (c < 0) = p.back)
        [] p.k = "pfilter" -> SelectSeq(below(1), LAMBDA r : ExprIsTrue(Eval(p.pred, r)))
        [] p.k = "pproj" -> [n \in DOMAIN below(1) |-> [i \in DOMAIN p.exprs |-> Eval(p.exprs[i], below(1)[n])]]
        [] p.k = "psort" -> values(sorted)
        [] p.k = "topn" -> SubSeq(values(sorted), 1, Min({p.n, Len(sorted)}))
        [] p.k = "plimit" -> SubSeq(below(1), 1, Min({p.n, Len(below(1))}))
        [] p.k = "mat" -> below(1)
        [] p.k = "pagg" -> values(Aggregate(p, asRows(below(1))))
        [] p.k = "bnlj" -> SelectSeq(Pairs(below(1), below(2)), LAMBDA r : ExprIsTrue(Eval(p.pred, r)))
        [] p.k \in {"hashjoin", "smj"} -> JoinedBy(below(1), below(2), p.lk, p.rk)
        [] p.k = "inlj" -> LET cols == IndexesOf[p.table][p.idx].key
                           IN  JoinedBy(below(1), values(LiveRows(p.table, db)), p.lk,
                                        [i \in DOMAIN cols |-> BoundValue(cols[i], Tables[p.table][cols[i]].type)])

\* The kinds of nodes in a plan.
RECURSIVE Kinds(_)
Kinds(p) == {p.k} \cup UNION {Kinds(p.kids[i]) : i \in DOMAIN p.kids}
=============================================================================
