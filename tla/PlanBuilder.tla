---------------------------- MODULE PlanBuilder -----------------------------
(***************************************************************************)
(* The logical plan builder (planner/logical_plan_builder.go) and the      *)
(* logical plan nodes it builds (planner/logical_*_node.go).               *)
(*                                                                         *)
(* A parsed statement is a record tree: what the SQL parser returns.  A    *)
(* name in a plan is a sequence of tokens, so that the name the code gives *)
(* to an aggregate, "COUNT(t.a)", is <<"count", "(", "t", "a", ")">>.  An  *)
(* error of any kind is NoPlan, or Failed for an expression.               *)
(***************************************************************************)
EXTENDS Expressions, FiniteSets, TLC

CONSTANT Tables   \* table name |-> sequence of [name, type]

Failed == [k |-> "error"]
NoPlan == [ok |-> FALSE]
IsFailed(e) == e.k = "error"
AnyFailed(es) == \E i \in DOMAIN es : IsFailed(es[i])
-----------------------------------------------------------------------------
(* Logical plan nodes.                                                     *)

TableRef(id, alias, cols) ==
  [id |-> id, alias |-> alias,
   schema |-> [i \in DOMAIN cols |->
                LogicalColumn(cols[i].name, cols[i].type, [id |-> id, alias |-> alias])]]

LogicalScan(ref, table) ==
  [k |-> "scan", ref |-> ref, table |-> table, preds |-> <<>>, forUpdate |-> FALSE, kids |-> <<>>]
LogicalFilter(child, pred) == [k |-> "filter", pred |-> pred, kids |-> <<child>>]
LogicalJoin(left, right, on, type) == [k |-> "join", on |-> on, type |-> type, kids |-> <<left, right>>]
LogicalSort(child, order) == [k |-> "sort", order |-> order, kids |-> <<child>>]
LogicalLimit(child, n, off) == [k |-> "limit", n |-> n, off |-> off, kids |-> <<child>>]
LogicalProjection(child, exprs, schema) ==
  [k |-> "proj", exprs |-> exprs, schema |-> schema, kids |-> <<child>>]
LogicalAggregation(child, group, aggs) == [k |-> "agg", group |-> group, aggs |-> aggs, kids |-> <<child>>]
LogicalSubquery(ref, child) == [k |-> "subquery", ref |-> ref, kids |-> <<child>>]
LogicalValues(rows, schema) == [k |-> "values", rows |-> rows, schema |-> schema, kids |-> <<>>]
LogicalInsert(table, child) == [k |-> "insert", table |-> table, kids |-> <<child>>]
LogicalDelete(table, child) == [k |-> "delete", table |-> table, kids |-> <<child>>]
LogicalUpdate(table, child, sets) == [k |-> "update", table |-> table, sets |-> sets, kids |-> <<child>>]

\* Expr.String: what names a column that is computed.
RECURSIVE ExprString(_)
ExprString(e) ==
  CASE e.k = "col" -> (IF e.origin.alias = "" THEN <<>> ELSE <<e.origin.alias>>) \o e.name
    [] e.k = "const" -> <<ToString(e.val.v)>>
    [] e.k = "not" -> <<"!", "(">> \o ExprString(e.args[1]) \o <<")">>
    [] OTHER -> <<"(">> \o ExprString(e.args[1]) \o <<e.op>> \o ExprString(e.args[2]) \o <<")">>

ColumnOf(e) == LogicalColumn(IF e.k = "col" THEN e.name ELSE ExprString(e), OutputType(e),
                             IF e.k = "col" THEN e.origin ELSE NoOrigin)
AggColumn(a) == LogicalColumn(<<a.f, "(">> \o ExprString(a.e) \o <<")">>, OutputType(a.e), NoOrigin)
CountColumn == LogicalColumn(<<"count">>, "int", NoOrigin)

RECURSIVE OutputSchema(_)
OutputSchema(n) ==
  CASE n.k \in {"scan", "subquery"} -> n.ref.schema
    [] n.k \in {"proj", "values"} -> n.schema
    [] n.k = "join" -> OutputSchema(n.kids[1]) \o OutputSchema(n.kids[2])
    [] n.k = "agg" -> [i \in DOMAIN n.group |-> ColumnOf(n.group[i])]
                      \o [i \in DOMAIN n.aggs |-> AggColumn(n.aggs[i])]
    [] n.k \in {"insert", "delete", "update"} -> <<CountColumn>>
    [] OTHER -> OutputSchema(n.kids[1])
-----------------------------------------------------------------------------
(* Binding the parser's expressions.                                       *)

\* The columns of a scope, each with the alias of the table it is found in.
ScopeColumns(scope) ==
  FlattenSeq([i \in DOMAIN scope |->
    [j \in DOMAIN scope[i].schema |-> [alias |-> scope[i].alias, col |-> scope[i].schema[j]]]])

HasAggPrefix(alias) == alias \in {"agg", "aggr"}   \* strings.HasPrefix(alias, "agg")

TheOnly(matches) == IF Len(matches) = 1 THEN matches[1].col ELSE Failed

bindUnqualifiedCol(name, scope) == TheOnly(SelectSeq(ScopeColumns(scope), LAMBDA c : c.col.name = <<name>>))
bindColumn(q, name, scope) ==
  TheOnly(SelectSeq(ScopeColumns(scope),
                    LAMBDA c : c.col.name = <<name>> /\ (q \in {"", c.alias} \/ HasAggPrefix(c.alias))))

RECURSIVE SqlString(_)
SqlString(e) ==
  CASE e.k = "name" -> IF e.q = "" THEN <<e.name>> ELSE <<e.q, e.name>>
    [] e.k = "val" -> <<ToString(e.val.v)>>
    [] e.k = "func" -> <<e.f, "(">> \o (IF e.star THEN <<"*">> ELSE SqlString(e.args[1])) \o <<")">>
    [] e.k = "paren" -> <<"(">> \o SqlString(e.args[1]) \o <<")">>
    [] OTHER -> SqlString(e.args[1]) \o <<e.op>>
                \o (IF Len(e.args) = 2 THEN SqlString(e.args[2]) ELSE <<>>)

\* An aggregate call is found by its text; COUNT( * ) by the text COUNT(1).
bindFunc(e, scope) ==
  LET named(name) == SelectSeq(ScopeColumns(scope), LAMBDA c : c.col.name = name)
      byText == named(SqlString(e))
      byOne == IF e.f = "count" /\ e.star THEN named(<<"count", "(", "1", ")">>) ELSE <<>>
  IN  IF byText # <<>> THEN byText[1].col ELSE IF byOne # <<>> THEN byOne[1].col ELSE Failed

RECURSIVE bindExpr(_, _)
bindExpr(e, scope) ==
  CASE e.k = "name" -> bindColumn(e.q, e.name, scope)
    [] e.k = "val" -> Constant(e.val)
    [] e.k = "paren" -> bindExpr(e.args[1], scope)
    [] e.k = "func" -> bindFunc(e, scope)
    [] e.k \in {"sqlnull", "is"} -> Failed
    [] OTHER ->
         LET args == [i \in DOMAIN e.args |-> bindExpr(e.args[i], scope)]
         IN  IF \/ AnyFailed(args)
                \/ e.k = "cmp" /\ (OutputType(args[1]) # OutputType(args[2])
                                   \/ e.op \notin {"=", "!=", "<", ">", "<=", ">="})
                \/ e.k = "arith" /\ e.op \notin {"+", "-", "*", "/", "%"}
             THEN Failed ELSE Op(e.k, e.op, args)

bindAll(es, scope) == [i \in DOMAIN es |-> bindExpr(es[i], scope)]
-----------------------------------------------------------------------------
(* The clauses of a SELECT.  A result is [ok, scope, plan, id]; id is the  *)
(* next table reference number.                                            *)

Planned(scope, plan, id) == [ok |-> TRUE, scope |-> scope, plan |-> plan, id |-> id]

planWhere(where, r) ==
  LET pred == bindExpr(where[1], r.scope)
  IN  IF where = <<>> THEN r
      ELSE IF IsFailed(pred) THEN NoPlan
      ELSE Planned(r.scope, LogicalFilter(r.plan, pred), r.id)

planOrder(order, r) ==
  LET exprs == bindAll([i \in DOMAIN order |-> order[i].e], r.scope)
  IN  IF order = <<>> THEN r
      ELSE IF AnyFailed(exprs) THEN NoPlan
      ELSE Planned(r.scope, LogicalSort(r.plan, [i \in DOMAIN order |->
                                                  [e |-> exprs[i], desc |-> order[i].desc]]), r.id)

\* The row count and the offset must be integer literals.
planLimit(limit, r) ==
  IF limit = <<>> THEN r
  ELSE IF \E f \in {"n", "off"} : limit[1][f].k # "val" \/ limit[1][f].val.t # "int" THEN NoPlan
  ELSE Planned(r.scope, LogicalLimit(r.plan, limit[1].n.val.v, limit[1].off.val.v), r.id)

SqlAggregates == {"count", "sum", "min", "max", "avg"}

\* findAggs: the aggregate calls of an expression, outermost first.
RECURSIVE findAggs(_)
findAggs(e) ==
  CASE e.k = "func" /\ e.f \in SqlAggregates -> <<e>>
    [] e.k \in {"name", "val", "sqlnull", "star"} -> <<>>
    [] OTHER -> FlattenSeq([i \in DOMAIN e.args |-> findAggs(e.args[i])])

AggClause(f, scope) ==
  LET arg == IF f.star THEN Constant(NewIntValue(1)) ELSE bindExpr(f.args[1], scope)
  IN  IF (f.star /\ f.f # "count") \/ IsFailed(arg) \/ f.f = "avg" THEN Failed
      ELSE [k |-> "aggclause", f |-> f.f, e |-> arg]

\* HAVING is looked at only when the query groups or aggregates.
planAggregation(sel, r) ==
  LET calls == FlattenSeq([i \in DOMAIN sel.cols |-> findAggs(sel.cols[i].e)])
               \o (IF sel.having = <<>> THEN <<>> ELSE findAggs(sel.having[1]))
      aggs == [i \in DOMAIN calls |-> AggClause(calls[i], r.scope)]
      group == bindAll(sel.group, r.scope)
      node == LogicalAggregation(r.plan, group, aggs)
      scope == <<[id |-> r.id, alias |-> "agg", schema |-> OutputSchema(node)]>>
  IN  IF AnyFailed(aggs) THEN NoPlan
      ELSE IF sel.group = <<>> /\ calls = <<>> THEN r
      ELSE IF AnyFailed(group) THEN NoPlan
      ELSE planWhere(sel.having, Planned(scope, node, r.id + 1))

\* The projection of a SELECT: expressions and the columns they are called.
Projection(sel, r) ==
  LET all == OutputSchema(r.plan)
      of(c) == IF c.e.k = "star" THEN [exprs |-> all, schema |-> all]
               ELSE LET e == bindExpr(c.e, r.scope)
                    IN  [exprs |-> <<e>>,
                         schema |-> IF IsFailed(e) THEN <<>>
                                    ELSE <<[ColumnOf(e) EXCEPT !.name = IF c.as = "" THEN @ ELSE <<c.as>>]>>]
      exprs == FlattenSeq([i \in DOMAIN sel.cols |-> of(sel.cols[i]).exprs])
      schema == FlattenSeq([i \in DOMAIN sel.cols |-> of(sel.cols[i]).schema])
  IN  IF AnyFailed(exprs) THEN NoPlan
      ELSE Planned(r.scope, LogicalProjection(r.plan, exprs, schema), r.id)

\* Then(r, Stage) runs the next stage unless an earlier one failed.
Then(r, Stage(_)) == IF r.ok THEN Stage(r) ELSE NoPlan

RECURSIVE planFrom(_, _), planTableExpr(_, _), planSelect(_, _)

planAliasedTable(te, id) ==
  IF te.k = "table"
  THEN IF te.name \notin DOMAIN Tables THEN NoPlan
       ELSE LET ref == TableRef(id, IF te.as = "" THEN te.name ELSE te.as, Tables[te.name])
            IN  Planned(<<ref>>, LogicalScan(ref, te.name), id + 1)
  ELSE LET sub(r) == LET ref == TableRef(r.id, te.as, OutputSchema(r.plan))
                     IN  IF te.as = "" THEN NoPlan
                         ELSE Planned(<<ref>>, LogicalSubquery(ref, r.plan), r.id + 1)
       IN  Then(planSelect(te.select, id), sub)

planExplicitJoin(te, id) ==
  LET joined(l, r) ==
        LET on == bindAll(te.on, l.scope \o r.scope)
            using == [i \in DOMAIN te.using |->
                       LET a == bindUnqualifiedCol(te.using[i], l.scope)
                           b == bindUnqualifiedCol(te.using[i], r.scope)
                       IN  IF IsFailed(a) \/ IsFailed(b) THEN Failed
                           ELSE IF a.type # b.type THEN Failed ELSE Comparison("=", a, b)]
        IN  IF AnyFailed(on \o using) \/ te.type \notin {"inner", "left", "right"} THEN NoPlan
            ELSE Planned(l.scope \o r.scope, LogicalJoin(l.plan, r.plan, on \o using, te.type), r.id)
  IN  Then(planTableExpr(te.left, id),
           LAMBDA l : Then(planTableExpr(te.right, l.id), LAMBDA r : joined(l, r)))

planTableExpr(te, id) ==
  CASE te.k \in {"table", "sub"} -> planAliasedTable(te, id)
    [] te.k = "joinexpr" -> planExplicitJoin(te, id)
    [] te.k = "parenexpr" -> planFrom(te.list, id)

\* FROM A, B, C is a left-deep tree of cross joins.
planFrom(list, id) ==
  IF Len(list) = 1 THEN planTableExpr(list[1], id)
  ELSE LET cross(l, r) == Planned(l.scope \o r.scope, LogicalJoin(l.plan, r.plan, <<>>, "cross"), r.id)
       IN  Then(planFrom(Front(list), id),
                LAMBDA l : Then(planTableExpr(Last(list), l.id), LAMBDA r : cross(l, r)))

planSelect(sel, id) ==
  Then(planFrom(sel.from, id), LAMBDA a :
  Then(planWhere(sel.where, a), LAMBDA b :
  Then(planAggregation(sel, b), LAMBDA c :
  Then(planOrder(sel.order, c), LAMBDA d :
  Then(planLimit(sel.limit, d), LAMBDA e : Projection(sel, e))))))
-----------------------------------------------------------------------------
(* INSERT, DELETE and UPDATE.                                              *)

\* buildValues: the first row gives the number and the types of the columns.
buildValues(rows) ==
  LogicalValues(rows, [i \in DOMAIN rows[1] |->
                        LogicalColumn(<<"values", ToString(i)>>, OutputType(rows[1][i]), NoOrigin)])

planSource(src, id) ==
  IF src.k = "select" THEN planSelect(src, id)
  ELSE LET rows == [i \in DOMAIN src.rows |-> bindAll(src.rows[i], <<>>)]
       IN  IF \E i \in DOMAIN rows : AnyFailed(rows[i]) THEN NoPlan
           ELSE Planned(<<>>, buildValues(rows), id)

\* Columns named in another order, or left out, are put in place by a projection.
planInsert(ins) ==
  LET ref == TableRef(1, ins.table, Tables[ins.table])
      target == IF ins.cols = <<>> THEN ref.schema
                ELSE [i \in DOMAIN ins.cols |-> bindUnqualifiedCol(ins.cols[i], <<ref>>)]
      aligned(r) ==
        LET source == OutputSchema(r.plan)
            from(c) == SelectLastInSeq(target, LAMBDA t : t.name = c.name)
            exprs == [i \in DOMAIN ref.schema |->
                       LET j == from(ref.schema[i])
                       IN  IF j = 0 THEN Constant(NewNull(ref.schema[i].type)) ELSE source[j]]
        IN  IF Len(source) # Len(target) THEN NoPlan
            ELSE Planned(<<>>, LogicalInsert(ins.table,
                   IF target = ref.schema THEN r.plan
                   ELSE LogicalProjection(r.plan, exprs, ref.schema)), r.id)
  IN  IF ins.table \notin DOMAIN Tables THEN NoPlan
      ELSE IF AnyFailed(target) THEN NoPlan
      ELSE Then(planSource(ins.rows, 2), aligned)

\* DELETE and UPDATE take one base table, scanned for update.
planTarget(from) ==
  Then(planFrom(from, 1), LAMBDA r :
    IF r.plan.k # "scan" THEN NoPlan
    ELSE Planned(r.scope, [r.plan EXCEPT !.forUpdate = TRUE], r.id))

\* Variant: the WHERE clause is lost.
planDeleteAll(del) ==
  Then(planTarget(del.from), LAMBDA a : Planned(a.scope, LogicalDelete(a.plan.table, a.plan), a.id))

planDelete(del) ==
  Then(planTarget(del.from), LAMBDA a :
  Then(planWhere(del.where, a), LAMBDA b :
  Then(planOrder(del.order, b), LAMBDA c :
  Then(planLimit(del.limit, c), LAMBDA d :
    Planned(d.scope, LogicalDelete(a.plan.table, d.plan), d.id)))))

planUpdate(upd) ==
  Then(planTarget(upd.from), LAMBDA a :
    LET sets == [i \in DOMAIN upd.sets |->
                  [c |-> bindColumn("", upd.sets[i].c, a.scope), e |-> bindExpr(upd.sets[i].e, a.scope)]]
    IN  IF \E i \in DOMAIN sets : IsFailed(sets[i].c) \/ IsFailed(sets[i].e) THEN NoPlan
        ELSE Then(planWhere(upd.where, a), LAMBDA b :
               Planned(b.scope, LogicalUpdate(a.plan.table, b.plan, sets), b.id)))

\* LogicalPlanBuilder.Plan: another kind of statement is not supported.
Plan(stmt) ==
  CASE stmt.k = "select" -> planSelect(stmt, 1)
    [] stmt.k = "insert" -> planInsert(stmt)
    [] stmt.k = "delete" -> planDelete(stmt)
    [] stmt.k = "update" -> planUpdate(stmt)
    [] OTHER -> NoPlan
=============================================================================
