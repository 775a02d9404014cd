--------------------------- MODULE PhysicalPlans ----------------------------
(***************************************************************************)
(* From a logical plan to a physical one: the optimizer with its predicate *)
(* pushdown rule (optimizer.go, predicate_pushdown.go), and the physical   *)
(* plan builder with the scan, join and other conversion rules             *)
(* (physical_plan_builder.go, physical_plan_rule.go, scan_rules.go,        *)
(* join_rules.go).  A panic of the planner is the node Panic, an error the *)
(* node Failed.                                                            *)
(***************************************************************************)
EXTENDS PlanBuilder

CONSTANT IndexesOf   \* table name |-> sequence of [key, type]; key: column numbers

Panic == [k |-> "panic"]
Broken(n) == n.k \in {"panic", "error"}
-----------------------------------------------------------------------------
(* Predicate pushdown.                                                     *)

canPushToScan(e, scan) ==
  \A i \in DOMAIN GetReferencedColumns(e) :
     LET c == GetReferencedColumns(e)[i] IN c.origin # NoOrigin /\ c.origin.alias = scan.ref.alias


\* Where one conjunct above a join goes: into a side, into the join, or nowhere.
PushTarget(pred, join) ==
  LET left == CoversExpr(OutputSchema(join.kids[1]), pred)
      right == CoversExpr(OutputSchema(join.kids[2]), pred)
  IN  IF left /\ ~right /\ join.type \in {"inner", "cross", "left"} THEN "left"
      ELSE IF right /\ ~left /\ join.type \in {"inner", "cross", "right"} THEN "right"
      ELSE IF join.type \in {"inner", "cross"} THEN "on" ELSE "keep"

Pushed(join, going) ==
  LET side(to, kid) == IF going[to] = <<>> THEN kid ELSE LogicalFilter(kid, MergePredicates(going[to]))
  IN  side("keep", [join EXCEPT !.kids = <<side("left", @[1]), side("right", @[2])>>, !.on = @ \o going["on"],
                                !.type = IF @ = "cross" /\ going["on"] # <<>> THEN "inner" ELSE @])
pushThroughJoin(filter, join) ==
  Pushed(join, [to \in {"left", "right", "on", "keep"} |->
                 SelectSeq(SplitPredicate(filter.pred), LAMBDA p : PushTarget(p, join) = to)])

PushDown(n) ==
  IF n.k # "filter" THEN n
  ELSE IF n.kids[1].k = "scan" /\ canPushToScan(n.pred, n.kids[1])
  THEN [n.kids[1] EXCEPT !.preds = Append(@, n.pred)]
  ELSE IF n.kids[1].k = "join" THEN pushThroughJoin(n, n.kids[1]) ELSE n

\* OptimizeWithRule: the node first, then its children.
RECURSIVE Optimize(_)
Optimize(n) == LET m == PushDown(n) IN [m EXCEPT !.kids = [i \in DOMAIN @ |-> Optimize(@[i])]]
-----------------------------------------------------------------------------
(* Physical plan nodes, by their field k.                                  *)

ColumnTypes(table) == [i \in DOMAIN Tables[table] |-> Tables[table][i].type]

RECURSIVE Types(_)
Types(p) ==
  CASE p.k \in {"seqscan", "idxscan", "idxlookup"} -> ColumnTypes(p.table)
    [] p.k = "pproj" -> [i \in DOMAIN p.exprs |-> OutputType(p.exprs[i])]
    [] p.k = "pagg" -> [i \in DOMAIN p.group |-> OutputType(p.group[i])]
                       \o [i \in DOMAIN p.aggs |-> OutputType(p.aggs[i].e)]
    [] p.k \in {"bnlj", "hashjoin", "smj"} -> Types(p.kids[1]) \o Types(p.kids[2])
    [] p.k = "inlj" -> Types(p.kids[1]) \o ColumnTypes(p.table)
    [] p.k = "pvalues" -> p.types
    [] p.k \in {"pinsert", "pdelete", "pupdate"} -> <<"int">>
    [] OTHER -> Types(p.kids[1])

\* Make(p, exprs) is p, unless binding one of its expressions panicked.
Make(p, exprs) == IF \E i \in DOMAIN exprs : HasUnbound(exprs[i]) THEN Panic ELSE p

BindTo(es, schema, p) == [i \in DOMAIN es |-> BindExpr(es[i], schema, Types(p))]

Filter(p, pred) == Make([k |-> "pfilter", pred |-> pred, kids |-> <<p>>], <<pred>>)
wrapInFilter(p, preds, schema) ==
  IF preds = <<>> THEN p ELSE Filter(p, BindExpr(MergePredicates(preds), schema, Types(p)))
-----------------------------------------------------------------------------
(* Scan rules.                                                             *)

SeqScan(n) == wrapInFilter([k |-> "seqscan", table |-> n.table, kids |-> <<>>,
                            mode |-> IF n.forUpdate THEN "X" ELSE "S"], n.preds, n.ref.schema)

flipComparison(op) == CASE op = "<" -> ">" [] op = ">" -> "<" [] op = "<=" -> ">=" [] op = ">=" -> "<="
                        [] OTHER -> op

\* isRangeScan: column, constant and comparison of a usable predicate, or <<>>.  A
\* negation turns the comparison around as swapping its operands does.
RECURSIVE isRangeScan(_)
isRangeScan(e) ==
  CASE e.k = "cmp" /\ e.args[1].k = "col" /\ e.args[2].k = "const" ->
         <<[col |-> e.args[1], val |-> e.args[2].val, op |-> e.op]>>
    [] e.k = "cmp" /\ e.args[2].k = "col" /\ e.args[1].k = "const" ->
         <<[col |-> e.args[2], val |-> e.args[1].val, op |-> flipComparison(e.op)]>>
    [] e.k = "not" -> LET inner == isRangeScan(e.args[1])
                      IN  [i \in DOMAIN inner |-> [inner[i] EXCEPT !.op = flipComparison(@)]]
    [] OTHER -> <<>>
\* Which of those are equalities.
isEqualityScan(e) == e.k = "cmp" /\ e.op = "="

Product(ls, rs) == FlattenSeq([i \in DOMAIN ls |-> [j \in DOMAIN rs |-> ls[i] \o rs[j]]])

\* toDNFTerms and negateToDNF: a sequence of conjunctions, each a sequence.
RECURSIVE toDNFTerms(_, _)
toDNFTerms(e, negated) ==
  CASE e.k = "not" -> toDNFTerms(e.args[1], ~negated)
    [] e.k = "logic" ->
         LET l == toDNFTerms(e.args[1], negated) r == toDNFTerms(e.args[2], negated)
         IN  IF (e.op = "or") # negated THEN l \o r ELSE Product(l, r)
    [] OTHER -> <<<<IF negated THEN Not(e) ELSE e>>>>

\* A column or a computed value used as a condition makes toDNFTerms panic.
RECURSIVE DNFPanics(_, _)
DNFPanics(e, negated) ==
  CASE e.k = "not" -> DNFPanics(e.args[1], ~negated)
    [] e.k = "logic" -> DNFPanics(e.args[1], negated) \/ DNFPanics(e.args[2], negated)
    [] OTHER -> ~negated /\ e.k \notin {"cmp", "null", "like"}

predicatesToDNFTerms(preds) == toDNFTerms(MergePredicates(preds), FALSE)

NoMatch == [n |-> 0, vals |-> <<>>, range |-> FALSE, op |-> "=", used |-> {}]

\* One conjunction against one index: equalities from the first key column on,
\* and then at most one other comparison, which ends the match.  scans holds the
\* comparison that each predicate is, or <<>>.
RECURSIVE MatchFrom(_, _, _, _, _)
MatchFrom(key, term, scans, table, m) ==
  LET on(i) == scans[i] # <<>> /\ scans[i][1].col.name = Tables[table][key[m.n + 1]].name
      eq == SelectInSeq([i \in DOMAIN term |-> i], LAMBDA i : on(i) /\ isEqualityScan(term[i]))
      rg == SelectInSeq([i \in DOMAIN term |-> i], on)
      with(i) == [m EXCEPT !.n = @ + 1, !.vals = Append(@, scans[i][1].val), !.used = @ \cup {term[i]}]
  IN  IF m.n = Len(key) THEN m
      ELSE IF eq # 0 THEN MatchFrom(key, term, scans, table, with(eq))
      ELSE IF rg # 0 THEN [with(rg) EXCEPT !.range = TRUE, !.op = scans[rg][1].op]
      ELSE NoMatch
analyzeIndexTerm(key, term, table) ==
  MatchFrom(key, term, [i \in DOMAIN term |-> isRangeScan(term[i])], table, NoMatch)

\* analyzeIndex: the first of the conjunctions that match the most columns.
Widest(matches) ==
  matches[CHOOSE i \in DOMAIN matches : /\ \A j \in DOMAIN matches : matches[j].n <= matches[i].n
                                        /\ \A j \in 1 .. (i - 1) : matches[j].n < matches[i].n]
analyzeIndex(idx, table, terms) == Widest([i \in DOMAIN terms |-> analyzeIndexTerm(idx.key, terms[i], table)])

\* The matches of all the indexes of a scan's table; none without a condition.
Matches(n) ==
  IF n.preds = <<>> THEN <<>>
  ELSE LET terms == predicatesToDNFTerms(n.preds)
       IN  [i \in DOMAIN IndexesOf[n.table] |-> analyzeIndex(IndexesOf[n.table][i], n.table, terms)]

\* Index numbers whose match is of the given kind, and the best of them.
Candidates(ms, range) == {i \in DOMAIN ms : ms[i].n > 0 /\ ms[i].range = range}
BestIndex(ms, range) ==
  CHOOSE i \in Candidates(ms, range) :
    \A j \in Candidates(ms, range) : ms[j].n < ms[i].n \/ (ms[j].n = ms[i].n /\ i <= j)

\* IndexScanRule.Match wants every key column; Apply takes any match.
FullRangeMatch(n, ms) == \E i \in Candidates(ms, TRUE) : ms[i].n = Len(IndexesOf[n.table][i].key)


\* What is left to filter: nothing if some conjunction was used up, and otherwise
\* what remains of each one (a negation is a new object and always remains).
Residuals(n, used) ==
  LET left(term) == SelectSeq(term, LAMBDA e : e.k = "not" \/ e \notin used)
      terms == predicatesToDNFTerms(n.preds)
  IN  IF \E i \in DOMAIN terms : left(terms[i]) = <<>> THEN <<>>
      ELSE [i \in DOMAIN terms |-> MergePredicates(left(terms[i]))]

\* An exclusive bound becomes the neighbouring key.  Next to a string is the same
\* string with a zero byte, which the key cuts off again.
AtEdge(x, op) == \/ op = "<" /\ x.v = (IF x.t = "int" THEN MinInt ELSE 0)
                 \/ op = ">" /\ x.t = "int" /\ x.v = MaxInt
BoundKey(x, op) ==
  Stored(CASE op = "<" -> [x EXCEPT !.v = @ - 1]
           [] op = ">" /\ x.t = "int" -> [x EXCEPT !.v = @ + 1]
           [] OTHER -> x)

IndexScan(n, i, m) ==
  IF AtEdge(m.vals[m.n], m.op) THEN Panic
  ELSE wrapInFilter([k |-> "idxscan", table |-> n.table, idx |-> i, back |-> m.op \in {"<", "<="},
                     key |-> [m.vals EXCEPT ![m.n] = BoundKey(@, m.op)], forUpdate |-> n.forUpdate, kids |-> <<>>],
                    Residuals(n, m.used), n.ref.schema)

IndexLookup(n, i, m) ==
  wrapInFilter([k |-> "idxlookup", table |-> n.table, idx |-> i, forUpdate |-> n.forUpdate,
                key |-> [j \in DOMAIN m.vals |-> Stored(m.vals[j])], kids |-> <<>>],
               Residuals(n, m.used), n.ref.schema)

Access(n, ms, rules) ==
  IF "IndexLookup" \in rules /\ Candidates(ms, FALSE) # {}
  THEN LET i == BestIndex(ms, FALSE) IN IndexLookup(n, i, ms[i])
  ELSE IF "IndexScan" \in rules /\ FullRangeMatch(n, ms)
  THEN LET i == BestIndex(ms, TRUE) IN IndexScan(n, i, ms[i])
  ELSE SeqScan(n)

ScanRules(n, rules) ==
  IF n.preds # <<>> /\ rules \cap {"IndexLookup", "IndexScan"} # {}
     /\ IndexesOf[n.table] # <<>> /\ DNFPanics(MergePredicates(n.preds), FALSE) THEN Panic
  ELSE Access(n, Matches(n), rules)
-----------------------------------------------------------------------------
(* Join rules.                                                             *)

\* isEquiJoin: the pairs of sides of the equalities between the two inputs.
RECURSIVE isEquiJoin(_, _, _)
isEquiJoin(e, left, right) ==
  CASE e.k = "cmp" /\ e.op = "=" ->
         IF CoversExpr(left, e.args[1]) /\ CoversExpr(right, e.args[2]) THEN <<e.args>>
         ELSE IF CoversExpr(left, e.args[2]) /\ CoversExpr(right, e.args[1]) THEN <<Reverse(e.args)>>
         ELSE <<>>
    [] e.k = "logic" /\ e.op = "and" -> isEquiJoin(e.args[1], left, right) \o isEquiJoin(e.args[2], left, right)
    [] OTHER -> <<>>

KeysOf(cond, n) == isEquiJoin(cond, OutputSchema(n.kids[1]), OutputSchema(n.kids[2]))
getEquiJoinKeys(n) ==
  FlattenSeq([i \in DOMAIN n.on |-> LET keys == KeysOf(n.on[i], n)
                                    IN  [j \in DOMAIN keys |-> [l |-> keys[j][1], r |-> keys[j][2], on |-> n.on[i]]]])
\* A condition with one equality in it counts as an equality altogether.
getNonEquiConditions(n, keys) == SelectSeq(n.on, LAMBDA c : \A j \in DOMAIN keys : keys[j].on # c)

\* A join on keys that are bound, filtered by the conditions that are left.
Keyed(join, bound, rest, n) ==
  IF \E i \in DOMAIN bound : HasUnbound(bound[i]) THEN Panic ELSE wrapInFilter(join, rest, OutputSchema(n))
KeyJoin(k, n, keys, kids) ==
  LET join == [k |-> k, lk |-> BindTo([i \in DOMAIN keys |-> keys[i].l], OutputSchema(n.kids[1]), kids[1]),
               rk |-> BindTo([i \in DOMAIN keys |-> keys[i].r], OutputSchema(n.kids[2]), kids[2]), kids |-> kids]
  IN  Keyed(join, join.lk \o join.rk, getNonEquiConditions(n, keys), n)

\* The equality that probes key column c, as an index into keys, or 0.
Probe(keys, table, c) ==
  SelectInSeq(keys, LAMBDA pair : pair.r.k = "col" /\ pair.r.name = Tables[table][c].name)
Probed(keys, table, idx) == \A j \in DOMAIN idx.key : Probe(keys, table, idx.key[j]) # 0

\* Match asks for the first key column, Apply for all of them.
IndexJoinMatches(n, keys) ==
  /\ n.kids[2].k = "scan"
  /\ \E i \in DOMAIN IndexesOf[n.kids[2].table] :
        Probe(keys, n.kids[2].table, IndexesOf[n.kids[2].table][i].key[1]) # 0
ProbeJoin(n, i, probes, kids) ==
  LET join == [k |-> "inlj", table |-> n.kids[2].table, idx |-> i, kids |-> <<kids[1]>>,
               lk |-> BindTo([j \in DOMAIN probes |-> probes[j].l], OutputSchema(n.kids[1]), kids[1])]
  IN  Keyed(join, join.lk, getNonEquiConditions(n, probes), n)
IndexJoin(n, keys, kids) ==
  LET table == n.kids[2].table
      i == SelectInSeq(IndexesOf[table], LAMBDA idx : Probed(keys, table, idx))
      key == IndexesOf[table][i].key
  IN  IF i = 0 THEN Failed ELSE ProbeJoin(n, i, [j \in DOMAIN key |-> keys[Probe(keys, table, key[j])]], kids)

IsSortedInput(p) == p.k = "idxscan" \/ (p.k = "pproj" /\ p.kids[1].k = "idxscan")

Materialized(p) == IF p.k \in {"seqscan", "idxscan", "idxlookup", "mat"} THEN p
                   ELSE [k |-> "mat", kids |-> <<p>>]
BlockJoin(n, kids) ==
  LET on == IF n.on = <<>> THEN Constant(NewIntValue(1)) ELSE MergePredicates(n.on)
      pred == BindExpr(on, OutputSchema(n), Types(kids[1]) \o Types(kids[2]))
  IN  Make([k |-> "bnlj", pred |-> pred, kids |-> <<kids[1], Materialized(kids[2])>>], <<pred>>)

\* The rules that apply, by priority.
Joined(n, keys, kids, rules) ==
  IF keys = <<>> THEN BlockJoin(n, kids)
  ELSE IF "SortMergeJoin" \in rules /\ \A i \in 1 .. 2 : IsSortedInput(kids[i]) THEN KeyJoin("smj", n, keys, kids)
  ELSE IF "IndexJoin" \in rules /\ IndexJoinMatches(n, keys) THEN IndexJoin(n, keys, kids)
  ELSE IF "HashJoin" \in rules THEN KeyJoin("hashjoin", n, keys, kids) ELSE BlockJoin(n, kids)
JoinRules(n, kids, rules) == Joined(n, getEquiJoinKeys(n), kids, rules)
-----------------------------------------------------------------------------
(* The other rules, and the builder.                                       *)

SortRule(n, p) ==
  LET es == BindTo([i \in DOMAIN n.order |-> n.order[i].e], OutputSchema(n.kids[1]), p)
  IN  Make([k |-> "psort", kids |-> <<p>>,
            order |-> [i \in DOMAIN es |-> [e |-> es[i], desc |-> n.order[i].desc]]], es)

\* A limit over a sort is a top-N; the offset is not carried over.
LimitRule(n, p) ==
  IF p.k = "psort" THEN [k |-> "topn", n |-> n.n, order |-> p.order, kids |-> p.kids]
  ELSE [k |-> "plimit", n |-> n.n, kids |-> <<p>>]

ProjectionRule(n, p) ==
  LET child == OutputSchema(n.kids[1])
      fused == [i \in DOMAIN n.exprs |-> FuseProjectionIntoExpr(n.exprs[i], child, p.exprs)]
      bound == BindTo(n.exprs, child, p)
  IN  IF p.k = "pproj" /\ \A i \in DOMAIN fused : ~HasUnbound(fused[i])
      THEN [k |-> "pproj", exprs |-> fused, kids |-> p.kids]
      ELSE Make([k |-> "pproj", exprs |-> bound, kids |-> <<p>>], bound)

AggregationRule(n, p) ==
  LET group == BindTo(n.group, OutputSchema(n.kids[1]), p)
      args == BindTo([i \in DOMAIN n.aggs |-> n.aggs[i].e], OutputSchema(n.kids[1]), p)
  IN  Make([k |-> "pagg", group |-> group, kids |-> <<p>>,
            aggs |-> [i \in DOMAIN args |-> [f |-> n.aggs[i].f, e |-> args[i]]]], group \o args)

\* One expression per table column; a column that is not set keeps its value.
UpdateRule(n, p) ==
  LET set(c) == SelectLastInSeq(n.sets, LAMBDA s : s.c.name = Tables[n.table][c].name)
      exprs == [c \in DOMAIN Tables[n.table] |->
                 IF set(c) = 0 THEN BoundValue(c, Tables[n.table][c].type)
                 ELSE BindExpr(n.sets[set(c)].e, OutputSchema(n.kids[1]), Types(p))]
  IN  Make([k |-> "pupdate", table |-> n.table, exprs |-> exprs, kids |-> <<p>>], exprs)

ValuesRule(n) ==
  LET rows == [i \in DOMAIN n.rows |-> [j \in DOMAIN n.rows[i] |-> BindExpr(n.rows[i][j], <<>>, <<>>)]]
  IN  Make([k |-> "pvalues", rows |-> rows, types |-> [i \in DOMAIN n.schema |-> n.schema[i].type],
            kids |-> <<>>], FlattenSeq(rows))

\* Build: the children first; then the matching rule of the highest priority.
RECURSIVE Build(_, _)
Build(n, rules) ==
  LET kids == [i \in DOMAIN n.kids |-> Build(n.kids[i], rules)]
      bad == SelectInSeq(kids, Broken)
  IN  IF bad # 0 THEN kids[bad]
      ELSE CASE n.k = "scan" -> ScanRules(n, rules)
             [] n.k = "join" -> JoinRules(n, kids, rules)
             [] n.k = "filter" -> Filter(kids[1], BindExpr(n.pred, OutputSchema(n.kids[1]), Types(kids[1])))
             [] n.k = "sort" -> SortRule(n, kids[1])
             [] n.k = "limit" -> LimitRule(n, kids[1])
             [] n.k = "proj" -> ProjectionRule(n, kids[1])
             [] n.k = "agg" -> AggregationRule(n, kids[1])
             [] n.k = "values" -> ValuesRule(n)
             [] n.k = "update" -> UpdateRule(n, kids[1])
             [] n.k = "insert" -> [k |-> "pinsert", table |-> n.table, kids |-> kids]
             [] n.k = "delete" -> [k |-> "pdelete", table |-> n.table, kids |-> kids]
             [] n.k = "subquery" -> IF "Subquery" \in rules THEN [k |-> "mat", kids |-> kids] ELSE Failed
=============================================================================
