------------------------------- MODULE Query --------------------------------
(***************************************************************************)
(* One statement of the shell (main.go, executeStatement, and SQLPlanner): *)
(* it is planned, optimized, turned into a physical plan and a tree of     *)
(* executors, and run.  The planner's optional rules, the tables the       *)
(* statement meets and the page that cannot be read are chosen on the way. *)
(***************************************************************************)
EXTENDS SqlMeaning

CONSTANTS Statements, RuleSets, Databases, Faults

VARIABLES stmt, rules, stage, logical, plan, db, before, fault, exec, out
vars == <<stmt, rules, stage, logical, plan, db, before, fault, exec, out>>

NoFault == [table |-> "", pass |-> 0, at |-> 0]
ASSUME QueryAssumption == NoFault \in Faults

QueryInit ==
  /\ stmt \in Statements /\ rules \in RuleSets
  /\ stage = "sql" /\ fault = NoFault /\ out = <<>>
  /\ logical = {} /\ plan = {} /\ db = {} /\ before = {} /\ exec = {}

\* LogicalPlanBuilder.
PlanStatement ==
  /\ stage = "sql"
  /\ \E r \in {Plan(stmt)} : /\ stage' = IF r.ok THEN "logical" ELSE "refused"
                             /\ logical' = IF r.ok THEN r.plan ELSE logical
  /\ UNCHANGED <<stmt, rules, plan, db, before, fault, exec, out>>

OptimizePlan ==
  /\ stage = "logical"
  /\ stage' = "optimized" /\ logical' = Optimize(logical)
  /\ UNCHANGED <<stmt, rules, plan, db, before, fault, exec, out>>

\* PhysicalPlanBuilder.Build.
BuildPlan ==
  /\ stage = "optimized"
  /\ plan' = Build(logical, rules)
  /\ stage' = CASE plan'.k = "error" -> "unplanned" [] plan'.k = "panic" -> "panicked" [] OTHER -> "physical"
  /\ UNCHANGED <<stmt, rules, logical, db, before, fault, exec, out>>

\* The statement meets some tables, and perhaps a page it cannot read.
BuildTree ==
  /\ stage = "physical"
  /\ db' \in Databases /\ before' = db' /\ fault' \in Faults
  /\ exec' = BuildExecutorTree(plan)
  /\ stage' = IF BuildPanics(plan) THEN "unbuildable" ELSE "built"
  /\ UNCHANGED <<stmt, rules, logical, plan, out>>

Ctx == [db |-> db, fault |-> fault]
Outcome(err) == CASE err = "" -> "open" [] err = "error" -> "failed" [] err = "panic" -> "panicked"

\* An executor whose Init fails is not closed.
Open ==
  /\ stage = "built"
  /\ \E r \in {Init(exec, Ctx)} : exec' = r.x /\ stage' = Outcome(r.err)
  /\ UNCHANGED <<stmt, rules, logical, plan, db, before, fault, out>>

NextOutput(x, ctx) ==
  IF x.p.k \in Writes THEN RunWrite(x, ctx)
  ELSE LET r == NextRow(x, ctx) IN [x |-> r.x, ok |-> r.ok, db |-> ctx.db, hang |-> FALSE]

Fetch ==
  /\ stage = "open"
  /\ \E q \in {NextOutput(exec, Ctx)} :
       /\ db' = q.db /\ exec' = q.x
       /\ out' = IF q.ok THEN Append(out, q.x.row.vals) ELSE out
       /\ stage' = IF q.hang THEN "hung" ELSE IF q.ok THEN "open"
                   ELSE IF ErrorOf(q.x) = "panic" THEN "panicked" ELSE "closing"
  /\ UNCHANGED <<stmt, rules, logical, plan, before, fault>>

\* Close of the executors that read; a closed scan stands on no row.
RECURSIVE Closed(_)

\* Variant: only the first child is closed.
ClosedFirst(x) == [x EXCEPT !.row = IF x.p.k = "seqscan" THEN NoRow ELSE @,
                            !.kids = [i \in DOMAIN @ |-> IF i = 1 THEN Closed(@[i]) ELSE @[i]]]
Closed(x) == [x EXCEPT !.row = IF x.p.k = "seqscan" THEN NoRow ELSE @,
                       !.kids = [i \in DOMAIN @ |-> Closed(@[i])]]

Close ==
  /\ stage = "closing"
  /\ stage' = IF ErrorOf(exec) = "" THEN "done" ELSE "failed"
  /\ exec' = Closed(exec)
  /\ UNCHANGED <<stmt, rules, logical, plan, db, before, fault, out>>

QueryNext == \/ PlanStatement \/ OptimizePlan \/ BuildPlan \/ BuildTree \/ Open \/ Fetch \/ Close
QuerySpec == QueryInit /\ [][QueryNext]_vars
-----------------------------------------------------------------------------
(***************************************************************************)
(* Properties.                                                             *)
(***************************************************************************)
Query == stmt.k = "select"

RECURSIVE NodesOf(_)
NodesOf(n) == {n} \cup UNION {NodesOf(n.kids[i]) : i \in DOMAIN n.kids}

\* Rows compared: in order where the plan keeps the order of the tables, and as
\* bags elsewhere; all is what a LIMIT chooses from.
Exact(p) == Kinds(p) \cap {"bnlj", "hashjoin", "smj", "inlj", "idxscan", "idxlookup"} = {}
Occurrences(r, rows) == Cardinality({i \in DOMAIN rows : rows[i] = r})
Answers(got, want, all, exact) ==
  IF exact THEN got = want
  ELSE Len(got) = Len(want) /\ \A r \in ToSet(got) : Occurrences(r, got) <= Occurrences(r, all)

\* Where the scan rules choose an access that does not give the rows of the
\* condition: a disjunction or a negation driven by one comparison, !=, a range
\* after an equality, a bound next to a string, NULLs below an upper bound.
LooseAccess(n, scan, m) ==
  \/ \E e \in m.used : e.k = "not"
  \/ m.range /\ \/ m.op = "!="
                \/ m.n > 1
                \/ m.op = ">" /\ m.vals[1].t = "str"
                \/ scan.back /\ \E i \in DOMAIN before[n.table] :
                                   before[n.table][i].vals[IndexesOf[n.table][scan.idx].key[1]].null
LooseScan(n) ==
  /\ n.k = "scan" /\ n.preds # <<>>
  /\ \E scan \in NodesOf(ScanRules(n, rules)) :
       /\ scan.k \in {"idxscan", "idxlookup"}
       /\ Len(predicatesToDNFTerms(n.preds)) > 1 \/ LooseAccess(n, scan, Matches(n)[scan.idx])

LossyJoin(n) ==
  /\ n.k = "join" /\ \E i \in DOMAIN n.on : n.on[i].k = "logic" /\ KeysOf(n.on[i], n) # <<>>
  /\ Kinds(plan) \cap {"hashjoin", "smj", "inlj"} # {}

PlanHoles ==
  \/ \E n \in NodesOf(logical) : LooseScan(n) \/ LossyJoin(n)
  \/ stmt.limit # <<>> /\ stmt.limit[1].off.val.v > 0
  \/ stmt.having # <<>> /\ ~Aggregates(stmt)


RECURSIVE Unlimited(_), ScansOf(_)
Unlimited(p) == IF p.k = "plimit" THEN Unlimited(p.kids[1])
                ELSE [p EXCEPT !.kids = [i \in DOMAIN @ |-> Unlimited(@[i])]]
ScansOf(x) == IF x.p.k \in Scans THEN {x} ELSE UNION {ScansOf(x.kids[i]) : i \in DOMAIN x.kids}

AScanFailed == \E scan \in ScansOf(exec) : scan.err # ""

\* A backward scan that starts on a key of several rows.
TiedStart(p) == p.k = "idxscan" /\ p.back /\ Len(KeyRows(p, before, LAMBDA c : c = 0)) > 1

\* Executors that end without an error have produced what their plan means.
ExecutorsAgree ==
  (stage = "done" /\ Query /\ ~AScanFailed /\ \A p \in NodesOf(plan) : ~TiedStart(p)) =>
    Answers(out, PlanRows(plan, db), PlanRows(Unlimited(plan), db), Exact(plan))

\* An error a scan met is reported by the statement, unless the scan was below the
\* left side of a join.
ErrorsReported ==
  (stage = "done" /\ AScanFailed) =>
    \E n \in NodesOf(plan) : n.k = "bnlj" /\ fault.table \in {m.table : m \in {l \in NodesOf(n.kids[1]) : l.k \in Scans}}

\* Nothing is latched or pinned once the statement has ended, unless an aggregate
\* over a join failed in Init: then no executor is closed.
NothingHeld ==
  (stage \in {"done", "failed"} /\ LatchedPages(exec) # {}) => {"pagg", "bnlj"} \subseteq Kinds(plan) /\ stage = "failed"

\* A write waits for its own scan only where the scan is still open: when a LIMIT
\* ends it early, or an INSERT reads the table it writes row by row.
HangsExplained ==
  (stage = "hung") =>
    \/ plan.k = "pdelete" /\ "plimit" \in Kinds(plan)
    \/ plan.k = "pinsert" /\ \E n \in NodesOf(plan) : n.k = "seqscan" /\ n.table = plan.table

\* Values of other types than the columns they are written to, or too many of them.
MistypedWrite ==
  \/ /\ stmt.k = "insert" /\ stmt.rows.k = "values"
     /\ \E i \in DOMAIN stmt.rows.rows : \E j \in DOMAIN stmt.rows.rows[i] :
          j > Len(Tables[stmt.table]) \/ stmt.rows.rows[i][j].val.t # Tables[stmt.table][j].type
  \/ stmt.k = "update" /\ \E j \in DOMAIN plan.exprs : OutputType(plan.exprs[j]) # Tables[plan.table][j].type


Contents(rows) == [i \in DOMAIN rows |-> rows[i].vals]
Rids(rows) == {rows[i].rid : i \in DOMAIN rows}

\* Where an INSERT does not store the rows of its source: VALUES rows of different
\* lengths, a source that reads the rows being inserted, and two source columns
\* that the planner cannot tell apart.
Ambiguous(schema) == \E i, j \in DOMAIN schema : i # j /\ SameColumn(schema[i], schema[j])
InsertHoles(ins) ==
  IF ins.rows.k = "values" THEN \E i \in DOMAIN ins.rows.rows : Len(ins.rows.rows[i]) # Len(ins.rows.rows[1])
  ELSE \/ \E n \in NodesOf(plan) : n.k = "seqscan" /\ n.table = plan.table /\ "psort" \notin Kinds(plan)
       \/ ins.cols # <<>> /\ logical.kids[1].k = "proj" /\ Ambiguous(OutputSchema(logical.kids[1].kids[1]))

\* The table after the write, given its rows before it and the rows it is about.
Inserted(old, new, rows) == /\ Contents(new) = Contents(old) \o [i \in DOMAIN rows |-> StoredRow(rows[i])]
                            /\ out = <<<<NewIntValue(Len(rows))>>>>
Deleted(old, new, hit) == /\ new = SelectSeq(old, LAMBDA r : r.rid \notin Rids(hit))
                          /\ out = <<<<NewIntValue(Len(hit))>>>>
Updated(old, new, hit) ==
  /\ Rids(new) = Rids(old) /\ out = <<<<NewIntValue(Len(hit))>>>>
  /\ \A i \in DOMAIN old :
       IF old[i].rid \notin Rids(hit) THEN new[i] = old[i]
       ELSE \E j \in DOMAIN hit : hit[j].rid = old[i].rid /\ new[i].vals = StoredRow(UpdatedRow(stmt, hit[j]))
Applied(old, new) ==
  CASE stmt.k = "insert" -> InsertHoles(stmt) \/ Inserted(old, new, InsertedRows(stmt, before))
    [] stmt.k = "delete" -> Deleted(old, new, Affected(stmt, before))
    [] stmt.k = "update" -> Updated(old, new, Affected(stmt, before))

\* A write that ends without an error has done to its table what the statement
\* says, to no other table anything, and returned the number of rows.
WritesApplied ==
  (stage = "done" /\ ~Query /\ ~AScanFailed
     /\ \A n \in NodesOf(logical) : ~LooseScan(n) /\ \A p \in NodesOf(plan) : ~TiedStart(p)) =>
    /\ \A other \in DOMAIN db \ {plan.table} : db[other] = before[other]
    /\ Applied(LiveRows(plan.table, before), LiveRows(plan.table, db))
=============================================================================
