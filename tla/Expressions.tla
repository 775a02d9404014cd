---------------------------- MODULE Expressions -----------------------------
(***************************************************************************)
(* Values (common/types.go) and expression trees (planner/expr.go).        *)
(*                                                                         *)
(* A value is [t, null, v]: its type, whether it is NULL, and a number     *)
(* that stands for the integer, or for the place of a string in the order  *)
(* of strings.  An expression is a column reference, a column offset, a    *)
(* constant, or an operator applied to a sequence of expressions.          *)
(***************************************************************************)
EXTENDS Integers, Sequences, SequencesExt

CONSTANT IntBits   \* width of an int64

MinInt == -(2 ^ (IntBits - 1))
MaxInt == 2 ^ (IntBits - 1) - 1
Wrap(n) == ((n - MinInt) % (2 ^ IntBits)) + MinInt

NewIntValue(n) == [t |-> "int", null |-> FALSE, v |-> n]
NewStringValue(n) == [t |-> "str", null |-> FALSE, v |-> n]
NewNull(type) == [t |-> type, null |-> TRUE, v |-> 0]

\* -1, 0 or 1; NULL comes before every other value.
Compare(a, b) ==
  IF a.null \/ b.null
  THEN IF a.null = b.null THEN 0 ELSE IF a.null THEN -1 ELSE 1
  ELSE IF a.v < b.v THEN -1 ELSE IF a.v > b.v THEN 1 ELSE 0

\* What is left of a value once it has been written to a row and read back: the
\* smallest integer is the mark of NULL.
Stored(x) == IF x.t = "int" /\ ~x.null /\ x.v = MinInt THEN NewNull("int") ELSE x

ExprIsTrue(x) == x.t = "int" /\ ~x.null /\ x.v # 0
ExprIsFalse(x) == x.t = "int" /\ ~x.null /\ x.v = 0
-----------------------------------------------------------------------------
NoOrigin == [id |-> 0, alias |-> ""]
LogicalColumn(name, type, origin) == [k |-> "col", name |-> name, type |-> type, origin |-> origin]
BoundValue(i, type) == [k |-> "bound", i |-> i, type |-> type]
Constant(x) == [k |-> "const", val |-> x]
Op(k, op, args) == [k |-> k, op |-> op, args |-> args]
Comparison(op, l, r) == Op("cmp", op, <<l, r>>)
And(l, r) == Op("logic", "and", <<l, r>>)
Or(l, r) == Op("logic", "or", <<l, r>>)
Not(e) == Op("not", "not", <<e>>)

IsNode(e) == e.k \notin {"col", "bound", "const"}

OutputType(e) ==
  CASE e.k \in {"col", "bound"} -> e.type
    [] e.k = "const" -> e.val.t
    [] e.k = "concat" -> "str"
    [] OTHER -> "int"

\* LogicalColumn.Equals: the same name, type and table reference.
SameColumn(c, d) == c.name = d.name /\ c.type = d.type /\ c.origin.id = d.origin.id
HasColumn(schema, c) == \E i \in DOMAIN schema : SameColumn(schema[i], c)

\* IS NULL and || say that they refer to no column.
RECURSIVE GetReferencedColumns(_)
GetReferencedColumns(e) ==
  CASE e.k = "col" -> <<e>>
    [] e.k \in {"const", "null", "concat"} -> <<>>
    [] OTHER -> FlattenSeq([i \in DOMAIN e.args |-> GetReferencedColumns(e.args[i])])

Covers(schema, cols) == \A i \in DOMAIN cols : HasColumn(schema, cols[i])
CoversExpr(schema, e) == Covers(schema, GetReferencedColumns(e))

RECURSIVE SplitPredicate(_)
SplitPredicate(e) ==
  IF e.k = "logic" /\ e.op = "and"
  THEN SplitPredicate(e.args[1]) \o SplitPredicate(e.args[2])
  ELSE <<e>>

\* The conjunction of a non-empty sequence of predicates.
MergePredicates(es) == FoldLeft(And, Head(es), Tail(es))
-----------------------------------------------------------------------------
Truth(b) == NewIntValue(IF b THEN 1 ELSE 0)

Abs(n) == IF n < 0 THEN -n ELSE n
Quotient(a, b) == IF (a < 0) = (b < 0) THEN Abs(a) \div Abs(b) ELSE -(Abs(a) \div Abs(b))
Remainder(a, b) == a - b * Quotient(a, b)

EvalComparison(op, a, b) ==
  IF a.null \/ b.null THEN NewNull("int")
  ELSE LET c == Compare(a, b)
       IN  Truth(CASE op = "=" -> c = 0   [] op = "!=" -> c # 0
                   [] op = "<" -> c < 0   [] op = ">" -> c > 0
                   [] op = "<=" -> c <= 0 [] op = ">=" -> c >= 0)

EvalLogic(op, a, b) ==
  LET decided(x) == IF op = "and" THEN ExprIsFalse(x) ELSE ExprIsTrue(x)
      neutral(x) == IF op = "and" THEN ExprIsTrue(x) ELSE ExprIsFalse(x)
  IN  IF decided(a) \/ decided(b) THEN Truth(op = "or")
      ELSE IF neutral(a) /\ neutral(b) THEN Truth(op = "and")
      ELSE NewNull("int")

EvalArithmetic(op, a, b) ==
  IF a.null \/ b.null \/ (op \in {"/", "%"} /\ b.v = 0) THEN NewNull("int")
  ELSE NewIntValue(Wrap(CASE op = "+" -> a.v + b.v [] op = "-" -> a.v - b.v
                          [] op = "*" -> a.v * b.v [] op = "/" -> Quotient(a.v, b.v)
                          [] op = "%" -> Remainder(a.v, b.v)))

EvalNegation(x) == IF x.null THEN NewNull("int") ELSE Truth(~ExprIsTrue(x))
EvalNullCheck(op, x) == Truth(x.null = (op = "is null"))

RECURSIVE Eval(_, _)
Eval(e, row) ==
  CASE e.k = "bound" -> row[e.i]
    [] e.k = "const" -> e.val
    [] e.k = "cmp" -> EvalComparison(e.op, Eval(e.args[1], row), Eval(e.args[2], row))
    [] e.k = "logic" -> EvalLogic(e.op, Eval(e.args[1], row), Eval(e.args[2], row))
    [] e.k = "arith" -> EvalArithmetic(e.op, Eval(e.args[1], row), Eval(e.args[2], row))
    [] e.k = "not" -> EvalNegation(Eval(e.args[1], row))
    [] e.k = "null" -> EvalNullCheck(e.op, Eval(e.args[1], row))

\* BindExpr: column references become offsets; a column that is not there is a
\* panic, which "unbound" stands for.
Unbound == [k |-> "unbound"]
IndexOf(schema, c) == CHOOSE i \in DOMAIN schema : SameColumn(schema[i], c)
                        /\ \A j \in 1 .. (i - 1) : ~SameColumn(schema[j], c)

RECURSIVE BindExpr(_, _, _)
BindExpr(e, schema, types) ==
  CASE e.k = "col" -> IF HasColumn(schema, e)
                      THEN LET i == IndexOf(schema, e) IN BoundValue(i, types[i]) ELSE Unbound
    [] IsNode(e) -> [e EXCEPT !.args = [i \in DOMAIN @ |-> BindExpr(@[i], schema, types)]]
    [] OTHER -> e

RECURSIVE ShiftExpr(_, _)
ShiftExpr(e, n) ==
  CASE e.k = "bound" -> [e EXCEPT !.i = @ + n]
    [] IsNode(e) -> [e EXCEPT !.args = [i \in DOMAIN @ |-> ShiftExpr(@[i], n)]]
    [] OTHER -> e

\* FuseProjectionIntoExpr: column references become the child's expressions.
RECURSIVE FuseProjectionIntoExpr(_, _, _)
FuseProjectionIntoExpr(e, schema, exprs) ==
  CASE e.k = "col" -> IF HasColumn(schema, e) THEN exprs[IndexOf(schema, e)] ELSE Unbound
    [] IsNode(e) -> [e EXCEPT !.args = [i \in DOMAIN @ |-> FuseProjectionIntoExpr(@[i], schema, exprs)]]
    [] OTHER -> e

RECURSIVE HasUnbound(_)
HasUnbound(e) == e.k = "unbound" \/ (e.k # "unbound" /\ IsNode(e) /\ \E i \in DOMAIN e.args : HasUnbound(e.args[i]))
=============================================================================
