------------------------------ MODULE MCQuery -------------------------------
(***************************************************************************)
(* Statements, tables and faults for Query.  Tables t(a int, b string) and *)
(* s(a int, c int); strings are 'x' and 'y'.                               *)
(***************************************************************************)
EXTENDS Query

MCTables == [t |-> <<[name |-> <<"a">>, type |-> "int"], [name |-> <<"b">>, type |-> "str"]>>,
             s |-> <<[name |-> <<"a">>, type |-> "int"], [name |-> <<"c">>, type |-> "int"]>>]
MCIndexesOf == [t |-> <<[key |-> <<1>>, type |-> "btree"], [key |-> <<2>>, type |-> "btree"]>>,
                s |-> <<[key |-> <<2>>, type |-> "hash"], [key |-> <<1, 2>>, type |-> "btree"]>>]

\* The parser's expressions.
Name(n) == [k |-> "name", q |-> "", name |-> n]
Dot(q, n) == [k |-> "name", q |-> q, name |-> n]
Val(n) == [k |-> "val", val |-> NewIntValue(n)]
x == [k |-> "val", val |-> NewStringValue(2)]
y == [k |-> "val", val |-> NewStringValue(4)]
Call(f, e) == [k |-> "func", f |-> f, star |-> FALSE, args |-> <<e>>]
CountStar == [k |-> "func", f |-> "count", star |-> TRUE, args |-> <<>>]
Cmp(l, op, r) == Comparison(op, l, r)
Arith(l, op, r) == Op("arith", op, <<l, r>>)
Paren(e) == [k |-> "paren", args |-> <<e>>]
a == Name("a")
b == Name("b")
c == Name("c")

Star == [e |-> [k |-> "star"], as |-> ""]
Col(e) == [e |-> e, as |-> ""]
Cols(es) == [i \in DOMAIN es |-> Col(es[i])]
Table(n) == [k |-> "table", name |-> n, as |-> ""]
As(n, alias) == [k |-> "table", name |-> n, as |-> alias]
Sub(sel, alias) == [k |-> "sub", select |-> sel, as |-> alias]
Join(l, type, r, on, using) == [k |-> "joinexpr", left |-> l, right |-> r, on |-> on, using |-> using, type |-> type]
Rows(n, off) == <<[n |-> Val(n), off |-> Val(off)]>>

Select(cols, from) == [k |-> "select", cols |-> cols, from |-> from, where |-> <<>>, group |-> <<>>,
                       having |-> <<>>, order |-> <<>>, limit |-> <<>>]
Where(sel, e) == [sel EXCEPT !.where = <<e>>]
GroupBy(sel, es) == [sel EXCEPT !.group = es]
Having(sel, e) == [sel EXCEPT !.having = <<e>>]
OrderBy(sel, e, desc) == [sel EXCEPT !.order = Append(@, [e |-> e, desc |-> desc])]
Limit(sel, n, off) == [sel EXCEPT !.limit = Rows(n, off)]
Insert(table, cols, rows) == [k |-> "insert", table |-> table, cols |-> cols, rows |-> rows]
Values(rows) == [k |-> "values", rows |-> rows]
Delete(table) == [k |-> "delete", from |-> <<Table(table)>>, where |-> <<>>, order |-> <<>>, limit |-> <<>>]
Update(table, sets) == [k |-> "update", from |-> <<Table(table)>>, sets |-> sets, where |-> <<>>]

fromT == Select(<<Col(a)>>, <<Table("t")>>)
fromS == Select(<<Col(c)>>, <<Table("s")>>)
tAndS == Select(Cols(<<Dot("t", "a"), c>>), <<Table("t"), Table("s")>>)
sameA == Cmp(Dot("t", "a"), "=", Dot("s", "a"))

\* Conditions on one table, for the scan rules.
Scanning ==
  {Where(Select(<<Col(b), [e |-> Arith(a, "+", Val(1)), as |-> "d"]>>, <<Table("t")>>), Cmp(a, ">=", Val(1))),
   Where(fromT, And(Cmp(a, ">", Val(0)), Cmp(b, "=", y))),
   Where(fromT, Cmp(a, "<", Val(1))), Where(fromT, And(Cmp(a, "<=", Val(1)), Cmp(a, ">=", Val(0)))),
   Where(fromT, Not(Paren(Cmp(a, ">", Val(0))))), Where(fromT, Or(Cmp(a, "=", Val(1)), Cmp(b, "=", x))),
   Where(fromT, Or(And(Cmp(a, "=", Val(1)), Cmp(b, "=", y)), And(Cmp(a, "=", Val(0)), Cmp(b, "=", x)))),
   Where(fromT, Cmp(a, "!=", Val(1))), Where(fromT, Not(Or(Cmp(a, "=", Val(0)), Cmp(b, "=", x)))),
   Where(fromT, Cmp(b, ">", x)), Where(fromT, Cmp(b, "<", y)), Where(fromT, Cmp(Val(1), "=", a)),
   Where(fromT, a), Where(fromT, Cmp(a, ">", Val(MaxInt))), Where(fromS, And(Cmp(a, "=", Val(1)), Cmp(c, ">", Val(0)))),
   Where(fromS, Cmp(c, ">", Val(0))), Where(fromS, And(Cmp(c, "=", Val(1)), Cmp(a, "=", Val(0))))}

Joining ==
  {Where(tAndS, sameA), Where(tAndS, And(Cmp(c, "=", Val(1)), Cmp(b, "=", x))),
   Where(tAndS, And(sameA, Cmp(Dot("t", "a"), "<", c))), Limit(tAndS, 1, 0),
   Select(<<Star>>, <<Join(Table("t"), "inner", Table("s"), <<>>, <<"a">>)>>),
   Select(Cols(<<b, c>>), <<Join(Table("t"), "inner", Table("s"), <<And(sameA, Cmp(Dot("t", "a"), "<", c))>>, <<>>)>>),
   Where(Select(<<Star>>, <<Join(Table("t"), "left", Table("s"), <<sameA>>, <<>>)>>), Cmp(b, "=", y)),
   Where(Select(<<Star>>, <<Join(Table("t"), "right", Table("s"), <<sameA>>, <<>>)>>), Cmp(b, "=", y)),
   Where(Select(Cols(<<Dot("u", "a"), Dot("v", "b")>>), <<As("t", "u"), As("t", "v")>>),
         And(Cmp(Dot("u", "a"), "=", Dot("v", "a")), Cmp(Dot("u", "b"), "!=", Dot("v", "b")))),
   Where(Select(<<Col(b)>>, <<[k |-> "parenexpr", list |-> <<Table("t"), Table("s")>>]>>), Cmp(Dot("t", "a"), "<", c)),
   Where(tAndS, And(And(sameA, Cmp(Dot("t", "a"), ">=", Val(0))), Cmp(c, ">=", Val(1)))),
   OrderBy(Where(tAndS, Cmp(Dot("t", "a"), "=", c)), c, TRUE)}

ta == Dot("t", "a")
Grouping ==
  {Select(<<Col(CountStar)>>, <<Table("t")>>), Where(Select(<<Col(CountStar)>>, <<Table("t"), Table("s")>>), sameA),
   GroupBy(Select(Cols(<<b, Call("count", ta), Call("sum", ta)>>), <<Table("t")>>), <<b>>),
   Having(GroupBy(Select(<<Col(b)>>, <<Table("t")>>), <<b>>), Cmp(Call("count", ta), ">", Val(1))),
   Where(Select(Cols(<<Call("min", ta), Call("max", ta)>>), <<Table("t")>>), Cmp(b, "=", x)),
   Having(fromT, Cmp(a, ">", Val(0))), Select(<<Col(Call("avg", a))>>, <<Table("t")>>),
   OrderBy(GroupBy(Select(Cols(<<a, Call("count", Dot("t", "b"))>>), <<Table("t")>>), <<a>>), a, FALSE),
   Select(<<Col(Arith(Call("sum", Dot("s", "c")), "+", Val(1)))>>, <<Table("s")>>),
   Select(<<Col(Call("sum", c))>>, <<Table("s")>>)}

Ordering ==
  {Select(<<Star>>, <<Table("t")>>), OrderBy(OrderBy(fromT, b, TRUE), a, FALSE), Limit(fromT, 1, 0), Limit(fromT, 1, 1),
   Limit(OrderBy(fromT, a, TRUE), 1, 0), Select(<<Col(a)>>, <<Table("t"), Table("s")>>),
   Select(<<Col(Name("zz"))>>, <<Table("t")>>), Select(<<Star>>, <<Table("zz")>>),
   Where(fromT, Cmp(a, "=", x)), Where(fromT, [k |-> "is", args |-> <<a>>]),
   Select(<<Col(Dot("u", "a"))>>, <<Sub(Where(fromT, Cmp(a, ">", Val(0))), "u")>>),
   Where(Select(<<Col(Dot("u", "d"))>>, <<Sub(Select(<<[e |-> a, as |-> "d"], Col(b)>>, <<Table("t")>>), "u")>>),
         Cmp(Dot("u", "d"), "=", Val(1)))}

Writing ==
  {Insert("t", <<>>, Values(<<<<Val(1), x>>, <<Val(0), y>>>>)), Insert("t", <<"b">>, Values(<<<<x>>>>)),
   Insert("s", <<"c", "a">>, Select(<<Col(a), Col(Val(1))>>, <<Table("t")>>)), Insert("t", <<>>, Values(<<<<Val(1)>>>>)),
   Insert("t", <<>>, Values(<<<<Val(1), x>>, <<Val(0)>>>>)), Insert("t", <<>>, Values(<<<<x, Val(1)>>>>)),
   Insert("t", <<>>, Values(<<<<Val(1), x>>, <<Val(1), x, x>>>>)),
   Insert("t", <<>>, Select(<<Star>>, <<Table("t")>>)), Insert("t", <<>>, OrderBy(Select(<<Star>>, <<Table("t")>>), a, FALSE)),
   Insert("s", <<"c", "a">>, Select(<<[e |-> a, as |-> "c"], Col(c)>>, <<Table("s")>>)),
   [Delete("t") EXCEPT !.where = <<Cmp(a, "=", Val(1))>>], [Delete("t") EXCEPT !.limit = Rows(1, 0)],
   [Delete("t") EXCEPT !.where = <<Cmp(a, "<=", Val(1))>>], [Delete("t") EXCEPT !.order = <<[e |-> a, desc |-> TRUE]>>], Delete("s"),
   [Update("t", <<[c |-> "a", e |-> Arith(a, "+", Val(1))]>>) EXCEPT !.where = <<Cmp(b, "=", x)>>],
   Update("s", <<[c |-> "c", e |-> Arith(c, "*", Val(2))]>>), Update("s", <<[c |-> "a", e |-> c], [c |-> "c", e |-> a]>>),
   Update("t", <<[c |-> "a", e |-> x]>>)}

MCStatements == Scanning \cup Joining \cup Grouping \cup Ordering \cup Writing

MCRuleSets == {{}, {"IndexLookup", "IndexScan"}, {"SortMergeJoin", "IndexScan", "HashJoin", "Subquery"}, {"IndexJoin", "Subquery"}}

\* Tables: null is the NULL of type int.
null == NewNull("int")
T(n, r) == [live |-> TRUE, vals |-> <<IF n = 9 THEN null ELSE NewIntValue(n), NewStringValue(2 * r)>>]
S(n, m) == [live |-> TRUE, vals |-> <<NewIntValue(n), NewIntValue(m)>>]
Dead(row) == [row EXCEPT !.live = FALSE]
MCDatabases ==
  {[t |-> ts, s |-> ss] :
     ts \in {<<>>, <<T(9, 1)>>, <<T(1, 1)>>, <<T(9, 1), T(1, 2)>>, <<T(0, 1), T(0, 1)>>, <<T(1, 1), T(1, 2), T(0, 1)>>,
             <<T(0, 2), Dead(T(1, 1)), T(9, 2), T(1, 1)>>, <<T(1, 2), T(0, 2), T(1, 2), T(2, 1), T(1, 1)>>},
     ss \in {<<>>, <<S(1, 2)>>, <<S(0, 1), S(1, 1), S(2, 0)>>}}

MCFaults == {NoFault, [table |-> "t", pass |-> 1, at |-> 1], [table |-> "t", pass |-> 1, at |-> 3],
             [table |-> "s", pass |-> 1, at |-> 1], [table |-> "s", pass |-> 2, at |-> 3]}
=============================================================================
