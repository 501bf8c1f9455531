---------------------------- MODULE MCExpressions ----------------------------
(***************************************************************************)
(* Expressions of up to three operators over every operator of the IR.     *)
(***************************************************************************)
EXTENDS Expressions

Var(x)  == [node |-> "variable", name |-> x]
Field   == [node |-> "field", name |-> "f.n"]
Const(n) == [node |-> "integer", value |-> n]
Truth(b) == [node |-> "boolean", value |-> b]
Bin(op, l, r) == [node |-> "binary", op |-> op, left |-> l, right |-> r]
Un(op, t)     == [node |-> "unary", op |-> op, arg |-> t]
Change(o, n)  == [node |-> "change", old |-> o, new |-> n]

Ints  == {Var("n"), Field, Const(2), [node |-> "time", value |-> 3],
          [node |-> "enumerated", value |-> 1]}
Store(n, f, b, c) ==
  ("n" :> IntegerValue(n)) @@ ("f.n" :> IntegerValue(f)) @@ ("b" :> BooleanValue(b)) @@ ("c" :> BooleanValue(c))
\* an operand below, equal to and above the other, and the four pairs of Booleans
MCStores ==
  {Store(-1, 2, TRUE, FALSE), Store(2, 2, FALSE, FALSE),
   Store(3, -2, TRUE, TRUE), Store(0, -3, FALSE, TRUE)}

IntTrees ==
  Ints \union {Un("neg", t) : t \in Ints}
  \union {Bin(op, Var("n"), t) : op \in {"add", "sub", "mul", "div"}, t \in {Field, Const(2)}}
  \union {Change(Var("n"), Bin("sub", Const(2), Field))}

\* Booleans added to Booleans and to integers, on either side and nested
Sums ==
  LET bools == {Var("b"), Var("c"), Un("not", Var("c")), Truth(TRUE),
                Bin("ge", Var("n"), Field), Change(Var("c"), Un("not", Var("c")))}
      flat  == {Bin("add", s, t) : s \in bools, t \in bools}
               \union {Bin("add", s, Var("n")) : s \in bools}
               \union {Bin("add", t, s) : s \in bools, t \in {Var("n"), Un("neg", Field)}}
  IN flat
     \union {Bin(op, s, Const(2)) : op \in {"ge", "lt", "sub"}, s \in flat}
     \union {Bin("add", s, Var("c")) : s \in flat}
     \union {Bin("add", Var("c"), s) : s \in flat}
     \union {Change(s, Const(2)) : s \in flat}

MCTrees ==
  LET comparisons ==
        {Bin(op, s, t) : op \in {"ge", "gt", "le", "lt", "eq", "ne"},
                         s \in {Var("n"), Un("neg", Field), Change(Var("n"), Field)},
                         t \in IntTrees}
  IN comparisons \union Sums
     \union {Bin(op, Var("b"), t) :
               op \in {"and", "or", "xor", "eq", "ne"},
               t \in {Var("c"), Truth(TRUE), Un("not", Var("c")),
                      Bin("ge", Var("n"), Field), Change(Var("c"), Un("not", Var("c")))}}
     \union {Un("plus", Var("n"))}
     \union {[node |-> k, value |-> 0] : k \in {"nondeterministic", "undefined", "phi", "cast"}}
=============================================================================
