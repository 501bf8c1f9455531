------------------------------ MODULE MCFrontend ------------------------------
(***************************************************************************)
(* Instances of Frontend: projects written out in the notation of          *)
(* StructuredText.                                                         *)
(***************************************************************************)
EXTENDS FrontendCorrectness

(***************************************************************************)
(* Notation.                                                               *)
(***************************************************************************)
V(n) == VarAccess(<<n>>)
K(k) == [node |-> "const", value |-> k]
Havoc == [node |-> "nondet"]
Bin(op, l, r) == [node |-> "binary", op |-> op, left |-> l, right |-> r]
Not(e) == [node |-> "unary", operand |-> e]
F(inst, n) == Field(inst, <<n>>)

Set(n, e) == [node |-> "assign", target |-> V(n), rhs |-> e]
Add(n, k) == Set(n, Bin("add", V(n), K(k)))
If(c, then, else) == [node |-> "if", cond |-> c, then |-> then, elsifs |-> <<>>, else |-> else]
IfElsif(c, then, d, body, else) ==
  [node |-> "if", cond |-> c, then |-> then, elsifs |-> <<[cond |-> d, body |-> body]>>, else |-> else]
Case(cases, else) == [node |-> "case", cases |-> cases, else |-> else]
While(c, body) == [node |-> "while", cond |-> c, body |-> body]
Call(inst, ins, outs) ==
  [node |-> "call", inst |-> inst,
   pre  |-> [i \in DOMAIN ins |-> [target |-> F(inst, ins[i][1]), rhs |-> ins[i][2]]],
   post |-> [i \in DOMAIN outs |-> [target |-> V(outs[i][1]), rhs |-> F(inst, outs[i][2])]]]

Decl(n, storage, type) == [name |-> <<n>>, storage |-> storage, type |-> type]
Program(locals, body) ==
  [kind |-> "program", vars |-> locals, body |-> body]
Block(interface, body) == [kind |-> "function_block", vars |-> interface, body |-> body]
Project(pous) == [main |-> "main", pous |-> pous]

Interface == <<Decl("a", "local", "INT"), Decl("b", "local", "INT"),
               Decl("x", "input", "BOOL"), Decl("y", "input", "BOOL")>>

Alone(body) == Project([main |-> Program(Interface, body)])

(***************************************************************************)
(* All programs of up to two levels over a few assignments.                *)
(***************************************************************************)
Leaves == {Add("a", 1), Set("b", Bin("add", V("a"), V("b")))}

Decided(inner, other) ==
  UNION {{If(V("x"), <<s>>, <<>>), If(V("x"), <<s>>, <<t>>), If(Not(V("y")), <<>>, <<s>>),
          IfElsif(V("x"), <<s>>, V("y"), <<t>>, <<>>),
          IfElsif(V("x"), <<t>>, V("y"), <<s>>, <<Add("b", 2)>>)}
         : s \in inner, t \in other}

Repeated(inner) == {While(Bin("lt", V("b"), K(2)), <<s, Add("b", 1)>>) : s \in inner}

One == Decided(Leaves, Leaves) \union Repeated(Leaves)
Two == Decided(One, Leaves) \union Repeated(One)

(***************************************************************************)
(* A branch that ends in a loop, with no branch after it: the compiler     *)
(* takes the jump back to the header for the end of the statement.         *)
(***************************************************************************)
FinalBranch(s) ==
  IF s.else # <<>> THEN s.else ELSE IF s.elsifs # <<>> THEN Last(s.elsifs).body ELSE s.then

RECURSIVE HasLoop(_)
HasLoop(s) ==
  \/ s.node = "while"
  \/ s.node = "if" /\ \E b \in Range(Branches(s)) \union {[body |-> s.else]} :
                        \E t \in Range(b.body) : HasLoop(t)

RECURSIVE EndsInLoop(_)
EndsInLoop(s) ==
  \/ s.node = "while"
  \/ s.node = "if" /\ EndsInLoop(Last(FinalBranch(s)))

RECURSIVE HasOpenLoop(_)
HasOpenLoop(s) ==
  \/ s.node = "while" /\ \E t \in Range(s.body) : HasOpenLoop(t)
  \/ /\ s.node = "if"
     /\ \/ \E b \in Range(Branches(s)) : \E t \in Range(b.body) : HasOpenLoop(t)
        \/ \E t \in Range(s.else) : HasOpenLoop(t)
        \/ /\ s.then = <<>> \/ s.else = <<>>
           /\ EndsInLoop(Last(FinalBranch(s)))

Branching ==
  {Alone(<<s, t>>) : s \in {u \in Two : ~HasLoop(u)}, t \in Leaves}

Loops ==
  {Alone(<<s, t>>) : s \in {u \in Two : HasLoop(u) /\ ~HasOpenLoop(u)}, t \in Leaves}

Cases ==
  {Alone(<<Case(<<[cond |-> Bin("eq", V("a"), K(0)), body |-> <<s>>],
                  [cond |-> Bin("ge", V("a"), K(2)), body |-> <<t>>]>>, <<Set("a", Havoc)>>), t>>)
   : s \in One \ Repeated(Leaves), t \in Leaves}

Statements == Branching \union Cases

(***************************************************************************)
(* Programs with function blocks.  A counter keeps a sum and puts it out.  *)
(***************************************************************************)
Counter(body) ==
  Block(<<Decl("i", "input", "BOOL"), Decl("o", "output", "INT"), Decl("s", "local", "INT")>>, body)

Sum == Set("s", Bin("add", V("s"), V("i")))
Out == Set("o", V("s"))

Counting  == Counter(<<Sum, Out>>)
Switching == Counter(<<If(V("i"), <<Add("s", 1)>>, <<Set("s", K(0))>>), Out>>)
Nesting   == Counter(<<Set("s", Bin("add", Bin("add", V("s"), V("i")), Bin("add", V("s"), Not(V("i"))))), Out>>)

\* these keep nothing from call to call
Doubling  == Counter(<<Set("s", Bin("add", V("i"), V("i"))), Out>>)
Deciding  == Counter(<<If(V("i"), <<Set("s", K(2))>>, <<Set("s", K(1))>>), Out>>)

CallerOf(instances) ==
  <<Decl("a", "local", "INT"), Decl("b", "local", "INT")>> \o instances
  \o <<Decl("x", "input", "BOOL"), Decl("y", "input", "BOOL")>>

CallF(e) == Call("f", <<<<"i", e>>>>, <<<<"a", "o">>>>)
CallG(e) == Call("g", <<<<"i", e>>>>, <<<<"b", "o">>>>)

\* a call, alone, on one branch, on both branches, before another one
Calling(callee) ==
  {Project("main" :> Program(CallerOf(<<Decl("f", "local", "C")>>), body) @@ "C" :> callee) :
     body \in {<<CallF(V("x")), Add("b", 1)>>,
              <<Add("b", 1), If(V("y"), <<CallF(V("x")), Add("b", 2)>>, <<>>), Add("a", 1)>>,
              <<If(V("y"), <<CallF(V("x"))>>, <<CallF(K(1))>>), Add("b", 1)>>,
              <<CallF(Bin("and", V("x"), Not(V("y")))), If(V("y"), <<Add("b", 1)>>, <<>>), CallF(K(1)), Add("a", 1)>>}}

TwoInstances(callee) ==
  {Project("main" :> Program(CallerOf(<<Decl("f", "local", "C"), Decl("g", "local", "C")>>),
                            <<CallF(V("x")), Add("a", 1), CallG(V("y")), Add("b", 1)>>)
           @@ "C" :> callee)}

Calls == UNION {Calling(c) \union TwoInstances(c) : c \in {Counting, Switching, Nesting}}

\* main and D each hold an instance of C: there is a graph of C for each of
\* them, and main calls C directly and through D
Holder == Block(<<Decl("i", "input", "BOOL"), Decl("o", "output", "INT"), Decl("s", "local", "INT"),
                  Decl("f", "local", "C")>>,
                <<Call("f", <<<<"i", V("i")>>>>, <<<<"s", "o">>>>), Out>>)

SharedBlock(callee) ==
  Project("main" :> Program(CallerOf(<<Decl("f", "local", "D"), Decl("g", "local", "C")>>),
                            <<CallF(V("x")), Add("a", 1), CallG(V("y")), Add("b", 1)>>)
          @@ "C" :> callee @@ "D" :> Holder)

\* the projects that keep their meaning
Kept == Statements \union Loops \union Calls \union {SharedBlock(c) : c \in {Doubling, Deciding}}

(***************************************************************************)
(* Programs the front end gets wrong: a branch ends in a loop.             *)
(***************************************************************************)
OpenLoops ==
  {Alone(<<s, t>>) : s \in {u \in Two : HasOpenLoop(u)}, t \in Leaves}
=============================================================================
