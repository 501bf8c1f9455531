--------------------------- MODULE MCPrograms ----------------------------
(***************************************************************************)
(* Small programs to run the engines on.  Labels follow the compiler: they *)
(* are consecutive within a POU, the exit has the highest one, and the     *)
(* decision transformation pass numbers its vertices from 9000.            *)
(***************************************************************************)
EXTENDS Cfg, TLC

-----------------------------------------------------------------------------
(* Building blocks for control-flow graphs.  All references are <<path,    *)
(* name>>; Own(x) is a variable of the running frame.                      *)

Own(x) == <<<<>>, x>>
Field(f, x) == <<<<f>>, x>>

True == [op |-> "true", args |-> <<>>]
False == [op |-> "false", args |-> <<>>]
Var(r) == [op |-> "id", args |-> <<r>>]
Not(r) == [op |-> "not", args |-> <<r>>]
And(r, s) == [op |-> "and", args |-> <<r, s>>]

Entry == [type |-> "ENTRY", op |-> "none"]
Exit == [type |-> "EXIT", op |-> "none"]
Between == [type |-> "REGULAR", op |-> "none"]
Let(r, e) == [type |-> "REGULAR", op |-> "assign", var |-> r, rhs |-> e]
If(e) == [type |-> "REGULAR", op |-> "if", cond |-> e]
Havoc(r) == [type |-> "REGULAR", op |-> "havoc", var |-> r]
Call(f) == [type |-> "REGULAR", op |-> "call", instance |-> f]

Edge(s, d, t) == [src |-> s, dst |-> d, type |-> t]
Flow(s, d) == Edge(s, d, "INTRAPROCEDURAL")

(* The edges of the decision at l after the decision transformation pass:  *)
(* the branches lead through the vertices t and f.                         *)
Decision(l, t, then, f, else) ==
  {Edge(l, t, "TRUE_BRANCH"), Flow(t, then), Edge(l, f, "FALSE_BRANCH"), Flow(f, else)}

(* The edges of the call at l of the graph with the given entry and exit.  *)
CallEdges(l, entry, exit, ret) ==
  {Edge(l, entry, "CALL"), Edge(l, ret, "CALL_TO_RETURN"), Edge(exit, ret, "RETURN")}

Main(names, inputs, exit, vertices, edges) ==
  [type |-> "PROGRAM", entry |-> 10, exit |-> exit, vars |-> names, inputs |-> inputs,
   init |-> [x \in names |-> FALSE], vertices |-> vertices, edges |-> edges]

Single(main) ==
  [main |-> "P", cfgs |-> [n \in {"P"} |-> main],
   scopes |-> [s \in {<<"P">>} |-> "P"], summaries |-> <<>>, open |-> FALSE]

-----------------------------------------------------------------------------
(* toggle:  IF a THEN x := NOT x; END_IF;  y := x;                         *)
Toggle ==
  Single(Main({"a", "x", "y"}, {"a"}, 14,
    (10 :> Entry @@ 11 :> If(Var(Own("a"))) @@ 12 :> Let(Own("x"), Not(Own("x")))
     @@ 13 :> Let(Own("y"), Var(Own("x"))) @@ 14 :> Exit
     @@ 9000 :> Between @@ 9001 :> Between),
    {Flow(10, 11), Flow(12, 13), Flow(13, 14)} \cup Decision(11, 9000, 12, 9001, 13)))

(* dead:  IF x THEN y := NOT y; END_IF;  -- x is never set, so only the    *)
(*                                          cycle bound ends the execution *)
Dead ==
  Single(Main({"a", "x", "y"}, {"a"}, 13,
    (10 :> Entry @@ 11 :> If(Var(Own("x"))) @@ 12 :> Let(Own("y"), Not(Own("y"))) @@ 13 :> Exit
     @@ 9000 :> Between @@ 9001 :> Between),
    {Flow(10, 11), Flow(12, 13)} \cup Decision(11, 9000, 12, 9001, 13)))

(* straight:  x := NOT x;  y := x;  -- no decision at all                  *)
Straight ==
  Single(Main({"a", "x", "y"}, {"a"}, 13,
    (10 :> Entry @@ 11 :> Let(Own("x"), Not(Own("x"))) @@ 12 :> Let(Own("y"), Var(Own("x")))
     @@ 13 :> Exit),
    {Flow(10, 11), Flow(11, 12), Flow(12, 13)}))

(* nested:  IF a THEN IF b THEN x := NOT x; ELSE y := x; END_IF; END_IF;   *)
(*          IF x THEN y := b; END_IF;  -- ends in a decision               *)
Nested ==
  Single(Main({"a", "b", "x", "y"}, {"a", "b"}, 17,
    (10 :> Entry @@ 11 :> If(Var(Own("a"))) @@ 12 :> If(Var(Own("b")))
     @@ 13 :> Let(Own("x"), Not(Own("x"))) @@ 14 :> Let(Own("y"), Var(Own("x")))
     @@ 15 :> If(Var(Own("x"))) @@ 16 :> Let(Own("y"), Var(Own("b"))) @@ 17 :> Exit
     @@ 9000 :> Between @@ 9001 :> Between @@ 9002 :> Between @@ 9003 :> Between
     @@ 9004 :> Between @@ 9005 :> Between),
    {Flow(10, 11), Flow(13, 15), Flow(14, 15), Flow(16, 17)}
      \cup Decision(11, 9000, 12, 9001, 15) \cup Decision(12, 9002, 13, 9003, 14)
      \cup Decision(15, 9004, 16, 9005, 17)))

(* latch:  IF z THEN w := NOT w; END_IF;  z := x;                          *)
(*         IF x THEN y := a; END_IF;      x := a;   -- covered in cycle 2  *)
Latch ==
  Single(Main({"a", "w", "x", "y", "z"}, {"a"}, 17,
    (10 :> Entry @@ 11 :> If(Var(Own("z"))) @@ 12 :> Let(Own("w"), Not(Own("w")))
     @@ 13 :> Let(Own("z"), Var(Own("x"))) @@ 14 :> If(Var(Own("x")))
     @@ 15 :> Let(Own("y"), Var(Own("a"))) @@ 16 :> Let(Own("x"), Var(Own("a"))) @@ 17 :> Exit
     @@ 9000 :> Between @@ 9001 :> Between @@ 9002 :> Between @@ 9003 :> Between),
    {Flow(10, 11), Flow(12, 13), Flow(13, 14), Flow(15, 16), Flow(16, 17)}
      \cup Decision(11, 9000, 12, 9001, 13) \cup Decision(14, 9002, 15, 9003, 16)))

(* rewrite:  x := a;  IF b THEN x := NOT x; END_IF;  y := x;               *)
(* Without merging, x is written again once a sibling has ended the cycle. *)
Rewrite ==
  Single(Main({"a", "b", "x", "y"}, {"a", "b"}, 15,
    (10 :> Entry @@ 11 :> Let(Own("x"), Var(Own("a"))) @@ 12 :> If(Var(Own("b")))
     @@ 13 :> Let(Own("x"), Not(Own("x"))) @@ 14 :> Let(Own("y"), Var(Own("x"))) @@ 15 :> Exit
     @@ 9000 :> Between @@ 9001 :> Between),
    {Flow(10, 11), Flow(11, 12), Flow(13, 14), Flow(14, 15)} \cup Decision(12, 9000, 13, 9001, 14)))

(* set:  IF x THEN y := a; END_IF;  IF a THEN x := TRUE; END_IF;           *)
(* Which of the paths the first cycle took decides the second one.         *)
Set ==
  Single(Main({"a", "x", "y"}, {"a"}, 15,
    (10 :> Entry @@ 11 :> If(Var(Own("x"))) @@ 12 :> Let(Own("y"), Var(Own("a")))
     @@ 13 :> If(Var(Own("a"))) @@ 14 :> Let(Own("x"), True) @@ 15 :> Exit
     @@ 9000 :> Between @@ 9001 :> Between @@ 9002 :> Between @@ 9003 :> Between),
    {Flow(10, 11), Flow(12, 13), Flow(14, 15)}
      \cup Decision(11, 9000, 12, 9001, 13) \cup Decision(13, 9002, 14, 9003, 15)))

(* again:  IF a THEN IF a THEN x := NOT x; ELSE x := FALSE; END_IF; END_IF;   *)
(* The inner ELSE is taken from no state at all.                           *)
Again ==
  Single(Main({"a", "x"}, {"a"}, 15,
    (10 :> Entry @@ 11 :> If(Var(Own("a"))) @@ 12 :> If(Var(Own("a")))
     @@ 13 :> Let(Own("x"), Not(Own("x"))) @@ 14 :> Let(Own("x"), False) @@ 15 :> Exit
     @@ 9000 :> Between @@ 9001 :> Between @@ 9002 :> Between @@ 9003 :> Between),
    {Flow(10, 11), Flow(13, 15), Flow(14, 15)}
      \cup Decision(11, 9000, 12, 9001, 15) \cup Decision(12, 9002, 13, 9003, 14)))

(* noise:  havoc t;  IF t THEN IF a THEN x := NOT x; END_IF; END_IF;  y := t; *)
Noise ==
  Single(Main({"a", "t", "x", "y"}, {"a"}, 16,
    (10 :> Entry @@ 11 :> Havoc(Own("t")) @@ 12 :> If(Var(Own("t"))) @@ 13 :> If(Var(Own("a")))
     @@ 14 :> Let(Own("x"), Not(Own("x"))) @@ 15 :> Let(Own("y"), Var(Own("t"))) @@ 16 :> Exit
     @@ 9000 :> Between @@ 9001 :> Between @@ 9002 :> Between @@ 9003 :> Between),
    {Flow(10, 11), Flow(11, 12), Flow(14, 15), Flow(15, 16)}
      \cup Decision(12, 9000, 13, 9001, 15) \cup Decision(13, 9002, 14, 9003, 15)))

(* coin:  havoc t;  IF t THEN x := NOT x; END_IF;  -- no input             *)
Coin ==
  Single(Main({"t", "x"}, {}, 14,
    (10 :> Entry @@ 11 :> Havoc(Own("t")) @@ 12 :> If(Var(Own("t")))
     @@ 13 :> Let(Own("x"), Not(Own("x"))) @@ 14 :> Exit @@ 9000 :> Between @@ 9001 :> Between),
    {Flow(10, 11), Flow(11, 12), Flow(13, 14)} \cup Decision(12, 9000, 13, 9001, 14)))

(* reassign:  m := a;                                                      *)
(*            IF m THEN IF b THEN m := FALSE; END_IF; x := NOT x;          *)
(*            ELSE IF b THEN y := NOT y; END_IF; y := x; END_IF;           *)
(*            z := x;   -- m is decided on, then written below it          *)
Reassign ==
  Single(Main({"a", "b", "m", "x", "y", "z"}, {"a", "b"}, 20,
    (10 :> Entry @@ 11 :> Let(Own("m"), Var(Own("a")))
     @@ 12 :> If(Var(Own("m"))) @@ 13 :> If(Var(Own("b")))
     @@ 14 :> Let(Own("m"), False) @@ 15 :> Let(Own("x"), Not(Own("x")))
     @@ 16 :> If(Var(Own("b"))) @@ 17 :> Let(Own("y"), Not(Own("y")))
     @@ 18 :> Let(Own("y"), Var(Own("x"))) @@ 19 :> Let(Own("z"), Var(Own("x")))
     @@ 20 :> Exit
     @@ 9000 :> Between @@ 9001 :> Between @@ 9002 :> Between @@ 9003 :> Between
     @@ 9004 :> Between @@ 9005 :> Between),
    {Flow(10, 11), Flow(11, 12), Flow(14, 15), Flow(15, 19), Flow(17, 18), Flow(18, 19),
     Flow(19, 20)}
      \cup Decision(12, 9000, 13, 9001, 16) \cup Decision(13, 9002, 14, 9003, 15)
      \cup Decision(16, 9004, 17, 9005, 18)))

-----------------------------------------------------------------------------
(* A function block with the state st:                                     *)
(*   IF in THEN st := NOT st; END_IF;  out := st;                          *)
FlipBlock(st) ==
  [type |-> "FUNCTION_BLOCK", entry |-> 1, exit |-> 5,
   vars |-> {"in", st, "out"}, inputs |-> {"in"},
   init |-> [x \in {"in", st, "out"} |-> FALSE],
   vertices |-> (1 :> Entry @@ 2 :> If(Var(Own("in"))) @@ 3 :> Let(Own(st), Not(Own(st)))
                 @@ 4 :> Let(Own("out"), Var(Own(st))) @@ 5 :> Exit
                 @@ 9100 :> Between @@ 9101 :> Between),
   edges |-> {Flow(1, 2), Flow(3, 4), Flow(4, 5)} \cup Decision(2, 9100, 3, 9101, 4)]

(* Its two summaries, as generated at a call of the instance f of P.       *)
SummariesOfFlip(st) ==
  LET f(x, k) == <<<< <<"P", "f">>, x>>, k>>
      term(op, n) == [op |-> op, args |-> <<n>>]
      eq(n, t) == [name |-> n, term |-> t]
  IN  << [assumptions |-> << <<term("id", f("in", 0)), FALSE>> >>,
          hard |-> << eq(f("out", 1), term("id", f(st, 0))) >>,
          literals |-> <<1, 2, 9101, 4, 5>>],
         [assumptions |-> << <<term("id", f("in", 0)), TRUE>> >>,
          hard |-> << eq(f(st, 1), term("not", f(st, 0))),
                      eq(f("out", 1), term("id", f(st, 1))) >>,
          literals |-> <<1, 2, 9100, 3, 4, 5>>] >>

(* The function block F has its state in st.  Its twin has it in mem, whose*)
(* name comes before that of out.                                          *)
FunctionBlock == FlipBlock("st")
SummariesOfF == SummariesOfFlip("st")

(* A program that calls instances of a block F, with or without summaries. *)
CallingF(block, main, instances, summaries) ==
  [main |-> "P", cfgs |-> [P |-> main, F |-> block],
   scopes |-> [s \in {<<"P">>} \cup {<<"P", f>> : f \in instances} |->
                 IF s = <<"P">> THEN "P" ELSE "F"],
   summaries |-> summaries, open |-> FALSE]

Calling(main, instances, summaries) == CallingF(FunctionBlock, main, instances, summaries)

Summarized == [F |-> SummariesOfF]
Unsummarized == <<>>

CallingTwin(main) == CallingF(FlipBlock("mem"), main, {"f"}, [F |-> SummariesOfFlip("mem")])

(* call:  f(in := a);  IF f.out THEN y := a; END_IF;                       *)
CallMain ==
  Main({"a", "y"}, {"a"}, 15,
    (10 :> Entry @@ 11 :> Let(Field("f", "in"), Var(Own("a"))) @@ 12 :> Call("f")
     @@ 13 :> If(Var(Field("f", "out"))) @@ 14 :> Let(Own("y"), Var(Own("a"))) @@ 15 :> Exit
     @@ 9000 :> Between @@ 9001 :> Between),
    {Flow(10, 11), Flow(11, 12), Flow(14, 15)} \cup CallEdges(12, 1, 5, 13)
      \cup Decision(13, 9000, 14, 9001, 15))

(* echo:  f(in := a);  IF a THEN y := NOT y; END_IF;                       *)
EchoMain ==
  Main({"a", "y"}, {"a"}, 15,
    (10 :> Entry @@ 11 :> Let(Field("f", "in"), Var(Own("a"))) @@ 12 :> Call("f")
     @@ 13 :> If(Var(Own("a"))) @@ 14 :> Let(Own("y"), Not(Own("y"))) @@ 15 :> Exit
     @@ 9000 :> Between @@ 9001 :> Between),
    {Flow(10, 11), Flow(11, 12), Flow(14, 15)} \cup CallEdges(12, 1, 5, 13)
      \cup Decision(13, 9000, 14, 9001, 15))

(* guarded:  IF a THEN y := a; ELSE f(in := a); END_IF;  y := f.out;       *)
GuardedMain ==
  Main({"a", "y"}, {"a"}, 16,
    (10 :> Entry @@ 11 :> If(Var(Own("a"))) @@ 12 :> Let(Own("y"), Var(Own("a")))
     @@ 13 :> Let(Field("f", "in"), Var(Own("a"))) @@ 14 :> Call("f")
     @@ 15 :> Let(Own("y"), Var(Field("f", "out"))) @@ 16 :> Exit
     @@ 9000 :> Between @@ 9001 :> Between),
    {Flow(10, 11), Flow(12, 15), Flow(13, 14), Flow(15, 16)}
      \cup Decision(11, 9000, 12, 9001, 13) \cup CallEdges(14, 1, 5, 15))

(* branch:  IF a THEN IF b THEN x := NOT x; END_IF; f(in := x); END_IF;    *)
(*          f(in := b);  y := f.out;                                       *)
(* The end of the outer decision is a return point, so contexts of both    *)
(* branches go on side by side, and one is inside the second call while    *)
(* another still waits at the inner join.                                  *)
BranchMain ==
  Main({"a", "b", "x", "y"}, {"a", "b"}, 19,
    (10 :> Entry @@ 11 :> If(Var(Own("a"))) @@ 12 :> If(Var(Own("b")))
     @@ 13 :> Let(Own("x"), Not(Own("x"))) @@ 14 :> Let(Field("f", "in"), Var(Own("x")))
     @@ 15 :> Call("f") @@ 16 :> Let(Field("f", "in"), Var(Own("b"))) @@ 17 :> Call("f")
     @@ 18 :> Let(Own("y"), Var(Field("f", "out"))) @@ 19 :> Exit
     @@ 9000 :> Between @@ 9001 :> Between @@ 9002 :> Between @@ 9003 :> Between),
    {Flow(10, 11), Flow(13, 14), Flow(14, 15), Flow(16, 17), Flow(18, 19)}
      \cup Decision(11, 9000, 12, 9001, 16) \cup Decision(12, 9002, 13, 9003, 14)
      \cup CallEdges(15, 1, 5, 16) \cup CallEdges(17, 1, 5, 18))

(* twins:  f(in := a);  g(in := b);  y := g.out;  -- f, g : F              *)
TwinsMain ==
  Main({"a", "b", "y"}, {"a", "b"}, 16,
    (10 :> Entry @@ 11 :> Let(Field("f", "in"), Var(Own("a"))) @@ 12 :> Call("f")
     @@ 13 :> Let(Field("g", "in"), Var(Own("b"))) @@ 14 :> Call("g")
     @@ 15 :> Let(Own("y"), Var(Field("g", "out"))) @@ 16 :> Exit),
    {Flow(10, 11), Flow(11, 12), Flow(13, 14), Flow(15, 16)}
      \cup CallEdges(12, 1, 5, 13) \cup CallEdges(14, 1, 5, 15))

(* The function block G, which calls F:  f(in := in);  out := f.out;       *)
CallingBlock ==
  [type |-> "FUNCTION_BLOCK", entry |-> 31, exit |-> 35,
   vars |-> {"in", "out"}, inputs |-> {"in"}, init |-> [x \in {"in", "out"} |-> FALSE],
   vertices |-> (31 :> Entry @@ 32 :> Let(Field("f", "in"), Var(Own("in"))) @@ 33 :> Call("f")
                 @@ 34 :> Let(Own("out"), Var(Field("f", "out"))) @@ 35 :> Exit),
   edges |-> {Flow(31, 32), Flow(32, 33), Flow(34, 35)} \cup CallEdges(33, 1, 5, 34)]

(* nestedCalls:  IF a THEN g(in := a); x := TRUE;                          *)
(*               ELSE g(in := a); x := FALSE; END_IF;  -- g : G            *)
(* Two calls of g, so that two contexts are in its call of f side by side. *)
NestedCalls ==
  [main |-> "P",
   cfgs |-> [P |-> Main({"a", "x"}, {"a"}, 18,
               (10 :> Entry @@ 11 :> If(Var(Own("a")))
                @@ 12 :> Let(Field("g", "in"), Var(Own("a"))) @@ 13 :> Call("g")
                @@ 14 :> Let(Own("x"), True)
                @@ 15 :> Let(Field("g", "in"), Var(Own("a"))) @@ 16 :> Call("g")
                @@ 17 :> Let(Own("x"), False) @@ 18 :> Exit
                @@ 9000 :> Between @@ 9001 :> Between),
               {Flow(10, 11), Flow(12, 13), Flow(14, 18), Flow(15, 16), Flow(17, 18)}
                 \cup Decision(11, 9000, 12, 9001, 15)
                 \cup CallEdges(13, 31, 35, 14) \cup CallEdges(16, 31, 35, 17)),
             G |-> CallingBlock, F |-> FunctionBlock],
   scopes |-> (<<"P">> :> "P" @@ <<"P", "g">> :> "G" @@ <<"P", "g", "f">> :> "F"),
   summaries |-> Unsummarized, open |-> FALSE]

-----------------------------------------------------------------------------
(* The function block H:  IF in THEN st := FALSE; ELSE st := NOT st; END_IF; *)
(*                        IF st THEN st := in; out := NOT st; END_IF;        *)
(* Not all of its four paths are feasible, and st is written up to twice.    *)
SecondFunctionBlock ==
  [type |-> "FUNCTION_BLOCK", entry |-> 21, exit |-> 28,
   vars |-> {"in", "st", "out"}, inputs |-> {"in"},
   init |-> [x \in {"in", "st", "out"} |-> FALSE],
   vertices |-> (21 :> Entry @@ 22 :> If(Var(Own("in"))) @@ 23 :> Let(Own("st"), False)
                 @@ 24 :> Let(Own("st"), Not(Own("st"))) @@ 25 :> If(Var(Own("st")))
                 @@ 26 :> Let(Own("st"), Var(Own("in"))) @@ 27 :> Let(Own("out"), Not(Own("st")))
                 @@ 28 :> Exit
                 @@ 9200 :> Between @@ 9201 :> Between @@ 9202 :> Between @@ 9203 :> Between),
   edges |-> {Flow(21, 22), Flow(23, 25), Flow(24, 25), Flow(26, 27), Flow(27, 28)}
     \cup Decision(22, 9200, 23, 9201, 24) \cup Decision(25, 9202, 26, 9203, 28)]

(* two:  f(in := a);  h(in := f.out);  f(in := h.out);  -- f : F, h : H      *)
TwoTypes ==
  [main |-> "P",
   cfgs |-> [P |-> Main({"a"}, {"a"}, 17,
               (10 :> Entry @@ 11 :> Let(Field("f", "in"), Var(Own("a"))) @@ 12 :> Call("f")
                @@ 13 :> Let(Field("h", "in"), Var(Field("f", "out"))) @@ 14 :> Call("h")
                @@ 15 :> Let(Field("f", "in"), Var(Field("h", "out"))) @@ 16 :> Call("f")
                @@ 17 :> Exit),
               {Flow(10, 11), Flow(11, 12), Flow(13, 14), Flow(15, 16)}
                 \cup CallEdges(12, 1, 5, 13) \cup CallEdges(14, 21, 28, 15)
                 \cup CallEdges(16, 1, 5, 17)),
             F |-> FunctionBlock, H |-> SecondFunctionBlock],
   scopes |-> (<<"P">> :> "P" @@ <<"P", "f">> :> "F" @@ <<"P", "h">> :> "H"),
   summaries |-> Unsummarized, open |-> FALSE]

-----------------------------------------------------------------------------
(* Programs for the encoding engines.                                      *)

(* choose:  IF a THEN x := NOT x; ELSE x := y; END_IF;                     *)
(*          IF x THEN y := a; ELSE y := TRUE; END_IF;                      *)
Choose ==
  Single(Main({"a", "x", "y"}, {"a"}, 17,
    (10 :> Entry @@ 11 :> If(Var(Own("a"))) @@ 12 :> Let(Own("x"), Not(Own("x")))
     @@ 13 :> Let(Own("x"), Var(Own("y"))) @@ 14 :> If(Var(Own("x")))
     @@ 15 :> Let(Own("y"), Var(Own("a"))) @@ 16 :> Let(Own("y"), True) @@ 17 :> Exit
     @@ 9000 :> Between @@ 9001 :> Between @@ 9002 :> Between @@ 9003 :> Between),
    {Flow(10, 11), Flow(12, 14), Flow(13, 14), Flow(15, 17), Flow(16, 17)}
      \cup Decision(11, 9000, 12, 9001, 13) \cup Decision(14, 9002, 15, 9003, 16)))

(* three:  IF a THEN x := b;                                               *)
(*         ELSE IF b THEN x := TRUE; ELSE x := FALSE; END_IF;  x := NOT x; *)
(*         END_IF;  y := NOT x;                                            *)
Three ==
  Single(Main({"a", "b", "x", "y"}, {"a", "b"}, 18,
    (10 :> Entry @@ 11 :> If(Var(Own("a"))) @@ 12 :> Let(Own("x"), Var(Own("b")))
     @@ 13 :> If(Var(Own("b"))) @@ 14 :> Let(Own("x"), True) @@ 15 :> Let(Own("x"), False)
     @@ 16 :> Let(Own("x"), Not(Own("x"))) @@ 17 :> Let(Own("y"), Not(Own("x"))) @@ 18 :> Exit
     @@ 9000 :> Between @@ 9001 :> Between @@ 9002 :> Between @@ 9003 :> Between),
    {Flow(10, 11), Flow(12, 17), Flow(14, 16), Flow(15, 16), Flow(16, 17), Flow(17, 18)}
      \cup Decision(11, 9000, 12, 9001, 13) \cup Decision(13, 9002, 14, 9003, 15)))

(* toss:  havoc t;  IF t THEN y := a; ELSE y := NOT y; END_IF;             *)
Toss ==
  Single(Main({"a", "t", "y"}, {"a"}, 15,
    (10 :> Entry @@ 11 :> Havoc(Own("t")) @@ 12 :> If(Var(Own("t")))
     @@ 13 :> Let(Own("y"), Var(Own("a"))) @@ 14 :> Let(Own("y"), Not(Own("y"))) @@ 15 :> Exit
     @@ 9000 :> Between @@ 9001 :> Between),
    {Flow(10, 11), Flow(11, 12), Flow(13, 15), Flow(14, 15)}
      \cup Decision(12, 9000, 13, 9001, 14)))

(* The function block K:  IF in THEN out := TRUE; ELSE out := FALSE; END_IF; *)
ChoosingBlock ==
  [type |-> "FUNCTION_BLOCK", entry |-> 1, exit |-> 5,
   vars |-> {"in", "out"}, inputs |-> {"in"}, init |-> [x \in {"in", "out"} |-> FALSE],
   vertices |-> (1 :> Entry @@ 2 :> If(Var(Own("in"))) @@ 3 :> Let(Own("out"), True)
                 @@ 4 :> Let(Own("out"), False) @@ 5 :> Exit
                 @@ 9100 :> Between @@ 9101 :> Between),
   edges |-> {Flow(1, 2), Flow(3, 5), Flow(4, 5)} \cup Decision(2, 9100, 3, 9101, 4)]

CallingK(main) ==
  [main |-> "P", cfgs |-> [P |-> main, K |-> ChoosingBlock],
   scopes |-> (<<"P">> :> "P" @@ <<"P", "f">> :> "K"), summaries |-> Unsummarized, open |-> FALSE]

(* once:  f(in := a);  IF f.out THEN y := NOT y; ELSE y := a; END_IF;      *)
OnceMain ==
  Main({"a", "y"}, {"a"}, 16,
    (10 :> Entry @@ 11 :> Let(Field("f", "in"), Var(Own("a"))) @@ 12 :> Call("f")
     @@ 13 :> If(Var(Field("f", "out"))) @@ 14 :> Let(Own("y"), Not(Own("y")))
     @@ 15 :> Let(Own("y"), Var(Own("a"))) @@ 16 :> Exit @@ 9000 :> Between @@ 9001 :> Between),
    {Flow(10, 11), Flow(11, 12), Flow(14, 16), Flow(15, 16)} \cup CallEdges(12, 1, 5, 13)
      \cup Decision(13, 9000, 14, 9001, 15))

(* twice:  f(in := a);  f(in := b);  y := f.out;                           *)
TwiceMain ==
  Main({"a", "b", "y"}, {"a", "b"}, 16,
    (10 :> Entry @@ 11 :> Let(Field("f", "in"), Var(Own("a"))) @@ 12 :> Call("f")
     @@ 13 :> Let(Field("f", "in"), Var(Own("b"))) @@ 14 :> Call("f")
     @@ 15 :> Let(Own("y"), Var(Field("f", "out"))) @@ 16 :> Exit),
    {Flow(10, 11), Flow(11, 12), Flow(13, 14), Flow(15, 16)}
      \cup CallEdges(12, 1, 5, 13) \cup CallEdges(14, 1, 5, 15))

(* side:  IF z THEN y := a; ELSE f(in := a); END_IF;  y := f.out;  z := a; *)
(* From the second cycle on two contexts pass the end of the decision.     *)
SideMain ==
  Main({"a", "y", "z"}, {"a"}, 17,
    (10 :> Entry @@ 11 :> If(Var(Own("z"))) @@ 12 :> Let(Own("y"), Var(Own("a")))
     @@ 13 :> Let(Field("f", "in"), Var(Own("a"))) @@ 14 :> Call("f")
     @@ 15 :> Let(Own("y"), Var(Field("f", "out"))) @@ 16 :> Let(Own("z"), Var(Own("a")))
     @@ 17 :> Exit @@ 9000 :> Between @@ 9001 :> Between),
    {Flow(10, 11), Flow(12, 15), Flow(13, 14), Flow(15, 16), Flow(16, 17)}
      \cup Decision(11, 9000, 12, 9001, 13) \cup CallEdges(14, 1, 5, 15))

-----------------------------------------------------------------------------
Catalogue ==
  [nestedCalls |-> NestedCalls, toggle |-> Toggle, dead |-> Dead, straight |-> Straight, nested |-> Nested, latch |-> Latch,
   reassign |-> Reassign, rewrite |-> Rewrite, set |-> Set, again |-> Again, noise |-> Noise, coin |-> Coin, deadTold |-> Dead,
   callTwin |-> CallingTwin(CallMain), branchTwin |-> CallingTwin(BranchMain),
   echoTwin |-> CallingTwin(EchoMain), guardedTwin |-> CallingTwin(GuardedMain),
   call |-> Calling(CallMain, {"f"}, Unsummarized),
   callSummarized |-> Calling(CallMain, {"f"}, Summarized),
   branch |-> Calling(BranchMain, {"f"}, Unsummarized),
   branchSummarized |-> Calling(BranchMain, {"f"}, Summarized),
   twins |-> Calling(TwinsMain, {"f", "g"}, Unsummarized),
   twinsSummarized |-> Calling(TwinsMain, {"f", "g"}, Summarized),
   two |-> TwoTypes, choose |-> Choose, three |-> Three, toss |-> Toss, once |-> CallingK(OnceMain),
   twice |-> CallingK(TwiceMain), side |-> CallingK(SideMain)]

-----------------------------------------------------------------------------
(* The programs before the decision transformation pass, as the other      *)
(* engines get them: the branches of a decision lead on without a vertex.  *)

Direct(g) ==
  LET between == {l \in DOMAIN g.vertices : g.vertices[l] = Between}
      Skip(l) == IF l \in between THEN SucceedingLabel(g, l) ELSE l
  IN  [g EXCEPT !.vertices = [l \in DOMAIN @ \ between |-> @[l]],
                !.edges = {[e EXCEPT !.dst = Skip(@)] : e \in {d \in @ : d.src \notin between}}]

DirectCatalogue ==
  [q \in DOMAIN Catalogue |->
     [Catalogue[q] EXCEPT !.cfgs = [n \in DOMAIN @ |-> Direct(@[n])] @@ <<>>,
                          !.summaries = Unsummarized]] @@ <<>>

-----------------------------------------------------------------------------
(* Families of programs of one shape.  (Joining the empty function makes   *)
(* TLC tabulate their code.)                                               *)

Family(ids, Program(_)) == [f \in ids |-> Program(f)] @@ <<>>

(* Two decisions in a row in the program:                                  *)
(*   IF c1 THEN v1 := r1; ELSE v2 := r2; END_IF;  IF c2 THEN v3 := r3; END_IF; *)
Decisions(f) ==
  Single(Main({"a", "x", "y"}, {"a"}, 16,
    (10 :> Entry @@ 11 :> If(f.c1) @@ 12 :> Let(Own(f.v1), f.r1) @@ 13 :> Let(Own(f.v2), f.r2)
     @@ 14 :> If(f.c2) @@ 15 :> Let(Own(f.v3), f.r3) @@ 16 :> Exit
     @@ 9000 :> Between @@ 9001 :> Between @@ 9002 :> Between @@ 9003 :> Between),
    {Flow(10, 11), Flow(12, 14), Flow(13, 14), Flow(15, 16)}
      \cup Decision(11, 9000, 12, 9001, 13) \cup Decision(14, 9002, 15, 9003, 16)))

(* The variants are numbered: digit k of n picks one of two alternatives.  *)
Digit(n, k, one, two) == IF (n \div 2^k) % 2 = 0 THEN one ELSE two

DecisionVariant(n) ==
  [c1 |-> Digit(n, 0, Var(Own("a")), Var(Own("x"))),
   v1 |-> Digit(n, 1, "x", "y"), r1 |-> Digit(n, 2, Not(Own("x")), Var(Own("a"))),
   v2 |-> Digit(n, 3, "x", "y"), r2 |-> Digit(n, 4, Var(Own("y")), True),
   c2 |-> Digit(n, 5, Var(Own("x")), Not(Own("y"))),
   v3 |-> Digit(n, 6, "x", "y"), r3 |-> Digit(n, 7, Not(Own("x")), Var(Own("a")))]

(* No variable that a decision reads is written on a branch below it.      *)
DecisionFamily ==
  {ToString(n) : n \in {k \in 0 .. 255 :
     LET f == DecisionVariant(k)
     IN  /\ f.c1.args[1][2] \notin {f.v1, f.v2, f.v3}
         /\ f.c2.args[1][2] # f.v3}}

DecisionProgram(name) ==
  Decisions(DecisionVariant(CHOOSE n \in 0 .. 255 : ToString(n) = name))

DecisionCode == Family(DecisionFamily, DecisionProgram)

(* The same in a function block with state, called as f(in := a).          *)
Block(f) ==
  [main |-> "P",
   cfgs |-> [P |-> Main({"a"}, {"a"}, 13,
               (10 :> Entry @@ 11 :> Let(Field("f", "in"), Var(Own("a"))) @@ 12 :> Call("f")
                @@ 13 :> Exit),
               {Flow(10, 11), Flow(11, 12)} \cup CallEdges(12, 1, 7, 13)),
             F |-> [type |-> "FUNCTION_BLOCK", entry |-> 1, exit |-> 7,
                    vars |-> {"in", "st", "out"}, inputs |-> {"in"},
                    init |-> [x \in {"in", "st", "out"} |-> FALSE],
                    vertices |->
                      (1 :> Entry @@ 2 :> If(f.c1) @@ 3 :> Let(Own(f.v1), f.r1)
                       @@ 4 :> Let(Own(f.v2), f.r2) @@ 5 :> If(f.c2)
                       @@ 6 :> Let(Own(f.v3), f.r3) @@ 7 :> Exit
                       @@ 9100 :> Between @@ 9101 :> Between
                       @@ 9102 :> Between @@ 9103 :> Between),
                    edges |-> {Flow(1, 2), Flow(3, 5), Flow(4, 5), Flow(6, 7)}
                      \cup Decision(2, 9100, 3, 9101, 4) \cup Decision(5, 9102, 6, 9103, 7)]],
   scopes |-> (<<"P">> :> "P" @@ <<"P", "f">> :> "F"),
   summaries |-> Unsummarized, open |-> FALSE]

(* Its variants.                                                           *)
Variant(n) ==
  [c1 |-> Digit(n, 0, Var(Own("in")), Not(Own("st"))),
   v1 |-> Digit(n, 1, "st", "out"), r1 |-> Digit(n, 2, Not(Own("st")), True),
   v2 |-> Digit(n, 3, "st", "in"), r2 |-> Digit(n, 4, Var(Own("in")), False),
   c2 |-> Digit(n, 5, Var(Own("st")), And(Own("in"), Own("out"))),
   v3 |-> Digit(n, 6, "st", "out"), r3 |-> Digit(n, 7, Not(Own("st")), Var(Own("in")))]

(* All programs to summarize.                                              *)
Blocks == 4 + 2^8

BlockProgram(n) ==
  CASE n = 1 -> Calling(CallMain, {"f"}, Unsummarized)
    [] n = 2 -> Calling(BranchMain, {"f"}, Unsummarized)
    [] n = 3 -> Calling(TwinsMain, {"f", "g"}, Unsummarized)
    [] n = 4 -> TwoTypes
    [] OTHER -> Block(Variant(n))

BlockCode == Family(1 .. Blocks, BlockProgram)

BlockPrograms == DOMAIN BlockCode
==========================================================================
