-------------------------- MODULE CallTransformation --------------------------
(***************************************************************************)
(* The call transformation pass makes the interface of a function block    *)
(* explicit: parameters are passed in variables of their own, which the    *)
(* entry copies from and the exit copies to, and the state of an instance  *)
(* is kept by the caller, which passes it in and takes it back.            *)
(***************************************************************************)
EXTENDS GraphPasses

Suffixed(name, suffix) == Append(name, suffix)
Flattened(inst, name)  == <<inst \o Head(name)>> \o Tail(name)

HasSuffix(name) == {"input", "output"} \intersect Range(Tail(name)) # {}

IsBlock(g) == g.kind # "program"

(***************************************************************************)
(* The interface.  A program keeps its variables; a function block gets an *)
(* input variable for every input and local variable and an output         *)
(* variable for every local and output variable.  The caller of a block    *)
(* gets a variable for every local variable of it.                         *)
(***************************************************************************)
AugmentedInputs(g)  == IF IsBlock(g) THEN SelectSeq(g.vars, LAMBDA v :
                         IsElementary(v) /\ v.storage \in {"input", "local"}) ELSE <<>>
AugmentedOutputs(g) == IF IsBlock(g) THEN SelectSeq(g.vars, LAMBDA v :
                         IsElementary(v) /\ v.storage \in {"local", "output"}) ELSE <<>>

Augmented(vars, storage) ==
  [i \in DOMAIN vars |-> [name |-> Suffixed(vars[i].name, storage), storage |-> storage,
                          type |-> vars[i].type]]

\* the state of an instance: its name in the callee and its name here
StateOf(callee, inst) ==
  LET locals == Stored(callee.vars, "local")
  IN [i \in DOMAIN locals |-> [nested |-> locals[i].name, type |-> locals[i].type,
                               own |-> Flattened(inst, locals[i].name)]]

AugmentedInterface(g, callees) ==
  LET instances == Instances(g.vars)
      state(v) == LET s == StateOf(callees[v.type], v.name[1])
                  IN [i \in DOMAIN s |-> [name |-> s[i].own, storage |-> "local", type |-> s[i].type]]
  IN g.vars \o Augmented(AugmentedInputs(g), "input") \o Augmented(AugmentedOutputs(g), "output")
     \o FlattenSeq([i \in DOMAIN instances |-> state(instances[i])])

(***************************************************************************)
(* Instructions: the field of a parameter assignment is renamed; what is   *)
(* passed in is not.                                                       *)
(***************************************************************************)
Transformed(i) ==
  IF i.op # "assign" THEN i
  ELSE CASE i.type = "in"  -> [i EXCEPT !.target.name = Suffixed(@, "input")]
         [] i.type = "out" -> [i EXCEPT !.rhs.name = Suffixed(@, "output")]
         [] OTHER          -> i

InFront(code, label, instruction) ==
  (label :> <<instruction>> \o (IF label \in DOMAIN code THEN code[label] ELSE <<>>)) @@ code

\* Mutant of PassState: the state is passed in but not taken back
PassStateIn(g, code, inst, state) ==
  LET calls == SelectSeq(Labels(code), LAMBDA l :
                 \E i \in Range(code[l]) : i.op = "call" /\ i.inst = inst)
      in(s) == [op |-> "assign", type |-> "in", rhs |-> VarAccess(s.own),
                target |-> Field(inst, Suffixed(s.nested, "input"))]
      at(c, l) == FoldLeft(LAMBDA d, s : InFront(d, l, in(s)), c, state)
  IN FoldLeft(at, code, calls)

\* the state of one instance: in front of every block that calls it, and in
\* front of the block its call returns to
PassState(g, code, inst, state) ==
  LET calls == SelectSeq(Labels(code), LAMBDA l :
                 \E i \in Range(code[l]) : i.op = "call" /\ i.inst = inst)
      in(s)  == [op |-> "assign", type |-> "in", rhs |-> VarAccess(s.own),
                 target |-> Field(inst, Suffixed(s.nested, "input"))]
      out(s) == [op |-> "assign", type |-> "out", target |-> VarAccess(s.own),
                 rhs |-> Field(inst, Suffixed(s.nested, "output"))]
      at(c, l) == FoldLeft(LAMBDA d, s : InFront(d, CallToReturn(g, l).dst, out(s)),
                           FoldLeft(LAMBDA d, s : InFront(d, l, in(s)), c, state),
                           state)
  IN FoldLeft(at, code, calls)

Copies(vars, from, to) ==
  [i \in DOMAIN vars |->
     LET suffix(s) == VarAccess(IF s = "" THEN vars[i].name ELSE Suffixed(vars[i].name, s))
     IN [op |-> "assign", target |-> suffix(to), rhs |-> suffix(from), type |-> "regular"]]

\* whatever was put in front of the exit is lost
TransformCalls(g, callees) ==
  LET body == [l \in DOMAIN g.code \ {g.entry, g.exit} |->
                 [i \in DOMAIN g.code[l] |-> Transformed(g.code[l][i])]]
      passed == FoldLeft(LAMBDA code, v :
                           PassState(g, code, v.name[1], StateOf(callees[v.type], v.name[1])),
                         body, Instances(g.vars))
      ends == (g.entry :> Copies(AugmentedInputs(g), "input", ""))
              @@ (g.exit :> Copies(AugmentedOutputs(g), "", "output"))
      interface == AugmentedInterface(g, callees)
      kept == [n \in Names(Filter(interface, LAMBDA v : v.storage # "temporary")) |-> n]
  IN [g EXCEPT !.vars = interface, !.code = ends @@ passed, !.initial = kept, !.final = kept]

RECURSIVE TransformAllCalls(_, _, _)
TransformAllCalls(done, graphs, name) ==
  LET g == graphs[name]
      callees == FoldLeft(LAMBDA d, v : TransformAllCalls(d, graphs, v.type), done, Instances(g.vars))
  IN IF name \in DOMAIN done THEN done
     ELSE (name :> TransformCalls(g, callees)) @@ callees
=============================================================================
