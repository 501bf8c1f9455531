-------------------------- MODULE FrontendCorrectness --------------------------
(***************************************************************************)
(* What the front end promises: whatever pass is done, running the graphs  *)
(* is running the program that was parsed.                                 *)
(***************************************************************************)
EXTENDS Frontend

(***************************************************************************)
(* Running graphs.  Once the interfaces are explicit, a callee sees its    *)
(* input parameters only and leaves its output parameters only; before, it *)
(* works on the variables of the instance.  A phi is the operand that was  *)
(* defined last.  A run that has no edge to follow, or goes on for too     *)
(* long, is stuck.                                                         *)
(***************************************************************************)
Fuel == 40                          \* vertices of one run of one POU
Stuck == <<<<"stuck">>, <<"stuck">>>>

IsStuck(store) == Stuck \in DOMAIN store

Operand(phi, trail) ==
  VarAccess(phi.operands[trail[SelectLastInSeq(trail, LAMBDA l : l \in DOMAIN phi.operands)]])

Evaluated(e, frame, trail, store) ==
  CASE e.node # "phi" -> Value(e, frame, store)
    [] Range(trail) \intersect DOMAIN e.operands # {} -> Value(Operand(e, trail), frame, store)
    [] OTHER -> Undefined

\* the cells of a frame whose name ends in the suffix, moved to another frame
Moved(store, from, to, suffix) ==
  LET names == {c[2] : c \in {d \in DOMAIN store : d[1] = from /\ Last(d[2]) = suffix}}
  IN [c \in {<<to, n>> : n \in names} |-> store[<<from, c[2]>>]]

OutOf(store, frame) == [c \in {d \in DOMAIN store : d[1] # frame} |-> store[c]]

RECURSIVE Walk(_, _, _, _, _, _)

Called(gs, explicit, callee, frame, inst, store) ==
  LET outside == Append(frame, inst)
      inside == Append(outside, "()")
      done == Walk(gs, explicit, callee, inside, <<gs[callee].entry>>,
                   Moved(store, outside, inside, "input") @@ OutOf(store, inside))
  IN IF explicit THEN Moved(done, inside, outside, "output") @@ OutOf(done, inside)
     ELSE Walk(gs, explicit, callee, outside, <<gs[callee].entry>>, store)

Effect(gs, explicit, g, frame, trail, store, i) ==
  CASE i.op = "assign" -> Put(store, Cell(frame, i.target), Evaluated(i.rhs, frame, trail, store))
    [] i.op = "havoc"  -> Put(store, Cell(frame, i.target), store[Oracle])
    [] i.op = "call"   -> Called(gs, explicit, TypeOf(g.vars, i.inst), frame, i.inst, store)
    [] OTHER           -> store

\* the edges that may be followed from the end of a vertex
Followed(gs, g, frame, label, before, after) ==
  LET last == Last(g.code[label])
      value == Value(last.rhs, frame, after)
      wanted == IF value = 1 THEN "true" ELSE "false"
      exit == gs[TypeOf(g.vars, last.inst)].exit
      all == Range(g.edges)
  IN CASE g.code[label] = <<>> \/ last.op \in {"assign", "havoc"} ->
            {e \in all : e.src = label /\ e.type = "intra"}
       [] last.op \in {"if", "while"} -> {e \in all : e.src = label /\ e.type = wanted}
       [] last.op = "call" -> {e \in all : e.type = "return" /\ e.src = exit /\ e.call = label}

Walk(gs, explicit, name, frame, trail, store) ==
  LET g == gs[name]
      label == Last(trail)
      onward(after, edges) ==
        IF Cardinality(edges) # 1 THEN (Stuck :> 1) @@ store
        ELSE Walk(gs, explicit, name, frame, Append(trail, (CHOOSE e \in edges : TRUE).dst), after)
      leave(after) == IF label = g.exit THEN after
                      ELSE onward(after, Followed(gs, g, frame, label, store, after))
  IN IF label \notin DOMAIN g.code \/ Len(trail) > Fuel \/ IsStuck(store) THEN (Stuck :> 1) @@ store
     ELSE leave(FoldLeft(LAMBDA st, i : Effect(gs, explicit, g, frame, trail, st, i),
                         store, g.code[label]))

(***************************************************************************)
(* One cycle of the program.  Its variables are read and written under the *)
(* names they have at the entry and at the exit; nothing else of the       *)
(* program itself outlives the cycle.                                      *)
(***************************************************************************)
RunGraphs(gs, explicit, main, store) ==
  LET g == gs[main]
      entering == [c \in {<<Main, g.initial[n]>> : n \in DOMAIN g.initial} |->
                     Content(store, <<Main, CHOOSE n \in DOMAIN g.initial : g.initial[n] = c[2]>>)]
      done == Walk(gs, explicit, main, Main, <<g.entry>>, entering @@ OutOf(store, Main))
      leaving == [c \in {<<Main, n>> : n \in DOMAIN g.final} |->
                    Content(done, <<Main, g.final[c[2]]>>)]
  IN leaving @@ OutOf(done, Main)

MeaningOf(p, gs, explicit, inputs, oracle) ==
  LET declared == [c \in {<<Main, n>> : n \in DOMAIN gs[p.main].initial} |-> 0]
      stores[c \in 0..CyclesRun] ==
        IF c = 0 THEN InitialStore(p, oracle) @@ declared
        ELSE RunGraphs(gs, explicit, p.main, WithInputs(stores[c - 1], inputs[c]))
  IN [c \in 1..CyclesRun |-> Observed(p, stores[c])]

RunAsWritten(gs, explicit) ==
  \A inputs \in InputSequences(project), oracle \in Oracles :
    MeaningOf(project, gs, explicit, inputs, oracle) = Meaning(project, inputs, oracle)

(***************************************************************************)
(* Properties.                                                             *)
(***************************************************************************)
\* Compiler::PouCompiler, CfgBuilder: placeholders, missing branches and
\* renumbered gotos leave every statement its meaning
CompiledAsWritten == phase = "compiled" => RunAsWritten(graphs, FALSE)

FirstCopy(name) == copies[SelectInSeq(copies, LAMBDA c : c.name = name)].graph

\* The vertices put on the branches change nothing; no instruction is lost,
\* duplicated or moved past a merge when blocks are formed; the temporaries of
\* nested operations do not get in each other's way, whatever the counter
\* starts with; and with nothing but parameters between caller and callee, the
\* state of every instance survives from call to call
TransformedAsWritten ==
  /\ phase = "decided" => RunAsWritten([name \in DOMAIN graphs |-> FirstCopy(name)], FALSE)
  /\ phase = "blocks"  => RunAsWritten(graphs, FALSE)
  /\ phase = "tac"     => RunAsWritten(graphs, FALSE)
  /\ phase = "calls"   => RunAsWritten(graphs, TRUE)

\* SsaPass: every read gets the version, or the phi, of the definitions that
\* reach it
SsaAsWritten == phase = "converted" => RunAsWritten(converted, TRUE)

\* the edges of a graph connect vertices of it, and from a vertex put on a
\* branch leads one edge, as Executor::handleIntermediateDecisionVertex asserts
IsConnected(g) ==
  LET inner == {e \in Range(g.edges) : e.type \notin {"call", "return"}}
  IN /\ \A e \in inner : {e.src, e.dst} \subseteq DOMAIN g.code
     /\ \A l \in DOMAIN g.code :
          l >= FirstIntermediate => Cardinality({e \in inner : e.src = l}) = 1

HasDecision(g) == \E l \in DOMAIN g.code : l >= FirstIntermediate

\* DecisionTransformationPass transforms the graph of a block once per POU that
\* holds an instance of it.  The first copy is connected; of a graph with a
\* decision it is the only one, as the pass keeps the vertices it has put on
\* the branches of the first copy and leads the edges of the others there
FirstCopyIsConnected ==
  \A i \in DOMAIN copies :
    IsConnected(copies[i].graph) <=>
      \/ ~HasDecision(copies[i].graph)
      \/ \A j \in 1..(i - 1) : copies[j].name # copies[i].name

\* the assignments of a graph, the explicit outputs excepted
Targets(g) ==
  {<<l, i>> \in UNION {{l} \X DOMAIN g.code[l] : l \in DOMAIN g.code} :
     LET c == g.code[l][i]
     IN c.op \in {"assign", "havoc"} /\ c.target.node = "var"
        /\ "output" \notin Range(Tail(c.target.name))}

\* SsaPass: a variable is assigned by one instruction only, and trivial phis
\* are removed, those that become trivial by the removal of others included
SsaIsMinimal ==
  \A name \in DOMAIN converted :
    LET g == converted[name]
    IN /\ \A p, q \in Targets(g) :
            g.code[p[1]][p[2]].target = g.code[q[1]][q[2]].target => p = q
       /\ \A l \in DOMAIN g.code : \A i \in Range(g.code[l]) :
            i.op = "assign" /\ i.rhs.node = "phi" =>
              Cardinality(Range(i.rhs.operands) \ {i.target.name}) > 1

\* main, SsaPass: every pass comes to an end, and none throws but for a WHILE;
\* the worklist of the SSA construction does not go round blocks that are
\* never sealed
Completes ==
  <>(phase \in {"decided", "converted"} \/ (phase = "aborted" /\ HasWhile(graphs)))
=============================================================================
