------------------------------- MODULE Frontend -------------------------------
(***************************************************************************)
(* From a parsed project to the graph an engine or the static analysis     *)
(* gets: the compiler and the builder, then either the decision            *)
(* transformation (for the engines) or basic blocks, three-address code,   *)
(* call transformation and SSA (main.cpp, --sa).  All passes but the last  *)
(* are one step each; the SSA construction takes one step per turn of its  *)
(* worklist.  A pass that throws ends the program.                         *)
(***************************************************************************)
EXTENDS SsaPass

CONSTANTS
  Projects,      \* the parsed projects
  Bases,         \* what the counters that no constructor initialises may hold
  Commands       \* "sa" and "engine"

VARIABLES
  project, command, base,
  phase,         \* the pass that is done
  graphs,        \* the graph of every POU
  copies,        \* the graphs the decision transformation returns
  todo,          \* the POUs the SSA pass still has to convert, callees first
  ssa,           \* its members, for the POU at hand
  converted,     \* the graphs it has converted
  tick           \* changes with every step

vars == <<project, command, base, phase, graphs, copies, todo, ssa, converted, tick>>

Init ==
  /\ project \in Projects /\ command \in Commands /\ base \in Bases
  /\ phase = "parsed"
  /\ graphs = <<>> /\ copies = <<>> /\ todo = <<>> /\ ssa = NewSsa("", 0) /\ converted = <<>> /\ tick = 0

Tick == tick' = 1 - tick

(***************************************************************************)
(* Compiling and building the graphs.                                      *)
(***************************************************************************)
CompileProject(p) == CompilePou(NewCompiler, p.pous, p.main)

BuildAll(p, modules) == [name \in DOMAIN modules |-> Build(p.pous, modules, name)]

BuildCfg ==
  /\ Tick
  /\ phase = "parsed"
  /\ \E c \in {CompileProject(project)} :
       /\ phase' = IF c.ok THEN "compiled" ELSE "aborted"
       /\ graphs' = IF c.ok THEN BuildAll(project, c.modules) ELSE graphs
  /\ UNCHANGED <<project, command, base, copies, todo, ssa, converted>>

\* a pass that does not handle a WHILE throws
Pass(before, after, throws, result) ==
  /\ Tick
  /\ phase = before
  /\ phase' = IF throws THEN "aborted" ELSE after
  /\ graphs' = IF throws THEN graphs ELSE result
  /\ UNCHANGED <<project, command, base, todo, ssa, converted>>

(***************************************************************************)
(* For the engines.                                                        *)
(***************************************************************************)
TransformDecisionsOf ==
  /\ command = "engine"
  /\ Pass("compiled", "decided", HasWhile(graphs), graphs)
  /\ copies' = IF HasWhile(graphs) THEN copies
               ELSE TransformDecisions(NewTransformation, graphs, project.main).copies

(***************************************************************************)
(* For the static analysis.                                                *)
(***************************************************************************)
FormBlocks ==
  /\ command = "sa"
  /\ Pass("compiled", "blocks", FALSE, [name \in DOMAIN graphs |-> Blocks(graphs[name])])
  /\ UNCHANGED copies

RECURSIVE CalleesFirst(_, _, _)
CalleesFirst(done, gs, name) ==
  LET before == FoldLeft(LAMBDA d, v : CalleesFirst(d, gs, v.type), done, Instances(gs[name].vars))
  IN IF name \in Range(before) THEN before ELSE Append(before, name)

Order == CalleesFirst(<<>>, graphs, project.main)

ToThreeAddressCode ==
  /\ Pass("blocks", "tac", HasWhile(graphs),
          FoldLeft(LAMBDA s, name : TacPou(s, graphs, name),
                   [value |-> base, graphs |-> <<>>], Order).graphs)
  /\ UNCHANGED copies

TransformCallsOf ==
  /\ Pass("tac", "calls", FALSE, TransformAllCalls(<<>>, graphs, project.main))
  /\ UNCHANGED copies

Start(names, value) == StartSsa(graphs[Head(names)], Head(names), value)

StartConversion ==
  /\ Tick
  /\ phase = "calls"
  /\ phase' = "ssa"
  /\ todo' = Order
  /\ ssa' = Start(Order, base)
  /\ UNCHANGED <<project, command, base, graphs, copies, converted>>

TakeTurn ==
  /\ Tick
  /\ phase = "ssa" /\ ssa.queue # <<>>
  /\ \E s \in {Turn(ssa, graphs[ssa.name])} :
       /\ ssa' = s
       /\ phase' = IF s.ok THEN phase ELSE "aborted"
  /\ UNCHANGED <<project, command, base, graphs, copies, todo, converted>>

FinishConversion ==
  /\ Tick
  /\ phase = "ssa" /\ ssa.queue = <<>>
  /\ \E s \in {ForcedReads(ssa, graphs[ssa.name])} :
       IF s.ok /\ OperandsResolve(s) /\ AllFilled(s, graphs[ssa.name])
       THEN \E rest \in {Tail(todo)} :
              /\ converted' = (ssa.name :> SsaGraph(EmitPhis(s), graphs[ssa.name])) @@ converted
              /\ todo' = rest
              /\ ssa' = IF rest = <<>> THEN s ELSE Start(rest, s.value)
              /\ phase' = IF rest = <<>> THEN "converted" ELSE "ssa"
       ELSE phase' = "aborted" /\ UNCHANGED <<converted, todo, ssa>>
  /\ UNCHANGED <<project, command, base, graphs, copies>>

Final == phase \in {"decided", "converted", "aborted"}

Terminated == Final /\ UNCHANGED vars

Next ==
  \/ BuildCfg
  \/ TransformDecisionsOf
  \/ FormBlocks
  \/ ToThreeAddressCode
  \/ TransformCallsOf
  \/ StartConversion
  \/ TakeTurn
  \/ FinishConversion
  \/ Terminated

(***************************************************************************)
(* The program runs on until it is done.  Whether a step is possible can   *)
(* be told without computing it: one is in every phase but the last ones.  *)
(***************************************************************************)
Spec == Init /\ [][Next]_vars /\ WF_tick(~Final /\ Tick)
=============================================================================
