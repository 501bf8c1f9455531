-------------------------- MODULE BaselineEngine -------------------------
(***************************************************************************)
(* The baseline engine of src/ahorn/src/se/baseline: concolic execution    *)
(* without merging and without a coverage criterion.  The explorer is a    *)
(* stack.  At the end of a cycle a variable that is not an input keeps its *)
(* concrete value only, and the path constraint is kept, so that a context *)
(* stands for fewer and fewer runs.  Engine::run is not implemented; its   *)
(* callers step the engine and push the contexts that a step returns.      *)
(* The context has no version map: the current version of a variable is    *)
(* the highest one in its store, and ver is that version here.             *)
(***************************************************************************)
EXTENDS ConcolicContext

CONSTANTS
  Programs,              \* identifiers of the programs to execute
  Code                   \* the control-flow graphs of each of them

VARIABLES
  prog,                  \* the program given to Engine::initialize
  phase,                 \* "run" between steps, "step" inside one, "done"
  cycle,                 \* Engine::_cycle
  explorer,              \* Explorer::_contexts, a stack
  version,               \* Executor::_flattened_name_to_version
  succeeding,            \* the contexts that have crossed the program exit
  statements,            \* Explorer::_covered_statements
  branches               \* Explorer::_covered_branches

vars == <<prog, phase, cycle, explorer, version, succeeding, statements, branches>>

P == Code[prog]

(* Explorer::initialize.                                                   *)
InitializeExplorer == statements = {} /\ branches = {}

(* Engine::initialize and Executor::initialize.                            *)
Init ==
  /\ prog \in Programs
  /\ phase = "run"
  /\ cycle = 0
  /\ explorer = <<InitialConcolicContext(P)>>
  /\ version = [x \in FlattenedInterface(P) |-> 0]
  /\ succeeding = <<>>
  /\ InitializeExplorer

-----------------------------------------------------------------------------
(* The operations of the executor on one context.                          *)

Graph(c) == CfgOf(P, Scope(c))

Vertex(c) == Graph(c).vertices[c.label]

Assigned(c) == Flatten(Scope(c), Vertex(c).var)

(* State::getHighestVersion: a write with a version below the highest one  *)
(* of the store does not become the current one.                           *)
GetHighestVersion(c, x, written) == IF written > c.ver[x] THEN written ELSE c.ver[x]

(* Executor::visit(AssignmentInstruction).                                 *)
ExecuteAssignment(c) ==
  LET x == Assigned(c)
      next == Target(Graph(c), c.label, "INTRAPROCEDURAL")
  IN  [AssignConcolic(P, version, c, x, Vertex(c).rhs, next) EXCEPT
         !.ver[x] = GetHighestVersion(c, x, version[x] + 1)]

(* Executor::visit(HavocInstruction).                                      *)
ExecuteHavoc(c, random) ==
  LET x == Assigned(c)
      next == Target(Graph(c), c.label, "INTRAPROCEDURAL")
  IN  [HavocConcolic(P, version, c, x, random, next) EXCEPT
         !.ver[x] = GetHighestVersion(c, x, version[x] + 1)]

(* Executor::visit(CallInstruction), Context::pushFrame.                   *)
ExecuteCall(c) ==
  [c EXCEPT !.stack = Append(@, [scope |-> Append(Scope(c), Vertex(c).instance),
                                 ret |-> Target(Graph(c), c.label, "CALL_TO_RETURN")]),
            !.label = Target(Graph(c), c.label, "CALL")]

(* Executor::tryFork.                                                      *)
Forked(c) == ForkOther(P, Graph(c), c, Vertex(c).cond)

(* Mutant: the symbolic value is carried over, the path constraint is not. *)
StartNextCycleSymbolically(c, inputs) == NextConcolicCycle(P, c, inputs)

(* Executor::handleProgramExitVertex: variables that are not inputs become *)
(* the constants of their concrete values.                                 *)
StartNextCycle(c, inputs) ==
  LET next == NextConcolicCycle(P, c, inputs)
      Constant(b) == [term |-> [op |-> IF b THEN "true" ELSE "false", args |-> <<>>],
                      worlds |-> IF b THEN Worlds(P) ELSE {}]
  IN  [next EXCEPT
         !.val = [n \in DOMAIN @ |->
                    IF n[3] = next.cycle /\ n[1] \notin WholeProgramInputs(P)
                    THEN Constant(next.conc[n]) ELSE @[n]],
         !.pc = c.pc]

(* Executor::handleFunctionBlockExitVertex.                                *)
Returned(c) == [c EXCEPT !.label = ReturnLabel(c), !.stack = SubSeq(@, 1, Len(@) - 1)]

-----------------------------------------------------------------------------
(* Engine::step.                                                           *)

(* Explorer::popContext.                                                   *)
PopContext == explorer[Len(explorer)]

(* The end of the loop body of Engine::step: every context the executor has*)
(* returned is counted for coverage and pushed, or kept for the next cycle.*)
Dispatch(contexts) ==
  LET from == PopContext.label
      OfThisCycle(d) == d.cycle = cycle
  IN  /\ statements' = statements \cup {from}
      /\ branches' = branches \cup
           UNION {BranchesTaken(Graph(contexts[i]), from, contexts[i].label) : i \in DOMAIN contexts}
      /\ explorer' = SubSeq(explorer, 1, Len(explorer) - 1) \o SelectSeq(contexts, OfThisCycle)
      /\ succeeding' = succeeding \o SelectSeq(contexts, LAMBDA d : ~OfThisCycle(d))

Executing == phase = "step" /\ explorer # <<>> /\ UNCHANGED <<prog, phase, cycle>>

HandleEntryVertex ==
  /\ Executing
  /\ Vertex(PopContext).type = "ENTRY"
  /\ Dispatch(<<[PopContext EXCEPT !.label = SucceedingLabel(Graph(PopContext), @)]>>)
  /\ UNCHANGED version

VisitAssignmentInstruction ==
  /\ Executing
  /\ Vertex(PopContext).op = "assign"
  /\ version' = [version EXCEPT ![Assigned(PopContext)] = @ + 1]
  /\ Dispatch(<<ExecuteAssignment(PopContext)>>)

VisitHavocInstruction ==
  /\ Executing
  /\ Vertex(PopContext).op = "havoc"
  /\ version' = [version EXCEPT ![Assigned(PopContext)] = @ + 1]
  /\ \E random \in BOOLEAN : Dispatch(<<ExecuteHavoc(PopContext, random)>>)

VisitCallInstruction ==
  /\ Executing
  /\ Vertex(PopContext).op = "call"
  /\ Dispatch(<<ExecuteCall(PopContext)>>)
  /\ UNCHANGED version

VisitIfInstruction ==
  /\ Executing
  /\ Vertex(PopContext).op = "if"
  /\ \E fork \in Forked(PopContext) :
       Dispatch(<<Follow(Graph(PopContext), PopContext, Vertex(PopContext).cond)>> \o fork)
  /\ UNCHANGED version

HandleProgramExitVertex ==
  /\ Executing
  /\ Vertex(PopContext).type = "EXIT" /\ Graph(PopContext).type = "PROGRAM"
  /\ version' = [x \in DOMAIN version |-> 0]
  /\ \E inputs \in SUBSET WholeProgramInputs(P) : Dispatch(<<StartNextCycle(PopContext, inputs)>>)

HandleFunctionBlockExitVertex ==
  /\ Executing
  /\ Vertex(PopContext).type = "EXIT" /\ Graph(PopContext).type = "FUNCTION_BLOCK"
  /\ Dispatch(<<Returned(PopContext)>>)
  /\ UNCHANGED version

(* The explorer is empty: Engine::step returns the succeeding contexts and *)
(* its caller pushes them.                                                 *)
EndOfStep ==
  /\ phase = "step"
  /\ explorer = <<>>
  /\ phase' = "run"
  /\ cycle' = cycle + 1
  /\ explorer' = succeeding
  /\ succeeding' = <<>>
  /\ UNCHANGED <<prog, version, statements, branches>>

(* The loop of the caller.                                                 *)
CallStep ==
  /\ phase = "run"
  /\ phase' = IF cycle < CycleBound THEN "step" ELSE "done"
  /\ UNCHANGED <<prog, cycle, explorer, version, succeeding, statements, branches>>

EngineStep ==
  \/ CallStep \/ EndOfStep
  \/ HandleEntryVertex \/ VisitAssignmentInstruction \/ VisitHavocInstruction
  \/ VisitCallInstruction \/ VisitIfInstruction
  \/ HandleProgramExitVertex \/ HandleFunctionBlockExitVertex

Next == EngineStep \/ (phase = "done" /\ UNCHANGED vars)

Spec == Init /\ [][Next]_vars /\ WF_vars(EngineStep)
==========================================================================
