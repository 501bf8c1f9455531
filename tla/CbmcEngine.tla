--------------------------- MODULE CbmcEngine ----------------------------
(***************************************************************************)
(* The bounded model checker of src/ahorn/src/se/cbmc.  It unrolls the     *)
(* program for a number of cycles into one formula over assumption literals*)
(* and removes a coverage goal, the target of a branch, when the solver    *)
(* finds the literal of the target satisfiable.  The graphs are those of   *)
(* the compiler, with or without the decision transformation.              *)
(***************************************************************************)
EXTENDS LiteralContext, TLC

VARIABLES
  cycle,                 \* Engine::_cycle
  succeeding,            \* the context that has crossed the program exit
  goals                  \* Explorer::_goals, the pairs <<scope, label>> left

cbmcVars == <<cycle, succeeding, goals>>
vars == <<loopVars, cbmcVars>>

-----------------------------------------------------------------------------
(* Explorer::initializeGoals: the targets of the branches.                 *)
Goals(p) ==
  UNION {{<<s, e.dst>> : e \in {d \in CfgOf(p, s).edges :
                                  d.type \in {"TRUE_BRANCH", "FALSE_BRANCH"}}} :
           s \in DOMAIN p.scopes}

(* The initial valuations of the variables.                                *)
InitialValuations(p) ==
  [x \in FlattenedInterface(p) |->
     IF x \in WholeProgramInputs(p) THEN Free(<<0, x>>)
     ELSE [op |-> IF InitialValue(p, x) THEN "true" ELSE "false", args |-> <<>>]]

InitialLiteralContext(p) ==
  LET entry == <<MainScope(p), MainCfg(p).entry, 0>>
  IN  [cycle |-> 0, label |-> MainCfg(p).entry,
       stack |-> <<[scope |-> MainScope(p), ret |-> MainCfg(p).entry]>>,
       ver |-> [x \in FlattenedInterface(p) |-> 0],
       lit |-> entry, preceding |-> [l \in {entry} |-> {{}}],
       assumptions |-> <<>>, hard |-> <<>>]

(* Engine::initialize.                                                     *)
Init ==
  /\ prog \in Programs
  /\ phase = "run"
  /\ explorer = {InitialLiteralContext(P)}
  /\ merger = NoMerges
  /\ version = [x \in FlattenedInterface(P) |-> 0]
  /\ held = <<>>
  /\ cycle = 0
  /\ succeeding = {}
  /\ goals = Goals(P)

(* The models of a branch, and of the literal of a context.                *)
ModelsOfBranch(c, label, condition) ==
  BranchModels(InitialValuations(P), Worlds(P), c, label, condition)

SolutionsOf(c) == Solutions(InitialValuations(P), Worlds(P), c, c.lit)

-----------------------------------------------------------------------------
(* The loop of Engine::run and isTerminationCriteriaMet.                   *)
RunLoop ==
  /\ phase = "run"
  /\ phase' = IF cycle < CycleBound THEN "step" ELSE "done"
  /\ UNCHANGED <<prog, explorer, merger, version, held, cbmcVars>>

(* Engine::step has run dry.                                               *)
EndOfStep ==
  /\ phase = "step"
  /\ explorer = {} /\ MergerIsEmpty
  /\ phase' = "run"
  /\ explorer' = succeeding
  /\ succeeding' = {}
  /\ cycle' = cycle + 1
  /\ UNCHANGED <<prog, merger, version, held, goals>>

BeginMerge == TakeMergePoint /\ UNCHANGED cbmcVars

(* Merger::mergeVariable looks the name of either context up among the hard*)
(* constraints, where the initial valuations are not; and it names the     *)
(* literals before the context's, which the comparator of the hard         *)
(* constraints cannot parse when they are those of a call.                 *)
CanMerge(c1, c2) ==
  \A c \in {c1, c2} : \A x \in VersionsDiffer(c1, c2) :
    /\ \E l \in DOMAIN c.hard : CurrentName(c, x) \in DOMAIN c.hard[l]
    /\ \A A \in c.preceding[c.lit] : Cardinality(A) = 1

MergePair ==
  /\ phase = "merge"
  /\ Len(held) > 1
  /\ CanMerge(held[1], held[2])
  /\ MergeFirstTwo
  /\ UNCHANGED cbmcVars

MergeThrows ==
  /\ phase = "merge"
  /\ Len(held) > 1
  /\ ~CanMerge(held[1], held[2])
  /\ phase' = "aborted"
  /\ UNCHANGED <<prog, explorer, merger, version, held, cbmcVars>>

EndMerge == ReleaseMerged /\ UNCHANGED cbmcVars

-----------------------------------------------------------------------------
(* Executor::execute.                                                      *)

(* BreadthFirstHeuristic: lower cycles, deeper frames, lower labels first. *)
IsNext(c) ==
  \A d \in explorer : \/ Depth(c) > Depth(d)
                      \/ Depth(c) = Depth(d) /\ c.label <= d.label

Execute(c) == phase = "step" /\ c \in explorer /\ IsNext(c)

Successor(c) == SucceedingLabel(Graph(c), c.label)

HandleProgramEntryVertex ==
  \E c \in explorer :
    /\ Execute(c)
    /\ Vertex(c).type = "ENTRY" /\ Graph(c).type = "PROGRAM"
    /\ Replace(c, <<MoveTo(c, Successor(c))>>)
    /\ UNCHANGED <<version, cbmcVars>>

HandleFunctionBlockEntryVertex ==
  \E c \in explorer :
    /\ Execute(c)
    /\ Vertex(c).type = "ENTRY" /\ Graph(c).type = "FUNCTION_BLOCK"
    /\ Replace(c, <<MoveTo(c, Successor(c))>>)
    /\ UNCHANGED <<version, cbmcVars>>

HandleIntermediateDecisionVertex ==
  \E c \in explorer :
    /\ Execute(c)
    /\ Vertex(c).type = "REGULAR" /\ Vertex(c).op = "none"
    /\ Replace(c, <<MoveTo(c, Successor(c))>>)
    /\ UNCHANGED <<version, cbmcVars>>

Assigned(c) == Flatten(Scope(c), Vertex(c).var)

NextLabel(c) == Target(Graph(c), c.label, "INTRAPROCEDURAL")

BranchTarget(c, sign) ==
  Target(Graph(c), c.label, IF sign THEN "TRUE_BRANCH" ELSE "FALSE_BRANCH")

VisitAssignmentInstruction ==
  \E c \in explorer :
    /\ Execute(c)
    /\ Vertex(c).op = "assign"
    /\ Replace(c, <<Write(version, c, Assigned(c), Encode(c, Vertex(c).rhs), NextLabel(c))>>)
    /\ version' = [version EXCEPT ![Assigned(c)] = @ + 1]
    /\ UNCHANGED cbmcVars

VisitHavocInstruction ==
  \E c \in explorer :
    /\ Execute(c)
    /\ Vertex(c).op = "havoc"
    /\ LET free == Free(<<c.cycle, <<Scope(c), "havoc", c.label>>>>)
       IN  Replace(c, <<Write(version, c, Assigned(c), free, NextLabel(c))>>)
    /\ version' = [version EXCEPT ![Assigned(c)] = @ + 1]
    /\ UNCHANGED cbmcVars

(* The literal of the callee's entry follows from that of the call.        *)
VisitCallInstruction ==
  \E c \in explorer :
    /\ Execute(c)
    /\ Vertex(c).op = "call"
    /\ LET frame == [scope |-> Append(Scope(c), Vertex(c).instance),
                     ret |-> Target(Graph(c), c.label, "CALL_TO_RETURN")]
       IN  Replace(c, <<MoveTo([c EXCEPT !.stack = Append(@, frame)],
                               Target(Graph(c), c.label, "CALL"))>>)
    /\ UNCHANGED <<version, cbmcVars>>

(* The literal of the return follows from that of the call together with   *)
(* that of the callee's exit.                                              *)
ReturnToCaller(c) ==
  LET popped == [c EXCEPT !.stack = SubSeq(@, 1, Len(@) - 1)]
      caller == Graph(popped)
      call == CHOOSE l \in DOMAIN caller.vertices :
                /\ caller.vertices[l].op = "call"
                /\ Target(caller, l, "CALL_TO_RETURN") = ReturnLabel(c)
  IN  Reach(popped, ReturnLabel(c), {LiteralOf(popped, call), c.lit})

HandleFunctionBlockExitVertex ==
  \E c \in explorer :
    /\ Execute(c)
    /\ Vertex(c).type = "EXIT" /\ Graph(c).type = "FUNCTION_BLOCK"
    /\ Replace(c, <<ReturnToCaller(c)>>)
    /\ UNCHANGED <<version, cbmcVars>>

(* Mutant: the false branch is dropped when the true one is satisfiable.   *)
OutcomesFirst(c, term) ==
  IF ModelsOfBranch(c, BranchTarget(c, TRUE), <<term, TRUE>>) # {} THEN <<TRUE>> ELSE <<FALSE>>

(* The outcomes of the condition term that the solver finds possible.  When*)
(* the condition cannot be true it is not asked whether it can be false.   *)
Outcomes(c, term) ==
  LET CanBe(sign) ==
        ModelsOfBranch(c, BranchTarget(c, sign), <<term, sign>>) # {}
  IN  IF ~CanBe(TRUE) THEN <<FALSE>>
      ELSE IF ~CanBe(FALSE) THEN <<TRUE>> ELSE <<TRUE, FALSE>>

VisitIfInstruction ==
  \E c \in explorer :
    /\ Execute(c)
    /\ Vertex(c).op = "if"
    /\ \E outcomes \in {Outcomes(c, Encode(c, Vertex(c).cond))} :
         LET Taken(sign) == Branch(c, BranchTarget(c, sign), <<Encode(c, Vertex(c).cond), sign>>)
         IN  /\ Replace(c, [i \in DOMAIN outcomes |-> Taken(outcomes[i])])
             /\ goals' = goals \ {<<Scope(c), BranchTarget(c, outcomes[i])>> : i \in DOMAIN outcomes}
    /\ UNCHANGED <<version, cycle, succeeding>>

(* Mutant: the variables start the next cycle with their initial values.   *)
NextLiteralCycleForgetful(c) ==
  LET next == MoveTo([c EXCEPT !.cycle = @ + 1], ReturnLabel(c))
  IN  [next EXCEPT
         !.hard = next.lit :> [n \in {<<x, 0, next.cycle>> : x \in DOMAIN c.ver} |->
                      IF n[1] \in WholeProgramInputs(P) THEN Free(<<next.cycle, n[1]>>)
                      ELSE [op |-> "id", args |-> <<<<n[1], 0, c.cycle>>>>]] @@ @,
         !.ver = [x \in DOMAIN @ |-> 0]]

(* Executor::handleProgramExitVertex: the entry literal of the next cycle  *)
(* makes version 0 of every variable the last one of this cycle, and leaves*)
(* the inputs open.                                                        *)
NextLiteralCycle(c) ==
  LET next == MoveTo([c EXCEPT !.cycle = @ + 1], ReturnLabel(c))
  IN  [next EXCEPT
         !.hard = next.lit :> [n \in {<<x, 0, next.cycle>> : x \in DOMAIN c.ver} |->
                      IF n[1] \in WholeProgramInputs(P) THEN Free(<<next.cycle, n[1]>>)
                      ELSE [op |-> "id", args |-> <<CurrentName(c, n[1])>>]] @@ @,
         !.ver = [x \in DOMAIN @ |-> 0]]

HandleProgramExitVertex ==
  \E c \in explorer :
    /\ Execute(c)
    /\ Vertex(c).type = "EXIT" /\ Graph(c).type = "PROGRAM"
    /\ explorer' = explorer \ {c}
    /\ succeeding' = {NextLiteralCycle(c)}
    /\ version' = [x \in DOMAIN version |-> 0]
    /\ UNCHANGED <<prog, phase, merger, held, cycle, goals>>

-----------------------------------------------------------------------------
EngineStep ==
  \/ RunLoop \/ EndOfStep \/ BeginMerge \/ MergePair \/ EndMerge
  \/ HandleProgramEntryVertex \/ HandleFunctionBlockEntryVertex
  \/ HandleIntermediateDecisionVertex \/ VisitAssignmentInstruction
  \/ VisitHavocInstruction \/ VisitCallInstruction \/ HandleFunctionBlockExitVertex
  \/ VisitIfInstruction \/ HandleProgramExitVertex

Next ==
  \/ EngineStep \/ MergeThrows
  \/ phase \in {"done", "aborted"} /\ UNCHANGED vars

Spec == Init /\ [][Next]_vars /\ WF_vars(EngineStep \/ MergeThrows)
==========================================================================
