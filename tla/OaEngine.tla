----------------------------- MODULE OaEngine ----------------------------
(***************************************************************************)
(* The over-approximating engine of src/ahorn/src/se/oa.  It is purely     *)
(* symbolic, and forgets the store at the end of every cycle: each cycle   *)
(* starts with every variable unconstrained.  The programs given to this   *)
(* module are therefore open: all variables count as whole-program inputs. *)
(* TIME_OUT is not among the termination criteria that the constructor     *)
(* sets.                                                                   *)
(***************************************************************************)
EXTENDS EngineLoop

Precision == 100         \* EPSILON = 0.01

(* Engine::isTerminationCriteriaMet and isLocalTerminationCriteriaMet.     *)
TerminationCriteriaMet == CriteriaMet(Precision)

LocalTerminationCriteriaMet == LocalCriteriaMet(Precision)

(* Explorer::initialize.                                                   *)
InitializeExplorer == statements = {} /\ branches = {}

(* Merger::initialize.                                                     *)
InitializeMerger == merger = NoMerges

(* Engine::initialize.                                                     *)
Init ==
  /\ prog \in Programs
  /\ InitWith(InitialContext(P))
  /\ InitializeExplorer
  /\ InitializeMerger

(* Engine::run.                                                            *)
RunLoop == RunLoopUnless(TerminationCriteriaMet)

EndOfStep == succeeding # {} /\ FinishStep

(* Engine::step checks in every pass of its loop.                          *)
LocalTermination ==
  /\ phase = "step"
  /\ explorer # {} \/ ~MergerIsEmpty
  /\ LocalTerminationCriteriaMet
  /\ Leave("done")
  /\ UNCHANGED explorer

-----------------------------------------------------------------------------
(* Merger::merge.                                                          *)

BeginMerge == ~LocalTerminationCriteriaMet /\ StartMerge

(* Merger::merge(context_1, context_2): the disjunction of the two path    *)
(* constraints keeps its names.                                            *)
Merged(c1, c2) == [Merge(P, version, c1, c2) EXCEPT !.pc = c1.pc \cup c2.pc]

MergePair == phase = "merge" /\ Len(held) > 1 /\ MergeFirstTwo(Merged(held[1], held[2]))

EndMerge == FinishMerge

-----------------------------------------------------------------------------
(* Executor::execute.                                                      *)

(* DepthFirstHeuristic.                                                    *)
IsNext(c) == \A d \in explorer : Precedes(c, d)

Execute(c) == ~LocalTerminationCriteriaMet /\ IsNext(c) /\ Pop(c)

HandleEntryVertex ==
  \E c \in explorer :
    /\ Execute(c)
    /\ Vertex(c).type = "ENTRY"
    /\ Return(<<Passed(c)>>)
    /\ UNCHANGED version

VisitAssignmentInstruction ==
  \E c \in explorer :
    /\ Execute(c)
    /\ Vertex(c).op = "assign"
    /\ version' = [version EXCEPT ![Assigned(c)] = @ + 1]
    /\ Return(<<Assign(P, version, c, Assigned(c), Vertex(c).rhs, NextLabel(c))>>)

VisitCallInstruction ==
  \E c \in explorer :
    /\ Execute(c)
    /\ Vertex(c).op = "call"
    /\ Return(<<[Called(c) EXCEPT !.label = Target(Graph(c), c.label, "CALL")]>>)
    /\ UNCHANGED version

(* Mutant: a branch is followed without asking the solver.                 *)
ForkedUnchecked(c, holds) ==
  <<[c EXCEPT !.pc = PushPathConstraint(@, <<Encode(c, Vertex(c).cond), holds>>),
              !.label = BranchTarget(Graph(c), c, holds)]>>

(* Executor::tryFork: empty unless the branch is satisfiable.              *)
Forked(c, holds) ==
  LET literal == <<Encode(c, Vertex(c).cond), holds>>
  IN  IF PathWorlds(P, c) \cap Literal(P, c.val, literal) = {} THEN <<>>
      ELSE <<[c EXCEPT !.pc = PushPathConstraint(@, literal),
                       !.label = BranchTarget(Graph(c), c, holds)]>>

(* Both branches are tried; the code throws when neither is possible.      *)
VisitIfInstruction ==
  \E c \in explorer :
    /\ Execute(c)
    /\ Vertex(c).op = "if"
    /\ Return(Forked(c, TRUE) \o Forked(c, FALSE))
    /\ UNCHANGED version

VisitHavocInstruction ==
  \E c \in explorer :
    /\ Execute(c)
    /\ Vertex(c).op = "havoc"
    /\ version' = [version EXCEPT ![Assigned(c)] = @ + 1]
    /\ Return(<<HavocSymbolic(P, version, c, Assigned(c), NextLabel(c))>>)

(* The valuations of the next cycle: a fresh constant for every variable.  *)
StartOver(c) == NextCycle(P, c)

HandleProgramExitVertex ==
  \E c \in explorer :
    /\ Execute(c)
    /\ Vertex(c).type = "EXIT" /\ Graph(c).type = "PROGRAM"
    /\ version' = [x \in DOMAIN version |-> 0]
    /\ Return(<<StartOver(c)>>)

HandleFunctionBlockExitVertex ==
  \E c \in explorer :
    /\ Execute(c)
    /\ Vertex(c).type = "EXIT" /\ Graph(c).type = "FUNCTION_BLOCK"
    /\ Return(<<Returned(c)>>)
    /\ UNCHANGED version

(* The end of the loop body of Engine::step.                               *)
Dispatch == DispatchHead(TRUE) /\ UNCHANGED testSuite

EngineStep ==
  \/ RunLoop \/ EndOfStep \/ LocalTermination
  \/ BeginMerge \/ MergePair \/ EndMerge
  \/ HandleEntryVertex \/ VisitAssignmentInstruction \/ VisitCallInstruction
  \/ VisitIfInstruction \/ VisitHavocInstruction
  \/ HandleProgramExitVertex \/ HandleFunctionBlockExitVertex
  \/ Dispatch

Next == EngineStep \/ Stopped

Spec == Init /\ [][Next]_vars /\ WF_vars(EngineStep)
==========================================================================
