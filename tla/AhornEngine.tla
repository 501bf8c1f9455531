--------------------------- MODULE AhornEngine ---------------------------
(***************************************************************************)
(* The concolic engine of src/ahorn/src/se/ahorn (compositional symbolic   *)
(* execution with merging).  It executes the graphs as the compiler makes  *)
(* them, calls every function block, and derives its test cases from the   *)
(* concrete store of a context instead of asking the solver again.  A      *)
(* static analysis may tell it which labels and branches are unreachable.  *)
(***************************************************************************)
EXTENDS EngineLoop

CONSTANTS
  UnreachableLabels,     \* Configuration::_unreachable_labels, per program
  UnreachableBranches    \* Configuration::_unreachable_branches, per program

Precision == 10000       \* EPSILON = 0.0001

TerminationCriteriaMet == CriteriaMet(Precision)

LocalTerminationCriteriaMet == LocalCriteriaMet(Precision)

(* Explorer::initialize: what is unreachable counts as covered.            *)
InitializeExplorer ==
  /\ statements = UnreachableLabels[prog]
  /\ branches = UnreachableBranches[prog]

(* Merger::initialize.                                                     *)
InitializeMerger == merger = NoMerges

(* Engine::initialize.                                                     *)
Init ==
  /\ prog \in Programs
  /\ InitWith(InitialConcolicContext(P))
  /\ InitializeExplorer
  /\ InitializeMerger

TimeOut == PassTimeOut

RunLoop == RunLoopUnless(TerminationCriteriaMet)

EndOfStep == succeeding # {} /\ FinishStep

(* Checked in every pass of the loop of Engine::step, before a merge and   *)
(* inside function blocks too.                                             *)
LocalTermination ==
  /\ phase = "step"
  /\ explorer # {} \/ ~MergerIsEmpty
  /\ LocalTerminationCriteriaMet
  /\ Leave("done")
  /\ UNCHANGED explorer

-----------------------------------------------------------------------------
(* Merger::merge.                                                          *)

BeginMerge == ~LocalTerminationCriteriaMet /\ StartMerge

(* Merger::merge(context_1, context_2).                                    *)
Merged(c1, c2) == MergeConcolic(P, version, c1, c2)

MergePair == phase = "merge" /\ Len(held) > 1 /\ MergeFirstTwo(Merged(held[1], held[2]))

EndMerge == FinishMerge

-----------------------------------------------------------------------------
(* Executor::execute.                                                      *)

(* DepthFirstHeuristic: lower cycles, deeper frames, higher labels first.  *)
IsNext(c) == \A d \in explorer : Precedes(c, d)

Execute(c) == ~LocalTerminationCriteriaMet /\ IsNext(c) /\ Pop(c)

HandleProgramEntryVertex ==
  \E c \in explorer :
    /\ Execute(c)
    /\ Vertex(c).type = "ENTRY" /\ Graph(c).type = "PROGRAM"
    /\ Return(<<Passed(c)>>)
    /\ UNCHANGED version

HandleFunctionBlockEntryVertex ==
  \E c \in explorer :
    /\ Execute(c)
    /\ Vertex(c).type = "ENTRY" /\ Graph(c).type = "FUNCTION_BLOCK"
    /\ Return(<<Passed(c)>>)
    /\ UNCHANGED version

VisitAssignmentInstruction ==
  \E c \in explorer :
    /\ Execute(c)
    /\ Vertex(c).op = "assign"
    /\ version' = [version EXCEPT ![Assigned(c)] = @ + 1]
    /\ Return(<<AssignConcolic(P, version, c, Assigned(c), Vertex(c).rhs, NextLabel(c))>>)

VisitCallInstruction ==
  \E c \in explorer :
    /\ Execute(c)
    /\ Vertex(c).op = "call"
    /\ Return(<<[Called(c) EXCEPT !.label = Target(Graph(c), c.label, "CALL")]>>)
    /\ UNCHANGED version

(* Executor::tryFork for the branch that the concrete store does not take. *)
Forked(c) == ForkOther(P, Graph(c), c, Vertex(c).cond)

VisitIfInstruction ==
  \E c \in explorer :
    /\ Execute(c)
    /\ Vertex(c).op = "if"
    /\ \E fork \in Forked(c) : Return(<<Follow(Graph(c), c, Vertex(c).cond)>> \o fork)
    /\ UNCHANGED version

(* Solver::makeRandomValue gives the concrete value.                       *)
VisitHavocInstruction ==
  \E c \in explorer :
    /\ Execute(c)
    /\ Vertex(c).op = "havoc"
    /\ version' = [version EXCEPT ![Assigned(c)] = @ + 1]
    /\ \E random \in BOOLEAN :
         Return(<<HavocConcolic(P, version, c, Assigned(c), random, NextLabel(c))>>)

HandleProgramExitVertex ==
  \E c \in explorer :
    /\ Execute(c)
    /\ Vertex(c).type = "EXIT" /\ Graph(c).type = "PROGRAM"
    /\ version' = [x \in DOMAIN version |-> 0]
    /\ \E inputs \in SUBSET WholeProgramInputs(P) : Return(<<NextConcolicCycle(P, c, inputs)>>)

HandleFunctionBlockExitVertex ==
  \E c \in explorer :
    /\ Execute(c)
    /\ Vertex(c).type = "EXIT" /\ Graph(c).type = "FUNCTION_BLOCK"
    /\ Return(<<Returned(c)>>)
    /\ UNCHANGED version

-----------------------------------------------------------------------------
(* The end of the loop body of Engine::step.                               *)

(* Mutant: the test case covers the inputs of the current cycle only.      *)
DeriveLastCycle(c) ==
  testSuite' = testSuite \cup
    {TestCase(c, {<<c.cycle, x>> : x \in {y \in WholeProgramInputs(P) : c.conc[<<y, 0, c.cycle>>]}})}

(* TestSuite::deriveTestCase: version 0 of every input of every cycle, as  *)
(* the concrete store has it.                                              *)
DeriveTestCase(c) ==
  testSuite' = testSuite \cup
    {TestCase(c, {k \in (0 .. c.cycle) \X WholeProgramInputs(P) : c.conc[<<k[2], 0, k[1]>>]})}

(* Explorer::updateCoverage has found a new branch.                        *)
CoversMore == pending # <<>> /\ ~(TakenBy(Head(pending)) \subseteq branches)

Dispatch ==
  /\ DispatchHead(TRUE)
  /\ IF CoversMore THEN DeriveTestCase(Head(pending)) ELSE UNCHANGED testSuite

EngineStep ==
  \/ RunLoop \/ EndOfStep \/ LocalTermination
  \/ BeginMerge \/ MergePair \/ EndMerge
  \/ HandleProgramEntryVertex \/ HandleFunctionBlockEntryVertex
  \/ VisitAssignmentInstruction \/ VisitCallInstruction
  \/ VisitIfInstruction \/ VisitHavocInstruction
  \/ HandleProgramExitVertex \/ HandleFunctionBlockExitVertex
  \/ Dispatch

Next == EngineStep \/ TimeOut \/ Stopped

Spec == Init /\ [][Next]_vars /\ WF_vars(EngineStep)
==========================================================================
