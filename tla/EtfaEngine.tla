--------------------------- MODULE EtfaEngine ----------------------------
(***************************************************************************)
(* The ETFA engine (src/ahorn/src/se/etfa): cycle-bounded symbolic         *)
(* execution of a PLC program that merges contexts at the join points of   *)
(* the control flow, applies function block summaries at calls and derives *)
(* a test case whenever branch coverage grows.                             *)
(*                                                                         *)
(* The engine is one thread.  An action is one pass through the body of    *)
(* one of its loops; `phase` says which loop it is in:                     *)
(*   run        the loop of Engine::run                                    *)
(*   step       the loop of Engine::step                                   *)
(*   merge      the loop of Merger::merge over the contexts of one point   *)
(*   summarize  the loop over the applicable summaries of a call           *)
(*   dispatch   the loop over the succeeding contexts of an execution      *)
(*   done       Engine::run has returned                                   *)
(***************************************************************************)
EXTENDS SymbolicContext

CONSTANTS
  Programs,              \* identifiers of the programs to execute
  Code,                  \* the control-flow graphs of each of them
  TimeOutConfigured      \* whether a time-out was configured

ASSUME TimeOutAssumption == TimeOutConfigured \in BOOLEAN

ASSUME CodeAssumption ==
  \A q \in Programs : /\ WellFormed(Code[q])
                       /\ WellFormedSummaries(Code[q])
                       /\ ReferencesResolve(Code[q])

VARIABLES
  prog,                  \* the program given to Engine::run
  phase,
  cycle,                 \* Engine::_cycle
  explorer,              \* Explorer::_contexts
  merger,                \* Merger::_merge_point_to_contexts
  version,               \* Executor::_flattened_name_to_version
  succeeding,            \* succeeding_cycle_context: empty or a singleton
  held,                  \* the contexts a loop of the merger or executor holds
  todo,                  \* positions of the summaries still to be applied
  pending,               \* the succeeding contexts not dispatched yet
  source,                \* the label they were executed from
  covered,               \* the last label covered along summarized paths
  statements,            \* Explorer::_covered_statements
  branches,              \* Explorer::_covered_branches
  testSuite,             \* TestSuite::_test_cases
  timedOut               \* the time-out has passed

contextVars == <<explorer, merger, version, succeeding, held, pending>>
coverageVars == <<statements, branches, testSuite>>
vars == <<prog, phase, cycle, contextVars, todo, source, covered,
          coverageVars, timedOut>>

P == Code[prog]

-----------------------------------------------------------------------------
(* Merge points and the order in which the engine picks contexts.          *)

MergePoint(c) == <<Scope(c), Depth(c), c.label, ReturnLabel(c)>>

ReachedMergePoint(c) == MergePoint(c) \in DOMAIN merger

MergerIsEmpty == \A m \in DOMAIN merger : merger[m] = <<>>

(* DepthFirstHeuristic: all contexts are of one cycle; deeper frames first,*)
(* then higher labels.  Among equals the heap may return either.           *)
Precedes(c, d) ==
  \/ c.cycle < d.cycle
  \/ /\ c.cycle = d.cycle
     /\ \/ Depth(c) > Depth(d)
        \/ Depth(c) = Depth(d) /\ c.label >= d.label

CanPop(c) == c \in explorer /\ \A d \in explorer : Precedes(c, d)

(* Mutant: of two labels the higher one is merged first.                   *)
EligibleHighestLabel(m) ==
  /\ merger[m] # <<>>
  /\ \A k \in DOMAIN merger :
       merger[k] # <<>> =>
         \/ m[2] > k[2]
         \/ m[2] = k[2] /\ m[4] < k[4]
         \/ m[2] = k[2] /\ m[4] = k[4] /\ m[3] >= k[3]

(* Merger::merge: the deepest merge point, of those the one with the lowest*)
(* return label, of those the one with the lowest label.                   *)
Eligible(m) ==
  /\ merger[m] # <<>>
  /\ \A k \in DOMAIN merger :
       merger[k] # <<>> =>
         \/ m[2] > k[2]
         \/ m[2] = k[2] /\ m[4] < k[4]
         \/ m[2] = k[2] /\ m[4] = k[4] /\ m[3] <= k[3]

-----------------------------------------------------------------------------
(* Coverage, termination criteria and test cases.                          *)

(* Mutant: EPSILON is 0.5.                                                 *)
NearlyHalf(done, all) == 2 * Cardinality(all \ done) <= Cardinality(all)

(* |1 - coverage| <= EPSILON with EPSILON = 0.0001.                        *)
NearlyAll(done, all) == 10000 * Cardinality(all \ done) <= Cardinality(all)

(* Engine::isTerminationCriteriaMet.  Without branches the branch coverage *)
(* is 0/0 and no comparison with it holds, so only statements count here.  *)
CoverageMet ==
  NearlyAll(statements, Statements(P)) /\ NearlyAll(branches, Branches(P))

(* Mutant: the cycle bound is compared with > instead of >=.               *)
TerminationCriteriaMetLate == timedOut \/ cycle > CycleBound \/ CoverageMet

TerminationCriteriaMet == timedOut \/ cycle >= CycleBound \/ CoverageMet

(* Engine::isLocalTerminationCriteriaMet.  Here the undefined quotient     *)
(* makes the criterion false.                                              *)
LocalTerminationCriteriaMet ==
  timedOut \/ (CoverageMet /\ Branches(P) # {})

(* TestSuite::deriveTestCase: the inputs of a model of the context, up to  *)
(* the context's cycle.  Any model may be returned; a test case that is    *)
(* already in the suite is not added again.                                *)
TestCase(c, w) ==
  [cycles |-> 0 .. c.cycle, inputs |-> {k \in w : k[1] <= c.cycle}]

(* Mutant: the path constraint is not given to the solver.                 *)
DeriveUnconstrainedTestCase(c) ==
  \E w \in Worlds(P) : testSuite' = testSuite \cup {TestCase(c, w)}

DeriveTestCase(c) ==
  \E w \in PathWorlds(P, c) : testSuite' = testSuite \cup {TestCase(c, w)}

-----------------------------------------------------------------------------
(* Engine::initialize, which clears all that an earlier run left but the   *)
(* test suite.                                                             *)
Init ==
  /\ prog \in Programs
  /\ phase = "run"
  /\ cycle = 0
  /\ explorer = {InitialContext(P)}
  /\ merger = [m \in MergePoints(P) |-> <<>>]
  /\ version = [x \in FlattenedInterface(P) |-> 0]
  /\ succeeding = {}
  /\ held = <<>>
  /\ todo = {}
  /\ pending = <<>>
  /\ source = MainCfg(P).entry
  /\ covered = MainCfg(P).entry
  /\ statements = {}
  /\ branches = {}
  /\ testSuite = {}
  /\ timedOut = FALSE

(* The clock passes the time-out.                                          *)
TimeOut ==
  /\ TimeOutConfigured /\ ~timedOut /\ phase # "done"
  /\ timedOut' = TRUE
  /\ UNCHANGED <<prog, phase, cycle, contextVars, todo, source, covered, coverageVars>>

(* Mutant: the loop of Engine::run is not left.                            *)
RunLoopForever ==
  /\ phase = "run"
  /\ phase' = IF TerminationCriteriaMet THEN "run" ELSE "step"
  /\ UNCHANGED <<prog, cycle, contextVars, todo, source, covered, coverageVars, timedOut>>

(* The loop condition of Engine::run.                                      *)
RunLoop ==
  /\ phase = "run"
  /\ phase' = IF TerminationCriteriaMet THEN "done" ELSE "step"
  /\ UNCHANGED <<prog, cycle, contextVars, todo, source, covered, coverageVars, timedOut>>

(* Engine::step has run dry: Engine::run moves on to the next cycle with   *)
(* the one context that crossed the program exit.                          *)
EndOfStep ==
  /\ phase = "step"
  /\ explorer = {} /\ MergerIsEmpty
  /\ succeeding # {}
  /\ phase' = "run"
  /\ cycle' = cycle + 1
  /\ explorer' = succeeding
  /\ succeeding' = {}
  /\ UNCHANGED <<prog, merger, version, held, pending, todo, source, covered,
                 coverageVars, timedOut>>

(* Local termination, checked only when a context of the program itself is *)
(* popped; Engine::run breaks out of its loop.                             *)
LocalTermination ==
  /\ phase = "step"
  /\ LocalTerminationCriteriaMet
  /\ \E c \in explorer :
       /\ CanPop(c)
       /\ CfgOf(P, Scope(c)).type = "PROGRAM"
       /\ explorer' = explorer \ {c}
  /\ phase' = "done"
  /\ UNCHANGED <<prog, cycle, merger, version, succeeding, held, pending, todo,
                 source, covered, coverageVars, timedOut>>

-----------------------------------------------------------------------------
(* Merging.                                                                *)

BeginMerge ==
  /\ phase = "step"
  /\ explorer = {}
  /\ \E m \in DOMAIN merger :
       /\ Eligible(m)
       /\ held' = merger[m]
       /\ merger' = [merger EXCEPT ![m] = <<>>]
  /\ phase' = "merge"
  /\ UNCHANGED <<prog, cycle, explorer, version, succeeding, pending, todo,
                 source, covered, coverageVars, timedOut>>

(* Mutant: the executor is not told of the merged versions.                *)
MergePairLocally ==
  /\ phase = "merge"
  /\ Len(held) > 1
  /\ held' = <<Merge(P, version, held[1], held[2])>> \o SubSeq(held, 3, Len(held))
  /\ UNCHANGED <<prog, phase, cycle, explorer, merger, version, succeeding, pending,
                 todo, source, covered, coverageVars, timedOut>>

MergePair ==
  /\ phase = "merge"
  /\ Len(held) > 1
  /\ held' = <<Merge(P, version, held[1], held[2])>> \o SubSeq(held, 3, Len(held))
  /\ version' = [x \in DOMAIN version |->
                   IF x \in VersionsDiffer(held[1], held[2])
                   THEN version[x] + 1 ELSE version[x]]
  /\ UNCHANGED <<prog, phase, cycle, explorer, merger, succeeding, pending, todo,
                 source, covered, coverageVars, timedOut>>

EndMerge ==
  /\ phase = "merge"
  /\ Len(held) = 1
  /\ explorer' = {held[1]}
  /\ held' = <<>>
  /\ phase' = "step"
  /\ UNCHANGED <<prog, cycle, merger, version, succeeding, pending, todo,
                 source, covered, coverageVars, timedOut>>

-----------------------------------------------------------------------------
(* Executor::execute.                                                      *)

Vertex(c) == CfgOf(P, Scope(c)).vertices[c.label]

(* The engine pops a context and hands it to the executor.                 *)
Pop(c) ==
  /\ phase = "step"
  /\ CanPop(c)
  /\ ~(CfgOf(P, Scope(c)).type = "PROGRAM" /\ LocalTerminationCriteriaMet)
  /\ explorer' = explorer \ {c}
  /\ source' = c.label
  /\ UNCHANGED <<prog, cycle, merger, succeeding, coverageVars, timedOut>>

(* The executor returns these contexts.                                    *)
Return(contexts) ==
  /\ pending' = contexts
  /\ phase' = "dispatch"
  /\ UNCHANGED <<held, todo, covered>>

(* handleProgramEntryVertex, handleFunctionBlockEntryVertex and            *)
(* handleIntermediateDecisionVertex only follow the one outgoing edge.     *)
HandlePassThroughVertex ==
  \E c \in explorer :
    /\ Pop(c)
    /\ Vertex(c).type = "ENTRY" \/ (Vertex(c).type = "REGULAR" /\ Vertex(c).op = "none")
    /\ Return(<<[c EXCEPT !.label = SucceedingLabel(CfgOf(P, Scope(c)), c.label)]>>)
    /\ UNCHANGED version

VisitAssignmentInstruction ==
  \E c \in explorer :
    /\ Pop(c)
    /\ Vertex(c).op = "assign"
    /\ LET x == Flatten(Scope(c), Vertex(c).var)
       IN  /\ version' = [version EXCEPT ![x] = @ + 1]
           /\ Return(<<Assign(P, version, c, x, Vertex(c).rhs,
                        Target(CfgOf(P, Scope(c)), c.label, "INTRAPROCEDURAL"))>>)

(* The false branch is not checked when the true branch is unsatisfiable.  *)
VisitIfInstruction ==
  \E c \in explorer :
    /\ Pop(c)
    /\ Vertex(c).op = "if"
    /\ LET cond == Encode(c, Vertex(c).cond)
           holds == WorldsOf(P, c.val, cond)
           Branch(sign, type) ==
             [c EXCEPT !.label = Target(CfgOf(P, Scope(c)), c.label, type),
                       !.pc = PushPathConstraint(@, <<cond, sign>>)]
           positive == Branch(TRUE, "TRUE_BRANCH")
           negative == Branch(FALSE, "FALSE_BRANCH")
       IN  \/ /\ PathWorlds(P, c) \cap holds = {}
              /\ Return(<<negative>>)
           \/ /\ PathWorlds(P, c) \cap holds # {}
              /\ PathWorlds(P, c) \subseteq holds
              /\ Return(<<positive>>)
           \/ /\ PathWorlds(P, c) \cap holds # {}
              /\ ~(PathWorlds(P, c) \subseteq holds)
              /\ Return(<<positive, negative>>)
    /\ UNCHANGED version

(* The callee frame is pushed before the applicable summaries are looked   *)
(* up; without one the callee is executed.                                 *)
VisitCallInstruction ==
  \E c \in explorer :
    /\ Pop(c)
    /\ Vertex(c).op = "call"
    /\ LET g == CfgOf(P, Scope(c))
           frame == [scope |-> Append(Scope(c), Vertex(c).instance),
                     ret |-> Target(g, c.label, "CALL_TO_RETURN")]
           callee == [c EXCEPT !.stack = Append(@, frame)]
           applicable == FindApplicableSummaries(P, callee)
       IN  \/ /\ applicable = {}
              /\ Return(<<[callee EXCEPT !.label = Target(g, c.label, "CALL")]>>)
           \/ /\ applicable # {}
              /\ held' = <<callee>>
              /\ todo' = applicable
              /\ covered' = c.label
              /\ phase' = "summarize"
              /\ UNCHANGED pending
    /\ UNCHANGED version

(* One pass of the loop over the applicable summaries, in their order:     *)
(* clone the context, apply the summary, cover the labels of its path,     *)
(* return to the caller.                                                   *)
ApplyNextSummary ==
  /\ phase = "summarize"
  /\ \E k \in todo :
       /\ \A j \in todo : k <= j
       /\ LET c == held[1]
              s == SummariesAt(P, c)[k]
              applied == ApplySummary(P, version, c, s)
              path == <<covered>> \o s.literals
              taken == UNION {BranchesTaken(CfgOf(P, Scope(c)), path[i], path[i + 1]) :
                                i \in 1 .. Len(s.literals)}
          IN  /\ pending' = Append(pending,
                              [applied EXCEPT !.label = ReturnLabel(c),
                                              !.stack = SubSeq(@, 1, Len(@) - 1)])
              /\ version' = [x \in DOMAIN version |->
                               IF x \in WrittenVariables(s) THEN applied.ver[x]
                                                            ELSE version[x]]
              /\ statements' = statements \cup {path[i] : i \in DOMAIN path}
              /\ branches' = branches \cup taken
              /\ IF taken \subseteq branches
                 THEN UNCHANGED testSuite
                 ELSE DeriveTestCase(applied)
              /\ covered' = path[Len(path)]
       /\ todo' = todo \ {k}
       /\ phase' = IF todo = {k} THEN "dispatch" ELSE phase
       /\ held' = IF todo = {k} THEN <<>> ELSE held
  /\ UNCHANGED <<prog, cycle, explorer, merger, succeeding, source, timedOut>>

(* Versions start over, globally and in the context.                       *)
HandleProgramExitVertex ==
  \E c \in explorer :
    /\ Pop(c)
    /\ Vertex(c).type = "EXIT"
    /\ CfgOf(P, Scope(c)).type = "PROGRAM"
    /\ version' = [x \in DOMAIN version |-> 0]
    /\ Return(<<NextCycle(P, c)>>)

HandleFunctionBlockExitVertex ==
  \E c \in explorer :
    /\ Pop(c)
    /\ Vertex(c).type = "EXIT"
    /\ CfgOf(P, Scope(c)).type = "FUNCTION_BLOCK"
    /\ Return(<<[c EXCEPT !.label = ReturnLabel(c),
                          !.stack = SubSeq(@, 1, Len(@) - 1)]>>)
    /\ UNCHANGED version

-----------------------------------------------------------------------------
(* One pass of the loop of Engine::step over the succeeding contexts:      *)
(* coverage, test case, then the merger, the explorer or the next cycle.   *)
Dispatch ==
  /\ phase = "dispatch"
  /\ pending # <<>>
  /\ LET c == Head(pending)
         taken == BranchesTaken(CfgOf(P, Scope(c)), source, c.label)
     IN  /\ statements' = statements \cup {source}
         /\ branches' = branches \cup taken
         /\ IF taken \subseteq branches
            THEN UNCHANGED testSuite
            ELSE DeriveTestCase(c)
         /\ \/ /\ c.cycle = cycle /\ ReachedMergePoint(c)
               /\ merger' = [merger EXCEPT ![MergePoint(c)] = Append(@, c)]
               /\ UNCHANGED <<explorer, succeeding>>
            \/ /\ c.cycle = cycle /\ ~ReachedMergePoint(c)
               /\ explorer' = explorer \cup {c}
               /\ UNCHANGED <<merger, succeeding>>
            \/ /\ c.cycle # cycle
               /\ succeeding' = {c}
               /\ UNCHANGED <<explorer, merger>>
  /\ pending' = Tail(pending)
  /\ phase' = IF Tail(pending) = <<>> THEN "step" ELSE phase
  /\ UNCHANGED <<prog, cycle, version, held, todo, source, covered, timedOut>>

(* Engine::run has returned.                                               *)
Done == phase = "done" /\ UNCHANGED vars

EngineStep ==
  \/ RunLoop \/ EndOfStep \/ LocalTermination
  \/ BeginMerge \/ MergePair \/ EndMerge
  \/ HandlePassThroughVertex \/ VisitAssignmentInstruction
  \/ VisitIfInstruction \/ VisitCallInstruction \/ ApplyNextSummary
  \/ HandleProgramExitVertex \/ HandleFunctionBlockExitVertex
  \/ Dispatch

Next == EngineStep \/ TimeOut \/ Done

Spec == Init /\ [][Next]_vars /\ WF_vars(EngineStep)

-----------------------------------------------------------------------------
(* Properties that need no reference execution.                            *)

InMerger == UNION {RangeOf(merger[m]) : m \in DOMAIN merger}

(* Every context that the engine still holds.                              *)
Live == explorer \cup InMerger \cup RangeOf(held) \cup RangeOf(pending) \cup succeeding

Phases == {"run", "step", "merge", "summarize", "dispatch", "done"}

(* The types of the engine's own state and the frames of its contexts.     *)
TypeOK ==
  /\ prog \in Programs
  /\ phase \in Phases
  /\ cycle \in 0 .. CycleBound
  /\ version \in [FlattenedInterface(P) -> Nat]
  /\ DOMAIN merger = MergePoints(P)
  /\ statements \subseteq Statements(P)
  /\ branches \subseteq Branches(P)
  /\ timedOut \in BOOLEAN
  /\ \A c \in Live :
       /\ c.stack # <<>>
       /\ c.stack[1] = [scope |-> MainScope(P), ret |-> MainCfg(P).entry]
       /\ c.cycle \in {cycle, cycle + 1}
       /\ c.ver \in [FlattenedInterface(P) -> Nat]

(* When the program exit is executed there is no other context left: all   *)
(* paths of the cycle were merged into this one, and nothing of the old    *)
(* cycle is left once it has crossed the exit.  Engine::step keeps a single*)
(* succeeding_cycle_context, so a second one would be overwritten and its  *)
(* paths lost; and the versions that the exit resets are global.           *)
SoleContextAtProgramExit ==
  /\ \A c \in explorer :
       (Depth(c) = 1 /\ c.label = MainCfg(P).exit) => (explorer = {c} /\ MergerIsEmpty)
  /\ succeeding # {} =>
       (explorer = {} /\ MergerIsEmpty /\ held = <<>> /\ pending = <<>>)

(* No name of a live context is newer than the executor's global version,  *)
(* so the version after it is fresh in every one of them: no write of one  *)
(* context collides with a name another context will bring to a merge.  A  *)
(* context that has crossed the exit meets versions that have started over.*)
VersionsAreFresh ==
  \A c \in Live : \A n \in DOMAIN c.val :
    n[3] <= c.cycle /\ (n[3] = c.cycle => n[2] <= version[n[1]])

(* The assertion of Merger::merge: a name that two contexts both know has  *)
(* one meaning.  The code's comment there doubts it for contexts that come *)
(* from different summaries of one call.                                   *)
NamesAgree ==
  \A c, d \in Live : \A n \in DOMAIN c.val \cap DOMAIN d.val : c.val[n] = d.val[n]

(* The comment in Engine::initialize of the summarization: one summary of a*)
(* function block serves all its call locations.  Applying one therefore   *)
(* writes variables of the called instance only.                           *)
OneSummaryServesAllCalls ==
  [][phase = "summarize" =>
       \A x \in DOMAIN version : version'[x] # version[x] => x[1] = Scope(held[1])]_vars

(* The engine terminates, whatever contexts and models it meets.           *)
Termination == <>(phase = "done")
==========================================================================
