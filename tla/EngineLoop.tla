---------------------------- MODULE EngineLoop ---------------------------
(***************************************************************************)
(* The exploration loop that the engines of src/ahorn/src/se have in       *)
(* common: contexts are popped from a priority queue, executed, counted for*)
(* coverage and put back, or wait at a merge point until the queue is      *)
(* empty.  Each engine has its own copy of this code and defines its own   *)
(* actions over the operators below; the state machine is that of          *)
(* EtfaEngine, and so are the phases:                                      *)
(*   run        the loop of Engine::run                                    *)
(*   step       the loop of Engine::step                                   *)
(*   merge      the loop of Merger::merge over the contexts of one point   *)
(*   summarize  the loop over the applicable summaries of a call           *)
(*   dispatch   the loop over the succeeding contexts of an execution      *)
(*   done       Engine::run has returned                                   *)
(*   aborted    an exception has left Engine::run                          *)
(***************************************************************************)
EXTENDS ConcolicContext

CONSTANTS
  Programs,              \* identifiers of the programs to execute
  Code,                  \* the control-flow graphs of each of them
  TimeOutConfigured      \* whether a time-out was configured

ASSUME EngineTimeOutAssumption == TimeOutConfigured \in BOOLEAN

ASSUME EngineCodeAssumption ==
  \A q \in Programs : /\ WellFormed(Code[q])
                       /\ WellFormedSummaries(Code[q])
                       /\ ReferencesResolve(Code[q])

VARIABLES
  prog,                  \* the program given to Engine::run
  phase,
  cycle,                 \* Engine::_cycle
  explorer,              \* Explorer::_contexts
  merger,                \* Merger::_merge_point_to_contexts
  version,               \* Executor::_flattened_name_to_version
  succeeding,            \* the contexts that have crossed the program exit
  held,                  \* the contexts a loop of the merger or executor holds
  todo,                  \* positions of the summaries still to be applied
  pending,               \* the succeeding contexts not dispatched yet
  source,                \* the label they were executed from
  covered,               \* the last label covered along summarized paths
  statements,            \* Explorer::_covered_statements
  branches,              \* Explorer::_covered_branches
  testSuite,             \* TestSuite::_test_cases
  timedOut               \* the time-out has passed

contextVars == <<explorer, merger, version, succeeding, held, pending>>
coverageVars == <<statements, branches, testSuite>>
vars == <<prog, phase, cycle, contextVars, todo, source, covered, coverageVars, timedOut>>

P == Code[prog]

-----------------------------------------------------------------------------
(* The queue and the merge points.                                         *)

MergePoint(c) == <<Scope(c), Depth(c), c.label, ReturnLabel(c)>>

(* Merger::reachedMergePoint and Merger::isEmpty.                          *)
ReachedMergePoint(c) == MergePoint(c) \in DOMAIN merger

MergerIsEmpty == \A m \in DOMAIN merger : merger[m] = <<>>

(* DepthFirstHeuristic: deeper frames first, then higher labels.           *)
Precedes(c, d) ==
  \/ c.cycle < d.cycle
  \/ /\ c.cycle = d.cycle
     /\ \/ Depth(c) > Depth(d)
        \/ Depth(c) = Depth(d) /\ c.label >= d.label

(* Explorer::pop.                                                          *)
CanPop(c) == c \in explorer /\ \A d \in explorer : Precedes(c, d)

(* Merger::merge: the deepest merge point, of those the one with the lowest*)
(* return label, of those the one with the lowest label.                   *)
Eligible(m) ==
  /\ merger[m] # <<>>
  /\ \A k \in DOMAIN merger :
       merger[k] # <<>> =>
         \/ m[2] > k[2]
         \/ m[2] = k[2] /\ m[4] < k[4]
         \/ m[2] = k[2] /\ m[4] = k[4] /\ m[3] <= k[3]

(* Merger::initialize: the queues of the merge points are empty.           *)
NoMerges == [m \in MergePoints(P) |-> <<>>]

(* The state before the first step, with the given initial context.        *)
InitWith(c) ==
  /\ phase = "run"
  /\ cycle = 0
  /\ explorer = {c}
  /\ version = [x \in FlattenedInterface(P) |-> 0]
  /\ succeeding = {}
  /\ held = <<>>
  /\ todo = {}
  /\ pending = <<>>
  /\ source = MainCfg(P).entry
  /\ covered = MainCfg(P).entry
  /\ testSuite = {}
  /\ timedOut = FALSE

-----------------------------------------------------------------------------
(* Termination criteria.                                                   *)

(* |1 - coverage| <= 1 / precision.  Without branches the branch coverage  *)
(* is 0/0 and no comparison with it holds.                                 *)
Nearly(done, all, precision) == precision * Cardinality(all \ done) <= Cardinality(all)

CoverageMet(precision) ==
  /\ Nearly(statements, Statements(P), precision)
  /\ Nearly(branches, Branches(P), precision)

(* Engine::isTerminationCriteriaMet.                                       *)
CriteriaMet(precision) == timedOut \/ cycle >= CycleBound \/ CoverageMet(precision)

(* Engine::isLocalTerminationCriteriaMet.                                  *)
LocalCriteriaMet(precision) ==
  timedOut \/ (CoverageMet(precision) /\ Branches(P) # {})

(* The clock passes the time-out.                                          *)
PassTimeOut ==
  /\ TimeOutConfigured /\ ~timedOut /\ phase \notin {"done", "aborted"}
  /\ timedOut' = TRUE
  /\ UNCHANGED <<prog, phase, cycle, contextVars, todo, source, covered, coverageVars>>

(* Mutant: the loop of Engine::run is not left.                            *)
RunLoopRegardless(met) ==
  /\ phase = "run"
  /\ phase' = IF met THEN "run" ELSE "step"
  /\ UNCHANGED <<prog, cycle, contextVars, todo, source, covered, coverageVars, timedOut>>

(* The loop condition of Engine::run.                                      *)
RunLoopUnless(met) ==
  /\ phase = "run"
  /\ phase' = IF met THEN "done" ELSE "step"
  /\ UNCHANGED <<prog, cycle, contextVars, todo, source, covered, coverageVars, timedOut>>

(* Engine::step has run dry.                                               *)
FinishStep ==
  /\ phase = "step"
  /\ explorer = {} /\ MergerIsEmpty
  /\ phase' = "run"
  /\ cycle' = cycle + 1
  /\ explorer' = succeeding
  /\ succeeding' = {}
  /\ UNCHANGED <<prog, merger, version, held, pending, todo, source, covered,
                 coverageVars, timedOut>>

(* Engine::run leaves its loop.                                            *)
Leave(next) ==
  /\ phase' = next
  /\ UNCHANGED <<prog, cycle, merger, version, succeeding, held, pending, todo, source,
                 covered, coverageVars, timedOut>>

-----------------------------------------------------------------------------
(* Merging.                                                                *)

StartMerge ==
  /\ phase = "step"
  /\ explorer = {}
  /\ \E m \in DOMAIN merger :
       /\ Eligible(m)
       /\ held' = merger[m]
       /\ merger' = [merger EXCEPT ![m] = <<>>]
  /\ phase' = "merge"
  /\ UNCHANGED <<prog, cycle, explorer, version, succeeding, pending, todo, source,
                 covered, coverageVars, timedOut>>

(* Mutant: the global versions do not learn of the merged names.           *)
MergeFirstTwoLocally(merged) ==
  /\ phase = "merge"
  /\ Len(held) > 1
  /\ held' = <<merged>> \o SubSeq(held, 3, Len(held))
  /\ UNCHANGED <<prog, phase, cycle, explorer, merger, version, succeeding, pending, todo,
                 source, covered, coverageVars, timedOut>>

(* One pass of the loop of Merger::merge, given the join of the first two. *)
MergeFirstTwo(merged) ==
  /\ phase = "merge"
  /\ Len(held) > 1
  /\ held' = <<merged>> \o SubSeq(held, 3, Len(held))
  /\ version' = [x \in DOMAIN version |->
                   IF x \in VersionsDiffer(held[1], held[2])
                   THEN version[x] + 1 ELSE version[x]]
  /\ UNCHANGED <<prog, phase, cycle, explorer, merger, succeeding, pending, todo, source,
                 covered, coverageVars, timedOut>>

FinishMerge ==
  /\ phase = "merge"
  /\ Len(held) = 1
  /\ explorer' = {held[1]}
  /\ held' = <<>>
  /\ phase' = "step"
  /\ UNCHANGED <<prog, cycle, merger, version, succeeding, pending, todo, source, covered,
                 coverageVars, timedOut>>

-----------------------------------------------------------------------------
(* Executing one context.                                                  *)

Graph(c) == CfgOf(P, Scope(c))

Vertex(c) == Graph(c).vertices[c.label]

(* The engine pops a context and hands it to the executor.                 *)
Pop(c) ==
  /\ phase = "step"
  /\ CanPop(c)
  /\ explorer' = explorer \ {c}
  /\ source' = c.label
  /\ UNCHANGED <<prog, cycle, merger, succeeding, coverageVars, timedOut>>

(* The executor returns these contexts.                                    *)
Return(contexts) ==
  /\ pending' = contexts
  /\ phase' = "dispatch"
  /\ UNCHANGED <<held, todo, covered>>

(* Follows the one outgoing edge of the vertex.                            *)
Passed(c) == [c EXCEPT !.label = SucceedingLabel(Graph(c), c.label)]

(* The context after its function block has returned.                      *)
Returned(c) == [c EXCEPT !.label = ReturnLabel(c), !.stack = SubSeq(@, 1, Len(@) - 1)]

(* The context with the frame of the function block it calls.              *)
Called(c) ==
  [c EXCEPT !.stack = Append(@, [scope |-> Append(Scope(c), Vertex(c).instance),
                                 ret |-> Target(Graph(c), c.label, "CALL_TO_RETURN")])]

Assigned(c) == Flatten(Scope(c), Vertex(c).var)

NextLabel(c) == Target(Graph(c), c.label, "INTRAPROCEDURAL")

-----------------------------------------------------------------------------
(* The loop over the succeeding contexts.                                  *)

(* Explorer::updateCoverage: the branches that the step from source to the *)
(* context c takes.                                                        *)
TakenBy(c) == BranchesTaken(Graph(c), source, c.label)

(* Covers the first succeeding context and hands it to the merger, to the  *)
(* explorer or to the next cycle.  Without merging every context that      *)
(* crosses the program exit is kept, with merging the last one.            *)
DispatchHead(merging) ==
  /\ phase = "dispatch"
  /\ pending # <<>>
  /\ LET c == Head(pending)
     IN  /\ statements' = statements \cup {source}
         /\ branches' = branches \cup TakenBy(c)
         /\ \/ /\ c.cycle = cycle /\ merging /\ ReachedMergePoint(c)
               /\ merger' = [merger EXCEPT ![MergePoint(c)] = Append(@, c)]
               /\ UNCHANGED <<explorer, succeeding>>
            \/ /\ c.cycle = cycle /\ ~(merging /\ ReachedMergePoint(c))
               /\ explorer' = explorer \cup {c}
               /\ UNCHANGED <<merger, succeeding>>
            \/ /\ c.cycle # cycle
               /\ succeeding' = IF merging THEN {c} ELSE succeeding \cup {c}
               /\ UNCHANGED <<explorer, merger>>
  /\ pending' = Tail(pending)
  /\ phase' = IF Tail(pending) = <<>> THEN "step" ELSE phase
  /\ UNCHANGED <<prog, cycle, version, held, todo, source, covered, timedOut>>

(* TestSuite::deriveTestCase: the inputs of a model of the context, up to  *)
(* the context's cycle.                                                    *)
TestCase(c, w) ==
  [cycles |-> 0 .. c.cycle,
   inputs |-> {k \in w : k[1] <= c.cycle /\ k[2] \in WholeProgramInputs(P)}]

-----------------------------------------------------------------------------
(* State functions for the properties.                                     *)

InMerger == UNION {RangeOf(merger[m]) : m \in DOMAIN merger}

(* Every context that the engine still holds.                              *)
Live == explorer \cup InMerger \cup RangeOf(held) \cup RangeOf(pending) \cup succeeding

Stopped == phase \in {"done", "aborted"} /\ UNCHANGED vars
==========================================================================
