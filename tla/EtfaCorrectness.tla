------------------------- MODULE EtfaCorrectness -------------------------
(***************************************************************************)
(* What the ETFA engine promises about the program it executes: its live   *)
(* contexts stand for exactly the concrete runs of the program, and its    *)
(* coverage and test suite are those of concrete runs.                     *)
(***************************************************************************)
EXTENDS EtfaEngine, Simulation

(* The concrete run of every program in every world, by position.          *)
Trace == Tabulated([q \in Programs |-> RunsOf(Code[q])])

(* Where the program starts cycle n.                                       *)
CycleStart(n) == <<n, MainCfg(P).entry,
                   <<[scope |-> MainScope(P), ret |-> MainCfg(P).entry]>> >>

(* The branches taken in the cycles before cycle n.                        *)
TakenBefore(w, n) == Trace[prog][w][CycleStart(n)].taken

(* The context c is where the concrete run of w is and its store holds the *)
(* values of that run.                                                     *)
Simulates(c, w) ==
  /\ Position(c) \in DOMAIN Trace[prog][w]
  /\ LET env == Trace[prog][w][Position(c)].env
     IN  \A x \in DOMAIN c.ver : (w \in CurrentValue(c, x).worlds) = env[x]

-----------------------------------------------------------------------------

(* Every live context is a faithful symbolic state: in every model of its  *)
(* path constraint the concrete run reaches its vertex with its call stack *)
(* and its store.  Assignment, fork, merge, summary application and the    *)
(* change of cycle must all keep this.  (The context a call is applying    *)
(* summaries to is between two vertices and is left out.)                  *)
ContextsSimulateRuns ==
  \A c \in IF phase = "summarize" THEN Live \ RangeOf(held) ELSE Live :
    \A w \in PathWorlds(P, c) : Simulates(c, w)

(* No run is lost and none is followed twice: forks, merges and applied    *)
(* summaries split the worlds among the live contexts.                     *)
ContextsPartitionWorlds ==
  phase \notin {"summarize", "done"} =>
    /\ UNION {PathWorlds(P, c) : c \in Live} = Worlds(P)
    /\ \A c, d \in Live : c # d => PathWorlds(P, c) \cap PathWorlds(P, d) = {}

(* Every covered branch is taken by the simulation of some test case       *)
(* within the cycles of that test case: what Engine::run reports as        *)
(* branch-covering test cases covers the branches it reports.              *)
SuiteCoversBranches ==
  \A b \in branches : \E t \in testSuite :
    b \in TakenBefore(t.inputs, Cardinality(t.cycles))

(* A run of the engine that no time-out cut short has covered every branch *)
(* that some concrete run takes within the cycle bound.                    *)
CoverageIsComplete ==
  (phase = "done" /\ ~timedOut) =>
    \A w \in Worlds(P) : TakenBefore(w, CycleBound) \subseteq branches

(* The comment in Executor::handleProgramExitVertex: the path constraint   *)
(* can be cleared because it is embedded in the ite-expressions, that is,  *)
(* the context that starts the next cycle stands for every run.            *)
PathConstraintIsEmbedded ==
  \A c \in succeeding : \A w \in Worlds(P) : Simulates(c, w)

(* The assertion of Merger::merge that the two call stacks are the same in *)
(* every frame: the merged context returns where both would have returned. *)
MergedStacksAgree ==
  phase = "merge" => \A c, d \in RangeOf(held) : c.stack = d.stack

-----------------------------------------------------------------------------
(* The engine implements ScanCycle: the configuration of the run of a      *)
(* world is the one that the live context with this world in its path      *)
(* constraint stands for.                                                  *)

(* While summaries are applied, the held context is in the callee's frame  *)
(* but has not left the call; the runs without a summary yet wait there.   *)
Waiting(c) ==
  IF phase = "summarize" /\ c \in RangeOf(held)
  THEN [c EXCEPT !.stack = SubSeq(@, 1, Len(@) - 1)] ELSE c

(* The run of w satisfies the path constraint of c.                        *)
Satisfies(c, w) == \E cube \in c.pc : \A lit \in cube : w \in Literal(P, c.val, lit)

(* The contexts that stand for the run of w.  Behind a call, the contexts  *)
(* that have returned are ahead of the held one, which waits for the rest. *)
ContextsOf(w) ==
  {c \in Live :
     /\ Satisfies(c, w)
     /\ (phase = "summarize" /\ c \in RangeOf(held)) =>
          \A d \in RangeOf(pending) : ~Satisfies(d, w)}

(* The configuration that c stands for in w, with the values of its store. *)
Configuration(c, w) ==
  CHOOSE k \in
    {IF position \in DOMAIN run
     THEN [run[position] EXCEPT
             !.env = [x \in DOMAIN c.ver |-> w \in CurrentValue(c, x).worlds]]
     ELSE [lost |-> w]
       : run \in {Trace[prog][w]}, position \in {Position(Waiting(c))}} : TRUE

RunsAt ==
  IF phase = "done" THEN <<>>
  ELSE Tabulated([w \in Worlds(P) |->
         CHOOSE k \in {IF found = {} THEN [lost |-> w] ELSE Configuration(CHOOSE c \in found : TRUE, w)
                         : found \in {ContextsOf(w)}} : TRUE])

Abstract ==
  INSTANCE ScanCycle WITH program <- prog, at <- RunsAt, covered <- branches,
                          interrupted <- timedOut

(* Every step of the engine is a step of the runs that it stands for: no   *)
(* run is dropped, forked twice, moved past a vertex or through the end of *)
(* the cycle on its own, and the engine does not stop before it may.       *)
ImplementsScanCycle == Abstract!Spec
==========================================================================
