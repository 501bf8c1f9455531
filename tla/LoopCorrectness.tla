------------------------- MODULE LoopCorrectness -------------------------
(***************************************************************************)
(* The engines that share the exploration loop, side by side, and what they*)
(* promise about the program they execute, stated against its concrete     *)
(* runs.  A run executes one program with one of them, its engine:         *)
(*   ahorn      src/ahorn/src/se/ahorn                                     *)
(*   merging    src/ahorn/src/se/etfa-no-merge                             *)
(*   paths      the same with --no-merge                                   *)
(*   oa         src/ahorn/src/se/oa, given open programs                   *)
(***************************************************************************)
EXTENDS EngineLoop, Simulation

CONSTANTS
  EngineOf,              \* the engine that each program is given to
  UnreachableLabels,     \* Configuration::_unreachable_labels, per program
  UnreachableBranches,   \* Configuration::_unreachable_branches, per program
  Alphabet               \* the names of all variables in alphabetical order

ASSUME AlphabetAssumption ==
  /\ \A i, j \in DOMAIN Alphabet : Alphabet[i] = Alphabet[j] => i = j
  /\ \A q \in Programs : \A f \in DOMAIN Code[q].cfgs :
       Code[q].cfgs[f].vars \subseteq RangeOf(Alphabet)

Ahorn   == INSTANCE AhornEngine
Merging == INSTANCE ConcolicEngine WITH MergeBased <- TRUE
Paths   == INSTANCE ConcolicEngine WITH MergeBased <- FALSE
Oa      == INSTANCE OaEngine

Given(engine) == EngineOf[prog] = engine

Init ==
  \/ Ahorn!Init   /\ Given("ahorn")
  \/ Merging!Init /\ Given("merging")
  \/ Paths!Init   /\ Given("paths")
  \/ Oa!Init      /\ Given("oa")

EngineStep ==
  \/ Given("ahorn")   /\ Ahorn!EngineStep
  \/ Given("merging") /\ Merging!EngineStep
  \/ Given("paths")   /\ Paths!EngineStep
  \/ Given("oa")      /\ Oa!EngineStep

Next ==
  \/ Given("ahorn")   /\ Ahorn!Next
  \/ Given("merging") /\ Merging!Next
  \/ Given("paths")   /\ Paths!Next
  \/ Given("oa")      /\ Oa!Next

(* Every engine steps as long as it can.                                   *)
Spec == Init /\ [][Next]_vars /\ WF_vars(EngineStep)

-----------------------------------------------------------------------------

(* The concrete run of every program in every world, by position.          *)
Trace == Tabulated([q \in Programs |-> RunsOf(Code[q])])

(* The branches taken in the cycles before cycle n.                        *)
TakenBefore(w, n) ==
  Trace[prog][w][<<n, MainCfg(P).entry,
                   <<[scope |-> MainScope(P), ret |-> MainCfg(P).entry]>> >>].taken

(* The context c is where the concrete run of w is, with its values.       *)
Simulates(c, w) ==
  /\ Position(c) \in DOMAIN Trace[prog][w]
  /\ LET env == Trace[prog][w][Position(c)].env
     IN  \A x \in DOMAIN c.ver : (w \in CurrentValue(c, x).worlds) = env[x]

(* The contexts that are at a vertex.                                      *)
Settled == IF phase = "summarize" THEN Live \ RangeOf(held) ELSE Live

-----------------------------------------------------------------------------
(* The calls of the program are replaced by the summaries of the callee.   *)
Summarizes == \E name \in DOMAIN P.summaries : P.summaries[name] # <<>>

(* In every model of its path constraint, a live context is where the      *)
(* concrete run is and its symbolic store holds the values of that run.    *)
(* (Without merging the path constraint is lost at the end of a cycle.)    *)
ContextsSimulateRuns ==
  ~Given("paths") =>
    \A c \in Settled : \A w \in PathWorlds(P, c) : Simulates(c, w)

(* No run is lost and none is followed twice, by forks, merges and applied *)
(* summaries.                                                              *)
ContextsPartitionWorlds ==
  (~Given("paths") /\ phase \notin {"summarize", "done", "aborted"}) =>
    /\ UNION {PathWorlds(P, c) : c \in Live} = Worlds(P)
    /\ \A c, d \in Live : c # d => PathWorlds(P, c) \cap PathWorlds(P, d) = {}

(* The concrete store that decides which branch is followed is the store of*)
(* one of the runs the context stands for.  Forks, merges and the change of*)
(* cycle each build a store out of parts of others; a mixed store would    *)
(* drive the engine down a branch that no run takes.  (The summaries of a  *)
(* call may move the store to one that is not.)                            *)
ConcreteStoreIsARun ==
  (~Given("oa") /\ ~Summarizes) =>
    \A c \in Settled : \E w \in PathWorlds(P, c) :
      \A x \in DOMAIN c.ver :
        c.conc[CurrentName(c, x)] = (w \in CurrentValue(c, x).worlds)

(* Every branch that is reported as covered, and was not told to be        *)
(* unreachable, is taken by the simulation of some test case, for some     *)
(* outcome of the nondeterministic assignments, which a test case does not *)
(* record.  The test cases come from the stores that forks and merges have *)
(* put together, and a time-out may come at any moment.                    *)
SuiteCoversBranches ==
  (~Given("oa") /\ ~Summarizes) =>
    \A b \in branches \ (IF Given("ahorn") THEN UnreachableBranches[prog] ELSE {}) :
      \E t \in testSuite : \E outcome \in SUBSET ((0 .. CycleBound) \X HavocPoints(P)) :
        b \in TakenBefore(t.inputs \cup outcome, Cardinality(t.cycles))

(* A run of the engine that no time-out cut short has covered every branch *)
(* that some concrete run takes within the cycle bound.                    *)
CoverageIsComplete ==
  (phase = "done" /\ ~timedOut) =>
    \A w \in Worlds(P) : TakenBefore(w, CycleBound) \subseteq branches

(* The assertion of State::setSymbolicValuation, that a name is never given*)
(* a second value: the version that the executor would use next is new to  *)
(* every context of the cycle that can still write it.  It depends on who  *)
(* resets the versions at the program exit, and on who waits by then.      *)
(* (Without merging, contexts of the same cycle may still wait.)           *)
VersionsAreFresh ==
  ~Given("paths") =>
    \A c \in Live : c.cycle = cycle =>
      \A n \in DOMAIN c.val : n[3] = cycle => n[2] <= version[n[1]]

(* The runs of an open program when variables keep their values.           *)
ClosedTrace ==
  Tabulated([q \in {r \in Programs : EngineOf[r] = "oa"} |-> RunsOf([Code[q] EXCEPT !.open = FALSE])])

(* The branches a run takes, by its configuration at the cycle bound.      *)
TakenByClosedRun(w) ==
  ClosedTrace[prog][w][<<CycleBound, MainCfg(P).entry,
                         <<[scope |-> MainScope(P), ret |-> MainCfg(P).entry]>> >>].taken

(* One cycle of the over-approximation is enough: whatever a run of the    *)
(* program does in any cycle, starting from any state that earlier cycles  *)
(* have left, the engine has covered when its first cycle has ended; and it*)
(* covers nothing that no state and no input enables.                      *)
OneCycleIsEnough ==
  Given("oa") =>
    /\ (cycle > 0 \/ phase = "done") =>
         \A w \in DOMAIN ClosedTrace[prog] : TakenByClosedRun(w) \subseteq branches
    /\ \A b \in branches : \E w \in Worlds(P) : b \in TakenBefore(w, CycleBound)

(* The engine ends: a time-out, the coverage, the cycle bound or an        *)
(* exception stops the loop, whatever contexts and models it meets.        *)
Termination == <>(phase \in {"done", "aborted"})

-----------------------------------------------------------------------------
(* The inductive invariant behind VersionsAreFresh.                        *)

Stopping == phase \in {"done", "aborted"}

(* A context has the fields that SymbolicContext lists, frames that were   *)
(* called one from the other, and names that were given out.               *)
ContextOK(p, versions, c) ==
  /\ c = [f \in DOMAIN c |-> c[f]]
  /\ {"cycle", "label", "stack", "val", "pc", "ver"} \subseteq DOMAIN c
  /\ c.cycle \in Nat
  /\ StackOK(p, c.stack)
  /\ DOMAIN c.ver = FlattenedInterface(p)
  /\ \A n \in DOMAIN c.val : NameOK(p, versions, c.cycle, n)

ContextsOK ==
  /\ prog \in Programs
  /\ version \in [FlattenedInterface(P) -> Nat]
  /\ \A c \in Live : ContextOK(P, version, c)

(* The engine's own variables.                                             *)
EngineOK ==
  /\ cycle \in Nat
  /\ DOMAIN merger = MergePoints(P)
  /\ \A m \in DOMAIN merger : IsSeq(merger[m])
  /\ IsSeq(held) /\ IsSeq(pending)

(* A context is at a vertex, unless it is applying the summaries of a call.*)
LabelsOK ==
  /\ \A c \in explorer \cup InMerger \cup RangeOf(pending) \cup succeeding : AtVertex(P, c)
  /\ phase # "summarize" => \A c \in RangeOf(held) : AtVertex(P, c)

(* All contexts are of the current cycle until one has crossed the exit.   *)
CyclesOK ==
  /\ \A c \in explorer \cup InMerger \cup RangeOf(held) : c.cycle = cycle
  /\ \A c \in RangeOf(pending) : c.cycle \in {cycle, cycle + 1}
  /\ \A c \in succeeding : c.cycle = cycle + 1

(* Who holds contexts in which phase.                                      *)
PhasesOK ==
  /\ phase \in {"run", "step", "merge", "summarize", "dispatch"}
  /\ phase = "run" => MergerIsEmpty /\ succeeding = {}
  /\ phase \in {"run", "step"} => held = <<>> /\ pending = <<>>
  /\ phase = "merge" => explorer = {} /\ pending = <<>> /\ held # <<>>
  /\ phase = "summarize" =>
       /\ Len(held) = 1
       /\ Depth(held[1]) > 1
       /\ todo # {} /\ todo \subseteq DOMAIN SummariesAt(P, held[1])
       /\ \A c \in RangeOf(pending) : c.cycle = cycle
  /\ phase = "dispatch" => held = <<>>

(* Contexts wait at the merge point they have reached.                     *)
MergerOK == \A m \in DOMAIN merger : \A c \in RangeOf(merger[m]) : MergePoint(c) = m

AtProgramExit(c) == Depth(c) = 1 /\ c.label = MainCfg(P).exit

(* A context at the exit of the program is the last of its cycle, until the*)
(* next cycle begins.                                                      *)
ExitOK ==
  /\ \A c \in explorer : AtProgramExit(c) =>
       explorer = {c} /\ MergerIsEmpty /\ phase \notin {"dispatch", "summarize"}
  /\ phase = "merge" => \A c, d \in RangeOf(held) :
       MergePoint(c) = MergePoint(d) /\ (AtProgramExit(c) => MergerIsEmpty)
  /\ \A c \in RangeOf(pending) : c.cycle # cycle =>
       explorer = {} /\ MergerIsEmpty /\ held = <<>> /\ Len(pending) = 1
  /\ succeeding # {} =>
       /\ explorer = {} /\ MergerIsEmpty /\ held = <<>> /\ pending = <<>>
       /\ phase = "step"
       /\ \E c \in succeeding : succeeding = {c}

ControlOK ==
  EngineOK /\ LabelsOK /\ CyclesOK /\ PhasesOK /\ MergerOK /\ ExitOK

(* The versions start over at the exit of the program; that is sound as no *)
(* other context of the cycle is left by then.                             *)
Inv == ~Given("paths") => ContextsOK /\ (~Stopping => ControlOK)
==========================================================================
