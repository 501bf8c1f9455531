# TLA+ models of the symbolic execution of PLC programs

The repository holds *ahorn*, a tool that executes IEC 61131-3 (PLC) programs
symbolically, as used for the ETFA22 evaluation: compile a project, summarize the
function blocks it calls, then explore the program, merging paths within each PLC
cycle, and derive a test case whenever branch coverage grows. The repository has
several engines for the exploration, a tool that carries summaries over to a changed
program, and passes that prepare the graphs. These modules model the front end and
the engines, check each of them with TLC against a concrete execution of the program,
and prove with TLAPS, for every program, what the ETFA engine and the summarization
engine rely on, and under which conditions the ETFA engine's contexts are the runs of
the program.

## 1. The system

### Parts, their state and their operations

| Part | State | Operations |
|---|---|---|
| Compiler, graph builder (`compiler`, `cfg/builder.cpp`) | a graph per POU, consecutive labels, exit last | compile statements, fill placeholders, build edges |
| Passes (`pass`) | decision vertices from 9000 on, leaders, temporaries, phi worklist | decision transformation, basic blocks, three-address code, call transformation, SSA |
| Control-flow graph (`cfg`) | vertices, edges, interface | edge queries, flattened interface |
| Summarization engine (`se/summarization`) | a stack of path contexts, global versions, summaries per function block | run: pop, execute a vertex, push; summarize a path at the exit |
| ETFA engine, executor, merger, explorer (`se/etfa`) | cycle, clock, versions, contexts per merge point, priority queue, coverage, test suite | run, step; one handler per vertex and instruction; merge; derive a test case |
| Concolic engine (`se/etfa-no-merge`), with merging or `--no-merge` | the same with a concrete store per context | the same; fork by a model, concrete summary lookup |
| Ahorn engine (`se/ahorn`) | the same, and what the static analysis found unreachable | the same, and havoc |
| Over-approximating engine (`se/oa`) | the same, without a concrete store | one cycle from an arbitrary state |
| Baseline engine (`se/baseline`) | a stack of contexts, coverage | step, concretize at the end of a cycle |
| Bounded model checker (`se/cbmc`) | one formula over assumption literals, goals | unroll, merge, remove goals |
| Reuse engine (`se/reuse`) | encodings of two versions of a program, summaries | collect changes, check each summary, regenerate |
| Encoders and evaluators of all engines | a stack of terms or values | one visit method per node |
| Solver (`se/*/z3`), simulator (`se/simulator`) | – | check, make constants; execute a test case |
| Static analysis, shadow, experimental and smart engines, IR, command line | | see section 7 |

### How they interact

Everything runs in one thread. `main` compiles, then either runs the passes and the
static analysis (`--sa`) or the decision transformation, the summarization engine and
an exploring engine, which receives the summaries. `Engine::run` of an exploring engine
repeats `step` once per cycle. `step` pops the context the heuristic prefers, lets the
executor execute its vertex, and dispatches what the executor returns: to the merger if
the context has reached a merge point, to the next cycle if it has crossed the exit of
the program, else back to the explorer. When the explorer is empty the merger picks one
merge point, folds its contexts into one and gives it back. Executor and merger share
the versions; merger and explorer hand contexts to and fro; at a call the executor asks
the summarizer for the summaries that apply and goes on with a context for each. The
reuse engine runs the summarization engine's result against encodings of the old and the
new version and gives the summaries it keeps or makes anew to the next analysis.

### What is hard

The concurrency of this program is that of *contexts*: dozens of them are live in a
cycle, executed alternately, and they share the executor's versions, the merger and the
coverage. What can go wrong:

* **Order.** A cycle ends when *one* context crosses the exit; a second would
  overwrite it. Only popping before merging, and the order of merge points, prevent it.
* **Names.** SSA versions are global, contexts are joined by the union of their
  valuation maps, and versions restart every cycle. A name must never mean two things.
* **Losing runs.** Every fork, merge, summary application and cycle change must keep the
  set of program runs that the live contexts stand for.
* **Two stores.** The concolic engines decide branches by a concrete store that is put
  together from models, other contexts and summaries, and trust that it is a run's.
* **Summaries.** They are made by another engine with other versions and no knowledge of
  the state at the call; after a change of the program some of them are stale.
* **Literals.** The encoding engines spread the equations of a merge over the literals
  before the join; a path must not see the equations of another.
* **Time.** The time-out may pass between any two steps, also in the middle of covering a
  summarized path.
* **Placeholders and worklists.** The compiler patches labels after the fact, passes number
  vertices and temporaries with counters no constructor initialises, and the SSA
  construction goes round its worklist until every block is sealed.
* **Copies.** There are twenty hand-copied visitors for expressions, and as many copies of
  the merge; they differ in small things.

The full list with source lines is `hazards` in PROJECT.json.

## 2. Modules

### Common

| Module | Models |
|---|---|
| `Cfg` | graphs of a program and the queries on them, merge points, what there is to cover; `WellFormed`, what compiler, builder and pass promise |
| `Simulation` | concrete execution of a program (the simulator): all runs of a program, in all worlds |
| `SymbolicContext` | contexts, SSA names, terms and their meaning, the solver, assignment, cycle change, the join of two contexts, applicability and application of summaries, what a summary does to an environment (`Effect`); `WellFormedSummaries` and `ReferencesResolve`, what summarizer and compiler promise |
| `ConcolicContext` | the same with a concrete store: evaluation, the branch followed and the fork of the other, merged stores |
| `LiteralContext` | contexts over assumption literals, the equations a formula consists of, the solver as the set of its solutions, and the loop of the encoding engines |
| `MCPrograms` | small programs, and families of programs, in the form before or after the decision transformation |

### Engines

| Module | Models | Properties in |
|---|---|---|
| `EtfaEngine` | the ETFA engine, executor, merger, explorer, test suite | `EtfaCorrectness` |
| `ScanCycle` | abstract specification: all runs of a program, advanced together | `EtfaCorrectness` |
| `EtfaInvariant` | the inductive invariant about contexts and stores | itself |
| `EtfaRuns` | the inductive invariants that relate contexts to runs and coverage to the branches of runs, and that the refinement needs; the conditions for them | itself |
| `EtfaEngineProofs`, `EtfaStoreProofs`, `EtfaRunProofs`, `EtfaCoverageProofs` | proofs: where the contexts are; what their stores know; that they are the runs; what the engine covers, and that it implements `ScanCycle` | |
| `Summarization` | summarization engine and summarizer | `SummarizationCorrectness` |
| `SummarizationInvariant` | its inductive invariant | |
| `PathProofs`, `SummarizationProofs` | proofs: what a summary says of its path and a path of the runs; the engine | |
| `EngineLoop` | the loop, queue and merger that three engines have copies of | |
| `ConcolicEngine`, `AhornEngine`, `OaEngine` | what differs in each of them; `LoopCorrectness` puts them side by side (one of them in two modes) | `LoopCorrectness` |
| `LoopProofs` | proofs about the three; their inductive invariant is in `LoopCorrectness` | |
| `BaselineEngine` | exploration without merging, concretization | `MCBaselineEngine` |
| `CbmcEngine` | the bounded model checker | `MCCbmcEngine` |
| `ReuseEngine` | changes, checks, encodings of two versions, regeneration | `MCReuseEngine` |
| `Expressions` | the visitors of all engines as a stack machine | itself |

### Front end

| Module | Models |
|---|---|
| `StructuredText` | statements and expressions, and what they mean (the reference; no code) |
| `Compiler` | `PouCompiler` and the builder: continuations, placeholders, missing branches, renumbered jumps, edges |
| `GraphPasses` | decision transformation, basic blocks, three-address code |
| `CallTransformation` | explicit inputs, outputs and state of instances |
| `SsaPass` | the on-the-fly SSA construction: sealed and filled blocks, incomplete and trivial phis, its worklist |
| `Frontend` | the passes in the order of `main`: `BuildCfg`, then `TransformDecisionsOf`, or `FormBlocks`, `ToThreeAddressCode`, `TransformCallsOf`, `StartConversion`, `TakeTurn` per turn of the worklist, `FinishConversion` |
| `FrontendCorrectness` | running graphs in any of these forms, and the properties |

`MCEtfaEngine`, `MCSummarization`, `MCLoopEngines`, `MCBaselineEngine`, `MCCbmcEngine`,
`MCReuseEngine`, `MCExpressions` and `MCFrontend` are the instances for TLC;
`ProgramProofs` holds what all proofs use about graphs and call stacks. The pure
algorithms of the front end are recursive operators; that is why nothing is proved about
them (the proof system cannot reason about recursive operators, only about recursive functions).

### From code to model

An action is one pass through the body of one of an engine's loops; the variable `phase`
says which loop it is in (headers of `EtfaEngine` and `EngineLoop`). Each vertex handler
and instruction visitor of an executor is an action; `Dispatch` is one iteration of the
loop over the succeeding contexts, `MergePair` one iteration of the fold in
`Merger::merge`, `ApplyNextSummary` one iteration of the loop over the applicable
summaries. These loops are split so that the time-out can fall anywhere and so that what
must hold at every moment is checked at every moment.

What is nondeterministic: which of several contexts the heap returns when the heuristic
ranks them equal, which model the solver returns for a test case or a fork, what a havoc
gives, when the clock passes the time-out, what an uninitialized counter holds, and which
program is run.

An exception that leaves an engine, or a dereferenced null pointer, ends in the phase
`aborted`. The model is of the release build: assertions are compiled out.

### Abstractions

* In the engines all program variables are Boolean; the operators are those of `Meaning`.
  The engines treat data types uniformly except for building constants and terms, which is
  what `Expressions` is for: integers and Booleans, every operator of the IR, every visitor.
* An expression is kept as its term (the merger compares terms) *and* as its meaning, the
  set of worlds in which it is true. A world fixes all inputs and havocs of all cycles, so
  "satisfiable" is "not empty". The solver's answer *unknown*, on which the code throws, is
  left out.
* The encoding engines' formula is kept as its equations per literal; `SolutionsOf` are its
  solutions under assumptions.
* Names are tuples, not strings.
* The front end works on Booleans and small integers (0, 1, 2) and runs each project for
  three cycles.
* An *open* program (`Simulation`) may change its non-input variables arbitrarily between
  cycles; it is the reference for the over-approximating engine.

## 3. Runs

| Run | Instance | What it shows |
|---|---|---|
| `etfa` | 10 programs: toggle, dead (a branch never taken), straight (no decision), nested, latch (a branch covered only in cycle 2), call, branch (contexts inside and outside a call side by side), twins (two instances), the last two groups executed or summarized; and 72 programs with two decisions in a row. 2 cycles, a time-out at any moment | the inductive invariant `RefinementInv`, which contains all others, with the conditions under which it is proved; a sole context at the exit; fresh versions, one meaning per name; contexts are exactly the concrete runs; coverage complete and that of the suite; termination; the engine implements `ScanCycle` |
| `summarization` | 4 programs of the catalogue and 2^8 variants of a function block with two decisions and state | summaries are exactly the behaviour of the function block |
| `loop_engines` | 37 pairs of engine and program, 2 cycles, a time-out at any moment; with summaries that the concrete lookup can evaluate (`callTwin`, `branchTwin`) and some at which it throws | the relations above for the engines with a concrete store; the concrete store is one of a run; one cycle of the over-approximating engine covers what any cycle takes |
| `baseline` | 6 programs before the decision transformation, 2 cycles | contexts stay realizable when values are made concrete |
| `cbmc` | 9 programs, 2 cycles | solutions are runs, runs are encoded once, goals are exact |
| `reuse` | 11 changes of a function block, one or two instances | a summary is kept exactly when some execution of the new version agrees with it (which is less than valid, section 6); those made anew are exact; together they cover the new version; nothing is made anew where no change reaches |
| `expressions` | 13 engines, every operator, additions of Booleans and of a Boolean and an integer, alone and nested, 4 stores | a visitor that answers returns what the expression means; the only exception is an addition with a Boolean, which in the engines that cast the operands is one of two unequal Booleans, and only in the encoder |
| `front_end` | every nesting of two statements around a few assignments, CASE, and programs with function blocks, also one held by two POUs; counters starting at 0 or 7 | the meaning is kept from pass to pass; of the copies of a block with a decision exactly the first is connected (section 6); no pass hangs or throws but for a WHILE |
| `path_constraint_lost`, `summary_of_first_instance`, `merged_stacks`, `front_open_loop` | one program, or a family | *violated*, section 6 |

One run serves all programs of an engine: the program is chosen in `Init`, so that a
property is stated and its instances are explored once.

**Bounds.** `CycleBound` is 2: state crosses a cycle boundary once in the middle of the
exploration, `latch` and `set` cover a branch only in their second cycle, and the versions,
names and path constraints restart once with something to confuse. It is 0 for function
blocks alone, which have no cycle. `MaxSteps` (48, 60, 20) bounds the reference simulation and
`Fuel` (40) the walk over a graph; both are larger than the longest run of each instance:
were they not, a position would be missing and the properties would fail (and `RunsAssumption`
says so in so many words). `Bases` gives
counters without initialisation two values, one of which collides with nothing and one that
is what most compilers leave there. `Blocks` numbers the programs to summarize. Programs are
small because control flow within a cycle is acyclic: two decisions in a row, one nested in
another, a call inside and after a decision, and a second instance are the shapes in which
contexts meet.

`DecisionFamily` leaves out programs that write a variable on a branch below a decision
that reads it: for those the merge loses runs (section 6). `Kept` leaves out the projects
with an open loop, for the same reason.

`Expressions` stops when a visitor has returned, so its cfg does not check for deadlock;
all others do.

Each property has a mutant of the code's model (definitions marked *Mutant*) that violates
it under the same configuration.

## 4. Fairness, liveness and refinement

All parts are single-threaded loops, so the only fairness is weak fairness of the next step:
`WF_vars(EngineStep)` of each engine, `WF_vars(Step)` of the summarization, and
`WF_tick(~Final /\ Tick)` of the front end: the loop body is executed again as long as its
condition holds. (`tick` changes with every step, so that a turn of the worklist that changes
nothing still counts as a step, and a worklist that turns for ever is found.) No fairness is
assumed of the clock, of the heap or of the solver. `Termination` and `Completes` say that
everything comes to an end; an abort counts as an end where the code can abort.

`ScanCycle` states what a merging engine implements, without contexts: the program runs in
all worlds at once, runs at one vertex may move on together by a step or past a call, all
cross the end of the cycle together, and the engine may stop only when interrupted, when all
is covered, or when all runs have reached the cycle bound and nothing they took is missing.
`EtfaCorrectness` maps the engine to it: the configuration of a world is the one of the live
context whose path constraint the world satisfies, with the values its symbolic store gives
(`RunsAt`). A lost run, a run in two contexts, a wrong value, a summary that skips too much or
an early stop is a step that `ScanCycle` does not have. TLC checks the relation on the programs of
the run `etfa`; `RunsTheProgram` (section 5) proves it.

## 5. Proofs

Everything in this section holds for every set of programs, every cycle bound and every
time-out; the runs of section 3 show the same on their instances.

### ETFA engine: contexts and stores (`EtfaEngineProofs`, `EtfaStoreProofs`)

| Theorem | States |
|---|---|
| `ControlInvHolds`, `InvHolds` | `[]ControlInv`, `[]Inv`: the inductive invariant |
| `TypeCorrect` | `[]TypeOK` |
| `SoleContext` | `[]SoleContextAtProgramExit` |
| `FreshVersions` | `[]VersionsAreFresh`: no name is assigned twice |
| `NamesAlwaysAgree` | `[]NamesAgree`: a name means the same in all contexts |
| `StoresAreClosed` | every name that is looked up has a valuation |
| `MeaningsArePermanent` | `NamesKeepTheirMeaning`: no step changes what a name means |

Assumptions (evaluated by TLC in every run): `CycleBound` is a natural number,
`TimeOutConfigured` a Boolean, and `CodeAssumption`: every program is `WellFormed`, its
summaries are `WellFormedSummaries`, and its references resolve. The first is what compiler,
builder and pass produce: edges of the right kind lead to vertices of the right graph, the
scope of each called instance exists, only the program is at depth 1, and *no join has a
label above the exit of its POU*. The second says that the labels of a summary are those of
its function block and that a written variable has a highest version; the third is the
assertion in `Cfg::getVariable`, for the code and for the summaries. What is assumed of the
summaries is proved of the engine that makes them (`SummariesFitProgram` below).

The invariant is `ControlInv /\ StoresOK /\ NamesAgree`.

*Control.* `SoleContextAtProgramExit` is not inductive: it says nothing about how the
contexts at the exit came to be alone. `ControlInv` adds, per phase of the loop, who holds
contexts and of which cycle (`PhasesOK`, `CyclesOK`), that contexts wait at the point they
have reached (`MergerOK`), the shape of call stacks (`ContextsOK`), and in `ExitOK` that while
the merger folds the contexts of the program exit it holds no others. The key step is
`BeginMergeOK`: merging starts when the explorer is empty, and the chosen point precedes every
other point that has contexts; as the exit point has depth 1 and no depth-1 point has a higher
label (`ExitIsLastMergePoint`), choosing it means that no other point has any. The other
direction is in `DispatchOK`: a context that arrives at the exit always goes to the merger
(`ExitIsMergePoint`), never straight to the explorer. `CoverageOK` gives the coverage part of
`TypeOK`. There is one lemma per action; the executor's actions share `ReturnOK`.

*Stores.* `VersionsAreFresh` and `NamesAgree` need each other and the control part.
`StoresOK` says of every live context that the version after the executor's is above all
that the context has in this cycle (`NameOK`), and that its store is closed: the current name
of each variable and every name in a value or a path constraint has a valuation. A step then
only has to say which names it makes, that they are new to all live contexts, and that what
it makes inherits everything else (`Grows`); `StoresGrow` concludes that the names still agree
and have kept their meaning. Closedness is what makes this work at a merge, which takes its
values by name, and for the summaries, whose renumbered terms must find the names that they
read. At the program exit the versions start over; that no waiting context could be given an
old name for the second time is `SoleContextAtProgramExit`: there is none.

### ETFA engine: contexts and runs (`EtfaRunProofs`)

| Theorem | States |
|---|---|
| `ContextsAreRuns` | `[]RunsInv`: the inductive invariant |
| `SimulateRuns` | `[]ContextsSimulateRuns`: every context is a faithful symbolic state |
| `PartitionWorlds` | `[]ContextsPartitionWorlds`: no run is lost, none is followed twice |
| `ConstraintEmbedded` | `[]PathConstraintIsEmbedded`: what the comment at the program exit claims |

*Conditions.* Section 6 shows that these properties do not hold of every program. So each
theorem has the form `Spec /\ []Faithful => []...`, and `Faithful` names what the engine relies
on without checking it, and nothing else:

* `prog \in SummarizedPrograms`: where a call is summarized, exactly one summary applies to the
  values of the run, and the run comes back from the call with the values the summary gives;
  the names in a summary are those of the one instance. This is a condition on program and
  summaries alone, stated with the reference simulation; `SummariesExact` proves the like of the
  engine that makes the summaries. Without it: `summary_of_first_instance`.
* `MergesKeepConstraints`: the path constraint of a merge is true of the runs that one of the two
  was true of. Without it: `path_constraint_lost`.
* `MergedStacksAgree`: contexts are only merged when they return to the same places (the code
  asserts it). Without it: `merged_stacks`.

The second and the third are conditions on single merges as they happen, not on the program; that
is the point of them: whatever makes them true (no variable that a decision has read is written
below it, no function block called from two callers), the theorem applies. `RunsInv` contains
`Faithful`, and `RefinementInv` contains `RunsInv`, so the run `etfa` checks that all its 82
programs, with all their interleavings and time-outs, satisfy all three; the conditions are not
vacuous. That `Faithful` is enough is what
is proved: nothing is assumed of values, of the guards that a merge puts into its ite-terms, of
names, of which contexts meet, or of when the time-out passes.

Assumptions, evaluated by TLC: those above, `RunsAssumption` (a run reaches the cycle bound within
`MaxSteps` and is at a position only once, which is what acyclic control flow within a cycle
gives) and `ExpressionsAssumption` (operators have the arguments they take; initial values are
Boolean).

*The invariant.* `RunsInv` adds to `Inv`:

* `StoreMeans`: the worlds that a context keeps with a name are those in which its term is true,
  also for the ite-terms of merges, whose guard is a whole path constraint.
* `ContextsFollowRuns`: in every world of its path constraint, the context is where the run is and
  its current names have the values of the run. Between two vertices of a call, while summaries
  are applied, the context stands for the runs waiting at the call (`Caller`).
* `WorldsAreSharedOut`: every world is in the share of exactly one *place*. Places, not
  contexts: the engine keeps contexts in lists, and the code could hold two equal contexts in
  two of them; with sets that a context belongs to, a run would seem to be followed once. At a
  call that is being summarized the share of the held context shrinks as summaries are taken from
  `todo`, and the shares of the pending contexts grow.

*The argument.* A run is a recursive function of the number of steps; that it exists, and that
the configuration at a position is followed by what `NextInRun` says, comes from `LeastNumber`
again (`RunExists`, `TraceStep`). Each handler is then compared with the step of the simulation
(`ConcreteSteps`, `StepFollows`; `AssignMeans`, `BranchMeans`, `NextCycleMeans` and their like say
what it does to values and path constraint), and each action exchanges some places for others
that share out the same worlds (`Reshared`, `StepKeeps`, `MoveKeeps`). The hard ones are the merge
and the summary:

* *Merge.* The merged value of a variable is an ite-term over the path constraint of the first
  context. Its worlds are those of the first value within the guard and those of the second
  outside, and the two shares are disjoint, so within either share the merged value is the one
  the run has (`MergedFollows`). It uses `NamesAgree`: the union of two valuation maps is only
  well-defined because a name means the same in both.
* *Summary.* `Effect` gives the values that a summary computes from those at the call; the code
  renumbers its names behind the context's. That renumbering keeps the meaning (`AppliedMeans`) is
  an induction over the writes of the summary, and needs `WrittenInOrder`, since a term that read a name before
  its write would find the caller's.

### ETFA engine: coverage and test cases (`EtfaCoverageProofs`)

| Theorem | States |
|---|---|
| `BranchesAreCovered` | `[]CoverageInv`: the inductive invariant |
| `SuiteCovers` | `[]SuiteCoversBranches`: the test cases take every branch that is reported |
| `CoverageCompletes` | `[]CoverageIsComplete`: without a time-out, every branch that a run takes within the cycle bound is reported |

*Conditions.* Each theorem has the form `Spec /\ prog \in CoveredPrograms /\ []Faithful => []...`.
`Faithful` is that of the section before; `CoveredPrograms` has conditions on the program and
its summaries alone, and each is there because the code would report something else without it:

* `LabelsAreApart`: a label names one vertex of the program. The explorer looks for the edge
  between two labels in the graph of the *new* context, also when the step crossed a call.
* `BranchesLeadApart`: no decision leads to the same vertex on both branches. Of two such edges
  the explorer covers both; the decision transformation puts a vertex on each.
* `SummaryIsTaken`, `StartsAtEntry`: the path of a summary that applies has exactly the branches
  that the run takes during the call, and starts at the entry of the function block. What the
  summary says of values (`Faithful`) would not tell a wrong path.
* `FewBranches`: fewer than 10000, since `EPSILON` takes 0.9999 for everything.

TLC evaluates them in the run `etfa`, where `RefinementInv` contains `CoverageInv` and that contains `prog \in CoveredPrograms`:
its programs, all 82, satisfy them.

*The invariant.* `CoverageInv` adds to `RunsInv`:

* `BranchesAreRecorded`: what the run of any of its worlds has taken up to a context is covered
  (`BranchesCovered`), and for a succeeding context that is not dispatched yet, covered but for
  the branch that leads to it (`BranchesPending`), which all of its runs have taken.
* `CallIsRecorded`: while summaries are applied, what is covered is what the caller has taken, and
  `source` is still the call.

It is needed in this form because coverage is raised one context at a time, while its siblings
wait in `pending`, and a whole path at a time when a summary is applied, before the context
returns from the call.

*The argument.* A run forgets no branch, and what it has taken at the start of a cycle is what
it has taken at the end of the one before (`RunStepOK`, `LaterInRun`, `NextStartInRun`), by
induction over its steps. So a branch that a run has taken at a context is taken before the
next cycle begins; and a run whose inputs after this cycle are dropped is the same run until
then (`SameRunUpTo`), which is why the inputs up to `c.cycle` are enough for a test case
(`TakenByTestCase`) although the solver may choose any model. `StepTakes` compares the branch
that the explorer finds in the graph with the one the simulation takes. A merge adds nothing as
both contexts are at the same position (`MergePairCovered`); a summary adds its path
(`SummaryTaken`, `PathTaken`). When the engine ends at the cycle bound every run is at the start
of that cycle with what it has taken (`BoundReached`), and when it ends for coverage there is no
branch left (`CoverageMetCovers`).

### ETFA engine: the refinement of `ScanCycle` (`EtfaCoverageProofs`)

| Theorem | States |
|---|---|
| `RunsReturn` | `[]RefinementInv`: the inductive invariant |
| `RunsTheProgram` | `ImplementsScanCycle`: the engine implements `ScanCycle` |

The conditions are those of the coverage theorems, and there is no other: this is the theorem
that the invariants before it lead up to. It is about steps where they are about states. That
every context is where some run is (`ContextsFollowRuns`) would also hold of an engine that moved
two runs at different vertices at once, ran on past the end of the cycle with some of them, or
stopped because the coverage it has claimed, and no run has taken, is complete.

*The mapping.* `RunsAt` gives the run of a world the configuration of the live context whose
path constraint it satisfies. While summaries are applied there would be two answers: the runs
that have returned are in the path constraint of the held context, too. `ContextsOf` takes the
pending context then.

*The invariant.* For `RunsAt` to be the run, that rule must name the context which `RunsInv` says
answers for the world. `RunsInv` speaks of the summaries that are still to be applied,
`ContextsOf` of the contexts that have returned. `RunsHaveReturned`, which `RefinementInv` adds to
`CoverageInv`, connects the two: every run of the held context has a summary in `todo` that
applies or is in a pending context, and the pending contexts have left the call. It starts
to hold because `findApplicableSummaries` finds the summary of every run (`WaitsAtCallReturns`) and
is kept because a pass of the loop over the summaries takes one out of `todo` and puts its runs
into `pending` (`ApplyNextSummaryReturns`). With it, `RunsArePlaced`: `RunsAt` gives a world the
configuration on its trace at the position of the context that has its share.

*The argument.* It is then enough to know how places change.

* Merging, handing over and dispatching leave every run at the position it was at
  (`RunsStay`, `LiveRunsStay`), and the report of `updateCoverage` is of a branch that the run of
  the dispatched context has taken (`DispatchRests`).
* A handler of the executor moves the runs of one context, all at one position, by one
  `ConcreteStep` (`ExecutesStepAdvances`). At the exit of the program the sole context has all
  runs, so that they cross it together.
* A summary moves its runs past the call. `ScanCycle` defines what that means by the run itself:
  `AfterCall` takes steps until the stack is back to where it was. `CallFollowed` shows by
  induction over these steps that the stack stays above that of the caller, with the frame of the
  call on it (`InCall`), until it is popped and the run is where that frame says (`HasReturned`);
  `MaxSteps` steps are enough, as the run reaches the cycle bound within them. So `AfterCall` is
  the configuration at the position that the summary returns to (`AfterCallReturns`), and the
  branches of the summary's path, reported before the context has returned, are its
  (`SummaryReports`).
* The engine stops when it may (`EngineStops`): at the cycle bound all runs are at the bound, with
  nothing missing.

### Summarization engine (`PathProofs`, `SummarizationProofs`)

| Theorem | States |
|---|---|
| `InvHolds` | `[]Inv`: the inductive invariant |
| `EnvironmentsPartitioned` | `[]PathsPartitionEnvironments` |
| `SummariesSelfContained` | `[]SummariesAreSelfContained` |
| `SummariesExact` | `[](RunsLastLongEnough => SummariesAreExact)` |
| `SummariesFitProgram` | the summaries are `WellFormedSummaries` and their references resolve |

Assumptions: `SummarizedCodeAssumption`, that the programs are well-formed, that their
references resolve, that function blocks have no callees and refer to variables of their own
(`OneCalleeDepth`, what `Engine::initialize` asserts), that operators have the arguments they
take, and that the program has finitely many vertices. `MaxSteps` only bounds the reference:
the simulation is followed that far, and `RunsLastLongEnough` says that no summarized path is
longer. The theorem holds for every `MaxSteps`, so for any given summaries there is one that
is large enough. (That there are finitely many paths is not assumed: on a graph with a loop
the engine need not end, and the theorems are about every state on the way.)

The invariant relates three things. Of each *path* on the stack (`PathOK`): its versions
grow along the path and are below the executor's, its terms use names that it has made
before, its names stand for the sets of environments in which they are true, and in every
environment feasible for it the simulation visits its labels and has its values
(`FollowsRuns`). Of each *summary* (`SummariesOK`): it stands on its own, and does to every
environment it applies to what the simulation does. Of *both* (`PathsApart`,
`SummariesApart`, `EveryEnvironmentIsSomewhere`): any two paths or summaries of a block have
assumed opposite signs of one decision and share no environment, and no environment is lost.
Two facts are less obvious than they look:

* *Comparing summaries by their assumptions loses nothing.* `summarizePath` drops a summary
  that equals a known one, and equality looks at the assumptions only. That two different
  paths never make equal ones does not follow from the environments being disjoint; it
  follows from the signs, which the renumbering keeps (`Diverge`, `SummaryParts`).
* *Renumbering keeps the meaning.* `SummaryOf` gives a name the number of writes of its
  variable up to it. `NumbersKeepOrder` and `NumberOfName` show that this is injective on the
  names of a path, `WorldsOfSummary` that evaluating the summary gives each renumbered name
  what the name had in the path, `SummaryEndsAsPath` that its highest versions are the final
  values.

`HardWorlds` and the run of the simulation are recursive functions, `f == CHOOSE g : g = [i
\in S |-> e(i, g)]` to the prover. That such a function exists and is determined is proved
with `LeastNumber`: a nonempty set of natural numbers has a least element, from the library's
well-founded relations (`WorldsOfSummary`, `RunExists`, `TraceSteps`).

Each step of the engine replaces the top of the stack by paths that share its environments
(`SplitsInto`, `ReplaceTop`), so that the partition is preserved by one lemma
(`SharesAfter`) for all exploring actions and by `SummaryShares` for the summary.

### Engines of the common loop (`ProgramProofs`, `LoopProofs`)

| Theorem | States |
|---|---|
| `EnginesInvHolds` | `[]Inv`: the inductive invariant of `LoopCorrectness` |
| `EnginesVersionsFresh` | `[]VersionsAreFresh` |

They hold of the ahorn engine, of the over-approximating one, and of the concolic one when it
merges. Of the concolic engine without merging they say nothing, as the property does not: the
first context that crosses the program exit resets the versions under all that still wait.

Assumptions: `EngineCodeAssumption`, the three conditions on a program that `CodeAssumption`
names for the ETFA engine. Nothing is assumed of the clock, of the values (concrete or
symbolic), of which summaries the lookup finds or of which models the solver gives.

The control part of `Inv` is that of the ETFA engine, except that a context at a call is held
by the phase `summarize` while its summaries are applied, and that the engines may abort in the
middle of a call, where only what is said of each context (`ContextsOK`) is claimed. Three
engines with fifteen to seventeen actions each have to keep it, and each is an instance with its
own copy of every operator. So the proof has layers:

* steps of the loop and of the executor (`StartMergeOK`, `ReturnOK`, `HoldOK`, `AppliedOK`,
  `DispatchHeadOK`), for any context that is `ContextOK`;
* what an operation leaves of a context, whatever values it computes (`Moved`, `Wrote`,
  `Joined`, `Advanced`, `Entered`, `Exited`, `Summarized`), and that each keeps it `ContextOK`;
* kinds of actions made of both (`WriteStepOK`, `BranchStepOK`, `ApplyStepOK`, ...);
* per engine, that its copies are what they are copies of (`AhornLoop`, `AhornReads`), that its
  operations have those effects, and one step per action (`AhornNextOK`).

What differs between the engines (how a decision forks, what is concrete, which names a join
keeps in its path constraint) is in the effects; a fourth engine of this shape needs only the
last layer.

### Only model-checked

* Liveness (`Termination`, `Completes`), which the provers do not handle.
* What contexts of the other exploring engines say about runs.
* The compiler, the passes and the visitors: recursive operators over trees and graphs, which
  the proof system does not support.
* The bounded model checker, the baseline and the reuse engine.

## 6. Disagreements between code and comments

Each of the four has a run that shows it.

* *Path constraint lost at a merge* (`path_constraint_lost`). `Merger::merge` rewrites the
  disjunction of the path constraints with the merged names. If a decision read a variable
  that was written below it, the constraint then speaks about the merged value, and runs are
  lost; the next merge uses it as a guard, and the store of the next cycle is wrong for them.
  The comment in `handleProgramExitVertex` says that the path constraint can be dropped as it
  is embedded in the ite-expressions.
* *A summary serves only the first instance* (`summary_of_first_instance`). Summaries carry
  the names of the instance they were made for. The comment in `Engine::initialize` says that
  one summary suffices for all call locations; at a call of another instance it writes the
  variables of the first.
* *Stacks of merged contexts* (`merged_stacks`). A merge point is known by the top frame. When a
  function block that calls another is itself called at two places, contexts of both calls meet
  in the callee with different frames below, and the merge keeps the frames of the first, so that
  the runs of the second return behind the wrong call. The assertion in `Merger::merge` that all
  frames are equal fails.
* *Open loop* (`front_open_loop`). When a branch ends in a WHILE and the statement has no ELSE,
  the compiler takes the jump back to the header of the loop for the end of the statement, so a
  false condition jumps into the loop.

Further limits of the code met while modelling. These are not listed as runs; the model does
what the code does, and the named property or phase shows it when the named program is added
to the configuration.

| Where | What | How to see it |
|---|---|---|
| `se/etfa-no-merge/execution/executor.cpp:201`, `se/baseline` | without merging, versions are reset while contexts of the cycle still wait | `VersionsAreFresh` without its first condition, engine `paths`, program `call` |
| `se/etfa-no-merge/execution/executor.cpp:228` | with `--no-merge` the path constraint is cleared with nothing to embed it in, so a test case may miss its branch | `SuiteCoversBranches`, engine `paths`, program `set` |
| `se/summarization/memoization/summarizer.cpp:120` | the concrete lookup mixes the values of all summaries | `ConcreteStoreIsARun` without `~Summarizes`, engine `merging`, `callTwin` |
| `se/summarization/memoization/summarizer.cpp:174` | the concrete lookup evaluates the hard constraints in alphabetical order and throws at the first that reads one further down | `callSummarized` ends in `aborted` in the merging concolic engine |
| `se/etfa-no-merge/test/test_suite.cpp:42` | a summarized call can leave a context without the variables a test case needs | `echoTwin` ends in `aborted` |
| `se/cbmc/merger.cpp:326` | a merge throws when only one context has written the variable and the other has no literal for it | `toggle` ends in `aborted` |
| `se/cbmc/merger.cpp:265` | of a literal that two contexts share the merge keeps the equations of the first, as they "must share the same prefix", although both may have passed it with other equations | `EncodingFollowsRuns`, program `side` |
| `se/cbmc/execution/executor.cpp:330` | a second call of one instance in a cycle adds its constraints to the literals of the first, so that both calls have to decide alike | `EncodingLosesNoRun`, program `twice` |
| `se/cbmc` | a join that a branch reaches without a vertex between has one literal for both edges | `EncodingFollowsRuns`, `rewrite` of `MCDirectCatalogue` |
| `se/reuse/engine.cpp:554` | a summary is kept because *one* execution of the new version satisfies it, although others violate it; the run `reuse` checks that this is what happens (`KeptWhenSomeRunAgrees`) | `ReusedSummariesAreValid` of `MCReuseEngine`, changes `copied`, `widened` and `outer` |
| `se/reuse/engine.cpp:291` | a second instance of a changed block has no encoding under its names | change `twins` ends in `aborted` |
| `se/etfa/memoization/merger.cpp:192` | merge asserts depth 1 (debug build), but function blocks have merge points | program `branch` merges at depth 2 |
| `se/ahorn/execution/encoder.cpp:57` and copies | in an addition whose left operand is a Boolean the encoder casts the right one in its place: `b + c` becomes twice `c`, and `b + n` throws, where the evaluator casts each operand | `AnswersAreMeant` without `Miscasts`, tree `b + c` |
| `pass/decision_transformation_pass.cpp:55` | a block with a decision that two POUs hold is transformed twice, but the vertices put on its branches are remembered the first time only; the second graph has edges at vertices it does not have, and none at its own | `FirstCopyIsConnected` says so; project `SharedBlock(Deciding)` of `MCFrontend` |
| `compiler/compiler.cpp:265` | an empty THEN with a non-empty ELSIF drops the condition of the IF; the loop over an ELSIF with an empty body among others runs past the end; a call without outputs that ends an ELSIF or ELSE dereferences null | not in the families of `MCFrontend` |
| `pass/call_transformation_pass.cpp:121` | the state of an instance inside an instance is lost, as the interface of the block between does not carry it | `TransformedAsWritten`, project `SharedBlock(Counting)` |
| `pass/call_transformation_pass.cpp` | a call directly after another call of the same instance sees its old state | not in the families of `MCFrontend` |
| `pass/ssa` | assignments behind the last call before the exit are lost, the operands of a phi at a return label include the exit of the callee, and names with an underscore are cut | not in the families of `MCFrontend` |
| `pass/tac/encoder.cpp` | `NOT NOT x` is not put into three-address form | not in the families of `MCFrontend` |
| `pass/decision_transformation_pass.cpp`, `pass/tac` | a WHILE throws | phase `aborted`, allowed by `Completes` |

## 7. Not modelled, and the plan

Not modelled:

* XML output, logging, parsing, type checking and the data classes of the IR: no state that
  another part depends on.
* The static analysis (`sa`): a thin wrapper over a vendored abstract interpreter; its result
  is an input of `AhornEngine`.
* The shadow engine (divergent contexts of two versions in one exploration): only its
  expression visitors are modelled. It would need contexts with two stores each.
* The experimental and smart engines, which `main` never starts: only their visitors.
* A test suite kept across two runs of an engine (`test_suite.cpp:18`), and names split at
  their first underscore (`executor.cpp:542`).
* The simulator's coverage and shadow expressions.
* Data other than Booleans in the engines.

Left for later, in this order:

1. `NamesAgree`, `RunsInv` and `CoverageInv` stated and proved for the engines of `LoopCorrectness`, as they are
   for the ETFA engine, and from them that each implements `ScanCycle` or its over-approximation.
2. That the summaries of the summarization engine satisfy `CallIsSummarized` in every program
   that calls the function block, and `SummaryIsTaken` (`SummariesExact` says it of the function block alone).
3. The shadow engine, as a composition of two stores in `ConcolicContext`.
