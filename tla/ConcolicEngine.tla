-------------------------- MODULE ConcolicEngine -------------------------
(***************************************************************************)
(* The concolic engine of src/ahorn/src/se/etfa-no-merge, which explores a *)
(* program path by path, or merge-based like the ETFA engine, along the    *)
(* concrete values its contexts carry.                                     *)
(***************************************************************************)
EXTENDS EngineLoop

CONSTANTS
  MergeBased,            \* not Configuration::_no_merge
  Alphabet               \* the names of all variables in alphabetical order

Precision == 10000       \* EPSILON = 0.0001

TerminationCriteriaMet == CriteriaMet(Precision)

LocalTerminationCriteriaMet == LocalCriteriaMet(Precision)

(* Engine::initialize.                                                     *)
Init ==
  /\ prog \in Programs
  /\ InitWith(InitialConcolicContext(P))
  /\ merger = NoMerges
  /\ statements = {}
  /\ branches = {}

TimeOut == PassTimeOut

RunLoop == RunLoopUnless(TerminationCriteriaMet)

(* Engine::run goes on with the contexts that crossed the program exit.    *)
EndOfStep == succeeding # {} /\ FinishStep

(* Local termination, checked when a context of the program is popped.     *)
LocalTermination ==
  /\ phase = "step"
  /\ LocalTerminationCriteriaMet
  /\ \E c \in explorer :
       /\ CanPop(c)
       /\ Graph(c).type = "PROGRAM"
       /\ explorer' = explorer \ {c}
  /\ Leave("done")

BeginMerge == MergeBased /\ StartMerge

MergePair == phase = "merge" /\ Len(held) > 1 /\ MergeFirstTwo(MergeConcolic(P, version, held[1], held[2]))

EndMerge == FinishMerge

-----------------------------------------------------------------------------
(* Summaries are looked up by                                              *)
(* Summarizer::findConcretelyApplicableSummaries, which evaluates them one *)
(* after the other in a model of the concrete values at the call: a        *)
(* function from names of the summaries to their values.                   *)

(* The names x_0 of the called function block with their concrete values.  *)
ReversionedValues(p, c) ==
  [n \in {<<<<Scope(c), x>>, 0>> : x \in CfgOf(p, Scope(c)).vars} |->
     c.conc[CurrentName(c, n[1])]]

(* A name without a value is not true.                                     *)
TermIn(model, term) ==
  Apply(term.op, [i \in DOMAIN term.args |->
                    term.args[i] \in DOMAIN model /\ model[term.args[i]]])

(* The place of a name in a std::map over strings: the names of a summary  *)
(* are variables of one instance, and their versions have one digit.       *)
SortsBefore(n, m) ==
  LET Place(name) == CHOOSE i \in DOMAIN Alphabet : Alphabet[i] = name[1][2]
  IN  Place(n) < Place(m) \/ (Place(n) = Place(m) /\ n[2] < m[2])

(* Summary::_hard_constraints, which is such a map, as it is iterated.     *)
HardConstraints(s) == SortSeq(s.hard, LAMBDA h, k : SortsBefore(h.name, k.name))

(* z3::model::eval without completion yields a value.                      *)
Evaluates(model, term) ==
  LET Is(i, value) == term.args[i] \in DOMAIN model /\ model[term.args[i]] = value
  IN  \/ \A i \in DOMAIN term.args : term.args[i] \in DOMAIN model
      \/ term.op = "and" /\ \E i \in DOMAIN term.args : Is(i, FALSE)
      \/ term.op = "or" /\ \E i \in DOMAIN term.args : Is(i, TRUE)

IsSelfReference(h) == h.term = [op |-> "id", args |-> <<h.name>>]

(* The model after each of the hard constraints: the value of a constraint *)
(* is entered under its name before the next one is evaluated.             *)
Models(model, s) ==
  LET hard == HardConstraints(s)
      after[i \in 0 .. Len(hard)] ==
        IF i = 0 THEN model
        ELSE (hard[i].name :> TermIn(after[i - 1], hard[i].term)) @@ after[i - 1]
  IN  after

EvaluateHardConstraints(model, s) == Models(model, s)[Len(s.hard)]

(* A constraint that has no value yet makes the code throw, unless it is   *)
(* the name itself, as for a havoc.                                        *)
Interpretable(model, s) ==
  LET hard == HardConstraints(s)
  IN  \A i \in DOMAIN hard :
        Evaluates(Models(model, s)[i - 1], hard[i].term) \/ IsSelfReference(hard[i])

(* All summaries share one model object, so that each finds the names that *)
(* the summaries before it have written.  SharedModel(p, c, k) is the model*)
(* once the k-th summary has been evaluated.                               *)
SharedModel(p, c, k) ==
  LET shared[i \in 0 .. k] ==
        IF i = 0 THEN ReversionedValues(p, c)
        ELSE EvaluateHardConstraints(shared[i - 1], SummariesAt(p, c)[i])
  IN  shared[k]

LookupThrows(p, c) ==
  \E k \in DOMAIN SummariesAt(p, c) :
    ~Interpretable(SharedModel(p, c, k - 1), SummariesAt(p, c)[k])

IsConcretelyApplicable(p, c, k) ==
  LET s == SummariesAt(p, c)[k]
      model == SharedModel(p, c, k)
  IN  \A i \in DOMAIN s.assumptions :
        TermIn(model, s.assumptions[i][1]) = s.assumptions[i][2]

(* Summarizer::isSymbolicallyApplicable: the models of the assumptions     *)
(* under the symbolic valuations.  The path constraint is not asked for.   *)
SymbolicModels(p, c, s) ==
  LET Read(n) == CurrentValue(c, n[1]).worlds
      hard == HardWorlds(Worlds(p), s, Read)
      Value(n) == IF n \in WrittenNames(s) THEN hard[n] ELSE Read(n)
      Holds(lit, w) ==
        (w \in Meaning(Worlds(p), lit[1].op, [i \in DOMAIN lit[1].args |->
                                                Value(lit[1].args[i])])) = lit[2]
  IN  {w \in Worlds(p) : \A i \in DOMAIN s.assumptions : Holds(s.assumptions[i], w)}

(* Mutant: the search stops at the first summary that is found.            *)
FindFirstConcretelyApplicable(p, c) ==
  LET found == {k \in DOMAIN SummariesAt(p, c) :
                  IsConcretelyApplicable(p, c, k) \/ SymbolicModels(p, c, SummariesAt(p, c)[k]) # {}}
  IN  {k \in found : \A j \in found : k <= j}

FindConcretelyApplicableSummaries(p, c) ==
  {k \in DOMAIN SummariesAt(p, c) :
     \/ IsConcretelyApplicable(p, c, k)
     \/ SymbolicModels(p, c, SummariesAt(p, c)[k]) # {}}

(* The values that the model of the k-th summary gives the names it writes:*)
(* for a concretely applicable one that is the shared model after all      *)
(* summaries, for another one a model of the solver.                       *)
SummaryValues(p, c, k) ==
  LET s == SummariesAt(p, c)[k]
      final == SharedModel(p, c, Len(SummariesAt(p, c)))
      Read(n) == CurrentValue(c, n[1]).worlds
      hard == HardWorlds(Worlds(p), s, Read)
      TermOf(n) == s.hard[CHOOSE i \in DOMAIN s.hard : s.hard[i].name = n].term
  IN  IF IsConcretelyApplicable(p, c, k)
      THEN {[n \in WrittenNames(s) |-> TermIn(final, TermOf(n))]}
      ELSE {[n \in WrittenNames(s) |-> w \in hard[n]] : w \in SymbolicModels(p, c, s)}

(* Executor::applySummaryConcretely: the written names get their concrete  *)
(* values, the inputs that the model assumes do not.                       *)
ApplySummaryConcretely(p, versions, c, s, values) ==
  LET R(n) == Reversion(versions, c, s, n)
      names == {R(n) : n \in WrittenNames(s)}
  IN  [ApplySummary(p, versions, c, s) EXCEPT
         !.conc = Emplace(@, names, [m \in names |->
                    values[CHOOSE n \in WrittenNames(s) : R(n) = m]])]

-----------------------------------------------------------------------------
(* Executor::execute.                                                      *)

Execute(c) == Pop(c) /\ ~(Graph(c).type = "PROGRAM" /\ LocalTerminationCriteriaMet)

(* handleProgramEntryVertex, handleFunctionBlockEntryVertex and            *)
(* handleIntermediateDecisionVertex.                                       *)
HandlePassThroughVertex ==
  \E c \in explorer :
    /\ Execute(c)
    /\ Vertex(c).type # "EXIT" /\ Vertex(c).op = "none"
    /\ Return(<<Passed(c)>>)
    /\ UNCHANGED version

VisitAssignmentInstruction ==
  \E c \in explorer :
    /\ Execute(c)
    /\ Vertex(c).op = "assign"
    /\ version' = [version EXCEPT ![Assigned(c)] = @ + 1]
    /\ Return(<<AssignConcolic(P, version, c, Assigned(c), Vertex(c).rhs, NextLabel(c))>>)

VisitIfInstruction ==
  \E c \in explorer :
    /\ Execute(c)
    /\ Vertex(c).op = "if"
    /\ \E fork \in ForkOther(P, Graph(c), c, Vertex(c).cond) :
         Return(<<Follow(Graph(c), c, Vertex(c).cond)>> \o fork)
    /\ UNCHANGED version

(* The lookup throws when the value of a hard constraint is not known yet. *)
VisitCallInstruction ==
  \E c \in explorer :
    /\ Execute(c)
    /\ Vertex(c).op = "call"
    /\ LET callee == Called(c)
           applicable == FindConcretelyApplicableSummaries(P, callee)
       IN  \/ /\ LookupThrows(P, callee)
              /\ phase' = "aborted"
              /\ UNCHANGED <<held, todo, covered, pending>>
           \/ /\ ~LookupThrows(P, callee)
              /\ applicable = {}
              /\ Return(<<[callee EXCEPT !.label = Target(Graph(c), c.label, "CALL")]>>)
           \/ /\ ~LookupThrows(P, callee)
              /\ applicable # {}
              /\ held' = <<callee>>
              /\ todo' = applicable
              /\ covered' = c.label
              /\ phase' = "summarize"
              /\ UNCHANGED pending
    /\ UNCHANGED version

(* Mutant: the path constraint is not given to the solver.                 *)
DeriveUnconstrainedTestCase(c) ==
  \E w \in Worlds(P) : testSuite' = testSuite \cup {TestCase(c, w)}

(* TestSuite::deriveTestCase.  It takes for granted that there is a model. *)
DeriveTestCase(c) ==
  \E w \in PathWorlds(P, c) : testSuite' = testSuite \cup {TestCase(c, w)}

(* One pass of the loop over the applicable summaries.  When the path      *)
(* constraint has become unsatisfiable there is no model to derive a test  *)
(* case from, and the engine dereferences an empty optional.               *)
ApplyNextSummary ==
  /\ phase = "summarize"
  /\ \E k \in todo :
       /\ \A j \in todo : k <= j
       /\ \E values \in SummaryValues(P, held[1], k) :
            LET c == held[1]
                s == SummariesAt(P, c)[k]
                applied == ApplySummaryConcretely(P, version, c, s, values)
                path == <<covered>> \o s.literals
                taken == UNION {BranchesTaken(Graph(c), path[i], path[i + 1]) :
                                  i \in 1 .. Len(s.literals)}
                crashes == ~(taken \subseteq branches) /\ PathWorlds(P, applied) = {}
            IN  /\ pending' = Append(pending, Returned(applied))
                /\ version' = [x \in DOMAIN version |->
                                 IF x \in WrittenVariables(s) THEN applied.ver[x]
                                                              ELSE version[x]]
                /\ statements' = statements \cup RangeOf(path)
                /\ branches' = branches \cup taken
                /\ IF taken \subseteq branches \/ crashes
                   THEN UNCHANGED testSuite
                   ELSE DeriveTestCase(applied)
                /\ covered' = path[Len(path)]
                /\ phase' = IF crashes THEN "aborted"
                            ELSE IF todo = {k} THEN "dispatch" ELSE phase
       /\ todo' = todo \ {k}
       /\ held' = IF todo = {k} THEN <<>> ELSE held
  /\ UNCHANGED <<prog, cycle, explorer, merger, succeeding, source, timedOut>>

(* Versions start over, globally and in the context; the new inputs are    *)
(* random.                                                                 *)
HandleProgramExitVertex ==
  \E c \in explorer :
    /\ Execute(c)
    /\ Vertex(c).type = "EXIT"
    /\ Graph(c).type = "PROGRAM"
    /\ version' = [x \in DOMAIN version |-> 0]
    /\ \E inputs \in SUBSET WholeProgramInputs(P) : Return(<<NextConcolicCycle(P, c, inputs)>>)

HandleFunctionBlockExitVertex ==
  \E c \in explorer :
    /\ Execute(c)
    /\ Vertex(c).type = "EXIT"
    /\ Graph(c).type = "FUNCTION_BLOCK"
    /\ Return(<<Returned(c)>>)
    /\ UNCHANGED version

(* The next succeeding context covers a new branch.                        *)
CoversMore == pending # <<>> /\ ~(TakenBy(Head(pending)) \subseteq branches)

(* The loops of Engine::step and Engine::stepMergeBased over the           *)
(* succeeding contexts and the forked one.                                 *)
Dispatch ==
  /\ DispatchHead(MergeBased)
  /\ IF CoversMore THEN DeriveTestCase(Head(pending)) ELSE UNCHANGED testSuite

(* As in ApplyNextSummary: a branch that the concrete store has taken need *)
(* not have a model.                                                       *)
DispatchCrashes ==
  /\ phase = "dispatch"
  /\ CoversMore
  /\ PathWorlds(P, Head(pending)) = {}
  /\ phase' = "aborted"
  /\ UNCHANGED <<prog, cycle, contextVars, todo, source, covered, coverageVars, timedOut>>

EngineStep ==
  \/ RunLoop \/ EndOfStep \/ LocalTermination
  \/ BeginMerge \/ MergePair \/ EndMerge
  \/ HandlePassThroughVertex \/ VisitAssignmentInstruction
  \/ VisitIfInstruction \/ VisitCallInstruction \/ ApplyNextSummary
  \/ HandleProgramExitVertex \/ HandleFunctionBlockExitVertex
  \/ Dispatch \/ DispatchCrashes

Next == EngineStep \/ TimeOut \/ Stopped

Spec == Init /\ [][Next]_vars /\ WF_vars(EngineStep)
==========================================================================
