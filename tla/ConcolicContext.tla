------------------------- MODULE ConcolicContext -------------------------
(***************************************************************************)
(* Contexts of the concolic engines (src/ahorn/src/se/etfa-no-merge and    *)
(* src/ahorn/src/se/ahorn): beside the symbolic store a context carries a  *)
(* concrete one.  A context of SymbolicContext gets one more field,        *)
(*   conc           State::_concrete_valuations, name -> BOOLEAN           *)
(* with the same names as val.  A decision follows the concrete values and *)
(* forks the other branch when the solver finds a model of it.             *)
(***************************************************************************)
EXTENDS SymbolicContext, TLC

(* The value of op for given values of its arguments, as z3 simplifies it. *)
Apply(op, args) ==
  CASE op = "true"  -> TRUE
    [] op = "false" -> FALSE
    [] op = "id"    -> args[1]
    [] op = "not"   -> ~args[1]
    [] op = "and"   -> args[1] /\ args[2]
    [] op = "or"    -> args[1] \/ args[2]

(* Evaluator::evaluate under the concrete store.                           *)
EvaluateConcretely(c, e) ==
  LET term == Encode(c, e) IN Apply(term.op, [i \in DOMAIN term.args |-> c.conc[term.args[i]]])

(* The concrete store that a model of the solver gives the names.          *)
ModelValues(c, w) == [n \in DOMAIN c.val |-> w \in c.val[n].worlds]

(* Engine::initialize: concretely, an input starts at its initial or       *)
(* default value like every other variable.                                *)
InitialConcolicContext(p) ==
  LET c == InitialContext(p)
  IN  [cycle |-> c.cycle, label |-> c.label, stack |-> c.stack, val |-> c.val,
       conc |-> [n \in DOMAIN c.val |-> InitialValue(p, n[1])],
       pc |-> c.pc, ver |-> c.ver]

(* Executor::visit(AssignmentInstruction).                                 *)
AssignConcolic(p, version, c, x, e, next) ==
  LET name == <<x, version[x] + 1, c.cycle>>
  IN  [Assign(p, version, c, x, e, next) EXCEPT
         !.conc = Emplace(@, {name}, [n \in {name} |-> EvaluateConcretely(c, e)])]

(* Executor::visit(HavocInstruction): the variable becomes a fresh constant*)
HavocSymbolic(p, version, c, x, next) ==
  LET name == <<x, version[x] + 1, c.cycle>>
      point == <<Scope(c), "havoc", c.label>>
      constant == [term |-> [op |-> "id", args |-> <<name>>],
                   worlds |-> {w \in Worlds(p) : <<c.cycle, point>> \in w}]
  IN  [c EXCEPT !.val = Emplace(@, {name}, [n \in {name} |-> constant]),
                !.ver[x] = version[x] + 1,
                !.label = next]

(* Concretely it takes a random value.                                     *)
HavocConcolic(p, version, c, x, random, next) ==
  LET name == <<x, version[x] + 1, c.cycle>>
  IN  [HavocSymbolic(p, version, c, x, next) EXCEPT
         !.conc = Emplace(@, {name}, [n \in {name} |-> random])]

(* Executor::handleProgramExitVertex: the inputs of the next cycle are     *)
(* random, given as the set of those that are true; every other variable   *)
(* keeps its value.                                                        *)
NextConcolicCycle(p, c, inputs) ==
  LET names == {<<x, 0, c.cycle + 1>> : x \in FlattenedInterface(p)}
  IN  [NextCycle(p, c) EXCEPT
         !.conc = Emplace(@, names, [n \in names |->
                    IF n[1] \in WholeProgramInputs(p) THEN n[1] \in inputs
                                                      ELSE c.conc[CurrentName(c, n[1])]])]

-----------------------------------------------------------------------------
(* Decisions.                                                              *)

(* Solver::getUninterpretedConstants: the names that occur in a term.      *)
NamesIn(term) ==
  {term.args[i] : i \in DOMAIN term.args} \cup
    (IF term.op = "ite"
     THEN UNION {UNION {{lit[1].args[i] : i \in DOMAIN lit[1].args} : lit \in cube} :
                   cube \in term.guard}
     ELSE {})

(* Executor::containsUnconstrainedUninterpretedConstant: follows the names *)
(* of an expression through the symbolic store until a constant that stands*)
(* for itself is found.                                                    *)
ContainsUnconstrainedConstant(c, term) ==
  LET reaches[n \in DOMAIN c.val] ==
        LET below == NamesIn(c.val[n].term)
        IN  n \in below \/ \E m \in below : reaches[m]
  IN  \E n \in NamesIn(term) : reaches[n]

(* State::fork: the valuations of the model overwrite the concrete store.  *)
Fork(c, literal, next, w) ==
  [c EXCEPT !.pc = PushPathConstraint(@, literal), !.label = next, !.conc = ModelValues(c, w)]

(* Executor::tryFork: the possible results, each empty or a singleton.     *)
TryFork(p, c, literal, next) ==
  LET models == PathWorlds(p, c) \cap Literal(p, c.val, literal)
  IN  IF ContainsUnconstrainedConstant(c, literal[1]) /\ models # {}
      THEN {<<Fork(c, literal, next, w)>> : w \in models} ELSE {<<>>}

BranchTarget(g, c, holds) ==
  Target(g, c.label, IF holds THEN "TRUE_BRANCH" ELSE "FALSE_BRANCH")

(* Executor::visit(IfInstruction): the branch that the concrete store takes*)
(* is followed without asking the solver.                                  *)
Follow(g, c, e) ==
  LET holds == EvaluateConcretely(c, e)
  IN  [c EXCEPT !.pc = PushPathConstraint(@, <<Encode(c, e), holds>>),
                !.label = BranchTarget(g, c, holds)]

(* The other branch is forked if it can be.                                *)
ForkOther(p, g, c, e) ==
  LET other == ~EvaluateConcretely(c, e)
  IN  TryFork(p, c, <<Encode(c, e), other>>, BranchTarget(g, c, other))

-----------------------------------------------------------------------------
(* Merger::merge(context_1, context_2).                                    *)

(* Mutant: the merged names take the concrete values of the second context.*)
MergeConcolicMixed(p, version, c1, c2) ==
  LET diff == VersionsDiffer(c1, c2)
      names == {MergedName(version, c1, x) : x \in diff}
      both == Emplace(c1.val, DOMAIN c2.val, c2.val)
      bothConc == Emplace(c1.conc, DOMAIN c2.conc, c2.conc)
  IN  [c1 EXCEPT
         !.val = Emplace(both, names, [n \in names |-> MergedValue(p, c1, c2, n[1])]),
         !.conc = Emplace(bothConc, names, [n \in names |-> c2.conc[CurrentName(c2, n[1])]]),
         !.pc = c1.pc \cup c2.pc,
         !.ver = [x \in DOMAIN @ |-> IF x \in diff THEN version[x] + 1 ELSE @[x]]]

(* The merged context keeps the concrete store of the first one; unlike the*)
(* merger of se/etfa it leaves the names of the path constraint alone.     *)
MergeConcolic(p, version, c1, c2) ==
  LET diff == VersionsDiffer(c1, c2)
      names == {MergedName(version, c1, x) : x \in diff}
      both == Emplace(c1.val, DOMAIN c2.val, c2.val)
      bothConc == Emplace(c1.conc, DOMAIN c2.conc, c2.conc)
  IN  [c1 EXCEPT
         !.val = Emplace(both, names, [n \in names |-> MergedValue(p, c1, c2, n[1])]),
         !.conc = Emplace(bothConc, names, [n \in names |-> c1.conc[CurrentName(c1, n[1])]]),
         !.pc = c1.pc \cup c2.pc,
         !.ver = [x \in DOMAIN @ |-> IF x \in diff THEN version[x] + 1 ELSE @[x]]]
==========================================================================
