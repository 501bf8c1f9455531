--------------------------- MODULE Simulation ----------------------------
(***************************************************************************)
(* Concrete execution of a program, as the simulator performs it           *)
(* (src/ahorn/src/se/simulator): one run per world, from the entry of the  *)
(* program in cycle 0 until the cycle bound.  It is the reference against  *)
(* which the symbolic engines are checked.                                 *)
(*                                                                         *)
(* A configuration is [cycle, label, stack, env, taken]: env holds the     *)
(* value of every flattened variable, taken the branches taken so far.     *)
(***************************************************************************)
EXTENDS SymbolicContext, TLC

CONSTANT MaxSteps        \* no run takes more steps than this

ASSUME MaxStepsAssumption == MaxSteps \in Nat

(* Evaluator::evaluate.                                                    *)
Evaluate(k, e) ==
  LET arg(i) == k.env[Flatten(Scope(k), e.args[i])]
  IN  CASE e.op = "true"  -> TRUE
        [] e.op = "false" -> FALSE
        [] e.op = "id"    -> arg(1)
        [] e.op = "not"   -> ~arg(1)
        [] e.op = "and"   -> arg(1) /\ arg(2)
        [] e.op = "or"    -> arg(1) \/ arg(2)

(* Simulator Engine::initialize.                                           *)
InitialConfiguration(p, w) ==
  [cycle |-> 0,
   label |-> MainCfg(p).entry,
   stack |-> <<[scope |-> MainScope(p), ret |-> MainCfg(p).entry]>>,
   env   |-> [x \in FlattenedInterface(p) |->
                IF x \in WholeProgramInputs(p) THEN <<0, x>> \in w ELSE InitialValue(p, x)],
   taken |-> {}]

(* Executor::handleProgramExitVertex of the simulator, with the inputs of  *)
(* the test case for the next cycle.                                       *)
ConcreteNextCycle(p, w, k) ==
  [k EXCEPT !.cycle = @ + 1,
            !.label = ReturnLabel(k),
            !.env = [x \in DOMAIN @ |-> IF x \in WholeProgramInputs(p)
                                        THEN <<k.cycle + 1, x>> \in w ELSE @[x]]]

(* Executor::execute of the simulator.                                     *)
ConcreteStep(p, w, k) ==
  LET g == CfgOf(p, Scope(k))
      v == g.vertices[k.label]
      pass == [k EXCEPT !.label = SucceedingLabel(g, k.label)]
      holds == Evaluate(k, v.cond)
  IN  CASE v.type = "ENTRY" -> pass
        [] v.type = "EXIT" /\ g.type = "PROGRAM" -> ConcreteNextCycle(p, w, k)
        [] v.type = "EXIT" /\ g.type = "FUNCTION_BLOCK" ->
             [k EXCEPT !.label = ReturnLabel(k),
                       !.stack = SubSeq(@, 1, Len(@) - 1)]
        [] v.type = "REGULAR" /\ v.op = "none" -> pass
        [] v.type = "REGULAR" /\ v.op = "assign" ->
             [k EXCEPT !.env[Flatten(Scope(k), v.var)] = Evaluate(k, v.rhs),
                       !.label = Target(g, k.label, "INTRAPROCEDURAL")]
        [] v.type = "REGULAR" /\ v.op = "havoc" ->
             [k EXCEPT !.env[Flatten(Scope(k), v.var)] = <<k.cycle, <<Scope(k), "havoc", k.label>>>> \in w,
                       !.label = Target(g, k.label, "INTRAPROCEDURAL")]
        [] v.type = "REGULAR" /\ v.op = "if" ->
             [k EXCEPT !.label = Target(g, k.label, IF holds THEN "TRUE_BRANCH"
                                                             ELSE "FALSE_BRANCH"),
                       !.taken = @ \cup {<<k.label, holds>>}]
        [] v.type = "REGULAR" /\ v.op = "call" ->
             [k EXCEPT !.label = Target(g, k.label, "CALL"),
                       !.stack = Append(@, [scope |-> Append(Scope(k), v.instance),
                                            ret |-> Target(g, k.label, "CALL_TO_RETURN")])]

(* The run of p in world w, up to the first configuration of cycle         *)
(* CycleBound: where it is after i steps.                                  *)
RunAfter(p, w) ==
  LET at[i \in 0 .. MaxSteps] ==
        IF i = 0 THEN InitialConfiguration(p, w)
        ELSE LET k == at[i - 1]
             IN  IF k.cycle = CycleBound THEN k ELSE ConcreteStep(p, w, k)
  IN  at

Run(p, w) == LET at == RunAfter(p, w) IN {at[i] : i \in 0 .. MaxSteps}

Position(k) == <<k.cycle, k.label, k.stack>>

(* Comparing a function with itself makes TLC tabulate it.                 *)
Tabulated(f) == CHOOSE g \in {f} : g = g

(* The run of p in world w as a function of the position; control flow     *)
(* within a cycle is acyclic, so a run visits a position once.             *)
Visits(p, w) ==
  LET run == Run(p, w)
  IN  Tabulated([pos \in {Position(k) : k \in run} |-> CHOOSE k \in run : Position(k) = pos])

(* The runs of p in every world.                                           *)
RunsOf(p) == Tabulated([w \in Worlds(p) |-> Visits(p, w)])
==========================================================================
