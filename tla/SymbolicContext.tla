------------------------- MODULE SymbolicContext -------------------------
(***************************************************************************)
(* Execution contexts of the ETFA engine and the pure operations on them:  *)
(* the state's SSA store, the encoder, the queries put to the solver, the  *)
(* join of two contexts and the application of a function block summary.   *)
(*                                                                         *)
(* All program variables are Boolean.  A symbolic expression is kept twice:*)
(* as the term the code builds, [op, args] over contextualized names (two  *)
(* terms are compared with z3::eq), and as its meaning, the set of worlds  *)
(* in which it is true.  A world fixes every whole-program input of every  *)
(* cycle and every nondeterministic value: it is the set of the pairs      *)
(* <<cycle, x>> whose input x is true, x an input or a havoc point.        *)
(* "Satisfiable" is "true in some world".                                  *)
(*                                                                         *)
(* A contextualized name x_3__1 is the triple <<x, 3, 1>>.                 *)
(*                                                                         *)
(* A context is a record                                                   *)
(*   cycle, label   Context::_cycle and the label of State::_vertex        *)
(*   stack          the call stack, a sequence of [scope, ret]             *)
(*   val            State::_symbolic_valuations, name -> [term, worlds]    *)
(*   pc             State::_path_constraint in disjunctive normal form: a  *)
(*                  set of cubes, each a set of literals <<term, sign>>    *)
(*   ver            State::_flattened_name_to_version                      *)
(***************************************************************************)
EXTENDS Cfg

CONSTANT CycleBound      \* Configuration::_cycle_bound

ASSUME CycleBoundAssumption == CycleBound \in Nat

Worlds(p) == SUBSET ((0 .. CycleBound) \X (WholeProgramInputs(p) \cup HavocPoints(p)))

-----------------------------------------------------------------------------
(* Names and the SSA store.                                                *)

Scope(c) == c.stack[Len(c.stack)].scope

ReturnLabel(c) == c.stack[Len(c.stack)].ret

Depth(c) == Len(c.stack)

(* A variable reference is <<path, name>>, relative to the running frame;  *)
(* path is empty but for a field access.                                   *)
Flatten(scope, ref) == <<scope \o ref[1], ref[2]>>

(* The name the context currently uses for the flattened variable x.       *)
CurrentName(c, x) == <<x, c.ver[x], c.cycle>>

CurrentValue(c, x) == c.val[CurrentName(c, x)]

(* std::map::emplace: a name that is already there keeps its value.  The   *)
(* assertion of State::setSymbolicValuation, that there is none, is        *)
(* compiled out of the release build.                                      *)
Emplace(val, names, new) ==
  [n \in DOMAIN val \cup names |-> IF n \in DOMAIN val THEN val[n] ELSE new[n]]

-----------------------------------------------------------------------------
(* Terms, their meaning, and the solver.                                   *)

Operators == {"true", "false", "id", "not", "and", "or", "ite"}

(* The worlds in which op holds, given those of its arguments and all.     *)
Meaning(all, op, args) ==
  CASE op = "true"  -> all
    [] op = "false" -> {}
    [] op = "id"    -> args[1]
    [] op = "not"   -> all \ args[1]
    [] op = "and"   -> args[1] \cap args[2]
    [] op = "or"    -> args[1] \cup args[2]

(* Encoder::encode: replaces the references of an expression by the        *)
(* context's current names.                                                *)
Encode(c, e) ==
  [op |-> e.op, args |-> [i \in DOMAIN e.args |->
                            CurrentName(c, Flatten(Scope(c), e.args[i]))]]

(* An expression of the code has the arguments that its operator takes.    *)
IsExpression(e) ==
  /\ e.op \in Operators \ {"ite"}
  /\ e.op \notin {"true", "false"} => 1 \in DOMAIN e.args
  /\ e.op \in {"and", "or"} => 2 \in DOMAIN e.args

WorldsOf(p, val, term) ==
  Meaning(Worlds(p), term.op, [i \in DOMAIN term.args |-> val[term.args[i]].worlds])

Symbolic(p, val, term) == [term |-> term, worlds |-> WorldsOf(p, val, term)]

(* Solver::makeConstant for an input of the given cycle: a constant that   *)
(* stands for itself.                                                      *)
InputConstant(p, x, cycle) ==
  [term |-> [op |-> "id", args |-> << <<x, 0, cycle>> >>],
   worlds |-> {w \in Worlds(p) : <<cycle, x>> \in w}]

Literal(p, val, lit) ==
  IF lit[2] THEN WorldsOf(p, val, lit[1])
            ELSE Worlds(p) \ WorldsOf(p, val, lit[1])

(* The models of a path constraint under the given valuations; those of the*)
(* context, which every satisfiability check asserts as hard constraints.  *)
Satisfying(p, val, pc) ==
  LET ModelsOf(cube) == LET lits == {Literal(p, val, lit) : lit \in cube}
                        IN  {w \in Worlds(p) : \A holds \in lits : w \in holds}
  IN  UNION {ModelsOf(cube) : cube \in pc}

PathWorlds(p, c) == Satisfying(p, c.val, c.pc)

PushPathConstraint(pc, lit) == {cube \cup {lit} : cube \in pc}

-----------------------------------------------------------------------------
(* Engine::initialize: the state before the first cycle.                   *)
InitialContext(p) ==
  LET vars == FlattenedInterface(p)
      Initial(x) ==
        IF x \in WholeProgramInputs(p)
        THEN InputConstant(p, x, 0)
        ELSE Symbolic(p, <<>>, [op |-> IF InitialValue(p, x) THEN "true" ELSE "false",
                                args |-> <<>>])
  IN  [cycle |-> 0,
       label |-> MainCfg(p).entry,
       stack |-> <<[scope |-> MainScope(p), ret |-> MainCfg(p).entry]>>,
       val   |-> [n \in {<<x, 0, 0>> : x \in vars} |-> Initial(n[1])],
       pc    |-> {{}},
       ver   |-> [x \in vars |-> 0]]

(* Mutant: the next version is taken from the context, not the executor.   *)
AssignLocally(p, version, c, x, e, next) ==
  LET name == <<x, c.ver[x] + 1, c.cycle>>
  IN  [c EXCEPT !.val = Emplace(@, {name},
                                [n \in {name} |-> Symbolic(p, c.val, Encode(c, e))]),
                !.ver[x] = @ + 1,
                !.label = next]

(* Executor::visit(AssignmentInstruction): the variable gets the version   *)
(* after the executor's global one.                                        *)
Assign(p, version, c, x, e, next) ==
  LET name == <<x, version[x] + 1, c.cycle>>
  IN  [c EXCEPT !.val = Emplace(@, {name},
                                [n \in {name} |-> Symbolic(p, c.val, Encode(c, e))]),
                !.ver[x] = version[x] + 1,
                !.label = next]

(* Executor::handleProgramExitVertex: couples the last version of every    *)
(* variable to version 0 of the next cycle, makes the inputs fresh, forgets*)
(* the path constraint and starts over at the return label of the program. *)
NextCycle(p, c) ==
  LET vars == FlattenedInterface(p)
      names == {<<x, 0, c.cycle + 1>> : x \in vars}
  IN  [c EXCEPT !.val = Emplace(@, names,
                          [n \in names |->
                             IF n[1] \in WholeProgramInputs(p)
                             THEN InputConstant(p, n[1], c.cycle + 1)
                             ELSE CurrentValue(c, n[1])]),
                !.ver = [x \in vars |-> 0],
                !.pc = {{}},
                !.label = ReturnLabel(c),
                !.cycle = @ + 1]

-----------------------------------------------------------------------------
(* Merger::merge(context_1, context_2).                                    *)

VersionsDiffer(c1, c2) == {x \in DOMAIN c1.ver : c1.ver[x] # c2.ver[x]}

(* The variables that get an ite-expression: their two values are not the  *)
(* same term.  The term of an ite-expression has the path constraint of the*)
(* first context, its guard, in it.                                        *)
NeedsIte(c1, c2, x) == CurrentValue(c1, x).term # CurrentValue(c2, x).term

MergedName(version, c1, x) == <<x, version[x] + 1, c1.cycle>>

(* Mutant: the two arms of the ite-expression are exchanged.               *)
MergedValueSwapped(p, c1, c2, x) ==
  [term |-> [op |-> "ite", guard |-> c1.pc,
             args |-> <<CurrentName(c1, x), CurrentName(c2, x)>>],
   worlds |-> (PathWorlds(p, c1) \cap CurrentValue(c2, x).worlds)
                \cup (CurrentValue(c1, x).worlds \ PathWorlds(p, c1))]

MergedValue(p, c1, c2, x) ==
  LET one == CurrentValue(c1, x)
      two == CurrentValue(c2, x)
      guard == PathWorlds(p, c1)
  IN  IF NeedsIte(c1, c2, x)
      THEN [term |-> [op |-> "ite", guard |-> c1.pc,
                      args |-> <<CurrentName(c1, x), CurrentName(c2, x)>>],
            worlds |-> (guard \cap one.worlds) \cup (two.worlds \ guard)]
      ELSE one

(* Mutant: the path constraint of the second context is forgotten.         *)
SubstituteFirstOnly(version, c1, c2, pc) == c1.pc

(* The final loop of merge: in the disjunction of the two path constraints *)
(* every name that took part in an ite-expression is replaced by the merged*)
(* name.                                                                   *)
SubstituteMerged(version, c1, c2, pc) ==
  LET ites == {x \in VersionsDiffer(c1, c2) : NeedsIte(c1, c2, x)}
      Rename(n) ==
        IF n[1] \in ites /\ n \in {CurrentName(c1, n[1]), CurrentName(c2, n[1])}
        THEN MergedName(version, c1, n[1]) ELSE n
      RenameTerm(t) == [t EXCEPT !.args = [i \in DOMAIN @ |-> Rename(@[i])]]
  IN  {{<<RenameTerm(lit[1]), lit[2]>> : lit \in cube} : cube \in pc}

Merge(p, version, c1, c2) ==
  LET diff == VersionsDiffer(c1, c2)
      names == {MergedName(version, c1, x) : x \in diff}
      both == Emplace(c1.val, DOMAIN c2.val, c2.val)
  IN  [c1 EXCEPT
         !.val = Emplace(both, names, [n \in names |-> MergedValue(p, c1, c2, n[1])]),
         !.pc = SubstituteMerged(version, c1, c2, c1.pc \cup c2.pc),
         !.ver = [x \in DOMAIN @ |-> IF x \in diff THEN version[x] + 1 ELSE @[x]]]

-----------------------------------------------------------------------------
(* Summaries.  A summary is [assumptions, hard, literals]: a sequence of   *)
(* literals and a sequence of [name, term], both in path order over names  *)
(* <<x, k>> of flattened variables with the summary's versions; literals is*)
(* the sequence of the labels of the summarized path.                      *)

WrittenNames(s) == {s.hard[i].name : i \in DOMAIN s.hard}

WrittenVariables(s) == {n[1] : n \in WrittenNames(s)}

HighestVersion(s, x) ==
  CHOOSE k \in {n[2] : n \in WrittenNames(s)} :
    /\ <<x, k>> \in WrittenNames(s)
    /\ \A n \in WrittenNames(s) : n[1] = x => n[2] <= k

(* What summarizePath promises of the summaries of a function block: their *)
(* labels are those of a path through it, and the versions they write are  *)
(* numbers, of which there is a highest one.                               *)
WellFormedSummaries(p) ==
  \A f \in DOMAIN p.summaries : \A i \in DOMAIN p.summaries[f] :
    LET s == p.summaries[f][i]
    IN  /\ f \in DOMAIN p.cfgs
        /\ s.literals \in Seq(DOMAIN p.cfgs[f].vertices)
        /\ \A x \in WrittenVariables(s) : \E k \in {n[2] : n \in WrittenNames(s)} :
             /\ k \in Nat
             /\ <<x, k>> \in WrittenNames(s)
             /\ \A n \in WrittenNames(s) : n[1] = x => n[2] \in Nat /\ n[2] <= k

(* The compiler resolves every reference of the code to a variable of the  *)
(* flattened interface, and summaries are made over those variables.       *)
ArgumentsOf(t) == {t.args[i] : i \in DOMAIN t.args}

IsTerm(t) ==
  \/ t = [op |-> t.op, args |-> t.args]
  \/ t = [op |-> t.op, guard |-> t.guard, args |-> t.args]

References(v) ==
  (IF v.op = "assign" THEN {v.var} \cup ArgumentsOf(v.rhs) ELSE {})
    \cup (IF v.op = "havoc" THEN {v.var} ELSE {})
    \cup (IF v.op = "if" THEN ArgumentsOf(v.cond) ELSE {})

ReferencesResolve(p) ==
  /\ \A s \in DOMAIN p.scopes : \A l \in DOMAIN CfgOf(p, s).vertices :
       \A ref \in References(CfgOf(p, s).vertices[l]) :
         Flatten(s, ref) \in FlattenedInterface(p)
  /\ \A f \in DOMAIN p.summaries : \A i \in DOMAIN p.summaries[f] :
       LET s == p.summaries[f][i]
           terms == {s.assumptions[j][1] : j \in DOMAIN s.assumptions}
                      \cup {s.hard[j].term : j \in DOMAIN s.hard}
       IN  /\ WrittenVariables(s) \subseteq FlattenedInterface(p)
           /\ \A t \in terms :
                IsTerm(t) /\ \A n \in ArgumentsOf(t) : n[1] \in FlattenedInterface(p)

(* What the summary's constraints give its written names, when Read gives  *)
(* the worlds of the names it only reads.                                  *)
HardWorlds(all, s, Read(_)) ==
  LET Written(i, n) == {j \in 1 .. i - 1 : s.hard[j].name = n}
      worlds[i \in 0 .. Len(s.hard)] ==
        IF i = 0 THEN {}
        ELSE Meaning(all, s.hard[i].term.op,
               [k \in DOMAIN s.hard[i].term.args |->
                  LET n == s.hard[i].term.args[k]
                  IN  IF Written(i, n) = {} THEN Read(n)
                      ELSE worlds[CHOOSE j \in Written(i, n) : TRUE]])
  IN  [n \in WrittenNames(s) |->
         worlds[CHOOSE i \in DOMAIN s.hard : s.hard[i].name = n]]

(* The start environments of graph g: the variables that are true at entry.*)
Environments(g) == SUBSET g.vars

(* What summary s makes of the start environments of graph h.              *)
Effect(h, s) ==
  LET Read(n) == {env \in Environments(h) : n[1][2] \in env}
      hard == HardWorlds(Environments(h), s, Read)
      Value(n) == IF n \in WrittenNames(s) THEN hard[n] ELSE Read(n)
      Holds(lit) == Meaning(Environments(h), lit[1].op,
                            [i \in DOMAIN lit[1].args |-> Value(lit[1].args[i])])
  IN  [applies |-> {env \in Environments(h) : \A i \in DOMAIN s.assumptions :
                      (env \in Holds(s.assumptions[i])) = s.assumptions[i][2]},
       final |-> [x \in WrittenVariables(s) |-> hard[<<x, HighestVersion(s, x)>>]]]

(* Summarizer::isSummaryApplicableViaEvaluation.  The model it evaluates   *)
(* in knows the current values of the variables of the called instance;    *)
(* model completion makes every other name of the summary false.           *)
IsSummaryApplicable(p, c, s) ==
  LET Read(n) == IF n[1][1] = Scope(c) THEN CurrentValue(c, n[1]).worlds ELSE {}
      hard == HardWorlds(Worlds(p), s, Read)
      Value(n) == IF n \in WrittenNames(s) THEN hard[n] ELSE Read(n)
      Holds(lit, w) ==
        (w \in Meaning(Worlds(p), lit[1].op, [i \in DOMAIN lit[1].args |->
                                                Value(lit[1].args[i])])) = lit[2]
  IN  \E w \in PathWorlds(p, c) :
        \A i \in DOMAIN s.assumptions : Holds(s.assumptions[i], w)

(* The summaries of the function block that context c has just entered.    *)
SummariesAt(p, c) ==
  LET f == p.scopes[Scope(c)] IN IF f \in DOMAIN p.summaries THEN p.summaries[f] ELSE <<>>

(* Mutant: only the first applicable summary is returned.                  *)
FindFirstApplicableSummary(p, c) ==
  LET all == {i \in DOMAIN SummariesAt(p, c) :
                IsSummaryApplicable(p, c, SummariesAt(p, c)[i])}
  IN  {i \in all : \A j \in all : i <= j}

(* Summarizer::findApplicableSummary: the positions of the summaries found.*)
FindApplicableSummaries(p, c) ==
  {i \in DOMAIN SummariesAt(p, c) : IsSummaryApplicable(p, c, SummariesAt(p, c)[i])}

(* Mutant: names that are only read keep the version of the summary.       *)
ReversionWrittenOnly(version, c, s, n) ==
  IF n \in WrittenNames(s) THEN <<n[1], n[2] + version[n[1]] + 1, c.cycle>>
                           ELSE <<n[1], n[2], c.cycle>>

(* Executor::applySummary: written names move behind the global version,   *)
(* names that are only read take the context's current version.            *)
Reversion(version, c, s, n) ==
  IF n \in WrittenNames(s) THEN <<n[1], n[2] + version[n[1]] + 1, c.cycle>>
                           ELSE CurrentName(c, n[1])

ApplySummary(p, version, c, s) ==
  LET R(n) == Reversion(version, c, s, n)
      RTerm(t) == [t EXCEPT !.args = [i \in DOMAIN @ |-> R(@[i])]]
      names == {R(n) : n \in WrittenNames(s)}
      Read(n) == c.val[R(n)].worlds
      hard == HardWorlds(Worlds(p), s, Read)
      ConstraintOf(n) ==
        CHOOSE i \in DOMAIN s.hard : R(s.hard[i].name) = n
      New(n) == [term |-> RTerm(s.hard[ConstraintOf(n)].term),
                 worlds |-> hard[s.hard[ConstraintOf(n)].name]]
      assumptions == {<<RTerm(s.assumptions[i][1]), s.assumptions[i][2]>> :
                        i \in DOMAIN s.assumptions}
  IN  [c EXCEPT
         !.val = Emplace(@, names, [n \in names |-> New(n)]),
         !.pc = {cube \cup assumptions : cube \in @},
         !.ver = [x \in DOMAIN @ |->
                    IF x \in WrittenVariables(s)
                    THEN version[x] + 1 + HighestVersion(s, x) ELSE @[x]]]

-----------------------------------------------------------------------------
(* What every engine keeps of its contexts, for the invariants.            *)

RangeOf(s) == {s[i] : i \in DOMAIN s}

(* s is a finite sequence.                                                 *)
IsSeq(s) == s \in Seq(RangeOf(s))

MainFrame(p) == [scope |-> MainScope(p), ret |-> MainCfg(p).entry]

(* The call stack starts with the program and every frame is a call made in*)
(* the one below it.                                                       *)
StackOK(p, stack) ==
  /\ stack \in Seq([scope : DOMAIN p.scopes, ret : Nat])
  /\ stack # <<>>
  /\ stack[1] = MainFrame(p)
  /\ \A i \in DOMAIN stack :
       /\ Len(stack[i].scope) = i
       /\ i > 1 => stack[i].ret \in DOMAIN CfgOf(p, stack[i - 1].scope).vertices

(* The context is at a vertex of its topmost frame.                        *)
AtVertex(p, c) == c.label \in DOMAIN CfgOf(p, Scope(c)).vertices

(* A name is a variable with a version and a cycle; in the cycle of the    *)
(* context its version is one that the executor has given out.             *)
NameOK(p, versions, k, n) ==
  /\ n \in FlattenedInterface(p) \X Nat \X Nat
  /\ n[3] <= k
  /\ n[3] = k => n[2] <= versions[n[1]]
==========================================================================
