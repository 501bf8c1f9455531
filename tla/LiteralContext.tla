------------------------- MODULE LiteralContext --------------------------
(***************************************************************************)
(* Contexts that encode a program as implications from assumption literals,*)
(* as the bounded model checker (se/cbmc) and the reuse engine (se/reuse)  *)
(* build them.  Nothing is executed: every vertex that a context passes has*)
(* a Boolean literal, and the solver is asked whether a literal can be true*)
(* together with everything it implies.                                    *)
(*                                                                         *)
(* The literal b_<scope>_<label>__<cycle> is <<scope, label, cycle>>.  A   *)
(* context is a record                                                     *)
(*   cycle, label, stack, ver   as in SymbolicContext                      *)
(*   lit          State::_assumption_literal, the literal of label         *)
(*   preceding    State::_assumption_literals: literal -> the alternatives *)
(*                that it implies one of, each a set of literals (a        *)
(*                conjunction; the empty one is the constant true)         *)
(*   assumptions  State::_assumptions: literal -> set of <<term, sign>>    *)
(*   hard         State::_hard_constraints: literal -> name -> term, each  *)
(*                an equation that the literal implies                     *)
(*                                                                         *)
(* The term Free(k) is a constant that stands for itself: an input or a    *)
(* nondeterministic value, true in the worlds that contain k.              *)
(***************************************************************************)
EXTENDS SymbolicContext, TLC

Free(k) == [op |-> "free", args |-> <<>>, key |-> k]

LiteralOf(c, label) == <<Scope(c), label, c.cycle>>

(* Adds v to the set that f keeps for k.                                   *)
Add(f, k, v) ==
  [l \in DOMAIN f \cup {k} |-> (IF l \in DOMAIN f THEN f[l] ELSE {})
                                 \cup (IF l = k THEN {v} ELSE {})]

(* State::pushAssumptionLiteral with the literal of label, implied by the  *)
(* alternative, and State::setAssumptionLiteral.                           *)
Reach(c, label, alternative) ==
  [c EXCEPT !.label = label,
            !.preceding = Add(@, LiteralOf(c, label), alternative),
            !.lit = LiteralOf(c, label)]

(* The common case: the vertex before it.                                  *)
MoveTo(c, label) == Reach(c, label, {c.lit})

(* State::pushHardConstraint: a name keeps the term it has.                *)
PushHardConstraint(hard, lit, name, term) ==
  LET there == IF lit \in DOMAIN hard THEN hard[lit] ELSE <<>>
      new == Emplace(there, {name}, [n \in {name} |-> term])
  IN  [l \in DOMAIN hard \cup {lit} |-> IF l = lit THEN new ELSE hard[l]]

(* Mutant: the constraint is pushed to the literal of the next vertex.     *)
WriteBehind(version, c, x, term, label) ==
  LET name == <<x, version[x] + 1, c.cycle>>
  IN  MoveTo([c EXCEPT !.hard = PushHardConstraint(@, LiteralOf(c, label), name, term),
                       !.ver[x] = version[x] + 1], label)

(* The next version of x equals term in the current literal; the context   *)
(* goes on at label.                                                       *)
Write(version, c, x, term, label) ==
  LET name == <<x, version[x] + 1, c.cycle>>
  IN  MoveTo([c EXCEPT !.hard = PushHardConstraint(@, c.lit, name, term),
                       !.ver[x] = version[x] + 1], label)

(* A branch: the condition is an assumption of the literal it leads to.    *)
Branch(c, label, condition) ==
  [MoveTo(c, label) EXCEPT !.assumptions = Add(@, LiteralOf(c, label), condition)]

-----------------------------------------------------------------------------
(* The solver.                                                             *)

(* The smallest sets of literals that contain goal and give each of their  *)
(* literals one of its alternatives.                                       *)
Supports(preceding, goal) ==
  LET Open(B) == {l \in B : ~\E A \in preceding[l] : A \subseteq B}
      Grow(B) == IF Open(B) = {} THEN {B}
                 ELSE {B \cup A : A \in preceding[CHOOSE l \in Open(B) : TRUE]}
      grown[i \in 0 .. Cardinality(DOMAIN preceding)] ==
        IF i = 0 THEN {{goal}} ELSE UNION {Grow(B) : B \in grown[i - 1]}
  IN  grown[Cardinality(DOMAIN preceding)]

NamesOf(hard) == DOMAIN hard \cup
  UNION {{hard[n].args[i] : i \in DOMAIN hard[n].args} : n \in DOMAIN hard}

(* The worlds in which the term holds, given those of the names.           *)
Worth(all, value, t) ==
  IF t.op = "free" THEN {w \in all : t.key \in w}
  ELSE Meaning(all, t.op, [i \in DOMAIN t.args |-> value[t.args[i]]])

(* The worlds among all in which every literal of B can be true, and the   *)
(* worlds in which each name is true then.  start gives the terms of the   *)
(* names <<x, 0, 0>>; any other name that no constraint of B defines may   *)
(* have any value, the same in all worlds of one solution.                 *)
SolutionsIn(start, all, c, B) ==
  LET tables == {c.hard[l] : l \in B \cap DOMAIN c.hard}
      conditions == UNION {c.assumptions[l] : l \in B \cap DOMAIN c.assumptions}
      initial == {<<x, 0, 0>> : x \in DOMAIN start}
      names == initial \cup {CurrentName(c, x) : x \in DOMAIN c.ver}
                 \cup (UNION {NamesOf(t) : t \in tables})
                 \cup (UNION {{k[1].args[i] : i \in DOMAIN k[1].args} : k \in conditions})
      open == {n \in names \ initial : \A t \in tables : n \notin DOMAIN t}
      Value(free) ==
        LET Term(n) == IF n \in initial THEN start[n[1]]
                       ELSE (CHOOSE t \in tables : n \in DOMAIN t)[n]
            value[n \in names] ==
              IF n \in open THEN (IF n \in free THEN all ELSE {})
              ELSE Worth(all, value, Term(n))
        IN  value @@ <<>>
      (* What the constraints equate.                                      *)
      Sides(value) ==
        UNION {{<<value[n], Worth(all, value, t[n])>> : n \in DOMAIN t} : t \in tables}
          \cup {<<Worth(all, value, k[1]), IF k[2] THEN all ELSE {}>> : k \in conditions}
      Solution(value) ==
        LET sides == Sides(value)
        IN  [value |-> value,
             worlds |-> {w \in all : \A side \in sides : (w \in side[1]) = (w \in side[2])}]
  IN  {Solution(v) : v \in {Value(free) : free \in SUBSET open}}

(* Every solution in which the literal goal is true.                       *)
Solutions(start, all, c, goal) ==
  UNION {SolutionsIn(start, all, c, B) : B \in Supports(c.preceding, goal)}

(* The worlds that the solver finds for the literal goal of c.             *)
Models(start, all, c, goal) == UNION {s.worlds : s \in Solutions(start, all, c, goal)}

(* Solver::checkUnderAssumptions for the branch that leads to label: its   *)
(* literal implies the current one and the condition, and what it implies  *)
(* already.                                                                *)
BranchModels(start, all, c, label, condition) ==
  LET goal == LiteralOf(c, label)
      known == IF goal \in DOMAIN c.preceding THEN c.preceding[goal] ELSE {{}}
      preceding == [l \in DOMAIN c.preceding \cup {goal} |->
                      IF l = goal THEN {A \cup {c.lit} : A \in known} ELSE c.preceding[l]]
  IN  Models(start, all, [Branch(c, label, condition) EXCEPT !.preceding = preceding], goal)

-----------------------------------------------------------------------------
(* Merger::merge(context_1, context_2) and mergeVariable.                  *)

(* The merged name equals the name of each context in the literals before  *)
(* that context's; where one literal precedes both, the first context wins.*)
MergedInstances(version, c1, c2) ==
  LET Before(c) == UNION c.preceding[c.lit]
      Instances(c, literals) ==
        {[lit |-> l, name |-> <<x, version[x] + 1, c1.cycle>>, from |-> CurrentName(c, x)] :
           x \in VersionsDiffer(c1, c2), l \in literals}
  IN  Instances(c1, Before(c1)) \cup Instances(c2, Before(c2) \ Before(c1))

MergeLiterals(version, c1, c2) ==
  LET diff == VersionsDiffer(c1, c2)
      Union(f, g) == [l \in DOMAIN f \cup DOMAIN g |->
                        (IF l \in DOMAIN f THEN f[l] ELSE {})
                          \cup (IF l \in DOMAIN g THEN g[l] ELSE {})]
      both == Emplace(c1.hard, DOMAIN c2.hard, c2.hard)
      instances == MergedInstances(version, c1, c2)
      Of(l) == {i \in instances : i.lit = l}
      Names(l) == {i.name : i \in Of(l)}
      Definitions(l) == [n \in Names(l) |->
                           [op |-> "id", args |-> <<(CHOOSE i \in Of(l) : i.name = n).from>>]]
  IN  [c1 EXCEPT
         !.preceding = Union(@, c2.preceding),
         !.assumptions = Union(@, c2.assumptions),
         !.hard = [l \in DOMAIN both \cup {i.lit : i \in instances} |->
                     Emplace(IF l \in DOMAIN both THEN both[l] ELSE <<>>,
                             Names(l), Definitions(l))],
         !.ver = [x \in DOMAIN @ |-> IF x \in diff THEN version[x] + 1 ELSE @[x]]]

(* What the next merge adds to the versions that the executor hands out.   *)
MergedVersions(version, c1, c2) ==
  [x \in DOMAIN version |-> IF x \in VersionsDiffer(c1, c2) THEN version[x] + 1 ELSE version[x]]

-----------------------------------------------------------------------------
(* The loop in which the engines of se/cbmc and se/reuse encode a program: *)
(* contexts are popped and moved on, and wait at a merge point until there *)
(* is nothing else to move.                                                *)

CONSTANTS
  Programs,              \* identifiers of the programs to encode
  Code                   \* the control-flow graphs of each of them

VARIABLES
  prog,                  \* the program given to Engine::run
  phase,                 \* where Engine::run is
  explorer,              \* Explorer::_contexts
  merger,                \* Merger::_merge_point_to_contexts
  version,               \* the versions handed out so far
  held                   \* the contexts that Merger::merge has taken out

loopVars == <<prog, phase, explorer, merger, version, held>>

P == Code[prog]

MergePoint(c) == <<Scope(c), Depth(c), c.label, ReturnLabel(c)>>

MergerIsEmpty == \A m \in DOMAIN merger : merger[m] = <<>>

(* Merger::merge: the deepest merge point, of those the one with the lowest*)
(* return label, of those the one with the lowest label.                   *)
Eligible(m) ==
  /\ merger[m] # <<>>
  /\ \A k \in DOMAIN merger :
       merger[k] # <<>> =>
         \/ m[2] > k[2]
         \/ m[2] = k[2] /\ m[4] < k[4]
         \/ m[2] = k[2] /\ m[4] = k[4] /\ m[3] <= k[3]

NoMerges == [m \in MergePoints(P) |-> <<>>]

(* Merger::merge takes the contexts of a merge point.                      *)
TakeMergePoint ==
  /\ phase = "step"
  /\ explorer = {}
  /\ \E m \in DOMAIN merger :
       /\ Eligible(m)
       /\ held' = merger[m]
       /\ merger' = [merger EXCEPT ![m] = <<>>]
  /\ phase' = "merge"
  /\ UNCHANGED <<prog, explorer, version>>

(* Mutant: a merge does not use up versions.                               *)
MergeFirstTwoLocally ==
  /\ held' = <<MergeLiterals(version, held[1], held[2])>> \o SubSeq(held, 3, Len(held))
  /\ UNCHANGED <<prog, phase, explorer, merger, version>>

(* It merges the first two of them.                                        *)
MergeFirstTwo ==
  /\ held' = <<MergeLiterals(version, held[1], held[2])>> \o SubSeq(held, 3, Len(held))
  /\ version' = MergedVersions(version, held[1], held[2])
  /\ UNCHANGED <<prog, phase, explorer, merger>>

(* The merged context is back in the explorer.                             *)
ReleaseMerged ==
  /\ phase = "merge"
  /\ Len(held) = 1
  /\ explorer' = {held[1]}
  /\ held' = <<>>
  /\ phase' = "step"
  /\ UNCHANGED <<prog, merger, version>>

Graph(c) == CfgOf(P, Scope(c))

Vertex(c) == Graph(c).vertices[c.label]

(* The end of the loop body of Engine::step: the contexts that the executor*)
(* has made of c wait at their merge points or go on.                      *)
Replace(c, contexts) ==
  /\ explorer' = (explorer \ {c}) \cup
                   {d \in RangeOf(contexts) : MergePoint(d) \notin DOMAIN merger}
  /\ merger' = [m \in DOMAIN merger |->
                  merger[m] \o SelectSeq(contexts, LAMBDA d : MergePoint(d) = m)]
  /\ UNCHANGED <<prog, phase, held>>

(* Every context that the engine still holds.                              *)
Live ==
  explorer \cup RangeOf(held) \cup UNION {RangeOf(merger[m]) : m \in DOMAIN merger}
=============================================================================
